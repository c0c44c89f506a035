------------------------ MODULE CustomTopologyProofs ------------------------
(***************************************************************************)
(* Proofs about the deploy-custom-topology changeset, for every value of   *)
(* the constants:                                                          *)
(*   - refs, targets and proposals name contracts that are on their chain; *)
(*   - what a run records is whole chains, with their roles wired;         *)
(*   - a successful run proposes to accept what it transferred, and no     *)
(*     proposal accepts a contract for a timelock it was not moved to.     *)
(* The claims of the invariant are operators of the contracts K of the     *)
(* chains and the set X of the MCMs whose config was replaced.             *)
(***************************************************************************)
EXTENDS CustomTopology, ProofLemmas, FiniteSetTheorems, SequenceTheorems

----------------------------------------------------------------------------
(* Contracts *)

IsContract(k) ==
    /\ k = [kind |-> k.kind, cfg |-> k.cfg, roles |-> k.roles, owner |-> k.owner,
            pending |-> k.pending]
    /\ DOMAIN k.roles = Roles
    /\ k.owner # Deployer => k.pending = Nobody

\* Addresses are 1 to the number of contracts; only what the deployer owns is
\* about to change its owner.
Whole(K) ==
    /\ DOMAIN K = Chains
    /\ \A c \in Chains : IsList(K[c]) /\ \A a \in DOMAIN K[c] : IsContract(K[c][a])

\* The MCM has the config, or got another one in its place.
HasConfig(K, X, c, a, s) == K[c][a].cfg = s \/ <<c, a>> \in X

\* From one state to the next, contracts keep their kind, their role members and
\* an owner that is a contract; a config that is replaced is marked.
Grown(K, X, L, Y) ==
    /\ X \subseteq Y
    /\ \A c \in Chains : \A a \in DOMAIN K[c] :
          /\ a \in DOMAIN L[c] /\ L[c][a].kind = K[c][a].kind
          /\ \A r \in Roles : K[c][a].roles[r] \subseteq L[c][a].roles[r]
          /\ L[c][a].cfg = K[c][a].cfg \/ K[c][a].cfg = NoConfig \/ <<c, a>> \in Y
          /\ K[c][a].owner \in Nat => L[c][a].owner = K[c][a].owner

\* Contract a of chain c is timelock t's, or about to be.
Going(K, c, a, t) == t \in {K[c][a].pending, K[c][a].owner}

\* On chain c no contract is turned away from the timelock it goes to.
Steady(K, L, c) ==
    \A a \in DOMAIN K[c] : \A t \in Nat : Going(K, c, a, t) => Going(L, c, a, t)

----------------------------------------------------------------------------
(* What the refs of a chain say *)

\* The refs name contracts of their chain and type.
Named(K, r) ==
    \A k \in DOMAIN r : k[1] \in Chains /\ r[k] \in DOMAIN K[k[1]] /\ K[k[1]][r[k]].kind = k[2]

\* A topology whose specs are filed under refs of their own (OwnRefs).
Apart(t) ==
    /\ \A m, n \in elems(t.mcms) : m.t = n.t /\ m.q = n.q => m = n
    /\ \A u, v \in elems(t.tls) : u.q = v.q => u = v

\* The addresses of the holders of a topology, as the sequence knows them (A is
\* refToAddr) and as the refs r of chain c say.
AllHolders(t) == UNION {Holders(tl) : tl \in elems(t.tls)}
ByMap(A, t) == [h \in AllHolders(t) |-> IF h[1] = "ref" THEN A[h[2]] ELSE h[2]]
SpecOf(t, ref) == CHOOSE m \in {s \in elems(t.mcms) : s.ref = ref} : TRUE
ByRefs(r, c, t) ==
    [h \in AllHolders(t) |->
       IF h[1] = "addr" THEN h[2] ELSE r[<<c, SpecOf(t, h[2]).t, SpecOf(t, h[2]).q>>]]
Take(V, tl) == {V[h] : h \in elems(tl.take)}

Filed(r, c, t) ==
    /\ \A m \in elems(t.mcms) : <<c, m.t, m.q>> \in DOMAIN r
    /\ \A tl \in elems(t.tls) : <<c, "Timelock", tl.q>> \in DOMAIN r

McmOK(K, X, c, a, m) ==
    a \in DOMAIN K[c] /\ K[c][a].kind = m.t /\ HasConfig(K, X, c, a, m.cfg)

\* The timelock at a has the roles of spec tl, with the holders at V.
WiredOK(K, r, c, V, tl, a) ==
    /\ a \in DOMAIN K[c] /\ K[c][a].kind = "Timelock"
    /\ \A n \in Roles : \A h \in elems(tl.roles[n]) : V[h] \in K[c][a].roles[n]
    /\ a \in K[c][a].roles["ADMIN"]
    /\ tl.proxy => /\ <<c, "CallProxy", tl.q>> \in DOMAIN r
                   /\ r[<<c, "CallProxy", tl.q>>] \in K[c][a].roles["EXECUTOR"]

\* The timelock at a owns the targets T, or batches B accept them for it.
Accepted(K, c, a, B, T) ==
    \A x \in T : \/ x \in DOMAIN K[c] /\ K[c][x].owner = a
                 \/ \E b \in B : b.ch = c /\ b.tl = a /\ x \in b.to

TlOK(K, r, B, c, V, tl) ==
    LET a == r[<<c, "Timelock", tl.q>>]
    IN  WiredOK(K, r, c, V, tl, a) /\ Accepted(K, c, a, B, Take(V, tl))

\* Whatever batch b accepts is a target of one of the timelocks H at its address.
BatchFrom(r, c, V, H, b) ==
    \A x \in b.to : \E tl \in H : b.tl = r[<<c, "Timelock", tl.q>>] /\ x \in Take(V, tl)

\* Its targets go to its timelock, unless they are marked or two timelocks take them.
Contested(V, t, x) ==
    \E u, v \in elems(t.tls) : u # v /\ x \in Take(V, u) /\ x \in Take(V, v)
Settled(K, U, c, V, t, b) ==
    \A x \in b.to : Going(K, c, x, b.tl) \/ <<c, x>> \in U \/ Contested(V, t, x)

\* What is said of the refs r and batches B of a finished chain.
ChainOK(K, X, r, B, c, t) ==
    /\ Filed(r, c, t)
    /\ \A b \in B : b.ch = c => b.to \subseteq DOMAIN K[c]
    /\ Apart(t) =>
         /\ \A m \in elems(t.mcms) : McmOK(K, X, c, r[<<c, m.t, m.q>>], m)
         /\ \A tl \in elems(t.tls) : TlOK(K, r, B, c, ByRefs(r, c, t), tl)
         /\ \A b \in B : b.ch = c => BatchFrom(r, c, ByRefs(r, c, t), elems(t.tls), b)

\* The output of the sequence of chain c.
OutputOK(K, X, o, c, t) ==
    /\ Named(K, o.refs) /\ \A k \in DOMAIN o.refs : k[1] = c
    /\ \A b \in o.batches : b.ch = c
    /\ ChainOK(K, X, o.refs, o.batches, c, t)

----------------------------------------------------------------------------
(* Reports *)

KindOf(k) ==
    CASE k.key[2] = "mcm"      -> k.in.t
      [] k.key[2] = "timelock" -> "Timelock"
      [] OTHER                 -> "CallProxy"
DeployReportOK(K, r) ==
    /\ r.k.key[1] \in Chains /\ r.out \in DOMAIN K[r.k.key[1]]
    /\ K[r.k.key[1]][r.out].kind = KindOf(r.k)
ConfigReportOK(K, X, r) ==
    /\ r.k.ch \in Chains /\ r.k.a \in DOMAIN K[r.k.ch] /\ r.k.cfg # NoConfig
    /\ HasConfig(K, X, r.k.ch, r.k.a, r.k.cfg)
GrantReportOK(K, r) ==
    /\ r.k.ch \in Chains /\ r.k.tl \in DOMAIN K[r.k.ch] /\ r.k.role \in 1..5
    /\ r.k.a \in K[r.k.ch][r.k.tl].roles[RoleOrder[r.k.role]]
ChainReportOK(K, X, r) ==
    /\ r.k.ch \in Chains /\ OutputOK(K, X, r.out, r.k.ch, r.k.cfg)
    /\ \A m \in elems(r.k.cfg.mcms) : m.cfg # NoConfig

\* A report of the bundle is true of the chain it was made on.
ReportsOK(K, X, R) ==
    /\ DOMAIN R = {"chain", "deploy", "config", "grant", "transfer"}
    /\ \A r \in R["deploy"] : DeployReportOK(K, r)
    /\ \A r \in R["config"] : ConfigReportOK(K, X, r)
    /\ \A r \in R["grant"] : GrantReportOK(K, r)
    /\ \A r \in R["chain"] : ChainReportOK(K, X, r)

----------------------------------------------------------------------------
(* The run *)

Busy == {"deploy", "config", "proxy", "grant", "accept"}
Wiring == {"proxy", "grant", "accept"}

\* Refs of specs tell them apart, and every holder is an address or a declared ref.
NoRepeats(s) == \A i, j \in DOMAIN s : s[i] = s[j] => i = j
Valid(t) ==
    /\ IsList(t.mcms) /\ IsList(t.tls) /\ NoRepeats(t.mcms) /\ NoRepeats(t.tls)
    /\ \A m, n \in elems(t.mcms) : m.ref = n.ref => m = n
    /\ \A m \in elems(t.mcms) : m.t \notin {"Timelock", "CallProxy"} /\ m.cfg # NoConfig
    /\ \A m \in elems(t.mcms) : \A tl \in elems(t.tls) : m.ref # tl.ref
    /\ \A h \in AllHolders(t) :
          \/ h[1] = "addr"
          \/ h[1] = "ref" /\ \E m \in elems(t.mcms) : m.ref = h[2]

RunOK ==
    /\ pc \in {"idle", "chain"} \cup Busy
    /\ fails \in 0..MaxFails
    /\ pc = "idle" => req = NoInput /\ todo = {} /\ agg = NoOutput
    /\ pc # "idle" => req \in Inputs /\ validateConfig(req) /\ todo \subseteq DOMAIN req.by
    /\ pc \in {"idle", "chain"} => refToAddr = <<>> /\ out = NoOutput
    /\ pc \in Busy => todo # {}

\* The datastore d, the proposals P and the targets U left alone name contracts
\* that are there.
PlacesOK(K, d, P, U) ==
    /\ Named(K, d)
    /\ \A p \in P : p.ch \in Chains /\ p.to \subseteq DOMAIN K[p.ch] /\ p.tl \in DOMAIN K[p.ch]
    /\ \A x \in U : x[1] \in Chains /\ x[2] \in DOMAIN K[x[1]] /\ x = <<x[1], x[2]>>

\* What is said of the output g for a finished chain, and for all of them.
DoneOK(K, X, U, g, c, t) ==
    /\ ChainOK(K, X, g.refs, g.batches, c, t)
    /\ Apart(t) => \A b \in g.batches : b.ch = c => Settled(K, U, c, ByRefs(g.refs, c, t), t, b)
FinishedOK(K, X, U, g, C, by) ==
    /\ Named(K, g.refs)
    /\ \A k \in DOMAIN g.refs : k[1] \in C
    /\ \A b \in g.batches : b.ch \in C
    /\ \A c \in C : DoneOK(K, X, U, g, c, by[c])
AggOK == pc # "idle" => FinishedOK(code, reset, unmoved, agg, Finished, req.by)

----------------------------------------------------------------------------
(* The chain in progress: refToAddr is A, the refs so far are r, the holders'  *)
(* addresses W                                                                *)

McmDone(K, X, A, r, c, t, m) ==
    /\ m.ref \in DOMAIN A /\ McmOK(K, X, c, A[m.ref], m)
    /\ <<c, m.t, m.q>> \in DOMAIN r
    /\ Apart(t) => r[<<c, m.t, m.q>>] = A[m.ref]
TimelockDone(K, r, B, c, t, W, tl) ==
    /\ <<c, "Timelock", tl.q>> \in DOMAIN r
    /\ Apart(t) => TlOK(K, r, B, c, W, tl)
BatchOK(K, U, r, c, t, W, H, b) ==
    /\ b.ch = c /\ b.to \subseteq DOMAIN K[c]
    /\ Apart(t) => BatchFrom(r, c, W, H, b) /\ Settled(K, U, c, W, t, b)

V == ByMap(refToAddr, cfg)
McmsBehind == elems(cfg.mcms) \ elems(ms)
TimelocksBehind == elems(cfg.tls) \ elems(ts)
Handled == TimelocksBehind \cup (IF pc \in Wiring THEN {Timelock} ELSE {})

QueueOK ==
    /\ IsList(ms) /\ IsList(ts) /\ NoRepeats(ts) /\ DOMAIN out = {"refs", "first", "batches"}
    /\ elems(ms) \subseteq elems(cfg.mcms) /\ elems(ts) \subseteq elems(cfg.tls)
    /\ ms # <<>> => ts = cfg.tls /\ out.batches = {}
\* The addresses of the run are of contracts on its chain.
AddressesOK ==
    /\ \A x \in DOMAIN refToAddr : refToAddr[x] \in DOMAIN code[ch]
    /\ Named(code, out.refs) /\ \A k \in DOMAIN out.refs : k[1] = ch
BehindOK ==
    /\ \A m \in McmsBehind : McmDone(code, reset, refToAddr, out.refs, ch, cfg, m)
    /\ \A tl \in TimelocksBehind : TimelockDone(code, out.refs, out.batches, ch, cfg, V, tl)
    /\ \A b \in out.batches : BatchOK(code, unmoved, out.refs, ch, cfg, V, Handled, b)

\* The MCM that waits for its config, and the timelock in progress: what it has of
\* a role or is about to be granted, what it has taken or is about to take.
ConfigNext(K, A, c, m) == m.ref \in DOMAIN A /\ K[c][A[m.ref]].kind = m.t
TimelockHere(K, A, r, c, tl) ==
    /\ tl.ref \in DOMAIN A /\ K[c][A[tl.ref]].kind = "Timelock"
    /\ <<c, "Timelock", tl.q>> \in DOMAIN r /\ r[<<c, "Timelock", tl.q>>] = A[tl.ref]
GrantsOK(K, r, c, W, tl, a, g) ==
    /\ DOMAIN g = 1..5
    /\ \A n \in 1..5 : \A h \in elems(tl.roles[RoleOrder[n]]) :
          W[h] \in K[c][a].roles[RoleOrder[n]] \cup g[n]
    /\ a \in K[c][a].roles["ADMIN"] \cup g[5]
    /\ tl.proxy => /\ <<c, "CallProxy", tl.q>> \in DOMAIN r
                   /\ r[<<c, "CallProxy", tl.q>>] \in K[c][a].roles["EXECUTOR"] \cup g[4]
TakesOK(K, B, c, W, tl, a, T) ==
    T \subseteq Take(W, tl) /\ Accepted(K, c, a, B, Take(W, tl) \ T)
AcceptNext(K, U, c, x, a) ==
    x \in DOMAIN K[c] /\ (Going(K, c, x, a) \/ <<c, x>> \in U)

AheadOK ==
    /\ pc = "config" => ms # <<>> /\ ConfigNext(code, refToAddr, ch, MCM)
    /\ pc \in Wiring => ms = <<>> /\ ts # <<>> /\ TimelockHere(code, refToAddr, out.refs, ch, Timelock)
    /\ pc \in {"grant", "accept"} =>
          /\ GrantsOK(code, out.refs, ch, V, Timelock, tlAddr, grants)
          /\ TakesOK(code, out.batches, ch, V, Timelock, tlAddr, takes)
    /\ pc = "accept" => takes # {} /\ AcceptNext(code, unmoved, ch, Target, tlAddr)

SequenceOK == pc \in Busy => QueueOK /\ AddressesOK /\ BehindOK /\ AheadOK

IInv ==
    /\ Whole(code) /\ RunOK /\ PlacesOK(code, ds, proposals, unmoved)
    /\ ReportsOK(code, reset, reports) /\ AggOK /\ SequenceOK

----------------------------------------------------------------------------
(* Claims stay true as contracts grow *)

\* Addresses are numbers.
LEMMA AddressesAreNumbers ==
    ASSUME NEW K, Whole(K), NEW c \in Chains
    PROVE  DOMAIN K[c] \subseteq Nat /\ Len(K[c]) \in Nat /\ DOMAIN K[c] = 1..Len(K[c])
BY ListIds DEF Whole

\* The refs still name contracts of their type.
LEMMA NamedGrown ==
    ASSUME NEW K, NEW X, NEW L, NEW Y, Grown(K, X, L, Y), NEW r, Named(K, r)
    PROVE  Named(L, r)
BY DEF Grown, Named

\* A config is still there, or marked as replaced.
LEMMA ConfigGrown ==
    ASSUME NEW K, NEW X, NEW L, NEW Y, Grown(K, X, L, Y), NEW c \in Chains, NEW a \in DOMAIN K[c],
           NEW s, s # NoConfig, HasConfig(K, X, c, a, s)
    PROVE  HasConfig(L, Y, c, a, s)
BY DEF Grown, HasConfig

\* An MCM keeps its kind and its config.
LEMMA McmGrown ==
    ASSUME NEW K, NEW X, NEW L, NEW Y, Grown(K, X, L, Y), NEW c \in Chains, NEW a, NEW m,
           m.cfg # NoConfig, McmOK(K, X, c, a, m)
    PROVE  McmOK(L, Y, c, a, m)
<1>1. a \in DOMAIN K[c]
  BY DEF McmOK
<1>2. HasConfig(L, Y, c, a, m.cfg)
  BY <1>1, ConfigGrown DEF McmOK
<1>3. QED
  BY <1>1, <1>2 DEF McmOK, Grown

\* A timelock keeps its roles.
LEMMA WiredGrown ==
    ASSUME NEW K, NEW X, NEW L, NEW Y, Grown(K, X, L, Y), NEW c \in Chains,
           NEW r, NEW W, NEW tl, NEW a, WiredOK(K, r, c, W, tl, a)
    PROVE  WiredOK(L, r, c, W, tl, a)
<1>1. a \in DOMAIN K[c] /\ "ADMIN" \in Roles /\ "EXECUTOR" \in Roles
  BY DEF WiredOK, Roles
<1>2. /\ a \in DOMAIN L[c] /\ L[c][a].kind = K[c][a].kind
      /\ \A n \in Roles : K[c][a].roles[n] \subseteq L[c][a].roles[n]
  BY <1>1 DEF Grown
<1>3. QED
  BY <1>1, <1>2 DEF WiredOK

\* What a timelock owns or is to accept stays so.
LEMMA AcceptedGrown ==
    ASSUME NEW K, NEW X, NEW L, NEW Y, Grown(K, X, L, Y), NEW c \in Chains,
           NEW a \in Nat, NEW B, NEW T, Accepted(K, c, a, B, T)
    PROVE  Accepted(L, c, a, B, T)
BY DEF Accepted, Grown

\* A timelock stays wired and its targets accepted.
LEMMA TlGrown ==
    ASSUME NEW K, NEW X, NEW L, NEW Y, Grown(K, X, L, Y), Whole(K), NEW c \in Chains,
           NEW r, NEW B, NEW W, NEW tl, TlOK(K, r, B, c, W, tl)
    PROVE  TlOK(L, r, B, c, W, tl)
<1> DEFINE a == r[<<c, "Timelock", tl.q>>]
<1>1. WiredOK(K, r, c, W, tl, a) /\ Accepted(K, c, a, B, Take(W, tl))
  BY DEF TlOK
<1>2. a \in Nat
  BY <1>1, AddressesAreNumbers DEF WiredOK
<1> HIDE DEF a
<1>3. WiredOK(L, r, c, W, tl, a) /\ Accepted(L, c, a, B, Take(W, tl))
  BY <1>1, <1>2, WiredGrown, AcceptedGrown
<1>4. QED
  BY <1>3 DEF TlOK, a

\* What is said of a finished chain.
LEMMA ChainGrown ==
    ASSUME NEW K, NEW X, NEW L, NEW Y, Grown(K, X, L, Y), Whole(K), NEW c \in Chains,
           NEW r, NEW B, NEW t, \A m \in elems(t.mcms) : m.cfg # NoConfig,
           ChainOK(K, X, r, B, c, t)
    PROVE  ChainOK(L, Y, r, B, c, t)
<1>1. \A b \in B : b.ch = c => b.to \subseteq DOMAIN L[c]
  BY DEF ChainOK, Grown
<1>2. ASSUME Apart(t)
      PROVE  /\ \A m \in elems(t.mcms) : McmOK(L, Y, c, r[<<c, m.t, m.q>>], m)
             /\ \A tl \in elems(t.tls) : TlOK(L, r, B, c, ByRefs(r, c, t), tl)
  <2>1. \A m \in elems(t.mcms) : McmOK(K, X, c, r[<<c, m.t, m.q>>], m)
    BY <1>2 DEF ChainOK
  <2>2. \A tl \in elems(t.tls) : TlOK(K, r, B, c, ByRefs(r, c, t), tl)
    BY <1>2 DEF ChainOK
  <2>3. QED
    BY <2>1, <2>2, McmGrown, TlGrown
<1>3. QED
  BY <1>1, <1>2 DEF ChainOK

\* The specs of a report have a config each: it is of a topology that was verified.
LEMMA ReportsGrown ==
    ASSUME NEW K, NEW X, NEW L, NEW Y, Grown(K, X, L, Y), Whole(K), NEW R, ReportsOK(K, X, R)
    PROVE  ReportsOK(L, Y, R)
<1>1. ASSUME NEW r \in R["deploy"]
      PROVE  DeployReportOK(L, r)
  <2>1. DeployReportOK(K, r)
    BY DEF ReportsOK
  <2>2. QED
    BY <2>1 DEF DeployReportOK, Grown
<1>2. ASSUME NEW r \in R["config"]
      PROVE  ConfigReportOK(L, Y, r)
  <2>1. ConfigReportOK(K, X, r)
    BY DEF ReportsOK
  <2>2. /\ r.k.ch \in Chains /\ r.k.a \in DOMAIN K[r.k.ch] /\ r.k.cfg # NoConfig
        /\ HasConfig(K, X, r.k.ch, r.k.a, r.k.cfg)
    BY <2>1 DEF ConfigReportOK
  <2>3. HasConfig(L, Y, r.k.ch, r.k.a, r.k.cfg)
    BY <2>2, ConfigGrown
  <2>4. r.k.a \in DOMAIN L[r.k.ch]
    BY <2>2 DEF Grown
  <2>5. QED
    BY <2>2, <2>3, <2>4 DEF ConfigReportOK
<1>3. ASSUME NEW r \in R["grant"]
      PROVE  GrantReportOK(L, r)
  <2>1. GrantReportOK(K, r)
    BY DEF ReportsOK
  <2>2. RoleOrder[r.k.role] \in Roles
    BY <2>1 DEF GrantReportOK, RoleOrder, Roles
  <2>3. QED
    BY <2>1, <2>2 DEF GrantReportOK, Grown
<1>4. ASSUME NEW r \in R["chain"]
      PROVE  ChainReportOK(L, Y, r)
  <2>1. ChainReportOK(K, X, r)
    BY DEF ReportsOK
  <2>2. QED
    BY <2>1, NamedGrown, ChainGrown DEF ChainReportOK, OutputOK
<1>5. QED
  BY <1>1, <1>2, <1>3, <1>4 DEF ReportsOK

----------------------------------------------------------------------------
(* What the transactions do to the contracts *)

\* A contract of the four kinds that are deployed, and the tokens there before.
LEMMA NewIsContract ==
    ASSUME NEW kind, NEW roles, DOMAIN roles = Roles, NEW owner
    PROVE  IsContract(NewContract(kind, roles, owner)) /\ NewContract(kind, roles, owner).kind = kind
           /\ NewContract(kind, roles, owner).roles = roles
BY DEF IsContract, NewContract

\* A deployment appends a contract.
Appended(K, c, x) == [K EXCEPT ![c] = Append(@, x)]
LastIs(K, L, c, x) == Len(K[c]) + 1 \in DOMAIN L[c] /\ L[c][Len(K[c]) + 1] = x

\* A deployment appends a contract; those before it are as they were.
LEMMA AppendGrown ==
    ASSUME NEW K, Whole(K), NEW X, NEW c \in Chains, NEW x, IsContract(x),
           NEW L, L = Appended(K, c, x)
    PROVE  /\ Whole(L) /\ Grown(K, X, L, X) /\ (\A d \in Chains : Steady(K, L, d))
           /\ LastIs(K, L, c, x)
<1>1. DOMAIN L = Chains /\ L[c] = Append(K[c], x) /\ \A d \in Chains \ {c} : L[d] = K[d]
  BY DEF Whole, Appended
<1>2. /\ IsList(L[c]) /\ DOMAIN L[c] = 1..(Len(K[c]) + 1)
      /\ \A n \in DOMAIN K[c] : L[c][n] = K[c][n]
      /\ L[c][Len(K[c]) + 1] = x
  <2>1. PICK s, t, e : s = K[c] /\ t = L[c] /\ e = x
    OBVIOUS
  <2>2. IsList(s) /\ t = Append(s, e)
    BY <1>1, <2>1 DEF Whole
  <2>3. IsList(t)
    BY <2>2, AppendWhole
  <2>4. DOMAIN t = 1..(Len(s) + 1)
    BY <2>2, AppendWhole
  <2>5. \A n \in DOMAIN s : t[n] = s[n]
    BY <2>2, AppendWhole
  <2>6. t[Len(s) + 1] = e
    BY <2>2, AppendWhole
  <2>7. QED
    BY <2>1, <2>3, <2>4, <2>5, <2>6
<1>3. DOMAIN K[c] = 1..Len(K[c]) /\ Len(K[c]) \in Nat
  BY AddressesAreNumbers
<1>4. \A d \in Chains : \A a \in DOMAIN K[d] : a \in DOMAIN L[d] /\ L[d][a] = K[d][a]
  BY <1>1, <1>2, <1>3
<1>5. \A n \in DOMAIN L[c] : n \in DOMAIN K[c] \/ n = Len(K[c]) + 1
  BY <1>2, <1>3
<1>6. \A n \in DOMAIN L[c] : IsContract(L[c][n])
  BY <1>2, <1>5 DEF Whole
<1>7. Whole(L)
  BY <1>1, <1>2, <1>6 DEF Whole
<1>8. Grown(K, X, L, X) /\ \A d \in Chains : Steady(K, L, d)
  BY <1>4 DEF Grown, Steady, Going
<1>9. Len(K[c]) + 1 \in DOMAIN L[c]
  BY <1>2, <1>3
<1>10. QED
  BY <1>2, <1>7, <1>8, <1>9 DEF LastIs

\* Any other transaction rewrites one contract.
Rewritten(K, c, a, y) == [K EXCEPT ![c] = [K[c] EXCEPT ![a] = y]]
OnlyAt(K, L, c, a, y) ==
    /\ \A d \in Chains : DOMAIN L[d] = DOMAIN K[d]
    /\ \A d \in Chains : \A b \in DOMAIN K[d] :
          L[d][b] = IF d = c /\ b = a THEN y ELSE K[d][b]

\* Rewriting one contract leaves the others as they are.
LEMMA Rewrite ==
    ASSUME NEW K, Whole(K), NEW c \in Chains, NEW a \in DOMAIN K[c], NEW y, IsContract(y),
           NEW L, L = Rewritten(K, c, a, y)
    PROVE  Whole(L) /\ OnlyAt(K, L, c, a, y)
<1>1. DOMAIN L = Chains /\ L[c] = [K[c] EXCEPT ![a] = y] /\ \A d \in Chains \ {c} : L[d] = K[d]
  BY DEF Whole, Rewritten
<1>2. /\ IsList(L[c]) /\ DOMAIN L[c] = DOMAIN K[c]
      /\ \A n \in DOMAIN K[c] : L[c][n] = IF n = a THEN y ELSE K[c][n]
  <2>1. PICK s, t, v : s = K[c] /\ t = L[c] /\ v = y
    OBVIOUS
  <2>2. IsList(s) /\ t = [s EXCEPT ![a] = v]
    BY <1>1, <2>1 DEF Whole
  <2>3. IsList(t)
    BY <2>2, ExceptWhole
  <2>4. DOMAIN t = DOMAIN s
    BY <2>2
  <2>5. \A n \in DOMAIN s : t[n] = IF n = a THEN v ELSE s[n]
    BY <2>2
  <2>6. QED
    BY <2>1, <2>3, <2>4, <2>5
<1>3. \A n \in DOMAIN K[c] : IsContract(L[c][n])
  BY <1>2 DEF Whole
<1>4. Whole(L)
  BY <1>1, <1>2, <1>3 DEF Whole
<1>5. QED
  BY <1>1, <1>2, <1>4 DEF OnlyAt

\* A config is set, and marked if it replaced another.
WithConfig(K, c, a, s) == [K EXCEPT ![c][a].cfg = s]
Marked(K, X, c, a, s) == IF K[c][a].cfg \in {NoConfig, s} THEN X ELSE X \cup {<<c, a>>}

\* Setting a config marks the MCM when it had another.
LEMMA ConfigSet ==
    ASSUME NEW K, Whole(K), NEW c \in Chains, NEW a \in DOMAIN K[c], NEW s, s # NoConfig,
           NEW X, NEW Y, Y = Marked(K, X, c, a, s), NEW L, L = WithConfig(K, c, a, s)
    PROVE  /\ Whole(L) /\ Grown(K, X, L, Y) /\ (\A d \in Chains : Steady(K, L, d)) /\ L[c][a].cfg = s
<1> DEFINE y == [K[c][a] EXCEPT !.cfg = s]
<1>1. /\ IsContract(K[c][a])
      /\ y = [kind |-> K[c][a].kind, cfg |-> s, roles |-> K[c][a].roles,
              owner |-> K[c][a].owner, pending |-> K[c][a].pending]
  BY DEF Whole, IsContract
<1>2. IsContract(y)
  BY <1>1 DEF IsContract
<1>3. L = Rewritten(K, c, a, y)
  BY DEF Rewritten, WithConfig
<1>4. /\ y.kind = K[c][a].kind /\ y.cfg = s /\ y.roles = K[c][a].roles
      /\ y.owner = K[c][a].owner /\ y.pending = K[c][a].pending
  BY <1>1
<1> HIDE DEF y
<1>5. /\ Whole(L) /\ \A d \in Chains : DOMAIN L[d] = DOMAIN K[d]
      /\ \A d \in Chains : \A b \in DOMAIN K[d] :
            L[d][b] = IF d = c /\ b = a THEN y ELSE K[d][b]
  <2>1. Whole(L) /\ OnlyAt(K, L, c, a, y)
    BY <1>2, <1>3, Rewrite
  <2>2. QED
    BY <2>1 DEF OnlyAt
<1>6. Grown(K, X, L, Y)
  BY <1>4, <1>5 DEF Grown, Marked
<1>7. \A d \in Chains : Steady(K, L, d)
  BY <1>4, <1>5 DEF Steady, Going
<1>8. QED
  BY <1>4, <1>5, <1>6, <1>7

\* A role is granted.
WithRole(K, c, a, n, x) == [K EXCEPT ![c][a].roles[n] = @ \cup {x}]

\* Granting a role takes none away.
LEMMA RoleAdded ==
    ASSUME NEW K, Whole(K), NEW c \in Chains, NEW a \in DOMAIN K[c], NEW n \in Roles, NEW x, NEW X,
           NEW L, L = WithRole(K, c, a, n, x)
    PROVE  /\ Whole(L) /\ Grown(K, X, L, X) /\ (\A d \in Chains : Steady(K, L, d)) /\ x \in L[c][a].roles[n]
<1> DEFINE rs == [K[c][a].roles EXCEPT ![n] = @ \cup {x}]
<1> DEFINE y == [K[c][a] EXCEPT !.roles = rs]
<1>1. /\ IsContract(K[c][a])
      /\ y = [kind |-> K[c][a].kind, cfg |-> K[c][a].cfg, roles |-> rs,
              owner |-> K[c][a].owner, pending |-> K[c][a].pending]
  <2> HIDE DEF rs
  <2>1. QED
    BY DEF Whole, IsContract
<1>2. /\ DOMAIN rs = Roles /\ x \in rs[n] /\ \A m \in Roles : K[c][a].roles[m] \subseteq rs[m]
  BY <1>1 DEF IsContract
<1>3. IsContract(y)
  BY <1>1, <1>2 DEF IsContract
<1>4. L = Rewritten(K, c, a, y)
  BY DEF Rewritten, WithRole
<1>5. /\ y.kind = K[c][a].kind /\ y.cfg = K[c][a].cfg /\ y.roles = rs
      /\ y.owner = K[c][a].owner /\ y.pending = K[c][a].pending
  BY <1>1
<1> HIDE DEF y, rs
<1>6. /\ Whole(L) /\ \A d \in Chains : DOMAIN L[d] = DOMAIN K[d]
      /\ \A d \in Chains : \A b \in DOMAIN K[d] :
            L[d][b] = IF d = c /\ b = a THEN y ELSE K[d][b]
  <2>1. Whole(L) /\ OnlyAt(K, L, c, a, y)
    BY <1>3, <1>4, Rewrite
  <2>2. QED
    BY <2>1 DEF OnlyAt
<1>7. Grown(K, X, L, X)
  BY <1>2, <1>5, <1>6 DEF Grown
<1>8. \A d \in Chains : Steady(K, L, d)
  BY <1>5, <1>6 DEF Steady, Going
<1>9. x \in L[c][a].roles[n]
  <2>1. L[c][a] = y
    BY <1>6
  <2>2. QED
    BY <1>2, <1>5, <2>1
<1>10. QED
  BY <1>6, <1>7, <1>8, <1>9

\* The deployer transfers a contract that it owns. No other contract is turned.
WithPending(K, c, a, t) == [K EXCEPT ![c][a].pending = t]

\* Only the contract that is transferred may be turned away from where it was going.
LEMMA TransferSent ==
    ASSUME NEW K, Whole(K), NEW c \in Chains, NEW a \in DOMAIN K[c], NEW t, NEW X,
           K[c][a].owner = Deployer, NEW L, L = WithPending(K, c, a, t)
    PROVE  /\ Whole(L) /\ Grown(K, X, L, X) /\ L[c][a].pending = t
           /\ \A d \in Chains : d # c => Steady(K, L, d)
           /\ \A b \in DOMAIN K[c] : b # a => L[c][b] = K[c][b]
<1> DEFINE y == [K[c][a] EXCEPT !.pending = t]
<1>1. /\ IsContract(K[c][a])
      /\ y = [kind |-> K[c][a].kind, cfg |-> K[c][a].cfg, roles |-> K[c][a].roles,
              owner |-> K[c][a].owner, pending |-> t]
  BY DEF Whole, IsContract
<1>2. IsContract(y)
  BY <1>1 DEF IsContract
<1>3. L = Rewritten(K, c, a, y)
  BY DEF Rewritten, WithPending
<1>4. /\ y.kind = K[c][a].kind /\ y.cfg = K[c][a].cfg /\ y.roles = K[c][a].roles
      /\ y.owner = K[c][a].owner /\ y.pending = t
  BY <1>1
<1> HIDE DEF y
<1>5. /\ Whole(L) /\ \A d \in Chains : DOMAIN L[d] = DOMAIN K[d]
      /\ \A d \in Chains : \A b \in DOMAIN K[d] :
            L[d][b] = IF d = c /\ b = a THEN y ELSE K[d][b]
  <2>1. Whole(L) /\ OnlyAt(K, L, c, a, y)
    BY <1>2, <1>3, Rewrite
  <2>2. QED
    BY <2>1 DEF OnlyAt
<1>6. Grown(K, X, L, X)
  BY <1>4, <1>5 DEF Grown
<1>7. \A d \in Chains : d # c => Steady(K, L, d)
  BY <1>5 DEF Steady, Going
<1>8. L[c][a].pending = t /\ \A b \in DOMAIN K[c] : b # a => L[c][b] = K[c][b]
  BY <1>4, <1>5
<1>9. QED
  BY <1>5, <1>6, <1>7, <1>8

\* A timelock accepts contracts that are pending for it.
WithOwner(K, c, T, t) ==
    [K EXCEPT ![c] = [a \in DOMAIN @ |->
        IF a \in T THEN [@[a] EXCEPT !.owner = t, !.pending = Nobody] ELSE @[a]]]

\* Accepting turns no contract away: what was pending for a timelock is owned by it.
LEMMA OwnershipAccepted ==
    ASSUME NEW K, Whole(K), NEW c \in Chains, NEW T, NEW t \in Nat, NEW X,
           \A x \in T : K[c][x].pending = t,
           NEW L, L = WithOwner(K, c, T, t)
    PROVE  Whole(L) /\ Grown(K, X, L, X) /\ \A d \in Chains : Steady(K, L, d)
<1> DEFINE y(a) == [K[c][a] EXCEPT !.owner = t, !.pending = Nobody]
<1>1. ASSUME NEW a \in DOMAIN K[c]
      PROVE  /\ IsContract(y(a)) /\ y(a).kind = K[c][a].kind /\ y(a).cfg = K[c][a].cfg
             /\ y(a).roles = K[c][a].roles /\ y(a).owner = t /\ y(a).pending = Nobody
  <2>1. PICK k : k = K[c][a]
    OBVIOUS
  <2>2. IsContract(k)
    BY <2>1 DEF Whole
  <2>3. PICK k2 : k2 = [k EXCEPT !.owner = t, !.pending = Nobody]
    OBVIOUS
  <2>4. k2 = [kind |-> k.kind, cfg |-> k.cfg, roles |-> k.roles, owner |-> t, pending |-> Nobody]
    BY <2>2, <2>3 DEF IsContract
  <2>5. /\ k2.kind = k.kind /\ k2.cfg = k.cfg /\ k2.roles = k.roles
        /\ k2.owner = t /\ k2.pending = Nobody
    BY <2>4
  <2>6. IsContract(k2)
    BY <2>2, <2>4, <2>5 DEF IsContract
  <2>7. QED
    BY <2>1, <2>3, <2>5, <2>6
<1>2. /\ DOMAIN L = Chains /\ \A d \in Chains \ {c} : L[d] = K[d]
      /\ L[c] = [a \in DOMAIN K[c] |-> IF a \in T THEN y(a) ELSE K[c][a]]
  BY DEF Whole, WithOwner
<1> HIDE DEF y
<1>3. /\ DOMAIN L[c] = DOMAIN K[c]
      /\ \A a \in DOMAIN K[c] : L[c][a] = IF a \in T THEN y(a) ELSE K[c][a]
  BY <1>2
<1>4. IsList(L[c])
  <2>1. DOMAIN K[c] = 1..Len(K[c]) /\ Len(K[c]) \in Nat
    BY AddressesAreNumbers
  <2>2. PICK s, N : s = L[c] /\ N = Len(K[c])
    OBVIOUS
  <2> DEFINE S == {s[a] : a \in DOMAIN s}
  <2>3. N \in Nat /\ s = [a \in 1..N |-> s[a]]
    BY <1>2, <2>1, <2>2
  <2>4. \A a \in 1..N : s[a] \in S
    BY <2>3
  <2> HIDE DEF S
  <2>5. s \in [1..N -> S]
    BY <2>3, <2>4
  <2>6. s \in Seq(S)
    BY <2>3, <2>5, SeqDef
  <2>7. QED
    BY <2>2, <2>6, ListOf
<1>5. \A a \in DOMAIN K[c] : IsContract(K[c][a])
  BY DEF Whole
<1>6. ASSUME NEW a \in DOMAIN L[c] PROVE IsContract(L[c][a])
  <2>1. CASE a \in T
    BY <1>1, <1>3, <2>1
  <2>2. CASE a \notin T
    BY <1>3, <1>5, <2>2
  <2>3. QED
    BY <2>1, <2>2
<1>7. Whole(L)
  BY <1>2, <1>4, <1>6, <1>3 DEF Whole
<1>8. ASSUME NEW a \in DOMAIN K[c], a \in T PROVE K[c][a].owner = Deployer /\ K[c][a].pending = t
  <2>1. K[c][a].pending = t /\ t # Nobody
    BY <1>8, ValuesAssumption
  <2>2. QED
    BY <1>5, <2>1 DEF IsContract
<1>9. \A d \in Chains : \A a \in DOMAIN K[d] : ~(d = c /\ a \in T) => L[d][a] = K[d][a]
  BY <1>2, <1>3
<1>10. \A a \in DOMAIN K[c] : a \in T =>
          /\ L[c][a].kind = K[c][a].kind /\ L[c][a].cfg = K[c][a].cfg
          /\ L[c][a].roles = K[c][a].roles /\ L[c][a].owner = t /\ L[c][a].pending = Nobody
  BY <1>1, <1>3
<1>11. \A d \in Chains : DOMAIN L[d] = DOMAIN K[d]
  BY <1>2, <1>3
<1>12. Grown(K, X, L, X)
  <2> SUFFICES ASSUME NEW d \in Chains, NEW a \in DOMAIN K[d]
               PROVE  /\ a \in DOMAIN L[d] /\ L[d][a].kind = K[d][a].kind
                      /\ \A r \in Roles : K[d][a].roles[r] \subseteq L[d][a].roles[r]
                      /\ L[d][a].cfg = K[d][a].cfg
                      /\ K[d][a].owner \in Nat => L[d][a].owner = K[d][a].owner
    BY DEF Grown
  <2>1. CASE d = c /\ a \in T
    <3>1. K[d][a].owner = Deployer /\ Deployer \notin Nat
      BY <1>8, <2>1, ValuesAssumption
    <3>2. QED
      BY <1>10, <1>11, <2>1, <3>1
  <2>2. CASE ~(d = c /\ a \in T)
    BY <1>9, <1>11, <2>2
  <2>3. QED
    BY <2>1, <2>2
<1>13. \A d \in Chains : Steady(K, L, d)
  <2> SUFFICES ASSUME NEW d \in Chains, NEW a \in DOMAIN K[d], NEW u \in Nat, Going(K, d, a, u)
               PROVE  Going(L, d, a, u)
    BY DEF Steady
  <2>1. CASE d = c /\ a \in T
    <3>1. u = t
      BY <1>8, <2>1, ValuesAssumption DEF Going
    <3>2. QED
      BY <1>10, <2>1, <3>1 DEF Going
  <2>2. CASE ~(d = c /\ a \in T)
    BY <1>9, <2>2 DEF Going
  <2>3. QED
    BY <2>1, <2>2
<1>14. QED
  BY <1>7, <1>12, <1>13

----------------------------------------------------------------------------
(* Topologies and the chain Apply is at *)

\* Refs that are as many as their specs tell the specs apart.
LEMMA RefsDistinct ==
    ASSUME NEW s, IsList(s), Cardinality(Refs(s)) = Len(s),
           NEW i \in DOMAIN s, NEW j \in DOMAIN s, s[i].ref = s[j].ref
    PROVE  i = j
<1> DEFINE f == [n \in 1..Len(s) |-> s[n].ref]
<1>1. DOMAIN s = 1..Len(s) /\ Len(s) \in Nat
  BY ListIds
<1>2. f \in Surjection(1..Len(s), Refs(s))
  BY <1>1 DEF Surjection, Refs
<1>3. IsFiniteSet(1..Len(s)) /\ Cardinality(1..Len(s)) = Len(s)
  <2>1. 1 \in Int /\ Len(s) \in Int /\ Len(s) - 1 + 1 = Len(s) /\ (1 > Len(s) => Len(s) = 0)
    BY <1>1
  <2>2. QED
    BY <2>1, FS_Interval
<1>4. f \in Injection(1..Len(s), Refs(s))
  BY <1>2, <1>3, FS_SurjSameCardinalityImpliesInj
<1>5. f[i] = f[j]
  BY <1>1
<1> HIDE DEF f
<1>6. QED
  BY <1>1, <1>4, <1>5 DEF Injection, IsInjective

\* What VerifyPreconditions lets through.
LEMMA VerifiedIsValid ==
    ASSUME NEW i \in Inputs, validateConfig(i), NEW c \in DOMAIN i.by
    PROVE  Valid(i.by[c])
<1>1. PICK t : t = i.by[c]
  OBVIOUS
<1>2. WellFormed(t) /\ validateChainConfig(t, i.mcms)
  BY <1>1, InputsAssumption DEF validateConfig
<1>3. IsList(t.mcms) /\ IsList(t.tls)
  BY <1>2 DEF WellFormed, IsList, elems
<1>4. NoRepeats(t.mcms) /\ NoRepeats(t.tls)
  BY <1>2, <1>3, RefsDistinct DEF NoRepeats, validateChainConfig
<1>5. ASSUME NEW m \in elems(t.mcms), NEW n \in elems(t.mcms), m.ref = n.ref PROVE m = n
  <2>1. PICK a \in DOMAIN t.mcms, b \in DOMAIN t.mcms : m = t.mcms[a] /\ n = t.mcms[b]
    BY DEF elems
  <2>2. a = b
    BY <1>2, <1>3, <1>5, <2>1, RefsDistinct DEF validateChainConfig
  <2>3. QED
    BY <2>1, <2>2
<1>6. \A m \in elems(t.mcms) : m.t \notin {"Timelock", "CallProxy"} /\ m.cfg # NoConfig
  BY <1>2 DEF WellFormed
<1>7. \A m \in elems(t.mcms) : \A tl \in elems(t.tls) : m.ref # tl.ref
  BY <1>2 DEF validateChainConfig, Refs, elems
<1>8. ASSUME NEW h \in AllHolders(t)
      PROVE  h[1] = "addr" \/ (h[1] = "ref" /\ \E m \in elems(t.mcms) : m.ref = h[2])
  <2>1. PICK tl \in elems(t.tls) : h \in Holders(tl)
    BY DEF AllHolders
  <2>2. h[1] \in {"ref", "addr"}
    BY <1>2, <2>1 DEF WellFormed
  <2>3. h[1] = "ref" => h[2] \in Refs(t.mcms)
    BY <1>2, <2>1 DEF validateChainConfig, validateRoleHolders
  <2>4. QED
    BY <2>2, <2>3 DEF Refs, elems
<1>9. Valid(t)
  BY <1>3, <1>4, <1>5, <1>6, <1>7, <1>8 DEF Valid
<1>10. QED
  BY <1>1, <1>9

\* The next chain is one of those to do, and its topology was verified.
LEMMA ChainAt ==
    ASSUME RunOK, pc # "idle", todo # {}
    PROVE  ch \in todo /\ ch \in Chains /\ ch \in DOMAIN req.by /\ ch \notin Finished /\ Valid(cfg)
<1>1. req \in Inputs /\ validateConfig(req) /\ todo \subseteq DOMAIN req.by
  BY DEF RunOK
<1>2. DOMAIN req.by \subseteq Chains /\ Chains \subseteq Nat
  BY <1>1, ChainsAssumption
<1>3. \E c \in todo : \A d \in todo : c <= d
  BY <1>1, <1>2, LeastNat
<1>4. ch \in todo
  BY <1>3 DEF ch
<1>5. QED
  BY <1>1, <1>2, <1>4, VerifiedIsValid DEF Finished, cfg

\* Every chain of the run is one of the chains, with a verified topology.
LEMMA RunChains ==
    ASSUME RunOK, pc # "idle"
    PROVE  /\ Finished \subseteq Chains /\ DOMAIN req.by \subseteq Chains
           /\ \A c \in DOMAIN req.by : Valid(req.by[c])
BY ChainsAssumption, VerifiedIsValid DEF RunOK, Finished

\* The run stays at its chain.
LEMMA ChainStays ==
    ASSUME UNCHANGED <<req, todo>>
    PROVE  ch' = ch /\ cfg' = cfg /\ ChainInput' = ChainInput /\ Finished' = Finished
BY DEF ch, cfg, ChainInput, Finished

----------------------------------------------------------------------------
(* Reports and refs *)

\* The output of a reusable report is that of a report with the key.
LEMMA OutputReported ==
    ASSUME NEW op, NEW k, Reusable(op, k)
    PROVE  \E r \in reports[op] : r.k = k /\ r.out = OutputOf(op, k)
BY DEF Reusable, OutputOf

\* A true report is added.
LEMMA ReportAdded ==
    ASSUME NEW K, NEW X, NEW R, ReportsOK(K, X, R), NEW op, NEW x,
           op = "deploy" => DeployReportOK(K, x), op = "config" => ConfigReportOK(K, X, x),
           op = "grant" => GrantReportOK(K, x), op = "chain" => ChainReportOK(K, X, x),
           NEW S, S = [R EXCEPT ![op] = @ \cup {x}]
    PROVE  ReportsOK(K, X, S)
<1>1. DOMAIN S = DOMAIN R /\ \A o \in DOMAIN R : S[o] = IF o = op THEN R[o] \cup {x} ELSE R[o]
  OBVIOUS
<1>2. DOMAIN R = {"chain", "deploy", "config", "grant", "transfer"}
  BY DEF ReportsOK
<1>3. \A r \in S["deploy"] : DeployReportOK(K, r)
  BY <1>1, <1>2 DEF ReportsOK
<1>4. \A r \in S["config"] : ConfigReportOK(K, X, r)
  BY <1>1, <1>2 DEF ReportsOK
<1>5. \A r \in S["grant"] : GrantReportOK(K, r)
  BY <1>1, <1>2 DEF ReportsOK
<1>6. \A r \in S["chain"] : ChainReportOK(K, X, r)
  BY <1>1, <1>2 DEF ReportsOK
<1>7. QED
  BY <1>1, <1>2, <1>3, <1>4, <1>5, <1>6 DEF ReportsOK

\* A fresh bundle has no report.
LEMMA NoReportsOK ==
    ASSUME NEW K, NEW X
    PROVE  ReportsOK(K, X, NoReports)
BY DEF ReportsOK, NoReports

\* Refs over refs name contracts when both do.
LEMMA NamedOver ==
    ASSUME NEW K, NEW f, NEW g, Named(K, f), Named(K, g)
    PROVE  Named(K, Over(f, g))
<1>1. PICK s : s = Over(f, g)
  OBVIOUS
<1>2. /\ DOMAIN s = DOMAIN f \cup DOMAIN g
      /\ \A x \in DOMAIN f : s[x] = f[x]
      /\ \A x \in DOMAIN g : x \notin DOMAIN f => s[x] = g[x]
  BY <1>1 DEF Over
<1>3. Named(K, s)
  BY <1>2 DEF Named
<1>4. QED
  BY <1>1, <1>3

----------------------------------------------------------------------------
(* What is said of chains and specs stays true *)

\* A ref stands for the MCM spec that has it.
LEMMA SpecFound ==
    ASSUME NEW t, Valid(t), NEW m \in elems(t.mcms)
    PROVE  SpecOf(t, m.ref) = m
<1>1. SpecOf(t, m.ref) \in elems(t.mcms) /\ SpecOf(t, m.ref).ref = m.ref
  <2>1. m \in {s \in elems(t.mcms) : s.ref = m.ref}
    OBVIOUS
  <2>2. SpecOf(t, m.ref) \in {s \in elems(t.mcms) : s.ref = m.ref}
    BY <2>1 DEF SpecOf
  <2>3. QED
    BY <2>2
<1>2. QED
  BY <1>1 DEF Valid

\* A holder is an address or the MCM spec that it names.
LEMMA HolderKinds ==
    ASSUME NEW t, Valid(t), NEW h \in AllHolders(t)
    PROVE  \/ h[1] = "addr"
           \/ /\ h[1] = "ref" /\ h[1] # "addr"
              /\ SpecOf(t, h[2]) \in elems(t.mcms) /\ SpecOf(t, h[2]).ref = h[2]
<1>1. CASE h[1] = "addr"
  BY <1>1
<1>2. CASE h[1] = "ref" /\ \E m \in elems(t.mcms) : m.ref = h[2]
  BY <1>2, SpecFound
<1>3. QED
  BY <1>1, <1>2 DEF Valid

\* Only the refs and batches of a chain matter to it.
LEMMA ChainLocal ==
    ASSUME NEW K, NEW X, NEW c, NEW t, Valid(t), NEW r, NEW s, NEW B, NEW D,
           \A k \in DOMAIN r : k[1] = c => k \in DOMAIN s /\ s[k] = r[k],
           \A b \in D : b.ch = c => b \in B, \A b \in B : b.ch = c => b \in D,
           ChainOK(K, X, r, B, c, t)
    PROVE  ChainOK(K, X, s, D, c, t) /\ ByRefs(s, c, t) = ByRefs(r, c, t)
<1>1. /\ \A m \in elems(t.mcms) : <<c, m.t, m.q>> \in DOMAIN r
      /\ \A tl \in elems(t.tls) : <<c, "Timelock", tl.q>> \in DOMAIN r
  BY DEF ChainOK, Filed
<1>2. /\ \A m \in elems(t.mcms) : <<c, m.t, m.q>> \in DOMAIN s /\ s[<<c, m.t, m.q>>] = r[<<c, m.t, m.q>>]
      /\ \A tl \in elems(t.tls) : /\ <<c, "Timelock", tl.q>> \in DOMAIN s
                                  /\ s[<<c, "Timelock", tl.q>>] = r[<<c, "Timelock", tl.q>>]
  BY <1>1
<1>3. ByRefs(s, c, t) = ByRefs(r, c, t)
  <2>1. ASSUME NEW h \in AllHolders(t)
        PROVE  (IF h[1] = "addr" THEN h[2] ELSE s[<<c, SpecOf(t, h[2]).t, SpecOf(t, h[2]).q>>])
               = (IF h[1] = "addr" THEN h[2] ELSE r[<<c, SpecOf(t, h[2]).t, SpecOf(t, h[2]).q>>])
    BY <1>2, HolderKinds
  <2>2. QED
    BY <2>1 DEF ByRefs
<1>4. ASSUME Apart(t), NEW tl \in elems(t.tls) PROVE TlOK(K, s, D, c, ByRefs(s, c, t), tl)
  <2>1. PICK a, W : a = r[<<c, "Timelock", tl.q>>] /\ W = ByRefs(r, c, t)
    OBVIOUS
  <2>2. WiredOK(K, r, c, W, tl, a) /\ Accepted(K, c, a, B, Take(W, tl))
    BY <1>4, <2>1 DEF ChainOK, TlOK
  <2>3. <<c, "CallProxy", tl.q>> \in DOMAIN r =>
          <<c, "CallProxy", tl.q>> \in DOMAIN s /\ s[<<c, "CallProxy", tl.q>>] = r[<<c, "CallProxy", tl.q>>]
    OBVIOUS
  <2>4. WiredOK(K, s, c, W, tl, a)
    BY <2>2, <2>3 DEF WiredOK
  <2>5. Accepted(K, c, a, D, Take(W, tl))
    BY <2>2 DEF Accepted
  <2>6. QED
    BY <1>2, <1>3, <2>1, <2>4, <2>5 DEF TlOK
<1>5. ASSUME Apart(t), NEW b \in D, b.ch = c PROVE BatchFrom(s, c, ByRefs(s, c, t), elems(t.tls), b)
  <2>1. BatchFrom(r, c, ByRefs(r, c, t), elems(t.tls), b)
    BY <1>5 DEF ChainOK
  <2>2. PICK W : W = ByRefs(r, c, t) /\ W = ByRefs(s, c, t)
    BY <1>3
  <2>3. QED
    BY <1>2, <2>1, <2>2 DEF BatchFrom
<1>6. \A b \in D : b.ch = c => b.to \subseteq DOMAIN K[c]
  BY DEF ChainOK
<1>7. ASSUME Apart(t) PROVE \A m \in elems(t.mcms) : McmOK(K, X, c, s[<<c, m.t, m.q>>], m)
  BY <1>2, <1>7 DEF ChainOK
<1>8. QED
  BY <1>2, <1>3, <1>4, <1>5, <1>6, <1>7 DEF ChainOK, Filed

\* A batch's targets still go to their timelock.
LEMMA SettledGrown ==
    ASSUME NEW K, NEW L, NEW c, Steady(K, L, c), NEW U, NEW U2, U \subseteq U2, NEW W, NEW t, NEW b,
           b.to \subseteq DOMAIN K[c], \A x \in b.to : b.tl \in Nat, Settled(K, U, c, W, t, b)
    PROVE  Settled(L, U2, c, W, t, b)
BY DEF Settled, Steady

\* A batch that accepts anything is of a timelock at an address.
LEMMA BatchAddress ==
    ASSUME NEW K, Whole(K), NEW r, Named(K, r), NEW c \in Chains, NEW W, NEW H, NEW b,
           \A tl \in H : <<c, "Timelock", tl.q>> \in DOMAIN r, BatchFrom(r, c, W, H, b)
    PROVE  \A x \in b.to : b.tl \in Nat
<1> SUFFICES ASSUME NEW x \in b.to PROVE b.tl \in Nat
  OBVIOUS
<1>1. PICK tl \in H : b.tl = r[<<c, "Timelock", tl.q>>]
  BY DEF BatchFrom
<1>2. b.tl \in DOMAIN K[c]
  BY <1>1 DEF Named
<1>3. QED
  BY <1>2, AddressesAreNumbers

\* What is said of a finished chain stays true.
LEMMA DoneGrown ==
    ASSUME NEW K, NEW X, NEW L, NEW Y, Grown(K, X, L, Y), Whole(K), NEW c \in Chains, Steady(K, L, c),
           NEW U, NEW U2, U \subseteq U2, NEW t, Valid(t), NEW g, Named(K, g.refs),
           DoneOK(K, X, U, g, c, t)
    PROVE  DoneOK(L, Y, U2, g, c, t)
<1>1. ChainOK(K, X, g.refs, g.batches, c, t) /\ \A m \in elems(t.mcms) : m.cfg # NoConfig
  BY DEF DoneOK, Valid
<1>2. ChainOK(L, Y, g.refs, g.batches, c, t)
  BY <1>1, ChainGrown
<1>3. ASSUME Apart(t), NEW b \in g.batches, b.ch = c
      PROVE  Settled(L, U2, c, ByRefs(g.refs, c, t), t, b)
  <2>1. PICK W : W = ByRefs(g.refs, c, t)
    OBVIOUS
  <2>2. /\ b.to \subseteq DOMAIN K[c] /\ BatchFrom(g.refs, c, W, elems(t.tls), b)
        /\ \A tl \in elems(t.tls) : <<c, "Timelock", tl.q>> \in DOMAIN g.refs
    BY <1>1, <1>3, <2>1 DEF ChainOK, Filed
  <2>3. \A x \in b.to : b.tl \in Nat
    BY <2>2, BatchAddress
  <2>4. Settled(K, U, c, W, t, b)
    BY <1>3, <2>1 DEF DoneOK
  <2>5. Settled(L, U2, c, W, t, b)
    BY <2>2, <2>3, <2>4, SettledGrown
  <2>6. QED
    BY <2>1, <2>5
<1>4. QED
  BY <1>2, <1>3 DEF DoneOK

\* So does what is said of all finished chains.
LEMMA FinishedGrown ==
    ASSUME NEW K, NEW X, NEW L, NEW Y, Grown(K, X, L, Y), Whole(K), NEW C, C \subseteq Chains,
           \A c \in C : Steady(K, L, c), NEW U, NEW U2, U \subseteq U2,
           NEW by, \A c \in C : Valid(by[c]), NEW g, FinishedOK(K, X, U, g, C, by)
    PROVE  FinishedOK(L, Y, U2, g, C, by)
<1>1. Named(K, g.refs) /\ Named(L, g.refs)
  BY NamedGrown DEF FinishedOK
<1>2. ASSUME NEW c \in C PROVE DoneOK(L, Y, U2, g, c, by[c])
  <2>1. PICK t : t = by[c]
    OBVIOUS
  <2>2. c \in Chains /\ Steady(K, L, c) /\ Valid(t) /\ DoneOK(K, X, U, g, c, t)
    BY <2>1 DEF FinishedOK
  <2>3. DoneOK(L, Y, U2, g, c, t)
    BY <1>1, <2>2, DoneGrown
  <2>4. QED
    BY <2>1, <2>3
<1>3. QED
  BY <1>1, <1>2 DEF FinishedOK

\* The datastore, proposals and marked targets stay in place.
LEMMA PlacesGrown ==
    ASSUME NEW K, NEW X, NEW L, NEW Y, Grown(K, X, L, Y), NEW d, NEW P, NEW U, PlacesOK(K, d, P, U)
    PROVE  PlacesOK(L, d, P, U)
<1>1. Named(L, d)
  BY NamedGrown DEF PlacesOK
<1>2. ASSUME NEW p \in P
      PROVE  p.ch \in Chains /\ p.to \subseteq DOMAIN L[p.ch] /\ p.tl \in DOMAIN L[p.ch]
  <2>1. p.ch \in Chains /\ p.to \subseteq DOMAIN K[p.ch] /\ p.tl \in DOMAIN K[p.ch]
    BY DEF PlacesOK
  <2>2. DOMAIN K[p.ch] \subseteq DOMAIN L[p.ch]
    BY <2>1 DEF Grown
  <2>3. QED
    BY <2>1, <2>2
<1>3. ASSUME NEW x \in U PROVE x[1] \in Chains /\ x[2] \in DOMAIN L[x[1]] /\ x = <<x[1], x[2]>>
  BY DEF PlacesOK, Grown
<1>4. QED
  BY <1>1, <1>2, <1>3 DEF PlacesOK

\* An MCM behind stays done when its refs stay.
LEMMA McmKept ==
    ASSUME NEW K, NEW X, NEW L, NEW Y, Grown(K, X, L, Y), NEW c \in Chains, NEW t,
           NEW A, NEW A2, NEW r, NEW s, NEW m, m.cfg # NoConfig, McmDone(K, X, A, r, c, t, m),
           m.ref \in DOMAIN A2, A2[m.ref] = A[m.ref], <<c, m.t, m.q>> \in DOMAIN s,
           Apart(t) => s[<<c, m.t, m.q>>] = r[<<c, m.t, m.q>>]
    PROVE  McmDone(L, Y, A2, s, c, t, m)
<1>1. McmOK(K, X, c, A[m.ref], m)
  BY DEF McmDone
<1>2. McmOK(L, Y, c, A[m.ref], m)
  BY <1>1, McmGrown
<1>3. QED
  BY <1>2 DEF McmDone

\* Batches D accept what batches B accept.
Covers(D, B) == \A b \in B : \A x \in b.to : \E d \in D : d.ch = b.ch /\ d.tl = b.tl /\ x \in d.to

\* What batches accept, the batches that cover them accept.
LEMMA AcceptedCovered ==
    ASSUME NEW K, NEW c, NEW a, NEW B, NEW D, Covers(D, B), NEW T, Accepted(K, c, a, B, T)
    PROVE  Accepted(K, c, a, D, T)
<1> SUFFICES ASSUME NEW x \in T, ~(x \in DOMAIN K[c] /\ K[c][x].owner = a)
             PROVE  \E d \in D : d.ch = c /\ d.tl = a /\ x \in d.to
  BY DEF Accepted
<1>1. PICK b \in B : b.ch = c /\ b.tl = a /\ x \in b.to
  BY DEF Accepted
<1>2. QED
  BY <1>1 DEF Covers

\* A timelock behind stays wired and its targets accepted.
LEMMA TimelockKept ==
    ASSUME NEW K, NEW X, NEW L, NEW Y, Grown(K, X, L, Y), Whole(K), NEW c \in Chains, NEW t, NEW W,
           NEW r, NEW s, NEW B, NEW D, Covers(D, B), NEW tl, TimelockDone(K, r, B, c, t, W, tl),
           <<c, "Timelock", tl.q>> \in DOMAIN s,
           Apart(t) => s[<<c, "Timelock", tl.q>>] = r[<<c, "Timelock", tl.q>>],
           Apart(t) /\ <<c, "CallProxy", tl.q>> \in DOMAIN r =>
              <<c, "CallProxy", tl.q>> \in DOMAIN s /\ s[<<c, "CallProxy", tl.q>>] = r[<<c, "CallProxy", tl.q>>]
    PROVE  TimelockDone(L, s, D, c, t, W, tl)
<1>1. ASSUME Apart(t) PROVE TlOK(L, s, D, c, W, tl)
  <2>1. PICK a : a = r[<<c, "Timelock", tl.q>>] /\ a = s[<<c, "Timelock", tl.q>>]
    BY <1>1
  <2>2. TlOK(K, r, B, c, W, tl)
    BY <1>1 DEF TimelockDone
  <2>3. TlOK(L, r, B, c, W, tl)
    BY <2>2, TlGrown
  <2>4. WiredOK(L, r, c, W, tl, a) /\ Accepted(L, c, a, B, Take(W, tl))
    BY <2>1, <2>3 DEF TlOK
  <2>5. Accepted(L, c, a, D, Take(W, tl))
    BY <2>4, AcceptedCovered
  <2>6. WiredOK(L, s, c, W, tl, a)
    BY <1>1, <2>4 DEF WiredOK
  <2>7. QED
    BY <2>1, <2>5, <2>6 DEF TlOK
<1>2. QED
  BY <1>1 DEF TimelockDone

\* A batch stays one of the timelocks handled.
LEMMA BatchKept ==
    ASSUME NEW K, NEW X, NEW L, NEW Y, Grown(K, X, L, Y), Whole(K), NEW c \in Chains, Steady(K, L, c),
           NEW U, NEW U2, U \subseteq U2, NEW t, NEW W, NEW r, Named(K, r), NEW s, NEW H, NEW G, H \subseteq G,
           NEW b, BatchOK(K, U, r, c, t, W, H, b), \A tl \in H : <<c, "Timelock", tl.q>> \in DOMAIN r,
           Apart(t) => \A tl \in H : s[<<c, "Timelock", tl.q>>] = r[<<c, "Timelock", tl.q>>]
    PROVE  BatchOK(L, U2, s, c, t, W, G, b)
<1>1. b.ch = c /\ b.to \subseteq DOMAIN K[c] /\ b.to \subseteq DOMAIN L[c]
  BY DEF BatchOK, Grown
<1>2. ASSUME Apart(t) PROVE BatchFrom(s, c, W, G, b) /\ Settled(L, U2, c, W, t, b)
  <2>1. BatchFrom(r, c, W, H, b) /\ Settled(K, U, c, W, t, b)
    BY <1>2 DEF BatchOK
  <2>2. \A x \in b.to : b.tl \in Nat
    BY <2>1, BatchAddress
  <2>3. Settled(L, U2, c, W, t, b)
    BY <1>1, <2>1, <2>2, SettledGrown
  <2>4. BatchFrom(s, c, W, G, b)
    BY <1>2, <2>1 DEF BatchFrom
  <2>5. QED
    BY <2>3, <2>4
<1>3. QED
  BY <1>1, <1>2 DEF BatchOK

\* A timelock that is handled has a ref.
LEMMA HandledFiled ==
    ASSUME SequenceOK, pc \in Busy
    PROVE  \A tl \in Handled : <<ch, "Timelock", tl.q>> \in DOMAIN out.refs
BY DEF SequenceOK, BehindOK, AheadOK, TimelockHere, TimelockDone, Handled

\* The refs that what is behind relies on.
KeysBehind ==
    {<<ch, m.t, m.q>> : m \in McmsBehind} \cup {<<ch, "Timelock", tl.q>> : tl \in Handled}
    \cup {<<ch, "CallProxy", tl.q>> : tl \in TimelocksBehind}

\* What is behind stays done in a step that takes nothing from the queues.
LEMMA BehindKept ==
    ASSUME IInv, pc \in Busy, UNCHANGED <<req, todo, ms, ts>>,
           Grown(code, reset, code', reset'), Steady(code, code', ch), unmoved \subseteq unmoved',
           \A m \in McmsBehind : m.ref \in DOMAIN refToAddr' /\ refToAddr'[m.ref] = refToAddr[m.ref],
           V' = V, DOMAIN out.refs \subseteq DOMAIN out.refs',
           Apart(cfg) => \A k \in DOMAIN out.refs : k \in KeysBehind => out.refs'[k] = out.refs[k],
           out.batches' = out.batches, Handled \subseteq Handled'
    PROVE  BehindOK'
<1>1. PICK c, t, W, A, A2, r, s, H, G, B :
         /\ c = ch /\ t = cfg /\ W = V /\ A = refToAddr /\ A2 = refToAddr' /\ r = out.refs /\ s = out.refs'
         /\ H = Handled /\ G = Handled' /\ B = out.batches
  OBVIOUS
<1>2. ch' = c /\ cfg' = t /\ V' = W /\ out.batches' = B
  BY <1>1, ChainStays
<1>3. McmsBehind' = McmsBehind /\ TimelocksBehind' = TimelocksBehind
  BY ChainStays DEF McmsBehind, TimelocksBehind
<1>4. Whole(code) /\ RunOK /\ SequenceOK /\ BehindOK /\ AddressesOK
  BY DEF IInv, SequenceOK
<1>5. c \in Chains /\ Valid(t)
  BY <1>1, <1>4, ChainAt DEF RunOK, Busy
<1>6. Named(code, r) /\ \A tl \in H : <<c, "Timelock", tl.q>> \in DOMAIN r
  BY <1>1, <1>4, HandledFiled DEF AddressesOK
<1>7. ASSUME NEW m \in McmsBehind PROVE McmDone(code', reset', A2, s, c, t, m)
  <2>1. McmDone(code, reset, A, r, c, t, m)
    BY <1>1, <1>4 DEF BehindOK
  <2>2. m \in elems(t.mcms) /\ m.cfg # NoConfig
    BY <1>1, <1>5 DEF McmsBehind, Valid
  <2>3. m.ref \in DOMAIN A2 /\ A2[m.ref] = A[m.ref]
    BY <1>1
  <2>4. <<c, m.t, m.q>> \in DOMAIN r /\ <<c, m.t, m.q>> \in KeysBehind
    BY <1>1, <2>1 DEF McmDone, KeysBehind
  <2>5. <<c, m.t, m.q>> \in DOMAIN s /\ (Apart(t) => s[<<c, m.t, m.q>>] = r[<<c, m.t, m.q>>])
    BY <1>1, <2>4
  <2>6. QED
    BY <1>5, <2>1, <2>2, <2>3, <2>5, McmKept
<1>8. ASSUME NEW tl \in TimelocksBehind PROVE TimelockDone(code', s, B, c, t, W, tl)
  <2>1. TimelockDone(code, r, B, c, t, W, tl)
    BY <1>1, <1>4 DEF BehindOK
  <2>2. <<c, "Timelock", tl.q>> \in DOMAIN r /\ <<c, "Timelock", tl.q>> \in KeysBehind
        /\ <<c, "CallProxy", tl.q>> \in KeysBehind
    BY <1>1, <2>1 DEF TimelockDone, KeysBehind, Handled
  <2>3. /\ <<c, "Timelock", tl.q>> \in DOMAIN s
        /\ Apart(t) => s[<<c, "Timelock", tl.q>>] = r[<<c, "Timelock", tl.q>>]
        /\ Apart(t) /\ <<c, "CallProxy", tl.q>> \in DOMAIN r =>
             <<c, "CallProxy", tl.q>> \in DOMAIN s /\ s[<<c, "CallProxy", tl.q>>] = r[<<c, "CallProxy", tl.q>>]
    BY <1>1, <2>2
  <2>4. Covers(B, B)
    BY DEF Covers
  <2>5. QED
    BY <1>4, <1>5, <2>1, <2>3, <2>4, TimelockKept
<1>9. ASSUME NEW b \in B PROVE BatchOK(code', unmoved', s, c, t, W, G, b)
  <2>1. BatchOK(code, unmoved, r, c, t, W, H, b)
    BY <1>1, <1>4 DEF BehindOK
  <2>2. Apart(t) => \A tl \in H : s[<<c, "Timelock", tl.q>>] = r[<<c, "Timelock", tl.q>>]
    BY <1>1, <1>6 DEF KeysBehind
  <2>3. H \subseteq G /\ Steady(code, code', c)
    BY <1>1
  <2>4. QED
    BY <1>4, <1>5, <1>6, <2>1, <2>2, <2>3, BatchKept
<1>10. QED
  BY <1>1, <1>2, <1>3, <1>7, <1>8, <1>9 DEF BehindOK

\* So does what is ahead.
LEMMA ConfigNextGrown ==
    ASSUME NEW K, NEW X, NEW L, NEW Y, Grown(K, X, L, Y), NEW c \in Chains, NEW A, NEW m,
           A[m.ref] \in DOMAIN K[c], ConfigNext(K, A, c, m)
    PROVE  ConfigNext(L, A, c, m)
BY DEF ConfigNext, Grown

\* The timelock in progress stays where it is.
LEMMA TimelockHereGrown ==
    ASSUME NEW K, NEW X, NEW L, NEW Y, Grown(K, X, L, Y), NEW c \in Chains, NEW A, NEW r, NEW tl,
           A[tl.ref] \in DOMAIN K[c], TimelockHere(K, A, r, c, tl)
    PROVE  TimelockHere(L, A, r, c, tl)
BY DEF TimelockHere, Grown

\* A role that is granted or to be granted stays so.
LEMMA GrantsGrown ==
    ASSUME NEW K, NEW X, NEW L, NEW Y, Grown(K, X, L, Y), NEW c \in Chains, NEW r, NEW W, NEW tl,
           NEW a \in DOMAIN K[c], NEW g, GrantsOK(K, r, c, W, tl, a, g)
    PROVE  GrantsOK(L, r, c, W, tl, a, g)
<1>1. \A n \in 1..5 : RoleOrder[n] \in Roles
  BY DEF RoleOrder, Roles
<1>2. \A n \in Roles : K[c][a].roles[n] \subseteq L[c][a].roles[n]
  BY DEF Grown
<1>3. "ADMIN" \in Roles /\ "EXECUTOR" \in Roles
  BY DEF Roles
<1>4. QED
  BY <1>1, <1>2, <1>3 DEF GrantsOK

\* A target that is taken or to be taken stays so.
LEMMA TakesGrown ==
    ASSUME NEW K, NEW X, NEW L, NEW Y, Grown(K, X, L, Y), NEW c \in Chains, NEW B, NEW D, Covers(D, B),
           NEW W, NEW tl, NEW a \in Nat, NEW T, TakesOK(K, B, c, W, tl, a, T)
    PROVE  TakesOK(L, D, c, W, tl, a, T)
<1>1. Accepted(K, c, a, B, Take(W, tl) \ T)
  BY DEF TakesOK
<1>2. Accepted(L, c, a, D, Take(W, tl) \ T)
  BY <1>1, AcceptedGrown, AcceptedCovered
<1>3. QED
  BY <1>2 DEF TakesOK

\* The target that waits for its batch still goes to the timelock.
LEMMA AcceptNextGrown ==
    ASSUME NEW K, NEW X, NEW L, NEW Y, Grown(K, X, L, Y), NEW c \in Chains, Steady(K, L, c),
           NEW U, NEW U2, U \subseteq U2, NEW x, NEW a \in Nat, AcceptNext(K, U, c, x, a)
    PROVE  AcceptNext(L, U2, c, x, a)
BY DEF AcceptNext, Steady, Grown

----------------------------------------------------------------------------
(* Steps within the sequence of a chain *)

\* Nothing changes.
LEMMA GrownSame ==
    ASSUME NEW K, NEW X
    PROVE  Grown(K, X, K, X) /\ \A c \in Chains : Steady(K, K, c)
BY DEF Grown, Steady

\* A step within a chain's sequence keeps the rest.
LEMMA SequenceStep ==
    ASSUME IInv, pc \in Busy, pc' \in Busy, UNCHANGED <<ds, proposals, req, todo, agg, fails>>,
           Whole(code'), Grown(code, reset, code', reset'),
           \A c \in Chains : c # ch => Steady(code, code', c), unmoved \subseteq unmoved',
           \A x \in unmoved' : x \in unmoved \/ \E y \in DOMAIN code'[ch] : x = <<ch, y>>,
           ReportsOK(code', reset', reports'), SequenceOK'
    PROVE  IInv'
<1>1. Whole(code) /\ RunOK /\ PlacesOK(code, ds, proposals, unmoved) /\ AggOK
  BY DEF IInv
<1>2. pc # "idle" /\ pc' # "idle" /\ pc' # "chain" /\ todo # {}
  BY <1>1 DEF RunOK, Busy
<1>3. ch \in Chains /\ ch \notin Finished /\ Finished \subseteq Chains
      /\ \A c \in Finished : Valid(req.by[c])
  BY <1>1, <1>2, ChainAt, RunChains DEF Finished
<1>4. RunOK'
  BY <1>1, <1>2 DEF RunOK, validateConfig
<1>5. PlacesOK(code', ds, proposals, unmoved')
  <2>1. PlacesOK(code', ds, proposals, unmoved)
    BY <1>1, PlacesGrown
  <2>2. \A x \in unmoved' : x[1] \in Chains /\ x[2] \in DOMAIN code'[x[1]] /\ x = <<x[1], x[2]>>
    BY <1>3, <2>1 DEF PlacesOK
  <2>3. QED
    BY <2>1, <2>2 DEF PlacesOK
<1>6. AggOK'
  <2>1. PICK C, by : C = Finished /\ by = req.by
    OBVIOUS
  <2>2. FinishedOK(code, reset, unmoved, agg, C, by) /\ \A c \in C : Steady(code, code', c)
    BY <1>1, <1>2, <1>3, <2>1 DEF AggOK
  <2>3. FinishedOK(code', reset', unmoved', agg, C, by)
    BY <1>1, <1>3, <2>1, <2>2, FinishedGrown
  <2>4. Finished' = C
    BY <2>1 DEF Finished
  <2>5. QED
    BY <2>1, <2>3, <2>4 DEF AggOK
<1>7. QED
  BY <1>4, <1>5, <1>6 DEF IInv

\* What deploying a contract of the kind that its key says comes to.
DeployResult(L, k, kd, a) ==
    /\ Whole(L) /\ Grown(code, reset, L, reset) /\ \A c \in Chains : Steady(code, L, c)
    /\ a \in DOMAIN L[ch] /\ L[ch][a].kind = kd /\ DeployReportOK(L, [k |-> k, out |-> a])

\* Deploying, or reusing a report, leads to a contract of the kind that the key says.
LEMMA DeployedOK ==
    ASSUME IInv, ch \in Chains, NEW k, NEW kd, k.key[1] = ch, KindOf(k) = kd,
           NEW roles, DOMAIN roles = Roles, NEW owner,
           NEW L, L = Deployed(k, NewContract(kd, roles, owner)), NEW a, a = DeployedAddress(k)
    PROVE  DeployResult(L, k, kd, a)
<1>1. Whole(code) /\ ReportsOK(code, reset, reports)
  BY DEF IInv
<1>2. CASE Reusable("deploy", k)
  <2>1. L = code /\ a = OutputOf("deploy", k)
    BY <1>2 DEF Deployed, DeployedAddress
  <2>2. PICK r \in reports["deploy"] : r.k = k /\ r.out = a
    BY <1>2, <2>1, OutputReported
  <2>3. DeployReportOK(code, r)
    BY <1>1 DEF ReportsOK
  <2>4. a \in DOMAIN L[ch] /\ L[ch][a].kind = kd
    BY <2>1, <2>2, <2>3 DEF DeployReportOK
  <2>5. DeployReportOK(L, [k |-> k, out |-> a])
    BY <2>4 DEF DeployReportOK
  <2>6. QED
    BY <1>1, <2>1, <2>4, <2>5, GrownSame DEF DeployResult
<1>3. CASE ~Reusable("deploy", k)
  <2>1. PICK x, c : x = NewContract(kd, roles, owner) /\ c = ch
    OBVIOUS
  <2>2. IsContract(x) /\ x.kind = kd
    BY <2>1, NewIsContract
  <2>3. L = Appended(code, c, x) /\ a = Len(code[c]) + 1 /\ c \in Chains
    BY <1>3, <2>1 DEF Deployed, DeployedAddress, Appended
  <2>4. Whole(L) /\ Grown(code, reset, L, reset) /\ (\A d \in Chains : Steady(code, L, d))
    BY <1>1, <2>2, <2>3, AppendGrown
  <2>5. LastIs(code, L, c, x)
    <3>1. Grown(code, reset, L, reset) => LastIs(code, L, c, x)
      BY <1>1, <2>2, <2>3, AppendGrown
    <3>2. QED
      BY <2>4, <3>1
  <2>6. a \in DOMAIN L[ch] /\ L[ch][a].kind = kd
    BY <2>1, <2>2, <2>3, <2>5 DEF LastIs
  <2>7. DeployReportOK(L, [k |-> k, out |-> a])
    BY <2>6 DEF DeployReportOK
  <2>8. QED
    BY <2>4, <2>6, <2>7 DEF DeployResult
<1>4. QED
  BY <1>2, <1>3

\* A step that reports truthfully keeps all reports true.
LEMMA Reported ==
    ASSUME IInv, Grown(code, reset, code', reset'), NEW op, NEW k, NEW o, Report(op, k, o),
           op = "deploy" => DeployReportOK(code', [k |-> k, out |-> o]),
           op = "config" => ConfigReportOK(code', reset', [k |-> k, out |-> o]),
           op = "grant" => GrantReportOK(code', [k |-> k, out |-> o]),
           op = "chain" => ChainReportOK(code', reset', [k |-> k, out |-> o])
    PROVE  ReportsOK(code', reset', reports')
<1>1. ReportsOK(code', reset', reports)
  BY ReportsGrown DEF IInv
<1>2. PICK x : x = [k |-> k, out |-> o]
  OBVIOUS
<1>3. reports' = [reports EXCEPT ![op] = @ \cup {x}]
  BY <1>2 DEF Report
<1>4. /\ op = "deploy" => DeployReportOK(code', x)
      /\ op = "config" => ConfigReportOK(code', reset', x)
      /\ op = "grant" => GrantReportOK(code', x)
      /\ op = "chain" => ChainReportOK(code', reset', x)
  BY <1>2
<1>5. QED
  BY <1>1, <1>3, <1>4, ReportAdded

\* The deploy operation.
LEMMA DeployOpOK ==
    ASSUME IInv, ch \in Chains, NEW k, NEW kd, k.key[1] = ch, KindOf(k) = kd,
           NEW roles, DOMAIN roles = Roles, NEW owner, DeployOp(k, NewContract(kd, roles, owner)), reset' = reset
    PROVE  /\ Whole(code') /\ Grown(code, reset, code', reset')
           /\ \A c \in Chains : Steady(code, code', c)
           /\ DeployedAddress(k) \in DOMAIN code'[ch] /\ code'[ch][DeployedAddress(k)].kind = kd
           /\ ReportsOK(code', reset', reports')
<1>1. code' = Deployed(k, NewContract(kd, roles, owner)) /\ Report("deploy", k, DeployedAddress(k))
  BY DEF DeployOp
<1>2. PICK a : a = DeployedAddress(k)
  OBVIOUS
<1>3. /\ Whole(code') /\ Grown(code, reset, code', reset) /\ \A c \in Chains : Steady(code, code', c)
      /\ a \in DOMAIN code'[ch] /\ code'[ch][a].kind = kd /\ DeployReportOK(code', [k |-> k, out |-> a])
  <2>1. PICK L : L = code'
    OBVIOUS
  <2>2. DeployResult(L, k, kd, a)
    BY <1>1, <1>2, <2>1, DeployedOK
  <2>3. QED
    BY <2>1, <2>2 DEF DeployResult
<1>4. ReportsOK(code', reset', reports')
  BY <1>1, <1>2, <1>3, Reported
<1>5. QED
  BY <1>2, <1>3, <1>4

\* What holds within a chain's sequence.
LEMMA InSequence ==
    ASSUME IInv, pc \in Busy
    PROVE  /\ Whole(code) /\ RunOK /\ ReportsOK(code, reset, reports)
           /\ QueueOK /\ AddressesOK /\ BehindOK /\ AheadOK
           /\ ch \in Chains /\ Valid(cfg)
BY ChainAt DEF IInv, SequenceOK, RunOK, Busy

\* The first of a list, and the rest.
LEMMA HeadTail ==
    ASSUME NEW s, IsList(s), s # <<>>
    PROVE  /\ Head(s) \in elems(s) /\ IsList(Tail(s))
           /\ elems(s) = {Head(s)} \cup elems(Tail(s))
           /\ NoRepeats(s) => NoRepeats(Tail(s)) /\ Head(s) \notin elems(Tail(s))
<1>1. DOMAIN s = 1..Len(s) /\ Len(s) \in Nat /\ s \in Seq(elems(s))
  BY ListIds DEF IsList, elems
<1>2. PICK S : S = elems(s)
  OBVIOUS
<1>3. s \in Seq(S) /\ Len(s) # 0
  BY <1>1, <1>2
<1>4. PICK h, t : h = Head(s) /\ t = Tail(s)
  OBVIOUS
<1>5. h = s[1] /\ t \in Seq(S)
  BY <1>3, <1>4
<1>6. Len(t) = Len(s) - 1 /\ DOMAIN t = 1..(Len(s) - 1) /\ \A n \in 1..(Len(s) - 1) : t[n] = s[n + 1]
  BY <1>1, <1>3, <1>4
<1>7. h \in elems(s)
  BY <1>1, <1>3, <1>5 DEF elems
<1>8. IsList(t)
  BY <1>5, ListOf
<1>9. elems(s) = {h} \cup elems(t)
  <2>1. ASSUME NEW n \in DOMAIN s PROVE s[n] \in {h} \cup elems(t)
    <3>1. CASE n = 1
      BY <1>5, <3>1
    <3>2. CASE n # 1
      <4>1. n - 1 \in DOMAIN t /\ (n - 1) + 1 = n
        BY <1>1, <1>6, <3>2
      <4>2. t[n - 1] = s[n]
        BY <1>6, <4>1
      <4>3. QED
        BY <4>1, <4>2 DEF elems
    <3>3. QED
      BY <3>1, <3>2
  <2>2. ASSUME NEW n \in DOMAIN t PROVE t[n] \in elems(s)
    <3>1. n + 1 \in DOMAIN s /\ t[n] = s[n + 1]
      BY <1>1, <1>6
    <3>2. QED
      BY <3>1 DEF elems
  <2>3. QED
    BY <1>7, <2>1, <2>2 DEF elems
<1>10. ASSUME NoRepeats(s) PROVE NoRepeats(t) /\ h \notin elems(t)
  <2>1. ASSUME NEW i \in DOMAIN t, NEW j \in DOMAIN t, t[i] = t[j] PROVE i = j
    <3>1. i + 1 \in DOMAIN s /\ j + 1 \in DOMAIN s /\ s[i + 1] = s[j + 1]
      BY <1>1, <1>6, <2>1
    <3>2. i + 1 = j + 1
      BY <1>10, <3>1 DEF NoRepeats
    <3>3. QED
      BY <1>6, <3>2
  <2>2. ASSUME NEW i \in DOMAIN t PROVE t[i] # h
    <3>1. i + 1 \in DOMAIN s /\ 1 \in DOMAIN s /\ t[i] = s[i + 1] /\ i + 1 # 1
      BY <1>1, <1>3, <1>6
    <3>2. QED
      BY <1>5, <1>10, <3>1 DEF NoRepeats
  <2>3. QED
    BY <2>1, <2>2 DEF NoRepeats, elems
<1>11. QED
  BY <1>4, <1>7, <1>8, <1>9, <1>10

\* The addresses of the run after one was added, or none.
LEMMA AddressesAfter ==
    ASSUME IInv, pc \in Busy, UNCHANGED <<req, todo>>, Grown(code, reset, code', reset'),
           \/ refToAddr' = refToAddr
           \/ \E x, a : a \in DOMAIN code'[ch] /\ refToAddr' = Over(Entry(x, a), refToAddr),
           \/ out.refs' = out.refs
           \/ \E k, a : /\ k[1] = ch /\ a \in DOMAIN code'[ch] /\ code'[ch][a].kind = k[2]
                        /\ out.refs' = Over(Entry(k, a), out.refs)
    PROVE  AddressesOK' /\ DOMAIN out.refs \subseteq DOMAIN out.refs'
<1>1. AddressesOK /\ ch \in Chains /\ ch' = ch
  BY InSequence, ChainStays
<1>2. DOMAIN code[ch] \subseteq DOMAIN code'[ch]
  BY <1>1 DEF Grown
<1>3. \A x \in DOMAIN refToAddr' : refToAddr'[x] \in DOMAIN code'[ch]
  <2>1. CASE refToAddr' = refToAddr
    BY <1>1, <1>2, <2>1 DEF AddressesOK
  <2>2. ASSUME NEW x, NEW a, a \in DOMAIN code'[ch], refToAddr' = Over(Entry(x, a), refToAddr)
        PROVE  \A y \in DOMAIN refToAddr' : refToAddr'[y] \in DOMAIN code'[ch]
    <3>1. PICK A, A2 : A = refToAddr /\ A2 = refToAddr'
      OBVIOUS
    <3>2. DOMAIN A2 = DOMAIN A \cup {x} /\ \A y \in DOMAIN A2 : A2[y] = IF y = x THEN a ELSE A[y]
      BY <2>2, <3>1 DEF Over, Entry
    <3>3. \A y \in DOMAIN A : A[y] \in DOMAIN code'[ch]
      BY <1>1, <1>2, <3>1 DEF AddressesOK
    <3>4. QED
      BY <2>2, <3>1, <3>2, <3>3
  <2>3. QED
    BY <2>1, <2>2
<1>4. Named(code', out.refs)
  BY <1>1, NamedGrown DEF AddressesOK
<1>5. Named(code', out.refs') /\ (\A k \in DOMAIN out.refs' : k[1] = ch)
      /\ DOMAIN out.refs \subseteq DOMAIN out.refs'
  <2>1. CASE out.refs' = out.refs
    BY <1>1, <1>4, <2>1 DEF AddressesOK
  <2>2. ASSUME NEW k, NEW a, k[1] = ch, a \in DOMAIN code'[ch], code'[ch][a].kind = k[2],
               out.refs' = Over(Entry(k, a), out.refs)
        PROVE  Named(code', out.refs') /\ (\A x \in DOMAIN out.refs' : x[1] = ch)
               /\ DOMAIN out.refs \subseteq DOMAIN out.refs'
    <3>1. PICK r, s : r = out.refs /\ s = out.refs'
      OBVIOUS
    <3>2. /\ DOMAIN s = DOMAIN r \cup {k} /\ s[k] = a
          /\ \A x \in DOMAIN r : x # k => s[x] = r[x]
      BY <2>2, <3>1 DEF Over, Entry
    <3>3. Named(code', s)
      BY <1>1, <1>4, <2>2, <3>1, <3>2 DEF Named
    <3>4. QED
      BY <1>1, <2>2, <3>1, <3>2, <3>3 DEF AddressesOK
  <2>3. QED
    BY <2>1, <2>2
<1>6. QED
  BY <1>1, <1>3, <1>5 DEF AddressesOK

\* An MCM's contract is deployed, or found in a report.
LEMMA DeployMCMKeeps ==
    ASSUME IInv, deployMCM
    PROVE  IInv'
<1>1. /\ pc = "deploy" /\ ms # <<>> /\ DeployOp(mcmKey, NewContract(MCM.t, NoRoles, Deployer))
      /\ pc' = "config" /\ reset' = reset
      /\ UNCHANGED <<ds, proposals, req, todo, ms, ts, grants, takes, out, agg, unmoved, fails>>
      /\ refToAddr' = Over(Entry(MCM.ref, DeployedAddress(mcmKey)), refToAddr)
  BY DEF deployMCM
<1>2. pc \in Busy /\ pc' \in Busy
  BY <1>1 DEF Busy
<1>3. /\ Whole(code) /\ QueueOK /\ AddressesOK /\ BehindOK /\ ch \in Chains /\ Valid(cfg)
  BY <1>2, InSequence
<1>4. ch' = ch /\ cfg' = cfg /\ MCM' = MCM
  BY <1>1, ChainStays DEF MCM
<1>5. PICK a : a = DeployedAddress(mcmKey)
  OBVIOUS
<1>6. /\ Whole(code') /\ Grown(code, reset, code', reset') /\ (\A c \in Chains : Steady(code, code', c))
      /\ a \in DOMAIN code'[ch] /\ code'[ch][a].kind = MCM.t /\ ReportsOK(code', reset', reports')
  <2>1. mcmKey.key[1] = ch /\ KindOf(mcmKey) = MCM.t /\ DOMAIN NoRoles = Roles
    BY DEF mcmKey, DeployKey, KindOf, NoRoles
  <2>2. QED
    BY <1>1, <1>3, <1>5, <2>1, DeployOpOK
<1>7. AddressesOK'
  BY <1>1, <1>2, <1>5, <1>6, AddressesAfter
<1>8. MCM \in elems(ms) /\ elems(ms) \subseteq elems(cfg.mcms)
  BY <1>1, <1>3, HeadTail DEF QueueOK, MCM
<1>9. /\ MCM.ref \in DOMAIN refToAddr' /\ refToAddr'[MCM.ref] = a
      /\ \A x \in DOMAIN refToAddr : x # MCM.ref => x \in DOMAIN refToAddr' /\ refToAddr'[x] = refToAddr[x]
  BY <1>1, <1>5 DEF Over, Entry
<1>10. QueueOK'
  BY <1>1, <1>3, <1>4 DEF QueueOK
<1>11. BehindOK'
  <2>1. TimelocksBehind' = {} /\ out.batches' = {}
    BY <1>1, <1>3, <1>4 DEF QueueOK, TimelocksBehind
  <2>2. ASSUME NEW m \in McmsBehind
        PROVE  McmDone(code', reset', refToAddr', out.refs, ch, cfg, m)
    <3>1. m \in elems(cfg.mcms) /\ m # MCM /\ m.cfg # NoConfig
      BY <1>3, <1>8 DEF McmsBehind, Valid
    <3>2. m.ref # MCM.ref
      BY <1>3, <1>8, <3>1 DEF Valid
    <3>3. McmDone(code, reset, refToAddr, out.refs, ch, cfg, m)
      BY <1>3 DEF BehindOK
    <3>4. m.ref \in DOMAIN refToAddr' /\ refToAddr'[m.ref] = refToAddr[m.ref]
          /\ <<ch, m.t, m.q>> \in DOMAIN out.refs
      BY <1>9, <3>2, <3>3 DEF McmDone
    <3>5. QED
      BY <1>3, <1>6, <3>1, <3>3, <3>4, McmKept
  <2>3. McmsBehind' = McmsBehind
    BY <1>1, <1>4 DEF McmsBehind
  <2>4. QED
    BY <1>1, <1>4, <2>1, <2>2, <2>3 DEF BehindOK
<1>12. AheadOK'
  <2>1. ConfigNext(code', refToAddr', ch, MCM)
    BY <1>6, <1>9 DEF ConfigNext
  <2>2. QED
    BY <1>1, <1>4, <2>1 DEF AheadOK, Wiring
<1>13. SequenceOK'
  BY <1>7, <1>10, <1>11, <1>12 DEF SequenceOK
<1>14. QED
  BY <1>1, <1>2, <1>6, <1>13, SequenceStep

\* Configuring an MCM, or finding it configured.
LEMMA ConfigStep ==
    ASSUME IInv, pc = "config",
           IF Reusable("config", configKey) THEN UNCHANGED <<code, reset>>
           ELSE code' = Configured /\ reset' = Replaced
    PROVE  /\ Whole(code') /\ Grown(code, reset, code', reset')
           /\ (\A c \in Chains : Steady(code, code', c))
           /\ HasConfig(code', reset', ch, refToAddr[MCM.ref], MCM.cfg)
           /\ refToAddr[MCM.ref] \in DOMAIN code[ch] /\ MCM.cfg # NoConfig
           /\ MCM \in elems(cfg.mcms)
<1>1. pc \in Busy
  BY DEF Busy
<1>2. /\ Whole(code) /\ ReportsOK(code, reset, reports) /\ QueueOK /\ AddressesOK /\ AheadOK
      /\ ch \in Chains /\ Valid(cfg)
  BY <1>1, InSequence
<1>3. PICK c, a, s : c = ch /\ a = refToAddr[MCM.ref] /\ s = MCM.cfg
  OBVIOUS
<1>4. ms # <<>> /\ MCM.ref \in DOMAIN refToAddr
  BY <1>2 DEF AheadOK, ConfigNext
<1>5. MCM \in elems(cfg.mcms) /\ s # NoConfig /\ a \in DOMAIN code[c] /\ c \in Chains
  BY <1>2, <1>3, <1>4, HeadTail DEF QueueOK, Valid, AddressesOK, MCM
<1>6. CASE Reusable("config", configKey)
  <2>1. PICK r \in reports["config"] : r.k = configKey
    BY <1>6, OutputReported
  <2>2. ConfigReportOK(code, reset, r)
    BY <1>2 DEF ReportsOK
  <2>3. HasConfig(code, reset, c, a, s)
    BY <1>3, <2>1, <2>2 DEF ConfigReportOK, configKey
  <2>4. code' = code /\ reset' = reset
    BY <1>6
  <2>5. QED
    BY <1>2, <1>3, <1>5, <2>3, <2>4, GrownSame
<1>7. CASE ~Reusable("config", configKey)
  <2>1. code' = Configured /\ reset' = Replaced
    BY <1>7
  <2>2. PICK K, X, L, Y : K = code /\ X = reset /\ L = code' /\ Y = reset'
    OBVIOUS
  <2>3. L = WithConfig(K, c, a, s)
    BY <1>3, <2>1, <2>2 DEF Configured, WithConfig
  <2>4. Y = Marked(K, X, c, a, s)
    BY <1>3, <2>1, <2>2 DEF Replaced, Marked
  <2>5. Whole(K) /\ a \in DOMAIN K[c]
    BY <1>2, <1>5, <2>2
  <2>6. Whole(L) /\ Grown(K, X, L, Y) /\ (\A d \in Chains : Steady(K, L, d)) /\ L[c][a].cfg = s
    BY <1>5, <2>3, <2>4, <2>5, ConfigSet
  <2>7. QED
    BY <1>3, <1>5, <2>2, <2>6 DEF HasConfig
<1>8. QED
  BY <1>6, <1>7

\* The MCM in progress is configured and leaves the queue.
LEMMA ConfigMCMKeeps ==
    ASSUME IInv, deployMCMWithConfig
    PROVE  IInv'
<1> DEFINE key == <<ch, MCM.t, MCM.q>>
<1>1. /\ pc = "config" /\ pc' = "deploy" /\ ms' = Tail(ms)
      /\ UNCHANGED <<ds, proposals, req, todo, ts, refToAddr, grants, takes, agg, unmoved, fails>>
      /\ Report("config", configKey, {})
      /\ out' = [out EXCEPT !.refs = Over(newAddressRef(MCM.t, MCM.q, refToAddr[MCM.ref]), @),
                            !.first = Over(@, newAddressRef(MCM.t, MCM.q, refToAddr[MCM.ref]))]
  BY DEF deployMCMWithConfig
<1>2. pc \in Busy /\ pc' \in Busy
  BY <1>1 DEF Busy
<1>3. /\ Whole(code) /\ QueueOK /\ AddressesOK /\ BehindOK /\ AheadOK /\ ch \in Chains /\ Valid(cfg)
  BY <1>2, InSequence
<1>4. ch' = ch /\ cfg' = cfg
  BY <1>1, ChainStays
<1>5. PICK a : a = refToAddr[MCM.ref]
  OBVIOUS
<1>6. /\ Whole(code') /\ Grown(code, reset, code', reset') /\ (\A c \in Chains : Steady(code, code', c))
      /\ HasConfig(code', reset', ch, a, MCM.cfg) /\ a \in DOMAIN code[ch] /\ MCM.cfg # NoConfig
      /\ MCM \in elems(cfg.mcms)
  BY <1>1, <1>5, ConfigStep DEF deployMCMWithConfig
<1>7. ms # <<>> /\ MCM.ref \in DOMAIN refToAddr /\ code[ch][a].kind = MCM.t
  BY <1>1, <1>3, <1>5 DEF AheadOK, ConfigNext
<1>8. a \in DOMAIN code'[ch] /\ code'[ch][a].kind = MCM.t
  BY <1>3, <1>6, <1>7 DEF Grown
<1>9. ReportsOK(code', reset', reports')
  <2>1. ConfigReportOK(code', reset', [k |-> configKey, out |-> {}])
    BY <1>3, <1>5, <1>6, <1>8 DEF ConfigReportOK, configKey
  <2>2. QED
    BY <1>1, <1>6, <2>1, Reported
<1>10. out.refs' = Over(Entry(key, a), out.refs) /\ out.batches' = out.batches
       /\ DOMAIN out' = {"refs", "first", "batches"}
  BY <1>1, <1>3, <1>5 DEF QueueOK, newAddressRef
<1>11. AddressesOK' /\ DOMAIN out.refs \subseteq DOMAIN out.refs'
  <2>1. key[1] = ch /\ key[2] = MCM.t
    OBVIOUS
  <2> HIDE DEF key
  <2>2. QED
    BY <1>1, <1>2, <1>6, <1>8, <1>10, <2>1, AddressesAfter
<1>12. /\ key \in DOMAIN out.refs' /\ out.refs'[key] = a
       /\ \A k \in DOMAIN out.refs : k # key => out.refs'[k] = out.refs[k]
  BY <1>10 DEF Over, Entry
<1>13. MCM \in elems(ms) /\ IsList(Tail(ms)) /\ elems(ms) = {MCM} \cup elems(Tail(ms))
  BY <1>3, <1>7, HeadTail DEF QueueOK, MCM
<1>14. QueueOK'
  BY <1>1, <1>3, <1>4, <1>7, <1>10, <1>13 DEF QueueOK
<1>15. BehindOK'
  <2>1. TimelocksBehind' = {} /\ out.batches' = {}
    BY <1>1, <1>3, <1>4, <1>7, <1>10 DEF QueueOK, TimelocksBehind
  <2>2. McmDone(code', reset', refToAddr, out.refs', ch, cfg, MCM)
    BY <1>5, <1>6, <1>7, <1>8, <1>12 DEF McmDone, McmOK
  <2>3. ASSUME NEW m \in McmsBehind
        PROVE  McmDone(code', reset', refToAddr, out.refs', ch, cfg, m)
    <3>1. m \in elems(cfg.mcms) /\ m # MCM /\ m.cfg # NoConfig
      BY <1>3, <1>13 DEF McmsBehind, Valid
    <3>2. McmDone(code, reset, refToAddr, out.refs, ch, cfg, m)
      BY <1>3 DEF BehindOK
    <3>3. m.ref \in DOMAIN refToAddr /\ <<ch, m.t, m.q>> \in DOMAIN out.refs
      BY <3>2 DEF McmDone
    <3>4. Apart(cfg) => <<ch, m.t, m.q>> # key
      BY <1>6, <3>1 DEF Apart
    <3>5. <<ch, m.t, m.q>> \in DOMAIN out.refs'
          /\ (Apart(cfg) => out.refs'[<<ch, m.t, m.q>>] = out.refs[<<ch, m.t, m.q>>])
      BY <1>11, <1>12, <3>3, <3>4
    <3>6. QED
      BY <1>3, <1>6, <3>1, <3>2, <3>3, <3>5, McmKept
  <2>4. McmsBehind' \subseteq McmsBehind \cup {MCM}
    BY <1>1, <1>4, <1>13 DEF McmsBehind
  <2>5. QED
    BY <1>1, <1>4, <2>1, <2>2, <2>3, <2>4 DEF BehindOK
<1>16. AheadOK'
  BY <1>1 DEF AheadOK, Wiring
<1>17. SequenceOK'
  BY <1>11, <1>14, <1>15, <1>16 DEF SequenceOK
<1>18. QED
  BY <1>1, <1>2, <1>6, <1>9, <1>17, SequenceStep

\* Refs other than those of MCMs do not matter to the holders.
LEMMA HoldersKept ==
    ASSUME IInv, pc \in Busy, ms = <<>>, UNCHANGED <<req, todo>>,
           \A m \in McmsBehind : refToAddr'[m.ref] = refToAddr[m.ref]
    PROVE  V' = V
<1>1. Valid(cfg) /\ cfg' = cfg
  BY InSequence, ChainStays
<1>2. McmsBehind = elems(cfg.mcms)
  BY DEF McmsBehind, elems
<1>3. PICK A, A2, t : A = refToAddr /\ A2 = refToAddr' /\ t = cfg
  OBVIOUS
<1>4. ASSUME NEW h \in AllHolders(t)
      PROVE  (IF h[1] = "ref" THEN A2[h[2]] ELSE h[2]) = (IF h[1] = "ref" THEN A[h[2]] ELSE h[2])
  <2>1. h[1] = "addr" \/ \E m \in elems(t.mcms) : m.ref = h[2]
    BY <1>1, <1>3 DEF Valid
  <2>2. QED
    BY <1>2, <1>3, <2>1
<1>5. ByMap(A2, t) = ByMap(A, t)
  BY <1>4 DEF ByMap
<1>6. QED
  BY <1>1, <1>3, <1>5 DEF V

\* The timelock in progress is one of the topology's, and not behind yet.
LEMMA TimelockAhead ==
    ASSUME IInv, pc \in Busy, ts # <<>>
    PROVE  /\ Timelock \in elems(ts) /\ Timelock \in elems(cfg.tls) /\ Timelock \notin TimelocksBehind
           /\ IsList(Tail(ts)) /\ NoRepeats(Tail(ts)) /\ elems(ts) = {Timelock} \cup elems(Tail(ts))
           /\ Timelock \notin elems(Tail(ts))
BY InSequence, HeadTail DEF QueueOK, Timelock, TimelocksBehind

\* A timelock is deployed, or found in a report.
LEMMA DeployTimelockKeeps ==
    ASSUME IInv, deployTimelock
    PROVE  IInv'
<1> DEFINE key == <<ch, "Timelock", Timelock.q>>
<1>1. /\ pc = "deploy" /\ ms = <<>> /\ ts # <<>> /\ pc' = "proxy" /\ reset' = reset
      /\ DeployOp(timelockKey, NewContract("Timelock", ConstructorRoles, Nobody))
      /\ UNCHANGED <<ds, proposals, req, todo, ms, ts, grants, takes, agg, unmoved, fails>>
      /\ refToAddr' = Over(Entry(Timelock.ref, DeployedAddress(timelockKey)), refToAddr)
      /\ out' = [out EXCEPT !.refs =
                   Over(newAddressRef("Timelock", Timelock.q, DeployedAddress(timelockKey)), @)]
  BY DEF deployTimelock
<1>2. pc \in Busy /\ pc' \in Busy
  BY <1>1 DEF Busy
<1>3. /\ Whole(code) /\ QueueOK /\ AddressesOK /\ BehindOK /\ ch \in Chains /\ Valid(cfg)
  BY <1>2, InSequence
<1>4. ch' = ch /\ cfg' = cfg /\ Timelock' = Timelock
  BY <1>1, ChainStays DEF Timelock
<1>5. PICK a : a = DeployedAddress(timelockKey)
  OBVIOUS
<1>6. /\ Whole(code') /\ Grown(code, reset, code', reset') /\ (\A c \in Chains : Steady(code, code', c))
      /\ a \in DOMAIN code'[ch] /\ code'[ch][a].kind = "Timelock" /\ ReportsOK(code', reset', reports')
  <2>1. timelockKey.key[1] = ch /\ KindOf(timelockKey) = "Timelock" /\ DOMAIN ConstructorRoles = Roles
    BY DEF timelockKey, DeployKey, KindOf, ConstructorRoles
  <2>2. QED
    BY <1>1, <1>3, <1>5, <2>1, DeployOpOK
<1>7. out.refs' = Over(Entry(key, a), out.refs) /\ out.batches' = out.batches
      /\ DOMAIN out' = {"refs", "first", "batches"}
  BY <1>1, <1>3, <1>5 DEF QueueOK, newAddressRef
<1>8. AddressesOK' /\ DOMAIN out.refs \subseteq DOMAIN out.refs'
  <2>1. key[1] = ch /\ key[2] = "Timelock"
    OBVIOUS
  <2> HIDE DEF key
  <2>2. QED
    BY <1>1, <1>2, <1>5, <1>6, <1>7, <2>1, AddressesAfter
<1>9. /\ key \in DOMAIN out.refs' /\ out.refs'[key] = a
      /\ \A k \in DOMAIN out.refs : k # key => out.refs'[k] = out.refs[k]
  BY <1>7 DEF Over, Entry
<1>10. /\ Timelock.ref \in DOMAIN refToAddr' /\ refToAddr'[Timelock.ref] = a
       /\ \A x \in DOMAIN refToAddr : x # Timelock.ref =>
             x \in DOMAIN refToAddr' /\ refToAddr'[x] = refToAddr[x]
  BY <1>1, <1>5 DEF Over, Entry
<1>11. QueueOK'
  BY <1>1, <1>3, <1>4, <1>7 DEF QueueOK
<1>12. Timelock \in elems(cfg.tls) /\ Timelock \notin TimelocksBehind
  BY <1>1, <1>2, TimelockAhead
<1>13. \A m \in McmsBehind : m.ref \in DOMAIN refToAddr' /\ refToAddr'[m.ref] = refToAddr[m.ref]
  <2> SUFFICES ASSUME NEW m \in McmsBehind
               PROVE  m.ref \in DOMAIN refToAddr' /\ refToAddr'[m.ref] = refToAddr[m.ref]
    OBVIOUS
  <2>1. m.ref \in DOMAIN refToAddr
    BY <1>3 DEF BehindOK, McmDone
  <2>2. m.ref # Timelock.ref
    BY <1>3, <1>12 DEF McmsBehind, Valid
  <2>3. QED
    BY <1>10, <2>1, <2>2
<1>14. Handled = TimelocksBehind /\ Handled \subseteq Handled'
  BY <1>1, <1>4 DEF Handled, Wiring, TimelocksBehind
<1>15. Apart(cfg) => key \notin KeysBehind
  <2> SUFFICES ASSUME Apart(cfg), key \in KeysBehind PROVE FALSE
    OBVIOUS
  <2>1. \A m \in McmsBehind : m.t # "Timelock"
    BY <1>3 DEF McmsBehind, Valid
  <2>2. \A tl \in TimelocksBehind : tl.q # Timelock.q
    BY <1>12 DEF TimelocksBehind, Apart
  <2>3. QED
    BY <1>14, <2>1, <2>2 DEF KeysBehind
<1>16. BehindOK'
  <2>1. Apart(cfg) => \A k \in DOMAIN out.refs : k \in KeysBehind => out.refs'[k] = out.refs[k]
    BY <1>9, <1>15
  <2>2. V' = V
    BY <1>1, <1>2, <1>13, HoldersKept
  <2>3. unmoved \subseteq unmoved' /\ Steady(code, code', ch)
    BY <1>1, <1>3, <1>6
  <2>4. QED
    BY <1>1, <1>2, <1>6, <1>7, <1>8, <1>13, <1>14, <2>1, <2>2, <2>3, BehindKept
<1>17. AheadOK'
  <2>1. TimelockHere(code', refToAddr', out.refs', ch, Timelock)
    BY <1>6, <1>9, <1>10 DEF TimelockHere
  <2>2. QED
    BY <1>1, <1>4, <2>1 DEF AheadOK, Wiring
<1>18. SequenceOK'
  BY <1>8, <1>11, <1>16, <1>17 DEF SequenceOK
<1>19. QED
  BY <1>1, <1>2, <1>6, <1>18, SequenceStep

\* A holder's address is the one that resolveHolders finds.
LEMMA HoldersResolved ==
    ASSUME Valid(cfg), NEW tl \in elems(cfg.tls)
    PROVE  /\ resolveHolders(tl.take) = Take(V, tl)
           /\ \A n \in 1..5 : \A h \in elems(tl.roles[RoleOrder[n]]) :
                 V[h] \in resolveHolders(tl.roles[RoleOrder[n]])
<1>1. \A n \in 1..5 : RoleOrder[n] \in Roles
  BY DEF RoleOrder, Roles
<1>2. ASSUME NEW h \in AllHolders(cfg)
      PROVE  V[h] = IF h[1] = "ref" THEN refToAddr[h[2]] ELSE h[2]
  <2>1. PICK A, t : A = refToAddr /\ t = cfg
    OBVIOUS
  <2>2. ByMap(A, t)[h] = IF h[1] = "ref" THEN A[h[2]] ELSE h[2]
    BY <2>1 DEF ByMap
  <2>3. QED
    BY <2>1, <2>2 DEF V
<1>3. \A h \in elems(tl.take) : h \in AllHolders(cfg)
  <2>1. \A h \in elems(tl.take) : h \in Holders(tl)
    BY DEF Holders
  <2>2. QED
    BY <2>1 DEF AllHolders
<1>4. \A n \in 1..5 : \A h \in elems(tl.roles[RoleOrder[n]]) : h \in AllHolders(cfg)
  BY <1>1 DEF AllHolders, Holders
<1>5. resolveHolders(tl.take) = Take(V, tl)
  BY <1>2, <1>3 DEF resolveHolders, Take
<1>6. ASSUME NEW n \in 1..5, NEW h \in elems(tl.roles[RoleOrder[n]])
      PROVE  V[h] \in resolveHolders(tl.roles[RoleOrder[n]])
  BY <1>2, <1>4 DEF resolveHolders
<1>7. QED
  BY <1>5, <1>6

\* The grants of a timelock that was just deployed, and its targets.
LEMMA GrantsBegun ==
    ASSUME IInv, pc = "proxy", NEW L, Grown(code, reset, L, reset), NEW proxy, NEW s, NEW B,
           Timelock.proxy => /\ <<ch, "CallProxy", Timelock.q>> \in DOMAIN s
                             /\ s[<<ch, "CallProxy", Timelock.q>>] \in proxy
    PROVE  /\ GrantsOK(L, s, ch, V, Timelock, tlAddr, grantRoles(proxy))
           /\ TakesOK(L, B, ch, V, Timelock, tlAddr, resolveHolders(Timelock.take))
<1>1. pc \in Busy /\ pc \in Wiring
  BY DEF Busy, Wiring
<1>2. Whole(code) /\ AddressesOK /\ AheadOK /\ ch \in Chains /\ Valid(cfg)
  BY <1>1, InSequence
<1>3. ts # <<>> /\ TimelockHere(code, refToAddr, out.refs, ch, Timelock)
  BY <1>1, <1>2 DEF AheadOK
<1>4. Timelock \in elems(cfg.tls)
  BY <1>1, <1>3, TimelockAhead
<1>5. PICK a, tl, W, c : a = tlAddr /\ tl = Timelock /\ W = V /\ c = ch
  OBVIOUS
<1>6. a \in DOMAIN code[c]
  BY <1>2, <1>3, <1>5 DEF TimelockHere, AddressesOK, tlAddr
<1>7. \A n \in Roles : code[c][a].roles[n] \subseteq L[c][a].roles[n]
  BY <1>2, <1>5, <1>6 DEF Grown
<1>8. /\ resolveHolders(tl.take) = Take(W, tl)
      /\ \A n \in 1..5 : \A h \in elems(tl.roles[RoleOrder[n]]) :
            W[h] \in resolveHolders(tl.roles[RoleOrder[n]])
  BY <1>2, <1>4, <1>5, HoldersResolved
<1>9. PICK g : g = grantRoles(proxy)
  OBVIOUS
<1>10. DOMAIN g = 1..5
  BY <1>9 DEF grantRoles
<1>11. ASSUME NEW n \in 1..5
       PROVE  \A x \in resolveHolders(tl.roles[RoleOrder[n]]) :
                 x \in L[c][a].roles[RoleOrder[n]] \cup g[n]
  <2>1. RoleOrder[n] \in Roles
    BY DEF RoleOrder, Roles
  <2>2. \A x \in resolveHolders(tl.roles[RoleOrder[n]]) : x \in Granted(n) \cup g[n]
    BY <1>5, <1>9 DEF grantRoles
  <2>3. Granted(n) \subseteq code[c][a].roles[RoleOrder[n]]
    BY <1>5 DEF Granted
  <2>4. QED
    BY <1>7, <2>1, <2>2, <2>3
<1>12. a \in g[5]
  BY <1>5, <1>9 DEF grantRoles, Granted, RoleOrder
<1>13. proxy \subseteq L[c][a].roles["EXECUTOR"] \cup g[4]
  <2>1. proxy \subseteq Granted(4) \cup g[4]
    BY <1>9 DEF grantRoles, RoleOrder
  <2>2. Granted(4) = code[c][a].roles["EXECUTOR"]
    BY <1>5 DEF Granted, RoleOrder
  <2>3. "EXECUTOR" \in Roles
    BY DEF Roles
  <2>4. QED
    BY <1>7, <2>1, <2>2, <2>3
<1>14. GrantsOK(L, s, c, W, tl, a, g)
  BY <1>5, <1>8, <1>10, <1>11, <1>12, <1>13 DEF GrantsOK
<1>15. TakesOK(L, B, c, W, tl, a, resolveHolders(tl.take))
  BY <1>8 DEF TakesOK, Accepted
<1>16. QED
  BY <1>5, <1>9, <1>14, <1>15

\* A timelock without a call proxy goes on to its grants.
LEMMA SkipCallProxyKeeps ==
    ASSUME IInv, skipCallProxy
    PROVE  IInv'
<1>1. /\ pc = "proxy" /\ ~Timelock.proxy /\ pc' = "grant"
      /\ grants' = grantRoles({}) /\ takes' = resolveHolders(Timelock.take)
      /\ UNCHANGED <<code, ds, proposals, reports, req, todo, ms, ts, refToAddr, out, agg, unmoved,
                     reset, fails>>
  BY DEF skipCallProxy, BeginGrants
<1>2. pc \in Busy /\ pc' \in Busy /\ pc \in Wiring
  BY <1>1 DEF Busy, Wiring
<1>3. /\ Whole(code) /\ ReportsOK(code, reset, reports) /\ QueueOK /\ AddressesOK /\ BehindOK /\ AheadOK
  BY <1>2, InSequence
<1>4. ch' = ch /\ cfg' = cfg /\ Timelock' = Timelock /\ V' = V /\ tlAddr' = tlAddr
  BY <1>1, ChainStays DEF Timelock, V, tlAddr
<1>5. Grown(code, reset, code, reset) /\ \A c \in Chains : Steady(code, code, c)
  BY GrownSame
<1>6. /\ GrantsOK(code, out.refs, ch, V, Timelock, tlAddr, grants')
      /\ TakesOK(code, out.batches, ch, V, Timelock, tlAddr, takes')
  BY <1>1, <1>5, GrantsBegun
<1>7. QueueOK' /\ AddressesOK'
  BY <1>1, <1>3, <1>4 DEF QueueOK, AddressesOK
<1>8. Handled' = Handled /\ McmsBehind' = McmsBehind /\ TimelocksBehind' = TimelocksBehind
  BY <1>1, <1>2, <1>4 DEF Handled, Wiring, McmsBehind, TimelocksBehind
<1>9. BehindOK'
  BY <1>1, <1>3, <1>4, <1>8 DEF BehindOK
<1>10. AheadOK'
  BY <1>1, <1>2, <1>3, <1>4, <1>6 DEF AheadOK
<1>11. SequenceOK'
  BY <1>7, <1>9, <1>10 DEF SequenceOK
<1>12. QED
  BY <1>1, <1>2, <1>3, <1>5, <1>11, SequenceStep

\* The call proxy of a timelock is deployed, or found in a report, and is to be
\* an executor.
LEMMA DeployCallProxyKeeps ==
    ASSUME IInv, deployCallProxy
    PROVE  IInv'
<1> DEFINE key == <<ch, "CallProxy", Timelock.q>>
<1>1. /\ pc = "proxy" /\ pc' = "grant" /\ reset' = reset
      /\ DeployOp(proxyKey, NewContract("CallProxy", NoRoles, Nobody))
      /\ UNCHANGED <<ds, proposals, req, todo, ms, ts, refToAddr, agg, unmoved, fails>>
      /\ out' = [out EXCEPT !.refs =
                   Over(newAddressRef("CallProxy", Timelock.q, DeployedAddress(proxyKey)), @)]
      /\ grants' = grantRoles({DeployedAddress(proxyKey)}) /\ takes' = resolveHolders(Timelock.take)
  BY DEF deployCallProxy, BeginGrants
<1>2. pc \in Busy /\ pc' \in Busy /\ pc \in Wiring /\ pc' \in Wiring
  BY <1>1 DEF Busy, Wiring
<1>3. /\ Whole(code) /\ QueueOK /\ AddressesOK /\ BehindOK /\ AheadOK /\ ch \in Chains /\ Valid(cfg)
  BY <1>2, InSequence
<1>4. ch' = ch /\ cfg' = cfg /\ Timelock' = Timelock /\ V' = V /\ tlAddr' = tlAddr
  BY <1>1, ChainStays DEF Timelock, V, tlAddr
<1>5. PICK a : a = DeployedAddress(proxyKey)
  OBVIOUS
<1>6. /\ Whole(code') /\ Grown(code, reset, code', reset') /\ (\A c \in Chains : Steady(code, code', c))
      /\ a \in DOMAIN code'[ch] /\ code'[ch][a].kind = "CallProxy" /\ ReportsOK(code', reset', reports')
  <2>1. proxyKey.key[1] = ch /\ KindOf(proxyKey) = "CallProxy" /\ DOMAIN NoRoles = Roles
    BY DEF proxyKey, DeployKey, KindOf, NoRoles
  <2>2. QED
    BY <1>1, <1>3, <1>5, <2>1, DeployOpOK
<1>7. out.refs' = Over(Entry(key, a), out.refs) /\ out.batches' = out.batches
      /\ DOMAIN out' = {"refs", "first", "batches"}
  BY <1>1, <1>3, <1>5 DEF QueueOK, newAddressRef
<1>8. AddressesOK' /\ DOMAIN out.refs \subseteq DOMAIN out.refs'
  <2>1. key[1] = ch /\ key[2] = "CallProxy"
    OBVIOUS
  <2> HIDE DEF key
  <2>2. QED
    BY <1>1, <1>2, <1>5, <1>6, <1>7, <2>1, AddressesAfter
<1>9. /\ key \in DOMAIN out.refs' /\ out.refs'[key] = a
      /\ \A k \in DOMAIN out.refs : k # key => out.refs'[k] = out.refs[k]
  BY <1>7 DEF Over, Entry
<1>10. QueueOK'
  BY <1>1, <1>3, <1>4, <1>7 DEF QueueOK
<1>11. ts # <<>> /\ TimelockHere(code, refToAddr, out.refs, ch, Timelock) /\ ms = <<>>
  BY <1>2, <1>3 DEF AheadOK
<1>12. Timelock \in elems(cfg.tls) /\ Timelock \notin TimelocksBehind
  BY <1>2, <1>11, TimelockAhead
<1>13. Handled' = Handled
  BY <1>1, <1>2, <1>4 DEF Handled, Wiring, TimelocksBehind
<1>14. Apart(cfg) => key \notin KeysBehind
  <2> SUFFICES ASSUME Apart(cfg), key \in KeysBehind PROVE FALSE
    OBVIOUS
  <2>1. \A m \in McmsBehind : m.t # "CallProxy"
    BY <1>3 DEF McmsBehind, Valid
  <2>2. \A tl \in TimelocksBehind : tl.q # Timelock.q
    BY <1>12 DEF TimelocksBehind, Apart
  <2>3. QED
    BY <2>1, <2>2 DEF KeysBehind
<1>15. BehindOK'
  <2>1. Apart(cfg) => \A k \in DOMAIN out.refs : k \in KeysBehind => out.refs'[k] = out.refs[k]
    BY <1>9, <1>14
  <2>2. \A m \in McmsBehind : m.ref \in DOMAIN refToAddr' /\ refToAddr'[m.ref] = refToAddr[m.ref]
    BY <1>1, <1>3 DEF BehindOK, McmDone
  <2>3. unmoved \subseteq unmoved' /\ Steady(code, code', ch)
    BY <1>1, <1>3, <1>6
  <2>4. QED
    BY <1>1, <1>2, <1>4, <1>6, <1>7, <1>8, <1>13, <2>1, <2>2, <2>3, BehindKept
<1>16. AheadOK'
  <2>1. PICK L, s, B : L = code' /\ s = out.refs' /\ B = out.batches'
    OBVIOUS
  <2>2. Grown(code, reset, L, reset)
    BY <1>1, <1>6, <2>1
  <2>3. key \in DOMAIN s /\ s[key] \in {a}
    BY <1>9, <2>1
  <2>4. /\ GrantsOK(L, s, ch, V, Timelock, tlAddr, grantRoles({a}))
        /\ TakesOK(L, B, ch, V, Timelock, tlAddr, resolveHolders(Timelock.take))
    BY <1>1, <2>2, <2>3, GrantsBegun
  <2>5. TimelockHere(code', refToAddr', out.refs', ch, Timelock)
    <3>1. TimelockHere(code', refToAddr, out.refs, ch, Timelock)
      BY <1>3, <1>6, <1>11, TimelockHereGrown DEF AddressesOK, TimelockHere
    <3>2. <<ch, "Timelock", Timelock.q>> # key
      OBVIOUS
    <3>3. QED
      BY <1>1, <1>8, <1>9, <3>1, <3>2 DEF TimelockHere
  <2>6. QED
    BY <1>1, <1>2, <1>4, <1>5, <1>11, <2>1, <2>4, <2>5 DEF AheadOK
<1>17. SequenceOK'
  BY <1>8, <1>10, <1>15, <1>16 DEF SequenceOK
<1>18. QED
  BY <1>1, <1>2, <1>6, <1>17, SequenceStep

\* What the wiring of a timelock keeps: its contract, the chain's contracts grown.
LEMMA InWiring ==
    ASSUME IInv, pc \in Wiring
    PROVE  /\ pc \in Busy /\ ms = <<>> /\ ts # <<>>
           /\ TimelockHere(code, refToAddr, out.refs, ch, Timelock)
           /\ tlAddr \in DOMAIN code[ch] /\ tlAddr \in Nat
           /\ Timelock \in elems(cfg.tls) /\ Timelock \notin TimelocksBehind /\ Timelock \in Handled
<1>1. pc \in Busy
  BY DEF Busy, Wiring
<1>2. Whole(code) /\ AddressesOK /\ AheadOK /\ ch \in Chains
  BY <1>1, InSequence
<1>3. ms = <<>> /\ ts # <<>> /\ TimelockHere(code, refToAddr, out.refs, ch, Timelock)
  BY <1>2 DEF AheadOK
<1>4. tlAddr \in DOMAIN code[ch]
  BY <1>2, <1>3 DEF TimelockHere, AddressesOK, tlAddr
<1>5. tlAddr \in Nat
  BY <1>2, <1>4, AddressesAreNumbers
<1>6. Timelock \in elems(cfg.tls) /\ Timelock \notin TimelocksBehind /\ Timelock \in Handled
  BY <1>1, <1>3, TimelockAhead DEF Handled
<1>7. QED
  BY <1>1, <1>3, <1>4, <1>5, <1>6

\* The next grant is of a role that has one.
LEMMA NextGrant ==
    ASSUME IInv, pc = "grant", Granting
    PROVE  NextRole \in 1..5 /\ RoleOrder[NextRole] \in Roles /\ Grantee \in grants[NextRole]
<1>1. PICK g : g = grants
  OBVIOUS
<1>2. {n \in 1..5 : g[n] # {}} # {} /\ {n \in 1..5 : g[n] # {}} \subseteq Nat
  BY <1>1 DEF Granting
<1>3. \E n \in {k \in 1..5 : g[k] # {}} : \A k \in {m \in 1..5 : g[m] # {}} : n <= k
  BY <1>2, LeastNat
<1>4. PICK n \in 1..5 : g[n] # {} /\ \A k \in 1..5 : g[k] # {} => n <= k
  BY <1>3
<1>5. \A k \in 1..(n - 1) : g[k] = {}
  BY <1>4
<1>6. NextRole \in 1..5 /\ g[NextRole] # {}
  BY <1>1, <1>4, <1>5 DEF NextRole
<1>7. QED
  BY <1>1, <1>6 DEF Grantee, RoleOrder, Roles

\* A grant that is made, or found in a report, leaves its role with the timelock.
LEMMA GrantMade ==
    ASSUME IInv, pc = "grant", Granting, NEW L,
           L = IF Reusable("grant", grantKey) THEN code ELSE RoleGranted
    PROVE  /\ Whole(L) /\ Grown(code, reset, L, reset) /\ (\A c \in Chains : Steady(code, L, c))
           /\ Grantee \in L[ch][tlAddr].roles[RoleOrder[NextRole]]
<1>1. pc \in Wiring /\ pc \in Busy
  BY DEF Wiring, Busy
<1>2. Whole(code) /\ ReportsOK(code, reset, reports) /\ ch \in Chains /\ tlAddr \in DOMAIN code[ch]
  BY <1>1, InSequence, InWiring
<1>3. NextRole \in 1..5 /\ RoleOrder[NextRole] \in Roles
  BY NextGrant
<1>4. PICK K, c, a, n, x : K = code /\ c = ch /\ a = tlAddr /\ n = RoleOrder[NextRole] /\ x = Grantee
  OBVIOUS
<1>5. CASE Reusable("grant", grantKey)
  <2>1. PICK r \in reports["grant"] : r.k = grantKey
    BY <1>5, OutputReported
  <2>2. GrantReportOK(code, r)
    BY <1>2 DEF ReportsOK
  <2>3. x \in code[c][a].roles[n]
    BY <1>4, <2>1, <2>2 DEF GrantReportOK, grantKey
  <2>4. L = code
    BY <1>5
  <2>5. QED
    BY <1>2, <1>4, <2>3, <2>4, GrownSame
<1>6. CASE ~Reusable("grant", grantKey)
  <2>1. L = WithRole(K, c, a, n, x)
    BY <1>4, <1>6 DEF RoleGranted, WithRole
  <2>2. Whole(K) /\ c \in Chains /\ a \in DOMAIN K[c] /\ n \in Roles
    BY <1>2, <1>3, <1>4
  <2>3. PICK X : X = reset
    OBVIOUS
  <2>4. Whole(L) /\ Grown(K, X, L, X) /\ (\A d \in Chains : Steady(K, L, d)) /\ x \in L[c][a].roles[n]
    BY <2>1, <2>2, RoleAdded
  <2>5. QED
    BY <1>4, <2>3, <2>4
<1>7. QED
  BY <1>5, <1>6

\* A grant leaves the list of those to be made.
LEMMA GrantRoleKeeps ==
    ASSUME IInv, grantRole
    PROVE  IInv'
<1>1. /\ pc = "grant" /\ Granting /\ pc' = pc /\ reset' = reset
      /\ code' = IF Reusable("grant", grantKey) THEN code ELSE RoleGranted
      /\ Report("grant", grantKey, {})
      /\ grants' = [grants EXCEPT ![NextRole] = @ \ {Grantee}]
      /\ UNCHANGED <<ds, proposals, req, todo, ms, ts, refToAddr, takes, out, agg, unmoved, fails>>
  BY DEF grantRole
<1>2. pc \in Busy /\ pc' \in Busy /\ pc \in Wiring
  BY <1>1 DEF Busy, Wiring
<1>3. /\ Whole(code) /\ QueueOK /\ AddressesOK /\ BehindOK /\ AheadOK /\ ch \in Chains /\ Valid(cfg)
  BY <1>2, InSequence
<1>4. ch' = ch /\ cfg' = cfg /\ Timelock' = Timelock /\ V' = V /\ tlAddr' = tlAddr
  BY <1>1, ChainStays DEF Timelock, V, tlAddr
<1>5. /\ Whole(code') /\ Grown(code, reset, code', reset') /\ (\A c \in Chains : Steady(code, code', c))
      /\ Grantee \in code'[ch][tlAddr].roles[RoleOrder[NextRole]]
  <2>1. PICK L : L = code'
    OBVIOUS
  <2>2. L = IF Reusable("grant", grantKey) THEN code ELSE RoleGranted
    BY <1>1, <2>1
  <2>3. /\ Whole(L) /\ Grown(code, reset, L, reset) /\ (\A c \in Chains : Steady(code, L, c))
        /\ Grantee \in L[ch][tlAddr].roles[RoleOrder[NextRole]]
    BY <1>1, <2>2, GrantMade
  <2>4. QED
    BY <1>1, <2>1, <2>3
<1>6. tlAddr \in DOMAIN code[ch] /\ tlAddr \in DOMAIN code'[ch] /\ NextRole \in 1..5
      /\ TimelockHere(code, refToAddr, out.refs, ch, Timelock) /\ ms = <<>> /\ ts # <<>> /\ tlAddr \in Nat
  BY <1>1, <1>2, <1>3, <1>5, InWiring, NextGrant DEF Grown
<1>7. ReportsOK(code', reset', reports')
  <2>1. GrantReportOK(code', [k |-> grantKey, out |-> {}])
    BY <1>3, <1>5, <1>6 DEF GrantReportOK, grantKey
  <2>2. QED
    BY <1>1, <1>5, <2>1, Reported
<1>8. AddressesOK' /\ DOMAIN out.refs \subseteq DOMAIN out.refs'
  BY <1>1, <1>2, <1>5, AddressesAfter
<1>9. QueueOK'
  BY <1>1, <1>3, <1>4 DEF QueueOK
<1>10. BehindOK'
  <2>1. Handled' = Handled
    BY <1>1, <1>4 DEF Handled, Wiring, TimelocksBehind
  <2>2. \A m \in McmsBehind : m.ref \in DOMAIN refToAddr' /\ refToAddr'[m.ref] = refToAddr[m.ref]
    BY <1>1, <1>3 DEF BehindOK, McmDone
  <2>3. unmoved \subseteq unmoved' /\ Steady(code, code', ch) /\ out.batches' = out.batches
        /\ (Apart(cfg) => \A k \in DOMAIN out.refs : k \in KeysBehind => out.refs'[k] = out.refs[k])
    BY <1>1, <1>3, <1>5
  <2>4. QED
    BY <1>1, <1>2, <1>4, <1>5, <1>8, <2>1, <2>2, <2>3, BehindKept
<1>11. GrantsOK(code', out.refs, ch, V, Timelock, tlAddr, grants')
  <2>1. PICK r, c, W, tl, a, g, g2, L, k, x :
          /\ r = out.refs /\ c = ch /\ W = V /\ tl = Timelock /\ a = tlAddr /\ g = grants /\ g2 = grants'
          /\ L = code' /\ k = NextRole /\ x = Grantee
    OBVIOUS
  <2>2. GrantsOK(code, r, c, W, tl, a, g) /\ c \in Chains /\ a \in DOMAIN code[c]
    BY <1>1, <1>3, <1>6, <2>1 DEF AheadOK
  <2>3. Grown(code, reset, L, reset')
    BY <1>5, <2>1
  <2>4. GrantsOK(L, r, c, W, tl, a, g)
    BY <2>2, <2>3, GrantsGrown
  <2>5. g2 = [g EXCEPT ![k] = @ \ {x}] /\ DOMAIN g = 1..5 /\ k \in 1..5
    BY <1>1, <1>6, <2>1, <2>4 DEF GrantsOK
  <2>6. x \in L[c][a].roles[RoleOrder[k]]
    BY <1>5, <2>1
  <2>7. \A n \in 1..5 : L[c][a].roles[RoleOrder[n]] \cup g[n] \subseteq L[c][a].roles[RoleOrder[n]] \cup g2[n]
    BY <2>5, <2>6
  <2>8. RoleOrder[4] = "EXECUTOR" /\ RoleOrder[5] = "ADMIN" /\ 4 \in 1..5 /\ 5 \in 1..5 /\ DOMAIN g2 = 1..5
    BY <2>5 DEF RoleOrder
  <2>9. GrantsOK(L, r, c, W, tl, a, g2)
    BY <2>4, <2>7, <2>8 DEF GrantsOK
  <2>10. QED
    BY <2>1, <2>9
<1>12. AheadOK'
  <2>1. TakesOK(code, out.batches, ch, V, Timelock, tlAddr, takes)
    BY <1>1, <1>3 DEF AheadOK
  <2>2. TakesOK(code', out.batches, ch, V, Timelock, tlAddr, takes)
    <3>1. Covers(out.batches, out.batches)
      BY DEF Covers
    <3>2. QED
      BY <1>3, <1>5, <1>6, <2>1, <3>1, TakesGrown
  <2>3. TimelockHere(code', refToAddr, out.refs, ch, Timelock)
    BY <1>3, <1>5, <1>6, TimelockHereGrown DEF tlAddr
  <2>4. QED
    BY <1>1, <1>2, <1>4, <1>6, <1>11, <2>2, <2>3 DEF AheadOK
<1>13. SequenceOK'
  BY <1>8, <1>9, <1>10, <1>12 DEF SequenceOK
<1>14. QED
  BY <1>1, <1>2, <1>5, <1>7, <1>13, SequenceStep

\* What the wiring steps that leave the timelock's refs alone find ahead.
LEMMA GrantsAhead ==
    ASSUME IInv, pc \in {"grant", "accept"}, Whole(code'), Grown(code, reset, code', reset'),
           UNCHANGED <<req, todo, ms, ts, refToAddr, grants>>, out.refs' = out.refs, pc' \in {"grant", "accept"},
           TakesOK(code', out.batches', ch, V, Timelock, tlAddr, takes'),
           pc' = "accept" => takes' # {} /\ AcceptNext(code', unmoved', ch, Target', tlAddr)
    PROVE  AheadOK'
<1>1. pc \in Wiring /\ pc' \in Wiring /\ pc \in Busy
  BY DEF Wiring, Busy
<1>2. Whole(code) /\ AheadOK /\ ch \in Chains
  BY <1>1, InSequence
<1>3. ch' = ch /\ cfg' = cfg /\ Timelock' = Timelock /\ V' = V /\ tlAddr' = tlAddr
  BY ChainStays DEF Timelock, V, tlAddr
<1>4. /\ tlAddr \in DOMAIN code[ch] /\ ms = <<>> /\ ts # <<>>
      /\ TimelockHere(code, refToAddr, out.refs, ch, Timelock)
  BY <1>1, InWiring
<1>5. TimelockHere(code', refToAddr, out.refs, ch, Timelock)
  BY <1>2, <1>4, TimelockHereGrown DEF tlAddr
<1>6. GrantsOK(code', out.refs, ch, V, Timelock, tlAddr, grants)
  <2>1. GrantsOK(code, out.refs, ch, V, Timelock, tlAddr, grants)
    BY <1>2 DEF AheadOK
  <2>2. QED
    BY <1>2, <1>4, <2>1, GrantsGrown
<1>7. QED
  BY <1>1, <1>3, <1>4, <1>5, <1>6 DEF AheadOK

\* Transferring a contract: the others of its chain are left alone.
LEMMA TransferMade ==
    ASSUME IInv, pc \in Busy, OwnerRead, NEW L,
           L = code \/ L = Transferred
    PROVE  /\ Whole(L) /\ Grown(code, reset, L, reset)
           /\ \A c \in Chains : c # ch => Steady(code, L, c)
           /\ \A b \in DOMAIN code[ch] : b # Target => L[ch][b] = code[ch][b]
<1>1. Whole(code) /\ ch \in Chains /\ Target \in DOMAIN code[ch]
  BY InSequence DEF OwnerRead
<1>2. CASE L = code
  BY <1>1, <1>2, GrownSame
<1>3. CASE L # code
  <2>1. PICK K, X, c, x, t : K = code /\ X = reset /\ c = ch /\ x = Target /\ t = tlAddr
    OBVIOUS
  <2>2. L = WithPending(K, c, x, t) /\ K[c][x].owner = Deployer
    BY <1>3, <2>1 DEF Transferred, WithPending
  <2>3. Whole(K) /\ c \in Chains /\ x \in DOMAIN K[c]
    BY <1>1, <2>1
  <2>4. /\ Whole(L) /\ Grown(K, X, L, X) /\ (\A d \in Chains : d # c => Steady(K, L, d))
        /\ \A b \in DOMAIN K[c] : b # x => L[c][b] = K[c][b]
    BY <2>2, <2>3, TransferSent
  <2>5. QED
    BY <2>1, <2>4
<1>4. QED
  BY <1>2, <1>3

\* A batch of the chain stays settled when a target of the timelock in progress is
\* transferred to it: the batch is this timelock's, or two timelocks take it.
LEMMA BatchTransferred ==
    ASSUME NEW K, NEW L, NEW c, NEW x, \A b \in DOMAIN K[c] : b # x => L[c][b] = K[c][b],
           DOMAIN K[c] \subseteq DOMAIN L[c],
           NEW U, NEW U2, U \subseteq U2, NEW r, NEW t, NEW W, NEW H, H \subseteq elems(t.tls),
           NEW b, BatchOK(K, U, r, c, t, W, H, b),
           NEW tl \in elems(t.tls), x \in Take(W, tl),
           Going(L, c, x, r[<<c, "Timelock", tl.q>>]) \/ <<c, x>> \in U2
    PROVE  BatchOK(L, U2, r, c, t, W, H, b)
<1>1. b.ch = c /\ b.to \subseteq DOMAIN K[c]
  BY DEF BatchOK
<1>2. ASSUME Apart(t), NEW y \in b.to
      PROVE  Going(L, c, y, b.tl) \/ <<c, y>> \in U2 \/ Contested(W, t, y)
  <2>1. BatchFrom(r, c, W, H, b) /\ Settled(K, U, c, W, t, b)
    BY <1>2 DEF BatchOK
  <2>2. CASE y # x
    BY <1>1, <2>1, <2>2 DEF Settled, Going
  <2>3. CASE y = x
    <3>1. PICK u \in H : b.tl = r[<<c, "Timelock", u.q>>] /\ y \in Take(W, u)
      BY <2>1 DEF BatchFrom
    <3>2. CASE u = tl
      BY <2>3, <3>1, <3>2
    <3>3. CASE u # tl
      BY <2>3, <3>1, <3>3 DEF Contested
    <3>4. QED
      BY <3>2, <3>3
  <2>4. QED
    BY <2>2, <2>3
<1>3. QED
  BY <1>1, <1>2 DEF BatchOK, Settled

\* A target that the timelock owns already is left out.
LEMMA TargetOwnedKeeps ==
    ASSUME IInv, transferContractToTimelock, code[ch][Target].owner = tlAddr
    PROVE  IInv'
<1>1. /\ pc = "grant" /\ OwnerRead /\ takes' = takes \ {Target}
      /\ UNCHANGED <<code, reports, pc, unmoved, ds, proposals, req, todo, ms, ts, refToAddr, grants, out,
                     agg, reset, fails>>
  BY DEF transferContractToTimelock
<1>2. pc \in Busy /\ pc' \in Busy /\ pc \in Wiring
  BY <1>1 DEF Busy, Wiring
<1>3. /\ Whole(code) /\ ReportsOK(code, reset, reports) /\ QueueOK /\ AddressesOK /\ BehindOK /\ AheadOK
      /\ ch \in Chains
  BY <1>2, InSequence
<1>4. ch' = ch /\ cfg' = cfg /\ Timelock' = Timelock /\ V' = V
  BY <1>1, ChainStays DEF Timelock, V
<1>5. Grown(code, reset, code', reset') /\ \A c \in Chains : Steady(code, code', c)
  BY <1>1, GrownSame
<1>6. QueueOK' /\ AddressesOK'
  BY <1>1, <1>3, <1>4 DEF QueueOK, AddressesOK
<1>7. BehindOK'
  <2>1. Handled' = Handled /\ McmsBehind' = McmsBehind /\ TimelocksBehind' = TimelocksBehind
    BY <1>1, <1>2, <1>4 DEF Handled, Wiring, McmsBehind, TimelocksBehind
  <2>2. QED
    BY <1>1, <1>3, <1>4, <2>1 DEF BehindOK
<1>8. AheadOK'
  <2>1. TakesOK(code, out.batches, ch, V, Timelock, tlAddr, takes)
    BY <1>1, <1>3 DEF AheadOK
  <2>2. TakesOK(code, out.batches, ch, V, Timelock, tlAddr, takes')
    BY <1>1, <2>1 DEF TakesOK, Accepted, OwnerRead
  <2>3. QED
    BY <1>1, <1>3, <1>5, <2>2, GrantsAhead
<1>9. SequenceOK'
  BY <1>6, <1>7, <1>8 DEF SequenceOK
<1>10. QED
  BY <1>1, <1>2, <1>3, <1>5, <1>9, SequenceStep

\* What is behind stays done as a target is transferred to the timelock in progress.
LEMMA BehindTransferred ==
    ASSUME IInv, pc = "grant", pc' = "accept", takes # {}, Whole(code'), Grown(code, reset, code', reset'),
           UNCHANGED <<req, todo, ms, ts, refToAddr, out>>,
           \A b \in DOMAIN code[ch] : b # Target => code'[ch][b] = code[ch][b],
           unmoved \subseteq unmoved', Going(code', ch, Target, tlAddr) \/ <<ch, Target>> \in unmoved'
    PROVE  BehindOK'
<1>1. pc \in Busy /\ pc \in Wiring /\ pc' \in Wiring
  BY DEF Busy, Wiring
<1>2. Whole(code) /\ QueueOK /\ AddressesOK /\ BehindOK /\ AheadOK /\ ch \in Chains /\ Valid(cfg)
  BY <1>1, InSequence
<1>3. ch' = ch /\ cfg' = cfg /\ Timelock' = Timelock /\ V' = V
  BY ChainStays DEF Timelock, V
<1>4. PICK c, t, W, A, r, H, B, x :
         /\ c = ch /\ t = cfg /\ W = V /\ A = refToAddr /\ r = out.refs /\ H = Handled /\ B = out.batches
         /\ x = Target
  OBVIOUS
<1>5. Handled' = H /\ McmsBehind' = McmsBehind /\ TimelocksBehind' = TimelocksBehind
  BY <1>1, <1>3, <1>4 DEF Handled, McmsBehind, TimelocksBehind
<1>6. ASSUME NEW m \in McmsBehind PROVE McmDone(code', reset', A, r, c, t, m)
  <2>1. McmDone(code, reset, A, r, c, t, m) /\ m.cfg # NoConfig
    BY <1>2, <1>4 DEF BehindOK, McmsBehind, Valid
  <2>2. m.ref \in DOMAIN A /\ <<c, m.t, m.q>> \in DOMAIN r /\ c \in Chains
    BY <1>2, <1>4, <2>1 DEF McmDone
  <2>3. QED
    BY <2>1, <2>2, McmKept
<1>7. ASSUME NEW u \in TimelocksBehind PROVE TimelockDone(code', r, B, c, t, W, u)
  <2>1. TimelockDone(code, r, B, c, t, W, u)
    BY <1>2, <1>4 DEF BehindOK
  <2>2. <<c, "Timelock", u.q>> \in DOMAIN r /\ c \in Chains /\ Covers(B, B)
    BY <1>2, <1>4, <2>1 DEF TimelockDone, Covers
  <2>3. QED
    BY <1>2, <2>1, <2>2, TimelockKept
<1>8. ASSUME NEW b \in B PROVE BatchOK(code', unmoved', r, c, t, W, H, b)
  <2>1. BatchOK(code, unmoved, r, c, t, W, H, b)
    BY <1>2, <1>4 DEF BehindOK
  <2>2. PICK tl : tl = Timelock
    OBVIOUS
  <2>3. tl \in elems(t.tls) /\ r[<<c, "Timelock", tl.q>>] = tlAddr
    BY <1>1, <1>4, <2>2, InWiring DEF TimelockHere, tlAddr
  <2>4. x \in Take(W, tl)
    <3>1. takes \subseteq Take(W, tl)
      BY <1>2, <1>4, <2>2 DEF AheadOK, TakesOK
    <3>2. x \in takes
      BY <1>4 DEF Target
    <3>3. QED
      BY <3>1, <3>2
  <2>5. H \subseteq elems(t.tls)
    BY <1>1, <1>4, <2>2, <2>3 DEF Handled, TimelocksBehind
  <2>6. DOMAIN code[c] \subseteq DOMAIN code'[c]
    BY <1>2, <1>4 DEF Grown
  <2>7. Going(code', c, x, r[<<c, "Timelock", tl.q>>]) \/ <<c, x>> \in unmoved'
    BY <1>4, <2>3
  <2>8. \A y \in DOMAIN code[c] : y # x => code'[c][y] = code[c][y]
    BY <1>4
  <2>9. QED
    BY <2>1, <2>3, <2>4, <2>5, <2>6, <2>7, <2>8, BatchTransferred
<1>9. QED
  BY <1>3, <1>4, <1>5, <1>6, <1>7, <1>8 DEF BehindOK

\* Any other target is transferred by the deployer, or marked as not moved.
LEMMA TargetTransferredKeeps ==
    ASSUME IInv, transferContractToTimelock, code[ch][Target].owner # tlAddr
    PROVE  IInv'
<1>1. /\ pc = "grant" /\ takes # {} /\ OwnerRead /\ takes' = takes /\ pc' = "accept"
      /\ code' = code \/ code' = Transferred
      /\ Report("transfer", ownableContractIdempotencyKey, {})
      /\ unmoved' = IF code'[ch][Target].pending = tlAddr THEN unmoved
                    ELSE unmoved \cup {<<ch, Target>>}
      /\ UNCHANGED <<ds, proposals, req, todo, ms, ts, refToAddr, grants, out, agg, reset, fails>>
  BY DEF transferContractToTimelock
<1>2. pc \in Busy /\ pc' \in Busy /\ pc \in Wiring
  BY <1>1 DEF Busy, Wiring
<1>3. /\ Whole(code) /\ QueueOK /\ AddressesOK /\ AheadOK /\ ch \in Chains
  BY <1>2, InSequence
<1>4. ch' = ch /\ cfg' = cfg /\ Target' = Target
  BY <1>1, ChainStays DEF Target
<1>5. /\ Whole(code') /\ Grown(code, reset, code', reset')
      /\ \A c \in Chains : c # ch => Steady(code, code', c)
      /\ \A b \in DOMAIN code[ch] : b # Target => code'[ch][b] = code[ch][b]
  <2>1. PICK L : L = code'
    OBVIOUS
  <2>2. L = code \/ L = Transferred
    BY <1>1, <2>1
  <2>3. /\ Whole(L) /\ Grown(code, reset, L, reset)
        /\ \A c \in Chains : c # ch => Steady(code, L, c)
        /\ \A b \in DOMAIN code[ch] : b # Target => L[ch][b] = code[ch][b]
    BY <1>1, <1>2, <2>2, TransferMade
  <2>4. QED
    BY <1>1, <2>1, <2>3
<1>6. /\ unmoved \subseteq unmoved' /\ unmoved' \subseteq unmoved \cup {<<ch, Target>>}
      /\ Going(code', ch, Target, tlAddr) \/ <<ch, Target>> \in unmoved'
  BY <1>1 DEF Going
<1>7. Target \in DOMAIN code'[ch]
  BY <1>1, <1>3, <1>5 DEF OwnerRead, Grown
<1>8. ReportsOK(code', reset', reports')
  BY <1>1, <1>5, Reported
<1>9. QueueOK'
  BY <1>1, <1>3, <1>4 DEF QueueOK
<1>10. AddressesOK'
  BY <1>1, <1>2, <1>5, AddressesAfter
<1>11. BehindOK'
  BY <1>1, <1>5, <1>6, BehindTransferred
<1>12. AheadOK'
  <2>1. tlAddr \in Nat /\ Covers(out.batches, out.batches)
    BY <1>2, InWiring DEF Covers
  <2>2. TakesOK(code, out.batches, ch, V, Timelock, tlAddr, takes)
    BY <1>1, <1>3 DEF AheadOK
  <2>3. TakesOK(code', out.batches, ch, V, Timelock, tlAddr, takes)
    BY <1>3, <1>5, <2>1, <2>2, TakesGrown
  <2>4. AcceptNext(code', unmoved', ch, Target, tlAddr)
    BY <1>6, <1>7 DEF AcceptNext
  <2>5. QED
    BY <1>1, <1>4, <1>5, <2>3, <2>4, GrantsAhead
<1>13. SequenceOK'
  BY <1>9, <1>10, <1>11, <1>12 DEF SequenceOK
<1>14. \A x \in unmoved' : x \in unmoved \/ \E y \in DOMAIN code'[ch] : x = <<ch, y>>
  BY <1>6, <1>7
<1>15. QED
  BY <1>1, <1>2, <1>5, <1>6, <1>8, <1>13, <1>14, SequenceStep

\* The batch of a timelock takes in the next target.
WithTarget(B, c, a, x) ==
    (B \ {b \in B : b.tl = a})
      \cup {[ch |-> c, tl |-> a, to |-> (UNION {b.to : b \in {d \in B : d.tl = a}}) \cup {x}]}
BatchGrown(K, U, r, c, t, W, H, B, D, a, x) ==
    /\ Covers(D, B) /\ \A b \in D : BatchOK(K, U, r, c, t, W, H, b)
    /\ \E d \in D : d.ch = c /\ d.tl = a /\ x \in d.to

\* The batch that takes in a target covers what the batches before accepted.
LEMMA BatchGrows ==
    ASSUME NEW K, NEW U, NEW r, NEW c, NEW t, NEW W, NEW H, NEW B,
           \A b \in B : BatchOK(K, U, r, c, t, W, H, b),
           NEW tl \in H, NEW x \in Take(W, tl), NEW a, a = r[<<c, "Timelock", tl.q>>], AcceptNext(K, U, c, x, a),
           NEW D, D = WithTarget(B, c, a, x)
    PROVE  BatchGrown(K, U, r, c, t, W, H, B, D, a, x)
<1> DEFINE to == (UNION {b.to : b \in {d \in B : d.tl = a}}) \cup {x}
<1>1. PICK nb : nb = [ch |-> c, tl |-> a, to |-> to]
  OBVIOUS
<1>2. nb.ch = c /\ nb.tl = a /\ nb.to = to
  BY <1>1
<1>3. D = (B \ {b \in B : b.tl = a}) \cup {nb}
  BY <1>1 DEF WithTarget
<1>4. x \in to /\ \A y \in to : y = x \/ \E b \in B : b.tl = a /\ y \in b.to
  OBVIOUS
<1>5. \A b \in B : b.tl = a => b.to \subseteq to
  OBVIOUS
<1> HIDE DEF to
<1>6. \A b \in B : b.ch = c
  BY DEF BatchOK
<1>7. Covers(D, B)
  BY <1>2, <1>3, <1>5, <1>6 DEF Covers
<1>8. \E d \in D : d.ch = c /\ d.tl = a /\ x \in d.to
  BY <1>2, <1>3, <1>4
<1>9. BatchOK(K, U, r, c, t, W, H, nb)
  <2>1. nb.to \subseteq DOMAIN K[c]
    BY <1>2, <1>4 DEF BatchOK, AcceptNext
  <2>2. ASSUME Apart(t) PROVE BatchFrom(r, c, W, H, nb)
    <3> SUFFICES ASSUME NEW y \in to
                 PROVE  \E u \in H : a = r[<<c, "Timelock", u.q>>] /\ y \in Take(W, u)
      BY <1>2 DEF BatchFrom
    <3>1. CASE y = x
      BY <3>1
    <3>2. CASE y # x
      <4>1. PICK b \in B : b.tl = a /\ y \in b.to
        BY <1>4, <3>2
      <4>2. BatchFrom(r, c, W, H, b)
        BY <2>2 DEF BatchOK
      <4>3. QED
        BY <4>1, <4>2 DEF BatchFrom
    <3>3. QED
      BY <3>1, <3>2
  <2>3. ASSUME Apart(t) PROVE Settled(K, U, c, W, t, nb)
    <3> SUFFICES ASSUME NEW y \in to
                 PROVE  Going(K, c, y, a) \/ <<c, y>> \in U \/ Contested(W, t, y)
      BY <1>2 DEF Settled
    <3>1. CASE y = x
      BY <3>1 DEF AcceptNext
    <3>2. CASE y # x
      <4>1. PICK b \in B : b.tl = a /\ y \in b.to
        BY <1>4, <3>2
      <4>2. Settled(K, U, c, W, t, b)
        BY <2>3 DEF BatchOK
      <4>3. QED
        BY <4>1, <4>2 DEF Settled
    <3>3. QED
      BY <3>1, <3>2
  <2>4. QED
    BY <1>2, <2>1, <2>2, <2>3 DEF BatchOK
<1>10. QED
  BY <1>3, <1>7, <1>8, <1>9 DEF BatchGrown

\* The next target is one of the timelock's, at the ref of the timelock in progress.
LEMMA TargetAhead ==
    ASSUME IInv, pc = "accept"
    PROVE  /\ Target \in takes /\ Target \in Take(V, Timelock) /\ takes \subseteq Take(V, Timelock)
           /\ tlAddr = out.refs[<<ch, "Timelock", Timelock.q>>]
           /\ AcceptNext(code, unmoved, ch, Target, tlAddr)
           /\ TakesOK(code, out.batches, ch, V, Timelock, tlAddr, takes)
<1>1. pc \in Wiring /\ pc \in Busy
  BY DEF Wiring, Busy
<1>2. AheadOK /\ TimelockHere(code, refToAddr, out.refs, ch, Timelock)
  BY <1>1, InSequence, InWiring
<1>3. takes # {} /\ AcceptNext(code, unmoved, ch, Target, tlAddr)
      /\ TakesOK(code, out.batches, ch, V, Timelock, tlAddr, takes)
  BY <1>2 DEF AheadOK
<1>4. Target \in takes
  BY <1>3 DEF Target
<1>5. takes \subseteq Take(V, Timelock)
  BY <1>3 DEF TakesOK
<1>6. tlAddr = out.refs[<<ch, "Timelock", Timelock.q>>]
  BY <1>2 DEF TimelockHere, tlAddr
<1>7. QED
  BY <1>3, <1>4, <1>5, <1>6

\* The target is left to the timelock's batch, or owned by now.
LEMMA AcceptOwnershipKeeps ==
    ASSUME IInv, acceptOwnership
    PROVE  IInv'
<1>1. /\ pc = "accept" /\ takes' = takes \ {Target} /\ pc' = "grant"
      /\ out' = IF code[ch][Target].owner = tlAddr THEN out
                ELSE [out EXCEPT !.batches = WithTarget(out.batches, ch, tlAddr, Target)]
      /\ UNCHANGED <<code, ds, proposals, reports, req, todo, ms, ts, refToAddr, grants, agg, unmoved,
                     reset, fails>>
  BY DEF acceptOwnership, WithTarget, Batches
<1>2. pc \in Busy /\ pc' \in Busy /\ pc \in Wiring /\ pc' \in Wiring
  BY <1>1 DEF Busy, Wiring
<1>3. /\ Whole(code) /\ ReportsOK(code, reset, reports) /\ QueueOK /\ AddressesOK /\ BehindOK /\ AheadOK
      /\ ch \in Chains
  BY <1>2, InSequence
<1>4. ch' = ch /\ cfg' = cfg /\ Timelock' = Timelock /\ V' = V
  BY <1>1, ChainStays DEF Timelock, V
<1>5. Grown(code, reset, code', reset') /\ \A c \in Chains : Steady(code, code', c)
  BY <1>1, GrownSame
<1>6. out'.refs = out.refs /\ DOMAIN out' = {"refs", "first", "batches"}
      /\ out'.batches = IF code[ch][Target].owner = tlAddr THEN out.batches
                        ELSE WithTarget(out.batches, ch, tlAddr, Target)
  <2>1. PICK o, o2, D : o = out /\ o2 = out' /\ D = WithTarget(out.batches, ch, tlAddr, Target)
    OBVIOUS
  <2>2. DOMAIN o = {"refs", "first", "batches"}
    BY <1>3, <2>1 DEF QueueOK
  <2>3. o2 = IF code[ch][Target].owner = tlAddr THEN o ELSE [o EXCEPT !.batches = D]
    BY <1>1, <2>1
  <2>4. QED
    BY <2>1, <2>2, <2>3
<1>7. /\ Target \in takes /\ Target \in Take(V, Timelock) /\ AcceptNext(code, unmoved, ch, Target, tlAddr)
      /\ tlAddr = out.refs[<<ch, "Timelock", Timelock.q>>] /\ Timelock \in Handled
      /\ TakesOK(code, out.batches, ch, V, Timelock, tlAddr, takes) /\ ms = <<>>
  BY <1>1, <1>2, TargetAhead, InWiring
<1>8. /\ Covers(out.batches', out.batches)
      /\ \A b \in out.batches' : BatchOK(code, unmoved, out.refs, ch, cfg, V, Handled, b)
      /\ \/ code[ch][Target].owner = tlAddr
         \/ \E d \in out.batches' : d.ch = ch /\ d.tl = tlAddr /\ Target \in d.to
  <2>1. \A b \in out.batches : BatchOK(code, unmoved, out.refs, ch, cfg, V, Handled, b)
    BY <1>3 DEF BehindOK
  <2>2. CASE code[ch][Target].owner = tlAddr
    BY <1>6, <2>1, <2>2 DEF Covers
  <2>3. CASE code[ch][Target].owner # tlAddr
    <3>1. PICK B, D, r, c, t, W, H, tl, a, x :
            /\ B = out.batches /\ D = out.batches' /\ r = out.refs /\ c = ch /\ t = cfg /\ W = V /\ H = Handled
            /\ tl = Timelock /\ a = tlAddr /\ x = Target
      OBVIOUS
    <3>2. /\ \A b \in B : BatchOK(code, unmoved, r, c, t, W, H, b)
          /\ tl \in H /\ x \in Take(W, tl) /\ a = r[<<c, "Timelock", tl.q>>]
          /\ AcceptNext(code, unmoved, c, x, a) /\ D = WithTarget(B, c, a, x)
      BY <1>6, <1>7, <2>1, <2>3, <3>1
    <3>3. BatchGrown(code, unmoved, r, c, t, W, H, B, D, a, x)
      BY <3>2, BatchGrows
    <3>4. QED
      BY <3>1, <3>3 DEF BatchGrown
  <2>4. QED
    BY <2>2, <2>3
<1>9. QueueOK' /\ AddressesOK'
  BY <1>1, <1>3, <1>4, <1>6, <1>7 DEF QueueOK, AddressesOK
<1>10. BehindOK'
  <2>1. Handled' = Handled /\ McmsBehind' = McmsBehind /\ TimelocksBehind' = TimelocksBehind
    BY <1>1, <1>2, <1>4 DEF Handled, McmsBehind, TimelocksBehind
  <2>2. ASSUME NEW u \in TimelocksBehind
        PROVE  TimelockDone(code, out.refs, out.batches', ch, cfg, V, u)
    <3>1. TimelockDone(code, out.refs, out.batches, ch, cfg, V, u) /\ <<ch, "Timelock", u.q>> \in DOMAIN out.refs
      BY <1>3 DEF BehindOK, TimelockDone
    <3>2. Grown(code, reset, code, reset)
      BY GrownSame
    <3>3. QED
      BY <1>3, <1>8, <3>1, <3>2, TimelockKept
  <2>3. QED
    BY <1>1, <1>3, <1>4, <1>6, <1>8, <2>1, <2>2 DEF BehindOK
<1>11. AheadOK'
  <2>1. Take(V, Timelock) \ takes' = (Take(V, Timelock) \ takes) \cup {Target}
    BY <1>1, <1>7
  <2>2. Accepted(code, ch, tlAddr, out.batches', Take(V, Timelock) \ takes)
    BY <1>7, <1>8, AcceptedCovered DEF TakesOK
  <2>3. Accepted(code, ch, tlAddr, out.batches', Take(V, Timelock) \ takes')
    BY <1>7, <1>8, <2>1, <2>2 DEF Accepted, AcceptNext
  <2>4. TakesOK(code', out.batches', ch, V, Timelock, tlAddr, takes')
    BY <1>1, <1>7, <2>3 DEF TakesOK
  <2>5. QED
    BY <1>1, <1>3, <1>5, <1>6, <2>4, GrantsAhead
<1>12. SequenceOK'
  BY <1>9, <1>10, <1>11 DEF SequenceOK
<1>13. QED
  BY <1>1, <1>2, <1>3, <1>5, <1>12, SequenceStep

\* A timelock with nothing left to grant has its roles.
LEMMA NothingLeft ==
    ASSUME NEW K, NEW r, NEW c, NEW W, NEW tl, NEW a, a \in DOMAIN K[c], K[c][a].kind = "Timelock",
           NEW g, \A n \in 1..5 : g[n] = {}, GrantsOK(K, r, c, W, tl, a, g)
    PROVE  WiredOK(K, r, c, W, tl, a)
<1>1. \A n \in Roles : \E k \in 1..5 : RoleOrder[k] = n
  BY DEF Roles, RoleOrder
<1>2. \A n \in Roles : \A h \in elems(tl.roles[n]) : W[h] \in K[c][a].roles[n]
  <2> SUFFICES ASSUME NEW n \in Roles, NEW h \in elems(tl.roles[n]) PROVE W[h] \in K[c][a].roles[n]
    OBVIOUS
  <2>1. PICK k \in 1..5 : RoleOrder[k] = n
    BY <1>1
  <2>2. W[h] \in K[c][a].roles[n] \cup g[k]
    BY <2>1 DEF GrantsOK
  <2>3. QED
    BY <2>2
<1>3. g[4] = {} /\ g[5] = {}
  OBVIOUS
<1>4. QED
  BY <1>2, <1>3 DEF WiredOK, GrantsOK

\* The timelock in progress joins those behind: its roles and targets are settled.
LEMMA TimelockDoneKeeps ==
    ASSUME IInv, timelockDone
    PROVE  IInv'
<1>1. /\ pc = "grant" /\ ~Granting /\ takes = {} /\ ts' = Tail(ts) /\ pc' = "deploy"
      /\ UNCHANGED <<code, ds, proposals, reports, req, todo, ms, refToAddr, takes, out, agg, unmoved,
                     reset, fails>>
  BY DEF timelockDone
<1>2. pc \in Busy /\ pc' \in Busy /\ pc \in Wiring /\ pc' \notin Wiring
  BY <1>1 DEF Busy, Wiring
<1>3. /\ Whole(code) /\ ReportsOK(code, reset, reports) /\ QueueOK /\ AddressesOK /\ BehindOK /\ AheadOK
      /\ ch \in Chains
  BY <1>2, InSequence
<1>4. ch' = ch /\ cfg' = cfg /\ V' = V
  BY <1>1, ChainStays DEF V
<1>5. Grown(code, reset, code', reset') /\ \A c \in Chains : Steady(code, code', c)
  BY <1>1, GrownSame
<1>6. /\ ms = <<>> /\ ts # <<>> /\ tlAddr \in DOMAIN code[ch]
      /\ TimelockHere(code, refToAddr, out.refs, ch, Timelock)
      /\ Timelock \in elems(cfg.tls) /\ IsList(Tail(ts)) /\ NoRepeats(Tail(ts))
      /\ elems(ts) = {Timelock} \cup elems(Tail(ts)) /\ Timelock \notin elems(Tail(ts))
  BY <1>2, InWiring, TimelockAhead
<1>7. TimelockDone(code, out.refs, out.batches, ch, cfg, V, Timelock)
  <2>1. PICK r, B, c, W, tl, a, g, T :
          /\ r = out.refs /\ B = out.batches /\ c = ch /\ W = V /\ tl = Timelock /\ a = tlAddr
          /\ g = grants /\ T = takes
    OBVIOUS
  <2>2. /\ a \in DOMAIN code[c] /\ code[c][a].kind = "Timelock"
        /\ <<c, "Timelock", tl.q>> \in DOMAIN r /\ r[<<c, "Timelock", tl.q>>] = a
    BY <1>6, <2>1 DEF TimelockHere, tlAddr
  <2>3. /\ \A n \in 1..5 : g[n] = {}
        /\ T = {} /\ GrantsOK(code, r, c, W, tl, a, g) /\ TakesOK(code, B, c, W, tl, a, T)
    BY <1>1, <1>3, <2>1 DEF Granting, AheadOK
  <2>4. WiredOK(code, r, c, W, tl, a)
    BY <2>2, <2>3, NothingLeft
  <2>5. Accepted(code, c, a, B, Take(W, tl))
    BY <2>3 DEF TakesOK
  <2>6. TlOK(code, r, B, c, W, tl)
    BY <2>2, <2>4, <2>5 DEF TlOK
  <2>7. QED
    BY <2>1, <2>2, <2>6 DEF TimelockDone
<1>8. QueueOK' /\ AddressesOK'
  BY <1>1, <1>3, <1>4, <1>6 DEF QueueOK, AddressesOK
<1>9. BehindOK'
  <2>1. TimelocksBehind' = TimelocksBehind \cup {Timelock} /\ McmsBehind' = McmsBehind
    BY <1>1, <1>3, <1>4, <1>6 DEF McmsBehind, TimelocksBehind
  <2>2. Handled' = Handled
    BY <1>2, <2>1 DEF Handled
  <2>3. QED
    BY <1>1, <1>3, <1>4, <1>7, <2>1, <2>2 DEF BehindOK
<1>10. AheadOK'
  BY <1>1, <1>2 DEF AheadOK
<1>11. SequenceOK'
  BY <1>8, <1>9, <1>10 DEF SequenceOK
<1>12. QED
  BY <1>1, <1>2, <1>3, <1>5, <1>11, SequenceStep

----------------------------------------------------------------------------
(* Steps between chains *)

\* The run begins with a verified input and nothing finished.
LEMMA StartKeeps ==
    ASSUME IInv, NEW i \in Inputs, Start(i)
    PROVE  IInv'
<1>1. /\ pc = "idle" /\ validateConfig(i) /\ req' = i /\ todo' = DOMAIN i.by /\ agg' = NoOutput
      /\ pc' = "chain" /\ unmoved' = {}
      /\ UNCHANGED <<code, ds, proposals, reports, ms, ts, refToAddr, grants, takes, out, reset, fails>>
  BY DEF Start, chainVars
<1>2. Whole(code) /\ RunOK /\ PlacesOK(code, ds, proposals, unmoved) /\ ReportsOK(code, reset, reports)
  BY DEF IInv
<1>3. pc' \notin Busy
  BY <1>1 DEF Busy
<1>4. RunOK'
  <2>1. refToAddr = <<>> /\ out = NoOutput /\ fails \in 0..MaxFails
    BY <1>1, <1>2 DEF RunOK
  <2>2. validateConfig(req')
    BY <1>1
  <2>3. QED
    BY <1>1, <1>3, <2>1, <2>2 DEF RunOK, validateConfig
<1>5. PlacesOK(code', ds', proposals', unmoved')
  BY <1>1, <1>2 DEF PlacesOK
<1>6. AggOK'
  <2>1. Finished' = {}
    BY <1>1 DEF Finished
  <2>2. FinishedOK(code', reset', unmoved', NoOutput, {}, req'.by)
    BY DEF FinishedOK, NoOutput, Named
  <2>3. QED
    BY <1>1, <2>1, <2>2 DEF AggOK
<1>7. SequenceOK'
  BY <1>3 DEF SequenceOK
<1>8. QED
  BY <1>1, <1>2, <1>4, <1>5, <1>6, <1>7 DEF IInv

\* The sequence of a chain begins with all its specs ahead.
LEMMA StartChainKeeps ==
    ASSUME IInv, StartChain
    PROVE  IInv'
<1>1. /\ pc = "chain" /\ todo # {} /\ ms' = cfg.mcms /\ ts' = cfg.tls /\ refToAddr' = <<>>
      /\ out' = NoOutput /\ pc' = "deploy"
      /\ UNCHANGED <<code, ds, proposals, reports, req, todo, grants, takes, agg, unmoved, reset, fails>>
  BY DEF StartChain
<1>2. /\ Whole(code) /\ RunOK /\ PlacesOK(code, ds, proposals, unmoved) /\ ReportsOK(code, reset, reports)
      /\ AggOK
  BY DEF IInv
<1>3. pc' \in Busy /\ pc' \notin Wiring
  BY <1>1 DEF Busy, Wiring
<1>4. ch' = ch /\ cfg' = cfg /\ Finished' = Finished /\ Valid(cfg)
  BY <1>1, <1>2, ChainStays, ChainAt
<1>5. RunOK'
  BY <1>1, <1>2, <1>3 DEF RunOK, validateConfig
<1>6. AggOK'
  BY <1>1, <1>2, <1>4 DEF AggOK
<1>7. QueueOK'
  BY <1>1, <1>4 DEF QueueOK, NoOutput, Valid
<1>8. AddressesOK'
  BY <1>1 DEF AddressesOK, NoOutput, Named
<1>9. BehindOK'
  <2>1. McmsBehind' = {} /\ TimelocksBehind' = {} /\ out'.batches = {}
    BY <1>1, <1>4 DEF McmsBehind, TimelocksBehind, NoOutput
  <2>2. QED
    BY <2>1 DEF BehindOK
<1>10. AheadOK'
  BY <1>1, <1>3 DEF AheadOK
<1>11. SequenceOK'
  BY <1>7, <1>8, <1>9, <1>10 DEF SequenceOK
<1>12. QED
  BY <1>1, <1>2, <1>5, <1>6, <1>11 DEF IInv

\* The output of a chain joins that of the finished chains.
Merged(g, o) ==
    [refs |-> Over(o.refs, g.refs), first |-> Over(g.first, o.first),
     batches |-> g.batches \cup o.batches]

\* Merging a chain's output leaves what is said of the other chains true.
LEMMA MergedOK ==
    ASSUME NEW K, NEW X, NEW U, NEW U2, U \subseteq U2, NEW C, NEW c, c \notin C, NEW by,
           \A d \in C \cup {c} : Valid(by[d]), NEW t, t = by[c], NEW g, FinishedOK(K, X, U, g, C, by),
           NEW o, OutputOK(K, X, o, c, t),
           Apart(t) => \A b \in o.batches : Settled(K, U2, c, ByRefs(o.refs, c, t), t, b),
           NEW g2, g2 = Merged(g, o)
    PROVE  FinishedOK(K, X, U2, g2, C \cup {c}, by)
<1>1. PICK r, s, B, D : r = o.refs /\ s = g2.refs /\ B = o.batches /\ D = g2.batches
  OBVIOUS
<1>2. /\ DOMAIN s = DOMAIN r \cup DOMAIN g.refs /\ (\A k \in DOMAIN r : s[k] = r[k])
      /\ (\A k \in DOMAIN g.refs : k \notin DOMAIN r => s[k] = g.refs[k])
      /\ D = g.batches \cup B
  BY <1>1 DEF Merged, Over
<1>3. /\ Named(K, r) /\ (\A k \in DOMAIN r : k[1] = c) /\ (\A b \in B : b.ch = c)
      /\ ChainOK(K, X, r, B, c, t)
  BY <1>1 DEF OutputOK
<1>4. /\ Named(K, g.refs) /\ (\A k \in DOMAIN g.refs : k[1] \in C) /\ (\A b \in g.batches : b.ch \in C)
      /\ \A d \in C : DoneOK(K, X, U, g, d, by[d])
  BY DEF FinishedOK
<1>5. Named(K, s)
  BY <1>2, <1>3, <1>4 DEF Named
<1>6. ASSUME NEW d \in C PROVE DoneOK(K, X, U2, g2, d, by[d])
  <2>1. PICK u, q, E : u = by[d] /\ q = g.refs /\ E = g.batches
    OBVIOUS
  <2>2. Valid(u) /\ ChainOK(K, X, q, E, d, u) /\ d # c
        /\ (Apart(u) => \A b \in E : b.ch = d => Settled(K, U, d, ByRefs(q, d, u), u, b))
    BY <1>4, <2>1 DEF DoneOK
  <2>3. /\ \A k \in DOMAIN q : k[1] = d => k \in DOMAIN s /\ s[k] = q[k]
        /\ \A b \in D : b.ch = d => b \in E
        /\ \A b \in E : b.ch = d => b \in D
    BY <1>2, <1>3, <2>1, <2>2
  <2>4. ChainOK(K, X, s, D, d, u) /\ ByRefs(s, d, u) = ByRefs(q, d, u)
    BY <2>2, <2>3, ChainLocal
  <2>5. Apart(u) => \A b \in D : b.ch = d => Settled(K, U2, d, ByRefs(s, d, u), u, b)
    BY <2>2, <2>3, <2>4 DEF Settled
  <2>6. QED
    BY <1>1, <2>1, <2>4, <2>5 DEF DoneOK
<1>7. DoneOK(K, X, U2, g2, c, t)
  <2>1. /\ \A k \in DOMAIN r : k[1] = c => k \in DOMAIN s /\ s[k] = r[k]
        /\ \A b \in D : b.ch = c => b \in B
        /\ \A b \in B : b.ch = c => b \in D
    BY <1>2, <1>4
  <2>2. Valid(t)
    OBVIOUS
  <2>3. ChainOK(K, X, s, D, c, t) /\ ByRefs(s, c, t) = ByRefs(r, c, t)
    BY <1>3, <2>1, <2>2, ChainLocal
  <2>4. Apart(t) => \A b \in D : b.ch = c => Settled(K, U2, c, ByRefs(s, c, t), t, b)
    BY <1>1, <2>1, <2>3
  <2>5. QED
    BY <1>1, <2>3, <2>4 DEF DoneOK
<1>8. QED
  BY <1>1, <1>2, <1>3, <1>4, <1>5, <1>6, <1>7 DEF FinishedOK

\* The merge of a chain that is done, seen from the state.
LEMMA ChainMerged ==
    ASSUME IInv, pc # "idle", pc' = "chain", todo # {}, NEW o, Merge(o), todo' = todo \ {ch},
           UNCHANGED <<code, req, reset>>, unmoved \subseteq unmoved', OutputOK(code, reset, o, ch, cfg),
           Apart(cfg) => \A b \in o.batches : Settled(code, unmoved', ch, ByRefs(o.refs, ch, cfg), cfg, b)
    PROVE  AggOK'
<1>1. Whole(code) /\ RunOK /\ AggOK
  BY DEF IInv
<1>2. ch \in todo /\ ch \in DOMAIN req.by /\ ch \notin Finished
      /\ \A c \in DOMAIN req.by : Valid(req.by[c])
  BY <1>1, ChainAt, RunChains
<1>3. PICK C, c, by, t, g, g2, K, X, U, U2 :
        /\ C = Finished /\ c = ch /\ by = req.by /\ t = cfg /\ g = agg /\ g2 = agg'
        /\ K = code /\ X = reset /\ U = unmoved /\ U2 = unmoved'
  OBVIOUS
<1>4. Finished' = C \cup {c}
  BY <1>2, <1>3 DEF Finished
<1>5. /\ c \notin C /\ (\A d \in C \cup {c} : Valid(by[d])) /\ t = by[c] /\ FinishedOK(K, X, U, g, C, by)
      /\ g2 = Merged(g, o)
  BY <1>1, <1>2, <1>3 DEF Finished, cfg, AggOK, Merge, Merged
<1>6. /\ U \subseteq U2 /\ OutputOK(K, X, o, c, t)
      /\ (Apart(t) => \A b \in o.batches : Settled(K, U2, c, ByRefs(o.refs, c, t), t, b))
  BY <1>3
<1>7. FinishedOK(K, X, U2, g2, C \cup {c}, by)
  BY <1>5, <1>6, MergedOK
<1>8. QED
  BY <1>3, <1>4, <1>7 DEF AggOK

\* A chain whose report is found is merged as it is: its targets that went to
\* another timelock since are marked.
LEMMA ReuseChainKeeps ==
    ASSUME IInv, ReuseChain
    PROVE  IInv'
<1>1. PICK o : o = OutputOf("chain", ChainInput)
  OBVIOUS
<1>2. /\ pc = "chain" /\ todo # {} /\ Reusable("chain", ChainInput) /\ Merge(o)
      /\ unmoved' = unmoved \cup MovedOn(o) /\ todo' = todo \ {ch}
      /\ UNCHANGED <<code, ds, proposals, reports, pc, req, ms, ts, refToAddr, grants, takes, out, reset, fails>>
  BY <1>1 DEF ReuseChain, chainVars
<1>3. /\ Whole(code) /\ RunOK /\ PlacesOK(code, ds, proposals, unmoved) /\ ReportsOK(code, reset, reports)
  BY DEF IInv
<1>4. ch \in Chains
  BY <1>2, <1>3, ChainAt
<1>5. OutputOK(code, reset, o, ch, cfg)
  <2>1. PICK r \in reports["chain"] : r.k = ChainInput /\ r.out = o
    BY <1>1, <1>2, OutputReported
  <2>2. ChainReportOK(code, reset, r)
    BY <1>3 DEF ReportsOK
  <2>3. QED
    BY <2>1, <2>2 DEF ChainReportOK, ChainInput
<1>6. \A b \in o.batches : \A x \in b.to : Going(code, ch, x, b.tl) \/ <<ch, x>> \in unmoved'
  BY <1>2 DEF MovedOn, Going
<1>7. \A b \in o.batches : Settled(code, unmoved', ch, ByRefs(o.refs, ch, cfg), cfg, b)
  BY <1>6 DEF Settled
<1>8. AggOK'
  BY <1>2, <1>5, <1>7, ChainMerged
<1>9. RunOK'
  BY <1>2, <1>3 DEF RunOK, validateConfig, Busy
<1>10. PlacesOK(code', ds', proposals', unmoved')
  <2>1. \A b \in o.batches : b.to \subseteq DOMAIN code[ch]
    BY <1>5 DEF OutputOK, ChainOK
  <2>2. \A x \in MovedOn(o) : \E y \in DOMAIN code[ch] : x = <<ch, y>>
    BY <2>1 DEF MovedOn
  <2>3. \A x \in unmoved' : x[1] \in Chains /\ x[2] \in DOMAIN code[x[1]] /\ x = <<x[1], x[2]>>
    BY <1>2, <1>3, <1>4, <2>2 DEF PlacesOK
  <2>4. QED
    BY <1>2, <1>3, <2>3 DEF PlacesOK
<1>11. SequenceOK'
  BY <1>2 DEF SequenceOK, Busy
<1>12. QED
  BY <1>2, <1>3, <1>8, <1>9, <1>10, <1>11 DEF IInv

\* With both queues empty the output of the chain is whole.
LEMMA SequenceDone ==
    ASSUME IInv, pc = "deploy", ms = <<>>, ts = <<>>
    PROVE  /\ OutputOK(code, reset, out, ch, cfg)
           /\ Apart(cfg) =>
                \A b \in out.batches : Settled(code, unmoved, ch, ByRefs(out.refs, ch, cfg), cfg, b)
<1>1. pc \in Busy /\ pc \notin Wiring
  BY DEF Busy, Wiring
<1>2. /\ Whole(code) /\ QueueOK /\ AddressesOK /\ BehindOK /\ ch \in Chains /\ Valid(cfg)
  BY <1>1, InSequence
<1>3. McmsBehind = elems(cfg.mcms) /\ TimelocksBehind = elems(cfg.tls) /\ Handled = elems(cfg.tls)
  BY <1>1 DEF McmsBehind, TimelocksBehind, Handled, elems
<1>4. PICK K, X, U, A, r, B, c, t, W :
        /\ K = code /\ X = reset /\ U = unmoved /\ A = refToAddr /\ r = out.refs /\ B = out.batches
        /\ c = ch /\ t = cfg /\ W = V
  OBVIOUS
<1>5. /\ \A m \in elems(t.mcms) : McmDone(K, X, A, r, c, t, m)
      /\ \A tl \in elems(t.tls) : TimelockDone(K, r, B, c, t, W, tl)
      /\ \A b \in B : BatchOK(K, U, r, c, t, W, elems(t.tls), b)
  BY <1>2, <1>3, <1>4 DEF BehindOK
<1>6. Named(K, r) /\ (\A k \in DOMAIN r : k[1] = c) /\ (\A b \in B : b.ch = c /\ b.to \subseteq DOMAIN K[c])
  BY <1>2, <1>4, <1>5 DEF AddressesOK, BatchOK
<1>7. Filed(r, c, t)
  BY <1>5 DEF Filed, McmDone, TimelockDone
<1>8. ASSUME Apart(t) PROVE ByRefs(r, c, t) = W
  <2>1. ASSUME NEW h \in AllHolders(t)
        PROVE  (IF h[1] = "addr" THEN h[2] ELSE r[<<c, SpecOf(t, h[2]).t, SpecOf(t, h[2]).q>>])
               = (IF h[1] = "ref" THEN A[h[2]] ELSE h[2])
    <3>1. CASE h[1] = "addr"
      BY <3>1
    <3>2. CASE h[1] # "addr"
      <4>1. PICK m : m = SpecOf(t, h[2])
        OBVIOUS
      <4>2. Valid(t)
        BY <1>2, <1>4
      <4>3. m \in elems(t.mcms) /\ m.ref = h[2] /\ h[1] = "ref"
        BY <3>2, <4>1, <4>2, HolderKinds
      <4>4. r[<<c, m.t, m.q>>] = A[m.ref]
        BY <1>5, <1>8, <4>3 DEF McmDone
      <4>5. QED
        BY <3>2, <4>1, <4>3, <4>4
    <3>3. QED
      BY <3>1, <3>2
  <2>2. ByRefs(r, c, t) = ByMap(A, t)
    BY <2>1 DEF ByRefs, ByMap
  <2>3. QED
    BY <1>4, <2>2 DEF V
<1>9. ASSUME Apart(t)
      PROVE  /\ \A m \in elems(t.mcms) : McmOK(K, X, c, r[<<c, m.t, m.q>>], m)
             /\ \A tl \in elems(t.tls) : TlOK(K, r, B, c, ByRefs(r, c, t), tl)
             /\ \A b \in B : BatchFrom(r, c, ByRefs(r, c, t), elems(t.tls), b)
             /\ \A b \in B : Settled(K, U, c, ByRefs(r, c, t), t, b)
  <2>1. \A m \in elems(t.mcms) : McmOK(K, X, c, r[<<c, m.t, m.q>>], m)
    BY <1>5, <1>9 DEF McmDone
  <2>2. \A tl \in elems(t.tls) : TlOK(K, r, B, c, W, tl)
    BY <1>5, <1>9 DEF TimelockDone
  <2>3. \A b \in B : BatchFrom(r, c, W, elems(t.tls), b) /\ Settled(K, U, c, W, t, b)
    BY <1>5, <1>9 DEF BatchOK
  <2>4. ByRefs(r, c, t) = W
    BY <1>8, <1>9
  <2>5. QED
    BY <2>1, <2>2, <2>3, <2>4
<1>10. ChainOK(K, X, r, B, c, t)
  BY <1>6, <1>7, <1>9 DEF ChainOK
<1>11. QED
  BY <1>4, <1>6, <1>9, <1>10 DEF OutputOK

\* The chain is reported and merged.
LEMMA ChainDoneKeeps ==
    ASSUME IInv, ChainDone
    PROVE  IInv'
<1>1. /\ pc = "deploy" /\ ms = <<>> /\ ts = <<>> /\ Report("chain", ChainInput, out) /\ Merge(out)
      /\ todo' = todo \ {ch} /\ pc' = "chain" /\ out' = NoOutput /\ refToAddr' = <<>>
      /\ UNCHANGED <<code, ds, proposals, req, ms, ts, grants, takes, unmoved, reset, fails>>
  BY DEF ChainDone
<1>2. pc \in Busy /\ pc' \notin Busy
  BY <1>1 DEF Busy
<1>3. /\ Whole(code) /\ RunOK /\ PlacesOK(code, ds, proposals, unmoved) /\ Valid(cfg) /\ ch \in Chains
  BY <1>2, InSequence DEF IInv
<1>4. todo # {} /\ pc # "idle"
  BY <1>1, <1>2, <1>3 DEF RunOK
<1>5. /\ OutputOK(code, reset, out, ch, cfg)
      /\ Apart(cfg) =>
           \A b \in out.batches : Settled(code, unmoved, ch, ByRefs(out.refs, ch, cfg), cfg, b)
  BY <1>1, SequenceDone
<1>6. AggOK'
  BY <1>1, <1>4, <1>5, ChainMerged
<1>7. RunOK'
  BY <1>1, <1>2, <1>3 DEF RunOK, validateConfig
<1>8. ReportsOK(code', reset', reports')
  <2>1. Grown(code, reset, code', reset')
    BY <1>1, GrownSame
  <2>2. ChainReportOK(code', reset', [k |-> ChainInput, out |-> out])
    BY <1>1, <1>3, <1>5 DEF ChainReportOK, ChainInput, Valid
  <2>3. QED
    BY <1>1, <2>1, <2>2, Reported
<1>9. SequenceOK'
  BY <1>2 DEF SequenceOK
<1>10. QED
  BY <1>1, <1>3, <1>6, <1>7, <1>8, <1>9 DEF IInv

----------------------------------------------------------------------------
(* The end of a run *)

\* The refs of the finished chains can be recorded.
LEMMA AggNamed ==
    ASSUME IInv, pc # "idle"
    PROVE  Named(code, agg.refs) /\ Named(code, Over(agg.refs, ds))
<1>1. Named(code, agg.refs) /\ Named(code, ds)
  BY DEF IInv, AggOK, FinishedOK, PlacesOK
<1>2. QED
  BY <1>1, NamedOver

\* A proposal's targets and its timelock are on its chain.
LEMMA ProposedOK ==
    ASSUME IInv, pc = "chain", NEW q, NEW p \in proposalInputForQualifier(q)
    PROVE  /\ p.ch \in Finished /\ p.ch \in Chains /\ p.to \subseteq DOMAIN code[p.ch]
           /\ p.tl = agg.refs[<<p.ch, "Timelock", q>>] /\ p.tl \in DOMAIN code[p.ch]
           /\ \E b \in agg.batches : /\ b.ch = p.ch /\ p.to = b.to
                                     /\ b.to \cap transferTargetAddressesForQualifier(b.ch, q) # {}
<1>1. RunOK /\ FinishedOK(code, reset, unmoved, agg, Finished, req.by) /\ Finished \subseteq Chains
  BY RunChains DEF IInv, AggOK
<1>2. PICK b \in batchOpsForQualifier(q) :
         p = [q |-> q, ch |-> b.ch, tl |-> ProposalTimelock(b.ch, q), to |-> b.to]
  BY DEF proposalInputForQualifier
<1>3. /\ b \in agg.batches /\ b.to \cap transferTargetAddressesForQualifier(b.ch, q) # {}
      /\ p.ch = b.ch /\ p.to = b.to /\ p.tl = agg.refs[<<b.ch, "Timelock", q>>]
  BY <1>2 DEF batchOpsForQualifier, batchOpMatchesTargets, ProposalTimelock
<1>4. PICK c, t, r : c = b.ch /\ t = req.by[c] /\ r = agg.refs
  OBVIOUS
<1>5. c \in Finished /\ ChainOK(code, reset, r, agg.batches, c, t) /\ Named(code, r)
  BY <1>1, <1>3, <1>4 DEF FinishedOK, DoneOK
<1>6. b.to \subseteq DOMAIN code[c]
  BY <1>3, <1>4, <1>5 DEF ChainOK
<1>7. \E tl \in elems(t.tls) : tl.q = q
  BY <1>3, <1>4 DEF transferTargetAddressesForQualifier
<1>8. <<c, "Timelock", q>> \in DOMAIN r
  BY <1>5, <1>7 DEF ChainOK, Filed
<1>9. r[<<c, "Timelock", q>>] \in DOMAIN code[c]
  BY <1>5, <1>8 DEF Named
<1>10. QED
  BY <1>1, <1>3, <1>4, <1>5, <1>6, <1>9

\* The run returns its refs and proposals.
LEMMA BuildOutputKeeps ==
    ASSUME IInv, buildOutput
    PROVE  IInv'
<1>1. /\ pc = "chain" /\ ds' = Over(agg.refs, ds)
      /\ pc' = "idle" /\ todo' = {} /\ req' = NoInput /\ agg' = NoOutput
      /\ UNCHANGED <<code, reports, refToAddr, out, unmoved, reset, fails>>
      /\ proposals' = proposals \cup
            IF req.mcms THEN UNION {proposalInputForQualifier(q) : q \in sortedQualifiersWithTransfers}
            ELSE {}
  BY DEF buildOutput, End, chainVars
<1>2. Whole(code) /\ RunOK /\ PlacesOK(code, ds, proposals, unmoved) /\ ReportsOK(code, reset, reports)
  BY DEF IInv
<1>3. RunOK'
  BY <1>1, <1>2 DEF RunOK, Busy
<1>4. PlacesOK(code', ds', proposals', unmoved')
  <2>1. Named(code, ds')
    BY <1>1, AggNamed
  <2>2. \A p \in proposals' : \/ p \in proposals
                              \/ \E q \in sortedQualifiersWithTransfers : p \in proposalInputForQualifier(q)
    BY <1>1
  <2>3. ASSUME NEW p \in proposals'
        PROVE  p.ch \in Chains /\ p.to \subseteq DOMAIN code[p.ch] /\ p.tl \in DOMAIN code[p.ch]
    <3>1. CASE p \in proposals
      BY <1>2, <3>1 DEF PlacesOK
    <3>2. ASSUME NEW q, p \in proposalInputForQualifier(q)
          PROVE  p.ch \in Chains /\ p.to \subseteq DOMAIN code[p.ch] /\ p.tl \in DOMAIN code[p.ch]
      BY <1>1, <3>2, ProposedOK
    <3>3. QED
      BY <2>2, <3>1, <3>2
  <2>4. QED
    BY <1>1, <1>2, <2>1, <2>3 DEF PlacesOK
<1>5. AggOK' /\ SequenceOK'
  BY <1>1 DEF AggOK, SequenceOK, Busy
<1>6. QED
  BY <1>1, <1>2, <1>3, <1>4, <1>5 DEF IInv

\* The run ends early: what the contracts, the datastore and the bundle keep is true.
LEMMA EndedEarly ==
    ASSUME IInv, Whole(code'), Grown(code, reset, code', reset'), Named(code', ds'), Reset,
           UNCHANGED <<proposals, unmoved>>, reports' \in {reports, NoReports},
           fails < MaxFails, fails' = fails + 1
    PROVE  IInv'
<1>1. RunOK /\ PlacesOK(code, ds, proposals, unmoved) /\ ReportsOK(code, reset, reports) /\ Whole(code)
  BY DEF IInv
<1>2. /\ pc' = "idle" /\ todo' = {} /\ req' = NoInput /\ agg' = NoOutput /\ refToAddr' = <<>>
      /\ out' = NoOutput
  BY DEF Reset, End
<1>3. fails' \in 0..MaxFails
  <2>1. fails \in 0..MaxFails /\ MaxFails \in Nat
    BY <1>1, BoundsAssumption DEF RunOK
  <2>2. QED
    BY <2>1
<1>4. RunOK'
  BY <1>2, <1>3 DEF RunOK, Busy
<1>5. PlacesOK(code', ds', proposals', unmoved')
  <2>1. PlacesOK(code', ds, proposals, unmoved)
    BY <1>1, PlacesGrown
  <2>2. QED
    BY <2>1 DEF PlacesOK
<1>6. ReportsOK(code', reset', reports')
  BY <1>1, ReportsGrown, NoReportsOK
<1>7. AggOK' /\ SequenceOK'
  BY <1>2 DEF AggOK, SequenceOK, Busy
<1>8. QED
  BY <1>4, <1>5, <1>6, <1>7 DEF IInv

\* A failed run records the refs of its finished chains, or nothing.
LEMMA FailKeeps ==
    ASSUME IInv, Fail
    PROVE  IInv'
<1>1. /\ pc # "idle" /\ fails < MaxFails /\ fails' = fails + 1 /\ Reset
      /\ ds' = ds \/ ds' = Over(agg.refs, ds)
      /\ reports' \in {reports, NoReports} /\ UNCHANGED <<code, proposals, unmoved, reset>>
  BY DEF Fail, ErrorRefs
<1>2. Whole(code) /\ Named(code, ds)
  BY DEF IInv, PlacesOK
<1>3. Named(code', ds')
  BY <1>1, <1>2, AggNamed
<1>4. Whole(code') /\ Grown(code, reset, code', reset')
  BY <1>1, <1>2, GrownSame
<1>5. QED
  BY <1>1, <1>3, <1>4, EndedEarly

\* So does a run whose last transaction's result is lost, and records nothing.
LEMMA ResultLost ==
    ASSUME IInv, NEW c, NEW s, LoseResult(c, s), Whole(c), Grown(code, reset, c, s)
    PROVE  IInv'
<1>1. /\ code' = c /\ reset' = s /\ fails < MaxFails /\ fails' = fails + 1 /\ Reset
      /\ reports' \in {reports, NoReports} /\ UNCHANGED <<ds, proposals, unmoved>>
  BY DEF LoseResult
<1>2. Whole(code') /\ Grown(code, reset, code', reset')
  BY <1>1
<1>3. Named(code', ds')
  BY <1>1, <1>2, NamedGrown DEF IInv, PlacesOK
<1>4. QED
  BY <1>1, <1>2, <1>3, EndedEarly

\* A deployment whose result is lost.
LEMMA DeployLost ==
    ASSUME IInv, pc \in Busy, NEW k, NEW kd, k.key[1] = ch, KindOf(k) = kd,
           NEW roles, DOMAIN roles = Roles, NEW owner,
           LoseResult(Deployed(k, NewContract(kd, roles, owner)), reset)
    PROVE  IInv'
<1>1. ch \in Chains
  BY InSequence
<1>2. PICK L : L = Deployed(k, NewContract(kd, roles, owner))
  OBVIOUS
<1>3. PICK a : a = DeployedAddress(k)
  OBVIOUS
<1>4. Whole(L) /\ Grown(code, reset, L, reset)
  <2>1. DeployResult(L, k, kd, a)
    BY <1>1, <1>2, <1>3, DeployedOK
  <2>2. QED
    BY <2>1 DEF DeployResult
<1>5. LoseResult(L, reset)
  BY <1>2
<1>6. QED
  BY <1>4, <1>5, ResultLost

\* Whatever transaction is mined and lost.
LEMMA LoseKeeps ==
    ASSUME IInv, Lose
    PROVE  IInv'
<1>1. ASSUME LoseDeployMCM PROVE IInv'
  <2>1. pc \in Busy /\ LoseResult(Deployed(mcmKey, NewContract(MCM.t, NoRoles, Deployer)), reset)
    BY <1>1 DEF LoseDeployMCM, Busy
  <2>2. mcmKey.key[1] = ch /\ KindOf(mcmKey) = MCM.t /\ DOMAIN NoRoles = Roles
    BY DEF mcmKey, DeployKey, KindOf, NoRoles
  <2>3. QED
    BY <2>1, <2>2, DeployLost
<1>2. ASSUME LoseConfig PROVE IInv'
  <2>1. pc = "config" /\ ~Reusable("config", configKey) /\ LoseResult(Configured, Replaced)
    BY <1>2 DEF LoseConfig
  <2>2. code' = Configured /\ reset' = Replaced
    BY <2>1 DEF LoseResult
  <2>3. Whole(code') /\ Grown(code, reset, code', reset')
    BY <2>1, <2>2, ConfigStep
  <2>4. QED
    BY <2>1, <2>2, <2>3, ResultLost
<1>3. ASSUME LoseDeployTimelock PROVE IInv'
  <2>1. /\ pc \in Busy
        /\ LoseResult(Deployed(timelockKey, NewContract("Timelock", ConstructorRoles, Nobody)), reset)
    BY <1>3 DEF LoseDeployTimelock, Busy
  <2>2. timelockKey.key[1] = ch /\ KindOf(timelockKey) = "Timelock" /\ DOMAIN ConstructorRoles = Roles
    BY DEF timelockKey, DeployKey, KindOf, ConstructorRoles
  <2>3. QED
    BY <2>1, <2>2, DeployLost
<1>4. ASSUME LoseDeployCallProxy PROVE IInv'
  <2>1. pc \in Busy /\ LoseResult(Deployed(proxyKey, NewContract("CallProxy", NoRoles, Nobody)), reset)
    BY <1>4 DEF LoseDeployCallProxy, Busy
  <2>2. proxyKey.key[1] = ch /\ KindOf(proxyKey) = "CallProxy" /\ DOMAIN NoRoles = Roles
    BY DEF proxyKey, DeployKey, KindOf, NoRoles
  <2>3. QED
    BY <2>1, <2>2, DeployLost
<1>5. ASSUME LoseGrant PROVE IInv'
  <2>1. pc = "grant" /\ Granting /\ ~Reusable("grant", grantKey) /\ LoseResult(RoleGranted, reset)
    BY <1>5 DEF LoseGrant
  <2>2. PICK L : L = RoleGranted
    OBVIOUS
  <2>3. L = IF Reusable("grant", grantKey) THEN code ELSE RoleGranted
    BY <2>1, <2>2
  <2>4. /\ Whole(L) /\ Grown(code, reset, L, reset) /\ (\A c \in Chains : Steady(code, L, c))
        /\ Grantee \in L[ch][tlAddr].roles[RoleOrder[NextRole]]
    BY <2>1, <2>3, GrantMade
  <2>5. QED
    BY <2>1, <2>2, <2>4, ResultLost
<1>6. ASSUME LoseTransfer PROVE IInv'
  <2>1. pc \in Busy /\ OwnerRead /\ LoseResult(Transferred, reset)
    BY <1>6 DEF LoseTransfer, Busy
  <2>2. PICK L : L = Transferred
    OBVIOUS
  <2>3. /\ Whole(L) /\ Grown(code, reset, L, reset)
        /\ \A c \in Chains : c # ch => Steady(code, L, c)
        /\ \A b \in DOMAIN code[ch] : b # Target => L[ch][b] = code[ch][b]
    BY <2>1, <2>2, TransferMade
  <2>4. QED
    BY <2>1, <2>2, <2>3, ResultLost
<1>7. QED
  BY <1>1, <1>2, <1>3, <1>4, <1>5, <1>6 DEF Lose

\* A fresh bundle between runs.
LEMMA NewBundleKeeps ==
    ASSUME IInv, NewBundle
    PROVE  IInv'
<1>1. /\ pc = "idle" /\ fails < MaxFails /\ fails' = fails + 1 /\ reports' = NoReports
      /\ UNCHANGED <<code, ds, proposals, pc, req, todo, refToAddr, out, agg, unmoved, reset>>
  BY DEF NewBundle, chainVars
<1>2. Whole(code) /\ RunOK /\ PlacesOK(code, ds, proposals, unmoved)
  BY DEF IInv
<1>3. fails' \in 0..MaxFails
  <2>1. fails \in 0..MaxFails /\ MaxFails \in Nat
    BY <1>2, BoundsAssumption DEF RunOK
  <2>2. QED
    BY <1>1, <2>1
<1>4. RunOK'
  BY <1>1, <1>2, <1>3 DEF RunOK, Busy
<1>5. AggOK' /\ SequenceOK'
  BY <1>1 DEF AggOK, SequenceOK, Busy
<1>6. ReportsOK(code', reset', reports')
  BY <1>1, NoReportsOK
<1>7. QED
  BY <1>1, <1>2, <1>4, <1>5, <1>6 DEF IInv

----------------------------------------------------------------------------
(* A proposal is executed, at any time *)

\* The sequence of a chain goes on as contracts grow and none is turned away.
LEMMA SequenceGrown ==
    ASSUME IInv, Whole(code'), Grown(code, reset, code', reset'),
           \A c \in Chains : Steady(code, code', c),
           UNCHANGED <<pc, req, todo, ms, ts, refToAddr, grants, takes, out, unmoved>>
    PROVE  SequenceOK'
<1> SUFFICES ASSUME pc \in Busy PROVE SequenceOK'
  BY DEF SequenceOK
<1>1. /\ Whole(code) /\ QueueOK /\ AddressesOK /\ BehindOK /\ AheadOK /\ ch \in Chains
  BY InSequence
<1>2. /\ ch' = ch /\ cfg' = cfg /\ Timelock' = Timelock /\ MCM' = MCM /\ V' = V /\ tlAddr' = tlAddr
      /\ Target' = Target
  BY ChainStays DEF Timelock, MCM, V, tlAddr, Target
<1>3. QueueOK' /\ AddressesOK'
  BY <1>1, <1>2, AddressesAfter DEF QueueOK
<1>4. BehindOK'
  <2>1. Handled' = Handled
    BY <1>2 DEF Handled, TimelocksBehind
  <2>2. \A m \in McmsBehind : m.ref \in DOMAIN refToAddr' /\ refToAddr'[m.ref] = refToAddr[m.ref]
    BY <1>1 DEF BehindOK, McmDone
  <2>3. /\ unmoved \subseteq unmoved' /\ Steady(code, code', ch) /\ out.batches' = out.batches
        /\ DOMAIN out.refs \subseteq DOMAIN out.refs'
        /\ (Apart(cfg) => \A k \in DOMAIN out.refs : k \in KeysBehind => out.refs'[k] = out.refs[k])
    BY <1>1
  <2>4. QED
    BY <1>2, <2>1, <2>2, <2>3, BehindKept
<1>5. AheadOK'
  <2>1. ASSUME pc = "config" PROVE ms # <<>> /\ ConfigNext(code', refToAddr, ch, MCM)
    <3>1. ms # <<>> /\ ConfigNext(code, refToAddr, ch, MCM)
      BY <1>1, <2>1 DEF AheadOK
    <3>2. refToAddr[MCM.ref] \in DOMAIN code[ch]
      BY <1>1, <3>1 DEF ConfigNext, AddressesOK
    <3>3. QED
      BY <1>1, <3>1, <3>2, ConfigNextGrown
  <2>2. ASSUME pc \in Wiring
        PROVE  ms = <<>> /\ ts # <<>> /\ TimelockHere(code', refToAddr, out.refs, ch, Timelock)
               /\ tlAddr \in DOMAIN code[ch] /\ tlAddr \in Nat
    <3>1. ms = <<>> /\ ts # <<>> /\ TimelockHere(code, refToAddr, out.refs, ch, Timelock)
          /\ tlAddr \in DOMAIN code[ch] /\ tlAddr \in Nat
      BY <2>2, InWiring
    <3>2. TimelockHere(code', refToAddr, out.refs, ch, Timelock)
      BY <1>1, <3>1, TimelockHereGrown DEF tlAddr
    <3>3. QED
      BY <3>1, <3>2
  <2>3. ASSUME pc \in {"grant", "accept"}
        PROVE  /\ GrantsOK(code', out.refs, ch, V, Timelock, tlAddr, grants)
               /\ TakesOK(code', out.batches, ch, V, Timelock, tlAddr, takes)
    <3>1. tlAddr \in DOMAIN code[ch] /\ tlAddr \in Nat
      BY <2>2, <2>3 DEF Wiring
    <3>2. /\ GrantsOK(code, out.refs, ch, V, Timelock, tlAddr, grants)
          /\ TakesOK(code, out.batches, ch, V, Timelock, tlAddr, takes)
      BY <1>1, <2>3 DEF AheadOK
    <3>3. Covers(out.batches, out.batches)
      BY DEF Covers
    <3>4. GrantsOK(code', out.refs, ch, V, Timelock, tlAddr, grants)
      BY <1>1, <3>1, <3>2, GrantsGrown
    <3>5. TakesOK(code', out.batches, ch, V, Timelock, tlAddr, takes)
      BY <1>1, <3>1, <3>2, <3>3, TakesGrown
    <3>6. QED
      BY <3>4, <3>5
  <2>4. ASSUME pc = "accept" PROVE takes # {} /\ AcceptNext(code', unmoved, ch, Target, tlAddr)
    <3>1. takes # {} /\ AcceptNext(code, unmoved, ch, Target, tlAddr)
      BY <1>1, <2>4 DEF AheadOK
    <3>2. tlAddr \in Nat /\ Steady(code, code', ch)
      BY <1>1, <2>2, <2>4 DEF Wiring
    <3>3. AcceptNext(code', unmoved, ch, Target, tlAddr)
      BY <1>1, <3>1, <3>2, AcceptNextGrown
    <3>4. QED
      BY <3>1, <3>3
  <2>5. QED
    BY <1>2, <2>1, <2>2, <2>3, <2>4 DEF AheadOK
<1>6. QED
  BY <1>3, <1>4, <1>5 DEF SequenceOK

\* A timelock accepts the contracts of a proposal, whatever the run is at.
LEMMA ExecuteBatchKeeps ==
    ASSUME IInv, NEW p \in proposals, ExecuteBatch(p)
    PROVE  IInv'
<1>1. /\ (\A x \in p.to : code[p.ch][x].pending = p.tl)
      /\ code' = WithOwner(code, p.ch, p.to, p.tl) /\ proposals' = proposals \ {p}
      /\ UNCHANGED <<ds, reports, pc, req, todo, ms, ts, refToAddr, grants, takes, out, agg, unmoved, reset,
                     fails>>
  BY DEF ExecuteBatch, WithOwner, chainVars
<1>2. /\ Whole(code) /\ RunOK /\ PlacesOK(code, ds, proposals, unmoved) /\ ReportsOK(code, reset, reports)
      /\ AggOK
  BY DEF IInv
<1>3. /\ Whole(code') /\ Grown(code, reset, code', reset') /\ (\A c \in Chains : Steady(code, code', c))
  <2>1. PICK K, L, X, c, T, t :
          K = code /\ L = code' /\ X = reset /\ c = p.ch /\ T = p.to /\ t = p.tl
    OBVIOUS
  <2>2. c \in Chains /\ t \in DOMAIN K[c] /\ Whole(K)
    BY <1>2, <2>1 DEF PlacesOK
  <2>3. t \in Nat
    BY <2>2, AddressesAreNumbers
  <2>4. (\A x \in T : K[c][x].pending = t) /\ L = WithOwner(K, c, T, t)
    BY <1>1, <2>1
  <2>5. Whole(L) /\ Grown(K, X, L, X) /\ \A d \in Chains : Steady(K, L, d)
    BY <2>2, <2>3, <2>4, OwnershipAccepted
  <2>6. QED
    BY <1>1, <2>1, <2>5
<1>4. RunOK'
  BY <1>1, <1>2 DEF RunOK, validateConfig
<1>5. PlacesOK(code', ds', proposals', unmoved')
  <2>1. PlacesOK(code', ds, proposals, unmoved)
    BY <1>2, <1>3, PlacesGrown
  <2>2. QED
    BY <1>1, <2>1 DEF PlacesOK
<1>6. ReportsOK(code', reset', reports')
  BY <1>1, <1>2, <1>3, ReportsGrown
<1>7. AggOK'
  <2> SUFFICES ASSUME pc # "idle"
               PROVE  FinishedOK(code', reset', unmoved', agg', Finished', req'.by)
    BY <1>1 DEF AggOK
  <2>1. PICK C, by : C = Finished /\ by = req.by
    OBVIOUS
  <2>2. C \subseteq Chains /\ (\A c \in C : Valid(by[c])) /\ \A c \in C : Steady(code, code', c)
    BY <1>2, <1>3, <2>1, RunChains DEF Finished
  <2>3. FinishedOK(code, reset, unmoved, agg, C, by)
    BY <1>2, <2>1 DEF AggOK
  <2>4. FinishedOK(code', reset', unmoved, agg, C, by)
    BY <1>2, <1>3, <2>2, <2>3, FinishedGrown
  <2>5. QED
    BY <1>1, <2>1, <2>4 DEF Finished
<1>8. SequenceOK'
  BY <1>1, <1>3, SequenceGrown
<1>9. QED
  BY <1>3, <1>4, <1>5, <1>6, <1>7, <1>8 DEF IInv

----------------------------------------------------------------------------
(* The invariant *)

\* The tokens are there and nothing has run.
LEMMA InitIInv ==
    ASSUME Init
    PROVE  IInv
<1>1. IsContract(Token)
  BY NewIsContract DEF Token, NoRoles
<1>2. IsList(<<Token>>) /\ DOMAIN <<Token>> = {1}
  <2>1. PICK x : x = Token
    OBVIOUS
  <2>2. <<x>> \in Seq({x}) /\ DOMAIN <<x>> = {1}
    OBVIOUS
  <2>3. QED
    BY <2>1, <2>2, ListOf
<1>3. Whole(code)
  BY <1>1, <1>2 DEF Init, Whole
<1>4. RunOK
  BY BoundsAssumption DEF Init, RunOK, Busy
<1>5. PlacesOK(code, ds, proposals, unmoved)
  BY DEF Init, PlacesOK, Named
<1>6. ReportsOK(code, reset, reports)
  BY NoReportsOK DEF Init
<1>7. AggOK /\ SequenceOK
  BY DEF Init, AggOK, SequenceOK, Busy
<1>8. QED
  BY <1>3, <1>4, <1>5, <1>6, <1>7 DEF IInv

\* A stuttering step changes nothing that the invariant is about.
LEMMA StutterKeeps ==
    ASSUME IInv, UNCHANGED vars
    PROVE  IInv'
<1>1. /\ Grown(code, reset, code', reset') /\ \A c \in Chains : Steady(code, code', c)
  BY GrownSame DEF vars
<1>2. /\ Whole(code) /\ RunOK /\ PlacesOK(code, ds, proposals, unmoved) /\ ReportsOK(code, reset, reports)
      /\ AggOK
  BY DEF IInv
<1>3. Whole(code')
  BY <1>2 DEF vars
<1>4. SequenceOK'
  BY <1>1, <1>3, SequenceGrown DEF vars, chainVars
<1>5. RunOK'
  BY <1>2 DEF RunOK, validateConfig, vars, chainVars
<1>6. AggOK'
  BY <1>2 DEF AggOK, Finished, vars
<1>7. QED
  BY <1>2, <1>3, <1>4, <1>5, <1>6 DEF IInv, vars

\* One step per action.
LEMMA NextIInv ==
    ASSUME IInv, [Next]_vars
    PROVE  IInv'
<1>1. ASSUME NEW i \in Inputs, Start(i) PROVE IInv'
  BY <1>1, StartKeeps
<1>2. ASSUME ReuseChain \/ StartChain \/ ChainDone \/ buildOutput PROVE IInv'
  BY <1>2, ReuseChainKeeps, StartChainKeeps, ChainDoneKeeps, BuildOutputKeeps
<1>3. ASSUME deployMCM \/ deployMCMWithConfig \/ deployTimelock \/ deployCallProxy \/ skipCallProxy
      PROVE  IInv'
  BY <1>3, DeployMCMKeeps, ConfigMCMKeeps, DeployTimelockKeeps, DeployCallProxyKeeps, SkipCallProxyKeeps
<1>4. ASSUME grantRole \/ transferContractToTimelock \/ acceptOwnership \/ timelockDone
      PROVE  IInv'
  BY <1>4, GrantRoleKeeps, TargetOwnedKeeps, TargetTransferredKeeps, AcceptOwnershipKeeps, TimelockDoneKeeps
<1>5. ASSUME Fail \/ Lose \/ NewBundle PROVE IInv'
  BY <1>5, FailKeeps, LoseKeeps, NewBundleKeeps
<1>6. ASSUME NEW p \in proposals, ExecuteBatch(p) PROVE IInv'
  BY <1>6, ExecuteBatchKeeps
<1>7. CASE UNCHANGED vars
  BY <1>7, StutterKeeps
<1>8. QED
  BY <1>1, <1>2, <1>3, <1>4, <1>5, <1>6, <1>7 DEF Next, Run

\* The invariant holds in every reachable state.
THEOREM Invariance == Spec => []IInv
<1>1. Init => IInv
  BY InitIInv
<1>2. IInv /\ [Next]_vars => IInv'
  BY NextIInv
<1>3. QED
  BY <1>1, <1>2, PTL DEF Spec

----------------------------------------------------------------------------
(* What the runs check *)

\* The refs of a run and of the datastore point at contracts of the type they are
\* filed under, and every address of the run is a deployed contract.
THEOREM TypeCorrect == Spec => []TypeOK
<1>1. ASSUME IInv PROVE TypeOK
  <2>1. RunOK /\ PlacesOK(code, ds, proposals, unmoved)
    BY <1>1 DEF IInv
  <2>2. pc # "idle" => Named(code, agg.refs)
    BY <1>1, AggNamed
  <2>3. pc \in Busy => AddressesOK
    BY <1>1, InSequence
  <2>4. pc \in {"idle", "chain", "deploy", "config", "proxy", "grant", "accept"}
    BY <2>1 DEF RunOK, Busy
  <2>5. pc \notin Busy => refToAddr = <<>> /\ out = NoOutput
    BY <2>1 DEF RunOK
  <2>6. req \in Inputs \cup {NoInput} /\ (pc = "idle" <=> req = NoInput) /\ fails \in 0..MaxFails
    BY <2>1, ValuesAssumption DEF RunOK
  <2>7. todo \subseteq Chains
    BY <2>1, RunChains DEF RunOK
  <2>8. Named(code, NoOutput.refs) /\ DOMAIN NoOutput.refs = {}
    BY DEF Named, NoOutput
  <2>9. Named(code, ds) /\ Named(code, agg.refs) /\ Named(code, out.refs)
    <3>1. Named(code, agg.refs)
      BY <2>1, <2>2, <2>8 DEF RunOK
    <3>2. Named(code, out.refs)
      BY <2>3, <2>5, <2>8 DEF AddressesOK
    <3>3. QED
      BY <2>1, <3>1, <3>2 DEF PlacesOK
  <2>10. \A r \in {ds, agg.refs, out.refs} : \A k \in DOMAIN r :
            r[k] \in DOMAIN code[k[1]] /\ code[k[1]][r[k]].kind = k[2]
    BY <2>9 DEF Named
  <2>11. \A r \in DOMAIN refToAddr : refToAddr[r] \in DOMAIN code[ch]
    <3>1. CASE pc \in Busy
      BY <2>3, <3>1 DEF AddressesOK
    <3>2. CASE pc \notin Busy
      BY <2>5, <3>2
    <3>3. QED
      BY <3>1, <3>2
  <2>12. \A p \in proposals : p.to \subseteq DOMAIN code[p.ch]
    BY <2>1 DEF PlacesOK
  <2>13. unmoved \subseteq UNION {{c} \X DOMAIN code[c] : c \in Chains}
    BY <2>1 DEF PlacesOK
  <2>14. QED
    BY <2>4, <2>6, <2>7, <2>10, <2>11, <2>12, <2>13 DEF TypeOK
<1>2. QED
  BY <1>1, Invariance, PTL

\* The address of a holder, as the recorded refs say and as the proofs do.
LEMMA RecordedIs ==
    ASSUME NEW c, NEW t, t = req.by[c], NEW r, NEW h \in AllHolders(t)
    PROVE  Recorded(r, c, h) = ByRefs(r, c, t)[h]
<1>1. CASE h[1] = "addr"
  BY <1>1 DEF Recorded, ByRefs
<1>2. CASE h[1] # "addr"
  <2>1. PICK m : m = SpecOf(t, h[2])
    OBVIOUS
  <2>2. m = CHOOSE s \in MCMSpecs(c, h[2]) : TRUE
    BY <2>1 DEF SpecOf, MCMSpecs
  <2>3. Recorded(r, c, h) = r[<<c, m.t, m.q>>]
    BY <1>2, <2>2 DEF Recorded
  <2>4. ByRefs(r, c, t)[h] = r[<<c, m.t, m.q>>]
    BY <1>2, <2>1 DEF ByRefs
  <2>5. QED
    BY <2>3, <2>4
<1>3. QED
  BY <1>1, <1>2

\* A topology's holders.
LEMMA HolderOf ==
    ASSUME NEW t, NEW tl \in elems(t.tls)
    PROVE  /\ \A h \in elems(tl.take) : h \in AllHolders(t)
           /\ \A n \in Roles : \A h \in elems(tl.roles[n]) : h \in AllHolders(t)
<1>1. \A h \in elems(tl.take) : h \in Holders(tl)
  BY DEF Holders
<1>2. \A n \in Roles : \A h \in elems(tl.roles[n]) : h \in Holders(tl)
  BY DEF Holders
<1>3. QED
  BY <1>1, <1>2 DEF AllHolders

\* The refs of a finished chain are complete once they are recorded over others.
LEMMA FinishedComplete ==
    ASSUME IInv, pc # "idle", NEW c \in Finished, OwnRefs(c), NEW s, s = Over(agg.refs, ds)
    PROVE  Complete(s, c)
<1>1. PICK t, r, B : t = req.by[c] /\ r = agg.refs /\ B = agg.batches
  OBVIOUS
<1>2. Apart(t)
  BY <1>1 DEF OwnRefs, Apart
<1>3. ChainOK(code, reset, r, B, c, t)
  BY <1>1 DEF IInv, AggOK, FinishedOK, DoneOK
<1>4. \A k \in DOMAIN r : s[k] = r[k]
  BY <1>1 DEF Over
<1>5. ASSUME NEW m \in elems(t.mcms)
      PROVE  LET a == s[<<c, m.t, m.q>>]
             IN  code[c][a].kind = m.t /\ (code[c][a].cfg = m.cfg \/ <<c, a>> \in reset)
  <2>1. PICK a : a = r[<<c, m.t, m.q>>]
    OBVIOUS
  <2>2. McmOK(code, reset, c, a, m) /\ <<c, m.t, m.q>> \in DOMAIN r
    BY <1>2, <1>3, <2>1 DEF ChainOK, Filed
  <2>3. s[<<c, m.t, m.q>>] = a
    BY <1>4, <2>1, <2>2
  <2>4. QED
    BY <2>2, <2>3 DEF McmOK, HasConfig
<1>6. ASSUME NEW tl \in elems(t.tls)
      PROVE  LET a == s[<<c, "Timelock", tl.q>>]
             IN  /\ code[c][a].kind = "Timelock"
                 /\ \A n \in Roles : \A h \in elems(tl.roles[n]) :
                       Recorded(s, c, h) \in code[c][a].roles[n]
                 /\ a \in code[c][a].roles["ADMIN"]
                 /\ tl.proxy => s[<<c, "CallProxy", tl.q>>] \in code[c][a].roles["EXECUTOR"]
  <2>1. PICK a, W : a = r[<<c, "Timelock", tl.q>>] /\ W = ByRefs(r, c, t)
    OBVIOUS
  <2>2. WiredOK(code, r, c, W, tl, a) /\ <<c, "Timelock", tl.q>> \in DOMAIN r
    BY <1>2, <1>3, <2>1 DEF ChainOK, Filed, TlOK
  <2>3. s[<<c, "Timelock", tl.q>>] = a
    BY <1>4, <2>1, <2>2
  <2>4. ASSUME NEW n \in Roles, NEW h \in elems(tl.roles[n])
        PROVE  Recorded(s, c, h) \in code[c][a].roles[n]
    <3>1. h \in AllHolders(t)
      BY HolderOf
    <3>2. ByRefs(s, c, t)[h] = W[h]
      <4>1. CASE h[1] = "addr"
        BY <2>1, <3>1, <4>1 DEF ByRefs
      <4>2. CASE h[1] # "addr"
        <5>1. Valid(t)
          BY <1>1, RunChains DEF IInv, Finished
        <5>2. PICK m : m = SpecOf(t, h[2])
          OBVIOUS
        <5>3. m \in elems(t.mcms)
          BY <3>1, <4>2, <5>1, <5>2, HolderKinds
        <5>4. s[<<c, m.t, m.q>>] = r[<<c, m.t, m.q>>]
          BY <1>3, <1>4, <5>3 DEF ChainOK, Filed
        <5>5. QED
          BY <2>1, <3>1, <4>2, <5>2, <5>4 DEF ByRefs
      <4>3. QED
        BY <4>1, <4>2
    <3>3. Recorded(s, c, h) = ByRefs(s, c, t)[h]
      BY <1>1, <3>1, RecordedIs
    <3>4. QED
      BY <2>2, <3>2, <3>3 DEF WiredOK
  <2>5. tl.proxy => s[<<c, "CallProxy", tl.q>>] \in code[c][a].roles["EXECUTOR"]
    BY <1>4, <2>2 DEF WiredOK
  <2>6. QED
    BY <2>2, <2>3, <2>4, <2>5 DEF WiredOK
<1>7. QED
  BY <1>1, <1>5, <1>6 DEF Complete

\* Whatever a run records, also a failed one, is whole chains: every MCM with its
\* config and every timelock wired to the MCMs and the call proxy recorded with it;
\* and it changes no other ref.
THEOREM RecordsWholeChains == Spec => RecordComplete
<1>1. ASSUME IInv, Next, ds' # ds
      PROVE  /\ \A c \in {k[1] : k \in DOMAIN agg.refs} : c \in Finished /\ (OwnRefs(c) => Complete(ds', c))
             /\ \A k \in DOMAIN ds' : k \notin DOMAIN agg.refs => k \in DOMAIN ds /\ ds'[k] = ds[k]
  <2>1. pc # "idle" /\ ds' = Over(agg.refs, ds)
    <3>1. buildOutput \/ Fail
      BY <1>1 DEF Next, Run, Lose, Start, ReuseChain, StartChain, ChainDone, deployMCM, deployMCMWithConfig,
           deployTimelock, deployCallProxy, skipCallProxy, grantRole, transferContractToTimelock,
           acceptOwnership, timelockDone, LoseDeployMCM, LoseConfig, LoseDeployTimelock,
           LoseDeployCallProxy, LoseGrant, LoseTransfer, LoseResult, NewBundle, ExecuteBatch
    <3>2. QED
      BY <1>1, <3>1 DEF buildOutput, Fail, ErrorRefs
  <2>2. \A c \in {k[1] : k \in DOMAIN agg.refs} : c \in Finished
    BY <1>1, <2>1 DEF IInv, AggOK, FinishedOK
  <2>3. \A c \in Finished : OwnRefs(c) => Complete(ds', c)
    BY <1>1, <2>1, FinishedComplete
  <2>4. \A k \in DOMAIN ds' : k \notin DOMAIN agg.refs => k \in DOMAIN ds /\ ds'[k] = ds[k]
    BY <2>1 DEF Over
  <2>5. QED
    BY <2>2, <2>3, <2>4
<1>2. IInv /\ [Next]_vars =>
        [ds' # ds =>
           /\ \A c \in {k[1] : k \in DOMAIN agg.refs} : c \in Finished /\ (OwnRefs(c) => Complete(ds', c))
           /\ \A k \in DOMAIN ds' : k \notin DOMAIN agg.refs => k \in DOMAIN ds /\ ds'[k] = ds[k]]_vars
  BY <1>1 DEF vars
<1>3. QED
  BY <1>2, Invariance, PTL DEF Spec, RecordComplete

----------------------------------------------------------------------------
(* The first ref of an MCM *)

\* In the output o the first ref of MCM m of chain c is the one that stays.
FirstStays(o, c, m) ==
    <<c, m.t, m.q>> \in DOMAIN o.first /\ o.first[<<c, m.t, m.q>>] = o.refs[<<c, m.t, m.q>>]
FirstsStay(o, c, t) == Apart(t) => \A m \in elems(t.mcms) : FirstStays(o, c, m)

\* So it is in the reports of chains, for the finished chains, and for the MCMs of
\* the chain in progress that have their config.
ReportsFirst ==
    \A r \in reports["chain"] :
       (\A k \in DOMAIN r.out.first : k[1] = r.k.ch) /\ FirstsStay(r.out, r.k.ch, r.k.cfg)
AggFirst ==
    pc # "idle" => /\ \A k \in DOMAIN agg.first : k[1] \in Finished
                   /\ \A c \in Finished : FirstsStay(agg, c, req.by[c])
SequenceFirst ==
    pc \in Busy => /\ NoRepeats(ms)
                   /\ \A k \in DOMAIN out.first : \E m \in McmsBehind : k = <<ch, m.t, m.q>>
                   /\ Apart(cfg) => \A m \in McmsBehind : FirstStays(out, ch, m)
FirstInv == ReportsFirst /\ AggFirst /\ SequenceFirst

\* A step in a chain's sequence that adds no MCM ref.
LEMMA FirstKept ==
    ASSUME IInv, FirstInv, pc \in Busy, pc' \in Busy, UNCHANGED <<req, todo, agg, ms>>,
           reports'["chain"] = reports["chain"], out'.first = out.first,
           \A k \in DOMAIN out.refs : k[2] \notin {"Timelock", "CallProxy"} => out'.refs[k] = out.refs[k]
    PROVE  FirstInv'
<1>1. ch' = ch /\ cfg' = cfg /\ Finished' = Finished
  BY ChainStays
<1>2. Valid(cfg) /\ BehindOK
  BY InSequence
<1>3. ReportsFirst'
  BY DEF FirstInv, ReportsFirst
<1>4. AggFirst'
  BY <1>1 DEF FirstInv, AggFirst, Busy
<1>5. McmsBehind' = McmsBehind
  BY <1>1 DEF McmsBehind
<1>6. ASSUME Apart(cfg), NEW m \in McmsBehind PROVE FirstStays(out', ch, m)
  <2>1. m.t \notin {"Timelock", "CallProxy"} /\ <<ch, m.t, m.q>> \in DOMAIN out.refs
    BY <1>2 DEF McmsBehind, Valid, BehindOK, McmDone
  <2>2. out'.refs[<<ch, m.t, m.q>>] = out.refs[<<ch, m.t, m.q>>]
    BY <2>1
  <2>3. FirstStays(out, ch, m)
    BY <1>6 DEF FirstInv, SequenceFirst
  <2>4. QED
    BY <2>2, <2>3 DEF FirstStays
<1>7. SequenceFirst'
  BY <1>1, <1>5, <1>6 DEF FirstInv, SequenceFirst
<1>8. QED
  BY <1>3, <1>4, <1>7 DEF FirstInv

\* The reports of chains stay when another operation reports.
LEMMA ChainReportsStay ==
    ASSUME IInv, NEW op, op # "chain", NEW k, NEW o, Report(op, k, o)
    PROVE  reports'["chain"] = reports["chain"]
BY DEF Report, IInv, ReportsOK

\* The steps of a chain's sequence before and after its MCMs have their config.
LEMMA SequenceFirstKept ==
    ASSUME IInv, FirstInv,
           \/ deployMCM \/ deployTimelock \/ deployCallProxy \/ skipCallProxy
           \/ grantRole \/ transferContractToTimelock \/ acceptOwnership \/ timelockDone
    PROVE  FirstInv'
<1>1. ASSUME deployMCM PROVE FirstInv'
  <2>1. /\ pc = "deploy" /\ pc' = "config" /\ UNCHANGED <<req, todo, agg, ms, out>>
        /\ Report("deploy", mcmKey, DeployedAddress(mcmKey))
    BY <1>1 DEF deployMCM, DeployOp
  <2>2. QED
    BY <2>1, ChainReportsStay, FirstKept DEF Busy
<1>2. ASSUME deployTimelock PROVE FirstInv'
  <2>1. /\ pc = "deploy" /\ pc' = "proxy" /\ UNCHANGED <<req, todo, agg, ms>>
        /\ Report("deploy", timelockKey, DeployedAddress(timelockKey))
        /\ out' = [out EXCEPT !.refs =
                     Over(newAddressRef("Timelock", Timelock.q, DeployedAddress(timelockKey)), @)]
    BY <1>2 DEF deployTimelock, DeployOp
  <2>2. QueueOK
    BY <2>1, InSequence DEF Busy
  <2>3. out'.first = out.first
        /\ out'.refs = Over(Entry(<<ch, "Timelock", Timelock.q>>, DeployedAddress(timelockKey)), out.refs)
    BY <2>1, <2>2 DEF QueueOK, newAddressRef
  <2>4. \A k \in DOMAIN out.refs : k[2] \notin {"Timelock", "CallProxy"} => out'.refs[k] = out.refs[k]
    BY <2>3 DEF Over, Entry
  <2>5. QED
    BY <2>1, <2>3, <2>4, ChainReportsStay, FirstKept DEF Busy
<1>3. ASSUME deployCallProxy PROVE FirstInv'
  <2>1. /\ pc = "proxy" /\ pc' = "grant" /\ UNCHANGED <<req, todo, agg, ms>>
        /\ Report("deploy", proxyKey, DeployedAddress(proxyKey))
        /\ out' = [out EXCEPT !.refs =
                     Over(newAddressRef("CallProxy", Timelock.q, DeployedAddress(proxyKey)), @)]
    BY <1>3 DEF deployCallProxy, DeployOp, BeginGrants
  <2>2. QueueOK
    BY <2>1, InSequence DEF Busy
  <2>3. out'.first = out.first
        /\ out'.refs = Over(Entry(<<ch, "CallProxy", Timelock.q>>, DeployedAddress(proxyKey)), out.refs)
    BY <2>1, <2>2 DEF QueueOK, newAddressRef
  <2>4. \A k \in DOMAIN out.refs : k[2] \notin {"Timelock", "CallProxy"} => out'.refs[k] = out.refs[k]
    BY <2>3 DEF Over, Entry
  <2>5. QED
    BY <2>1, <2>3, <2>4, ChainReportsStay, FirstKept DEF Busy
<1>4. ASSUME skipCallProxy PROVE FirstInv'
  <2>1. pc = "proxy" /\ pc' = "grant" /\ UNCHANGED <<reports, req, todo, agg, ms, out>>
    BY <1>4 DEF skipCallProxy, BeginGrants
  <2>2. QED
    BY <2>1, FirstKept DEF Busy
<1>5. ASSUME grantRole PROVE FirstInv'
  <2>1. /\ pc = "grant" /\ UNCHANGED <<pc, req, todo, agg, ms, out>>
        /\ Report("grant", grantKey, {})
    BY <1>5 DEF grantRole
  <2>2. QED
    BY <2>1, ChainReportsStay, FirstKept DEF Busy
<1>6. ASSUME transferContractToTimelock PROVE FirstInv'
  <2>1. /\ pc = "grant" /\ pc' \in {"grant", "accept"} /\ UNCHANGED <<req, todo, agg, ms, out>>
        /\ UNCHANGED reports \/ Report("transfer", ownableContractIdempotencyKey, {})
    BY <1>6 DEF transferContractToTimelock
  <2>2. reports'["chain"] = reports["chain"]
    BY <2>1, ChainReportsStay
  <2>3. QED
    BY <2>1, <2>2, FirstKept DEF Busy
<1>7. ASSUME acceptOwnership PROVE FirstInv'
  <2>1. /\ pc = "accept" /\ pc' = "grant" /\ UNCHANGED <<reports, req, todo, agg, ms>>
    BY <1>7 DEF acceptOwnership
  <2>2. QueueOK
    BY <2>1, InSequence DEF Busy
  <2>3. out' = out \/ \E B : out' = [out EXCEPT !.batches = B]
    BY <1>7 DEF acceptOwnership
  <2>4. out'.first = out.first /\ out'.refs = out.refs
    BY <2>2, <2>3 DEF QueueOK
  <2>5. QED
    BY <2>1, <2>4, FirstKept DEF Busy
<1>8. ASSUME timelockDone PROVE FirstInv'
  <2>1. pc = "grant" /\ pc' = "deploy" /\ UNCHANGED <<reports, req, todo, agg, ms, out>>
    BY <1>8 DEF timelockDone
  <2>2. QED
    BY <2>1, FirstKept DEF Busy
<1>9. QED
  BY <1>1, <1>2, <1>3, <1>4, <1>5, <1>6, <1>7, <1>8

\* An MCM that gets its config is filed for the first time, when the specs of the
\* topology have refs of their own.
LEMMA ConfigFirst ==
    ASSUME IInv, FirstInv, deployMCMWithConfig
    PROVE  FirstInv'
<1> DEFINE key == <<ch, MCM.t, MCM.q>>
<1>1. /\ pc = "config" /\ pc' = "deploy" /\ ms' = Tail(ms) /\ UNCHANGED <<req, todo, agg>>
      /\ Report("config", configKey, {})
      /\ out' = [out EXCEPT !.refs = Over(newAddressRef(MCM.t, MCM.q, refToAddr[MCM.ref]), @),
                            !.first = Over(@, newAddressRef(MCM.t, MCM.q, refToAddr[MCM.ref]))]
  BY DEF deployMCMWithConfig
<1>2. pc \in Busy /\ pc' \in Busy
  BY <1>1 DEF Busy
<1>3. QueueOK /\ AheadOK /\ BehindOK /\ Valid(cfg) /\ SequenceFirst
  BY <1>2, InSequence DEF FirstInv
<1>4. ch' = ch /\ cfg' = cfg /\ Finished' = Finished
  BY <1>1, ChainStays
<1>5. PICK a : a = refToAddr[MCM.ref]
  OBVIOUS
<1>6. out'.refs = Over(Entry(key, a), out.refs) /\ out'.first = Over(out.first, Entry(key, a))
  BY <1>1, <1>3, <1>5 DEF QueueOK, newAddressRef
<1>7. ms # <<>> /\ NoRepeats(ms)
  BY <1>1, <1>2, <1>3 DEF AheadOK, SequenceFirst
<1>8. /\ MCM \in elems(ms) /\ elems(ms) = {MCM} \cup elems(Tail(ms))
      /\ NoRepeats(Tail(ms)) /\ MCM \notin elems(Tail(ms))
  BY <1>3, <1>7, HeadTail DEF QueueOK, MCM
<1>9. MCM \in elems(cfg.mcms) /\ MCM \notin McmsBehind /\ McmsBehind' = McmsBehind \cup {MCM}
  BY <1>1, <1>3, <1>4, <1>8 DEF QueueOK, McmsBehind
<1>10. ReportsFirst'
  BY <1>1, ChainReportsStay DEF FirstInv, ReportsFirst
<1>11. AggFirst'
  BY <1>1, <1>4 DEF FirstInv, AggFirst
<1>12. /\ DOMAIN out'.first = DOMAIN out.first \cup {key} /\ out'.refs[key] = a
       /\ key \in DOMAIN out'.first /\ (key \notin DOMAIN out.first => out'.first[key] = a)
       /\ \A k \in DOMAIN out.first : out'.first[k] = out.first[k]
       /\ \A k \in DOMAIN out.refs : k # key => out'.refs[k] = out.refs[k]
  BY <1>6 DEF Over, Entry
<1>13. \A k \in DOMAIN out'.first : \E m \in McmsBehind' : k = <<ch', m.t, m.q>>
  BY <1>2, <1>3, <1>4, <1>9, <1>12 DEF SequenceFirst
<1>14. ASSUME Apart(cfg), NEW m \in McmsBehind
       PROVE  <<ch, m.t, m.q>> # key /\ FirstStays(out', ch, m)
  <2>1. m \in elems(cfg.mcms) /\ m # MCM
    BY <1>9 DEF McmsBehind
  <2>2. <<ch, m.t, m.q>> # key
    BY <1>9, <1>14, <2>1 DEF Apart
  <2>3. FirstStays(out, ch, m) /\ <<ch, m.t, m.q>> \in DOMAIN out.refs
    BY <1>2, <1>3, <1>14 DEF SequenceFirst, BehindOK, McmDone
  <2> HIDE DEF key
  <2>4. QED
    BY <1>12, <2>2, <2>3 DEF FirstStays
<1>15. ASSUME Apart(cfg) PROVE FirstStays(out', ch, MCM)
  <2>1. key \notin DOMAIN out.first
    BY <1>2, <1>3, <1>14, <1>15 DEF SequenceFirst
  <2>2. QED
    BY <1>12, <2>1 DEF FirstStays
<1>16. SequenceFirst'
  BY <1>1, <1>4, <1>8, <1>9, <1>13, <1>14, <1>15 DEF SequenceFirst
<1>17. QED
  BY <1>10, <1>11, <1>16 DEF FirstInv

\* Merging the output of a chain keeps the firsts of all.
LEMMA MergeFirst ==
    ASSUME IInv, FirstInv, pc # "idle", pc' = "chain", todo # {}, NEW o, Merge(o), todo' = todo \ {ch},
           UNCHANGED req, OutputOK(code, reset, o, ch, cfg), \A k \in DOMAIN o.first : k[1] = ch,
           FirstsStay(o, ch, cfg)
    PROVE  AggFirst'
<1>1. RunOK /\ FinishedOK(code, reset, unmoved, agg, Finished, req.by) /\ AggFirst
  BY DEF IInv, AggOK, FirstInv
<1>2. ch \in todo /\ ch \in DOMAIN req.by /\ ch \notin Finished
  BY <1>1, ChainAt
<1>3. PICK c, C, t : c = ch /\ C = Finished /\ t = cfg
  OBVIOUS
<1>4. Finished' = C \cup {c} /\ req' = req /\ req.by[c] = t /\ c \notin C
  BY <1>2, <1>3 DEF Finished, cfg
<1>5. agg'.first = Over(agg.first, o.first) /\ agg'.refs = Over(o.refs, agg.refs)
  BY DEF Merge
<1>6. /\ \A k \in DOMAIN agg.first : k[1] \in C
      /\ \A d \in C : FirstsStay(agg, d, req.by[d])
  BY <1>1, <1>3 DEF AggFirst
<1>7. /\ DOMAIN agg'.first = DOMAIN agg.first \cup DOMAIN o.first
      /\ \A k \in DOMAIN agg.first : agg'.first[k] = agg.first[k]
      /\ \A k \in DOMAIN o.first : k \notin DOMAIN agg.first => agg'.first[k] = o.first[k]
      /\ \A k \in DOMAIN o.refs : agg'.refs[k] = o.refs[k]
      /\ \A k \in DOMAIN agg.refs : k \notin DOMAIN o.refs => agg'.refs[k] = agg.refs[k]
  BY <1>5 DEF Over
<1>8. \A k \in DOMAIN o.refs : k[1] = c
  BY <1>3 DEF OutputOK
<1>9. ASSUME NEW d \in C, Apart(req.by[d]), NEW m \in elems(req.by[d].mcms)
      PROVE  FirstStays(agg', d, m)
  <2>1. FirstStays(agg, d, m)
    BY <1>6, <1>9 DEF FirstsStay
  <2>2. Filed(agg.refs, d, req.by[d])
    BY <1>1, <1>3 DEF FinishedOK, DoneOK, ChainOK
  <2>3. PICK k : k = <<d, m.t, m.q>>
    OBVIOUS
  <2>4. k \in DOMAIN agg.first /\ agg.first[k] = agg.refs[k] /\ k \in DOMAIN agg.refs
    BY <1>9, <2>1, <2>2, <2>3 DEF FirstStays, Filed
  <2>5. k \notin DOMAIN o.refs
    BY <1>4, <1>8, <2>3
  <2>6. k \in DOMAIN agg'.first /\ agg'.first[k] = agg'.refs[k]
    BY <1>7, <2>4, <2>5
  <2>7. QED
    BY <2>3, <2>6 DEF FirstStays
<1>10. ASSUME Apart(t), NEW m \in elems(t.mcms) PROVE FirstStays(agg', c, m)
  <2>1. FirstStays(o, c, m)
    BY <1>3, <1>10 DEF FirstsStay
  <2>2. Filed(o.refs, c, t)
    BY <1>3 DEF OutputOK, ChainOK
  <2>3. PICK k : k = <<c, m.t, m.q>>
    OBVIOUS
  <2>4. k \in DOMAIN o.first /\ o.first[k] = o.refs[k] /\ k \in DOMAIN o.refs
    BY <1>10, <2>1, <2>2, <2>3 DEF FirstStays, Filed
  <2>5. k \notin DOMAIN agg.first
    BY <1>4, <1>6, <2>3
  <2>6. k \in DOMAIN agg'.first /\ agg'.first[k] = agg'.refs[k]
    BY <1>7, <2>4, <2>5
  <2>7. QED
    BY <2>3, <2>6 DEF FirstStays
<1>11. \A k \in DOMAIN agg'.first : k[1] \in Finished'
  BY <1>3, <1>4, <1>6, <1>7
<1>12. \A d \in Finished' : FirstsStay(agg', d, req'.by[d])
  BY <1>4, <1>9, <1>10 DEF FirstsStay
<1>13. QED
  BY <1>11, <1>12 DEF AggFirst

\* A chain is reused or done.
LEMMA ChainFirst ==
    ASSUME IInv, FirstInv, ReuseChain \/ ChainDone
    PROVE  FirstInv'
<1>1. ASSUME ReuseChain PROVE FirstInv'
  <2>1. PICK o : o = OutputOf("chain", ChainInput)
    OBVIOUS
  <2>2. /\ pc = "chain" /\ todo # {} /\ Reusable("chain", ChainInput) /\ Merge(o) /\ todo' = todo \ {ch}
        /\ UNCHANGED <<reports, pc, req>>
    BY <1>1, <2>1 DEF ReuseChain
  <2>3. PICK r \in reports["chain"] : r.k = ChainInput /\ r.out = o
    BY <2>1, <2>2, OutputReported
  <2>4. r.k.ch = ch /\ r.k.cfg = cfg
    BY <2>3 DEF ChainInput
  <2>5. OutputOK(code, reset, o, ch, cfg)
    BY <2>3, <2>4 DEF IInv, ReportsOK, ChainReportOK
  <2>6. (\A k \in DOMAIN o.first : k[1] = ch) /\ FirstsStay(o, ch, cfg)
    BY <2>3, <2>4 DEF FirstInv, ReportsFirst
  <2>7. AggFirst'
    BY <2>2, <2>5, <2>6, MergeFirst
  <2>8. ReportsFirst' /\ SequenceFirst'
    BY <2>2 DEF FirstInv, ReportsFirst, SequenceFirst, Busy
  <2>9. QED
    BY <2>7, <2>8 DEF FirstInv
<1>2. ASSUME ChainDone PROVE FirstInv'
  <2>1. /\ pc = "deploy" /\ ms = <<>> /\ ts = <<>> /\ Report("chain", ChainInput, out) /\ Merge(out)
        /\ todo' = todo \ {ch} /\ pc' = "chain" /\ UNCHANGED req
    BY <1>2 DEF ChainDone
  <2>2. pc \in Busy /\ pc' \notin Busy /\ pc # "idle"
    BY <2>1 DEF Busy
  <2>3. todo # {}
    BY <2>2 DEF IInv, RunOK
  <2>4. OutputOK(code, reset, out, ch, cfg)
    BY <2>1, SequenceDone
  <2>5. McmsBehind = elems(cfg.mcms)
    BY <2>1 DEF McmsBehind, elems
  <2>6. (\A k \in DOMAIN out.first : k[1] = ch) /\ FirstsStay(out, ch, cfg)
    BY <2>2, <2>5 DEF FirstInv, SequenceFirst, FirstsStay
  <2>7. AggFirst'
    BY <2>1, <2>2, <2>3, <2>4, <2>6, MergeFirst
  <2>8. reports'["chain"] = reports["chain"] \cup {[k |-> ChainInput, out |-> out]}
    BY <2>1 DEF Report, IInv, ReportsOK
  <2>9. ReportsFirst'
    BY <2>6, <2>8 DEF FirstInv, ReportsFirst, ChainInput
  <2>10. SequenceFirst'
    BY <2>2 DEF SequenceFirst
  <2>11. QED
    BY <2>7, <2>9, <2>10 DEF FirstInv
<1>3. QED
  BY <1>1, <1>2

\* The sequence of a chain begins with no ref.
LEMMA StartChainFirst ==
    ASSUME IInv, FirstInv, StartChain
    PROVE  FirstInv'
<1>1. /\ pc = "chain" /\ todo # {} /\ pc' = "deploy" /\ ms' = cfg.mcms /\ out' = NoOutput
      /\ UNCHANGED <<reports, req, todo, agg>>
  BY DEF StartChain
<1>2. ch' = ch /\ cfg' = cfg /\ Finished' = Finished /\ Valid(cfg)
  BY <1>1, ChainStays, ChainAt DEF IInv
<1>3. ReportsFirst' /\ AggFirst'
  BY <1>1, <1>2 DEF FirstInv, ReportsFirst, AggFirst
<1>4. McmsBehind' = {} /\ DOMAIN out'.first = {}
  BY <1>1, <1>2 DEF McmsBehind, NoOutput
<1>5. SequenceFirst'
  BY <1>1, <1>2, <1>4 DEF SequenceFirst, Valid
<1>6. QED
  BY <1>3, <1>5 DEF FirstInv

\* Between runs there are only the reports.
LEMMA IdleFirst ==
    ASSUME IInv, FirstInv, pc' = "idle", reports' \in {reports, NoReports}
    PROVE  FirstInv'
<1>1. reports'["chain"] \subseteq reports["chain"]
  BY DEF NoReports
<1>2. ReportsFirst'
  BY <1>1 DEF FirstInv, ReportsFirst
<1>3. AggFirst' /\ SequenceFirst'
  BY DEF AggFirst, SequenceFirst, Busy
<1>4. QED
  BY <1>2, <1>3 DEF FirstInv

\* One step per action.
LEMMA NextFirst ==
    ASSUME IInv, FirstInv, [Next]_vars
    PROVE  FirstInv'
<1>1. ASSUME NEW i \in Inputs, Start(i) PROVE FirstInv'
  <2>1. pc' = "chain" /\ req' = i /\ todo' = DOMAIN i.by /\ agg' = NoOutput /\ UNCHANGED reports
    BY <1>1 DEF Start
  <2>2. Finished' = {} /\ DOMAIN agg'.first = {}
    BY <2>1 DEF Finished, NoOutput
  <2>3. QED
    BY <2>1, <2>2 DEF FirstInv, ReportsFirst, AggFirst, SequenceFirst, Busy
<1>2. ASSUME ReuseChain \/ StartChain \/ ChainDone PROVE FirstInv'
  BY <1>2, ChainFirst, StartChainFirst
<1>3. ASSUME deployMCM \/ deployMCMWithConfig \/ deployTimelock \/ deployCallProxy \/ skipCallProxy
             \/ grantRole \/ transferContractToTimelock \/ acceptOwnership \/ timelockDone
      PROVE  FirstInv'
  BY <1>3, SequenceFirstKept, ConfigFirst
<1>4. ASSUME buildOutput \/ Fail \/ Lose \/ NewBundle PROVE FirstInv'
  <2>1. ASSUME buildOutput PROVE pc' = "idle" /\ reports' = reports
    BY <2>1 DEF buildOutput, End
  <2>2. ASSUME Fail PROVE pc' = "idle" /\ reports' \in {reports, NoReports}
    BY <2>2 DEF Fail, Reset, End
  <2>3. ASSUME Lose PROVE pc' = "idle" /\ reports' \in {reports, NoReports}
    <3>1. ASSUME NEW c, NEW s, LoseResult(c, s) PROVE pc' = "idle" /\ reports' \in {reports, NoReports}
      BY <3>1 DEF LoseResult, Reset, End
    <3>2. QED
      BY <2>3, <3>1 DEF Lose, LoseDeployMCM, LoseConfig, LoseDeployTimelock, LoseDeployCallProxy,
                        LoseGrant, LoseTransfer
  <2>4. ASSUME NewBundle PROVE pc' = "idle" /\ reports' = NoReports
    BY <2>4 DEF NewBundle
  <2>5. QED
    BY <1>4, <2>1, <2>2, <2>3, <2>4, IdleFirst
<1>5. ASSUME (\E p \in proposals : ExecuteBatch(p)) \/ UNCHANGED vars PROVE FirstInv'
  <2>1. UNCHANGED <<reports, pc, req, todo, ms, ts, out, agg>>
    BY <1>5 DEF ExecuteBatch, chainVars, vars
  <2>2. ch' = ch /\ cfg' = cfg /\ Finished' = Finished
    BY <2>1, ChainStays
  <2>3. McmsBehind' = McmsBehind
    BY <2>1, <2>2 DEF McmsBehind
  <2>4. QED
    BY <2>1, <2>2, <2>3 DEF FirstInv, ReportsFirst, AggFirst, SequenceFirst
<1>6. QED
  BY <1>1, <1>2, <1>3, <1>4, <1>5 DEF Next, Run

\* The firsts stay in every reachable state.
LEMMA FirstInvariance == Spec => [](IInv /\ FirstInv)
<1>1. Init => IInv /\ FirstInv
  <2>1. ASSUME Init PROVE FirstInv
    BY <2>1 DEF Init, FirstInv, ReportsFirst, AggFirst, SequenceFirst, NoReports, Busy
  <2>2. QED
    BY <2>1, InitIInv
<1>2. IInv /\ FirstInv /\ [Next]_vars => (IInv /\ FirstInv)'
  BY NextIInv, NextFirst
<1>3. QED
  BY <1>1, <1>2, PTL DEF Spec

----------------------------------------------------------------------------
(* The targets of a timelock *)

\* The targets of a timelock of a finished chain are its topology's.
LEMMA TargetsAre ==
    ASSUME IInv, FirstInv, pc # "idle", NEW c \in Finished, OwnRefs(c), NEW tl \in elems(req.by[c].tls)
    PROVE  transferTargets(c, tl) = Take(ByRefs(agg.refs, c, req.by[c]), tl)
<1>1. PICK t, r, W : t = req.by[c] /\ r = agg.refs /\ W = ByRefs(r, c, t)
  OBVIOUS
<1>2. Valid(t) /\ Filed(r, c, t)
  BY <1>1, RunChains DEF IInv, Finished, AggOK, FinishedOK, DoneOK, ChainOK
<1>3. ASSUME NEW h \in elems(tl.take) PROVE resolveRoleHolderAddress(c, h) = {W[h]}
  <2>1. h \in AllHolders(t)
    BY <1>1, HolderOf
  <2>2. CASE h[1] = "addr"
    BY <1>1, <2>1, <2>2 DEF resolveRoleHolderAddress, ByRefs
  <2>3. CASE h[1] # "addr"
    <3>1. PICK m : m = SpecOf(t, h[2])
      OBVIOUS
    <3>2. m \in elems(t.mcms) /\ m.ref = h[2]
      BY <1>2, <2>1, <2>3, <3>1, HolderKinds
    <3>3. MCMSpecs(c, h[2]) = {m}
      BY <1>1, <1>2, <3>2 DEF MCMSpecs, Valid
    <3>4. <<c, m.t, m.q>> \in DOMAIN agg.first
          /\ agg.first[<<c, m.t, m.q>>] = agg.refs[<<c, m.t, m.q>>]
      BY <1>1, <3>2 DEF FirstInv, AggFirst, FirstsStay, FirstStays, OwnRefs, Apart
    <3>5. {s \in MCMSpecs(c, h[2]) : <<c, s.t, s.q>> \in DOMAIN agg.first} = {m}
      BY <3>3, <3>4
    <3>6. resolveRoleHolderAddress(c, h) = {agg.refs[<<c, m.t, m.q>>]}
      BY <2>3, <3>4, <3>5 DEF resolveRoleHolderAddress
    <3>7. W[h] = r[<<c, m.t, m.q>>]
      BY <1>1, <2>1, <2>3, <3>1 DEF ByRefs
    <3>8. QED
      BY <1>1, <3>6, <3>7
  <2>4. QED
    BY <2>2, <2>3
<1>4. transferTargets(c, tl) = Take(W, tl)
  BY <1>3 DEF transferTargets, Take
<1>5. QED
  BY <1>1, <1>4

\* A target goes to one timelock of a topology that keeps its targets apart.
LEMMA TargetsApart ==
    ASSUME IInv, FirstInv, pc # "idle", NEW c \in Finished, OwnRefs(c), OwnTargets(c), NEW W,
           W = ByRefs(agg.refs, c, req.by[c]),
           NEW u \in elems(req.by[c].tls), NEW v \in elems(req.by[c].tls), NEW x,
           x \in Take(W, u), x \in Take(W, v)
    PROVE  u = v
<1>1. transferTargets(c, u) = Take(W, u) /\ transferTargets(c, v) = Take(W, v)
  BY TargetsAre
<1>2. QED
  BY <1>1 DEF OwnTargets

\* A batch's targets of such a topology go to its timelock or are marked.
LEMMA BatchSettled ==
    ASSUME IInv, FirstInv, pc # "idle", NEW c \in Finished, OwnRefs(c), OwnTargets(c),
           NEW b \in agg.batches, b.ch = c, NEW x \in b.to
    PROVE  \/ code[c][x].pending = b.tl \/ code[c][x].owner = b.tl \/ <<c, x>> \in unmoved
<1>1. PICK t, r, W : t = req.by[c] /\ r = agg.refs /\ W = ByRefs(r, c, t)
  OBVIOUS
<1>2. Apart(t)
  BY <1>1 DEF OwnRefs, Apart
<1>3. Settled(code, unmoved, c, W, t, b)
  BY <1>1, <1>2 DEF IInv, AggOK, FinishedOK, DoneOK
<1>4. ~Contested(W, t, x)
  BY <1>1, TargetsApart DEF Contested
<1>5. QED
  BY <1>3, <1>4 DEF Settled, Going

\* A contract that a successful run was to move is its timelock's, or is pending for
\* it and accepted by a proposal addressed to it, unless it is marked as not moved.
LEMMA TargetProposed ==
    ASSUME IInv, FirstInv, buildOutput, NEW c \in DOMAIN req.by, OwnRefs(c), OwnTargets(c),
           NEW tl \in elems(req.by[c].tls), NEW h \in elems(tl.take),
           NEW a, a = ProposalTimelock(c, tl.q), NEW x, x = Recorded(agg.refs, c, h)
    PROVE  \/ code[c][x].owner = a
           \/ <<c, x>> \in unmoved
           \/ /\ code[c][x].pending = a
              /\ \E p \in proposals' : p.ch = c /\ p.tl = a /\ x \in p.to
<1>1. /\ pc = "chain" /\ todo = {}
      /\ proposals' = proposals \cup
            IF req.mcms THEN UNION {proposalInputForQualifier(q) : q \in sortedQualifiersWithTransfers}
            ELSE {}
  BY DEF buildOutput
<1>2. c \in Finished /\ pc # "idle" /\ RunOK
  BY <1>1 DEF Finished, IInv
<1>3. PICK t, r, W, B : t = req.by[c] /\ r = agg.refs /\ W = ByRefs(r, c, t) /\ B = agg.batches
  OBVIOUS
<1>4. Apart(t)
  BY <1>3 DEF OwnRefs, Apart
<1>5. a = r[<<c, "Timelock", tl.q>>]
  BY <1>3 DEF ProposalTimelock
<1>6. x = W[h] /\ x \in Take(W, tl)
  <2>1. h \in AllHolders(t)
    BY <1>3, HolderOf
  <2>2. Recorded(r, c, h) = ByRefs(r, c, t)[h]
    BY <1>3, <2>1, RecordedIs
  <2>3. QED
    BY <1>3, <2>2 DEF Take
<1>7. Accepted(code, c, a, B, Take(W, tl))
  <2>1. ChainOK(code, reset, r, B, c, t)
    BY <1>2, <1>3 DEF IInv, AggOK, FinishedOK, DoneOK
  <2>2. TlOK(code, r, B, c, W, tl)
    BY <1>3, <1>4, <2>1 DEF ChainOK
  <2>3. QED
    BY <1>5, <2>2 DEF TlOK
<1>8. CASE \E b \in B : b.ch = c /\ b.tl = a /\ x \in b.to
  <2>1. PICK b \in B : b.ch = c /\ b.tl = a /\ x \in b.to
    BY <1>8
  <2>2. code[c][x].pending = a \/ code[c][x].owner = a \/ <<c, x>> \in unmoved
    BY <1>2, <1>3, <2>1, BatchSettled
  <2>3. \E p \in proposals' : p.ch = c /\ p.tl = a /\ x \in p.to
    <3>1. tl.take # <<>>
      BY DEF elems
    <3>2. req.mcms
      BY <1>2, <3>1, <1>1 DEF RunOK, validateConfig, validateChainConfig
    <3>3. tl.q \in sortedQualifiersWithTransfers
      <4>1. tl \in UNION {elems(req.by[d].tls) : d \in DOMAIN req.by}
        OBVIOUS
      <4>2. QED
        BY <3>1, <4>1 DEF sortedQualifiersWithTransfers
    <3>4. x \in transferTargetAddressesForQualifier(c, tl.q)
      <4>1. x \in transferTargets(c, tl)
        BY <1>2, <1>3, <1>6, TargetsAre
      <4>2. QED
        BY <4>1 DEF transferTargetAddressesForQualifier
    <3>5. b \in batchOpsForQualifier(tl.q)
      BY <1>3, <2>1, <3>4 DEF batchOpsForQualifier, batchOpMatchesTargets
    <3>6. PICK p : p = [q |-> tl.q, ch |-> b.ch, tl |-> ProposalTimelock(b.ch, tl.q), to |-> b.to]
      OBVIOUS
    <3>7. p \in proposalInputForQualifier(tl.q)
      BY <3>5, <3>6 DEF proposalInputForQualifier
    <3>8. p \in proposals'
      BY <1>1, <3>2, <3>3, <3>7
    <3>9. p.ch = c /\ p.tl = a /\ x \in p.to
      BY <2>1, <3>6
    <3>10. QED
      BY <3>8, <3>9
  <2>4. QED
    BY <2>2, <2>3
<1>9. QED
  BY <1>6, <1>7, <1>8 DEF Accepted

\* No successful run leaves a transfer half done.
THEOREM ProposesItsTransfers == Spec => TransfersProposed
<1>1. ASSUME IInv, FirstInv, buildOutput
      PROVE  \A c \in {d \in DOMAIN req.by : OwnRefs(d) /\ OwnTargets(d)} :
             \A tl \in elems(req.by[c].tls) : \A h \in elems(tl.take) :
                LET a == ProposalTimelock(c, tl.q)
                    x == Recorded(agg.refs, c, h)
                IN  \/ code[c][x].owner = a
                    \/ <<c, x>> \in unmoved
                    \/ /\ code[c][x].pending = a
                       /\ \E p \in proposals' : p.ch = c /\ p.tl = a /\ x \in p.to
  BY <1>1, TargetProposed
<1>2. IInv /\ FirstInv => [buildOutput =>
         \A c \in {d \in DOMAIN req.by : OwnRefs(d) /\ OwnTargets(d)} :
         \A tl \in elems(req.by[c].tls) : \A h \in elems(tl.take) :
            LET a == ProposalTimelock(c, tl.q)
                x == Recorded(agg.refs, c, h)
            IN  \/ code[c][x].owner = a
                \/ <<c, x>> \in unmoved
                \/ /\ code[c][x].pending = a
                   /\ \E p \in proposals' : p.ch = c /\ p.tl = a /\ x \in p.to]_vars
  BY <1>1
<1>3. QED
  BY <1>2, FirstInvariance, PTL DEF TransfersProposed

\* What a new proposal accepts was moved to its own timelock, or is marked.
LEMMA ProposalSettled ==
    ASSUME IInv, FirstInv, buildOutput, NEW p \in proposals' \ proposals, OwnRefs(p.ch), OwnTargets(p.ch),
           NEW x \in p.to, <<p.ch, x>> \notin unmoved
    PROVE  code[p.ch][x].pending = p.tl \/ code[p.ch][x].owner = p.tl
<1>1. pc = "chain" /\ pc # "idle"
  BY DEF buildOutput
<1>2. PICK q : p \in proposalInputForQualifier(q)
  BY DEF buildOutput
<1>3. /\ p.ch \in Finished /\ p.tl = agg.refs[<<p.ch, "Timelock", q>>]
      /\ \E b \in agg.batches : /\ b.ch = p.ch /\ p.to = b.to
                                /\ b.to \cap transferTargetAddressesForQualifier(b.ch, q) # {}
  BY <1>1, <1>2, ProposedOK
<1>4. PICK b \in agg.batches : /\ b.ch = p.ch /\ p.to = b.to
                               /\ b.to \cap transferTargetAddressesForQualifier(b.ch, q) # {}
  BY <1>3
<1>5. PICK c, t, r, W : c = p.ch /\ t = req.by[c] /\ r = agg.refs /\ W = ByRefs(r, c, t)
  OBVIOUS
<1>6. PICK y, tl : y \in b.to /\ tl \in elems(t.tls) /\ tl.q = q /\ y \in transferTargets(c, tl)
  BY <1>4, <1>5 DEF transferTargetAddressesForQualifier
<1>7. y \in Take(W, tl)
  BY <1>1, <1>3, <1>5, <1>6, TargetsAre
<1>8. Apart(t)
  BY <1>5 DEF OwnRefs, Apart
<1>9. ChainOK(code, reset, r, agg.batches, c, t)
  BY <1>1, <1>3, <1>5 DEF IInv, AggOK, FinishedOK, DoneOK
<1>10. BatchFrom(r, c, W, elems(t.tls), b)
  BY <1>4, <1>5, <1>8, <1>9 DEF ChainOK
<1>11. PICK u \in elems(t.tls) : b.tl = r[<<c, "Timelock", u.q>>] /\ y \in Take(W, u)
  BY <1>6, <1>10 DEF BatchFrom
<1>12. u = tl
  BY <1>1, <1>3, <1>5, <1>6, <1>7, <1>11, TargetsApart
<1>13. b.tl = p.tl
  BY <1>3, <1>5, <1>6, <1>11, <1>12
<1>14. code[c][x].pending = b.tl \/ code[c][x].owner = b.tl \/ <<c, x>> \in unmoved
  BY <1>1, <1>3, <1>4, <1>5, BatchSettled
<1>15. QED
  BY <1>5, <1>13, <1>14

\* A proposal never accepts a contract for a timelock it was not moved to.
THEOREM AcceptsItsOwn == Spec => NoForeignAccept
<1>1. IInv /\ FirstInv => [buildOutput =>
         \A p \in {q \in proposals' \ proposals : OwnRefs(q.ch) /\ OwnTargets(q.ch)} :
            \A x \in p.to : <<p.ch, x>> \notin unmoved =>
               code[p.ch][x].pending = p.tl \/ code[p.ch][x].owner = p.tl]_vars
  BY ProposalSettled
<1>2. QED
  BY <1>1, FirstInvariance, PTL DEF NoForeignAccept
=============================================================================
