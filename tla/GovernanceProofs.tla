-------------------------- MODULE GovernanceProofs --------------------------
(***************************************************************************)
(* Proofs about the governance changesets: for every set of chains, inputs *)
(* and interleaving of runs with signers, admins and timelocks, no root of *)
(* a Stellar MCM outlives the config it was signed under.  A call that     *)
(* would leave a root behind could come from the run itself, from a report *)
(* or from a proposal returned long ago, so the invariant follows the      *)
(* calls through all of them.                                              *)
(***************************************************************************)
EXTENDS Governance, ProofLemmas, FiniteSetTheorems, SequenceTheorems

----------------------------------------------------------------------------
(* Sequences *)

\* Two sequences joined are a sequence, empty only when both are, and what is in
\* it was in one of them.
LEMMA Joined ==
    ASSUME NEW S, NEW s \in Seq(S), NEW t \in Seq(S), NEW u, u = s \o t
    PROVE  /\ u \in Seq(S) /\ (u # <<>> => s # <<>> \/ t # <<>>)
           /\ \A n \in DOMAIN u : (\E k \in DOMAIN s : u[n] = s[k]) \/ (\E k \in DOMAIN t : u[n] = t[k])
<1>1. u \in Seq(S) /\ Len(u) = Len(s) + Len(t) /\ Len(s) \in Nat /\ Len(t) \in Nat
  OBVIOUS
<1>2. DOMAIN u = 1..(Len(s) + Len(t)) /\ DOMAIN s = 1..Len(s) /\ DOMAIN t = 1..Len(t)
  BY <1>1
<1>3. ASSUME NEW n \in DOMAIN u, n <= Len(s) PROVE \E k \in DOMAIN s : u[n] = s[k]
  BY <1>1, <1>2, <1>3
<1>4. ASSUME NEW n \in DOMAIN u, ~(n <= Len(s)) PROVE \E k \in DOMAIN t : u[n] = t[k]
  <2>1. n - Len(s) \in DOMAIN t /\ u[n] = t[n - Len(s)]
    BY <1>1, <1>2, <1>4
  <2>2. QED
    BY <2>1
<1>5. u # <<>> => s # <<>> \/ t # <<>>
  OBVIOUS
<1>6. QED
  BY <1>1, <1>3, <1>4, <1>5

\* The same for one of its elements.
LEMMA JoinedFrom ==
    ASSUME NEW S, NEW s \in Seq(S), NEW t \in Seq(S), NEW u, u = s \o t, NEW n \in DOMAIN u
    PROVE  (\E k \in DOMAIN s : u[n] = s[k]) \/ (\E k \in DOMAIN t : u[n] = t[k])
BY Joined

\* What is left of a sequence without one of its elements was in it.
LEMMA Removed ==
    ASSUME NEW S, NEW s \in Seq(S), NEW n \in DOMAIN s
    PROVE  /\ RemoveAt(s, n) \in Seq(S)
           /\ \A k \in DOMAIN RemoveAt(s, n) : \E j \in DOMAIN s : RemoveAt(s, n)[k] = s[j]
           /\ Len(s) # 1 => RemoveAt(s, n) # <<>>
<1>1. Len(s) \in Nat /\ DOMAIN s = 1..Len(s) /\ n \in 1..Len(s)
  OBVIOUS
<1>2. PICK a, b, u : a = SubSeq(s, 1, n - 1) /\ b = SubSeq(s, n + 1, Len(s)) /\ u = a \o b
  OBVIOUS
<1>3. a \in Seq(S) /\ Len(a) = n - 1 /\ \A k \in 1..(n - 1) : a[k] = s[k]
  <2>1. \A i \in 1..(n - 1) : s[i] \in S
    BY <1>1
  <2>2. /\ a \in Seq(S)
        /\ Len(a) = IF 1 <= n - 1 THEN n - 1 - 1 + 1 ELSE 0
        /\ \A i \in 1..(n - 1 - 1 + 1) : a[i] = s[1 + i - 1]
    BY <1>1, <1>2, <2>1, SubSeqProperties
  <2>3. QED
    BY <1>1, <2>2
<1>4. b \in Seq(S) /\ Len(b) = Len(s) - n /\ \A k \in 1..(Len(s) - n) : b[k] = s[n + k]
  <2>1. PICK m, l : m = n + 1 /\ l = Len(s)
    OBVIOUS
  <2>2. m \in Int /\ l \in Int /\ b = SubSeq(s, m, l)
    BY <1>1, <1>2, <2>1
  <2>3. \A i \in m..l : s[i] \in S
    BY <1>1, <2>1
  <2>4. b \in Seq(S)
    BY <2>2, <2>3, SubSeqProperties
  <2>5. Len(b) = IF m <= l THEN l - m + 1 ELSE 0
    BY <2>2, <2>3, SubSeqProperties
  <2>6. \A i \in 1..(l - m + 1) : b[i] = s[m + i - 1]
    BY <2>2, <2>3, SubSeqProperties
  <2>7. Len(b) = Len(s) - n
    BY <1>1, <2>1, <2>5
  <2>8. ASSUME NEW k \in 1..(Len(s) - n) PROVE b[k] = s[n + k]
    <3>1. k \in 1..(l - m + 1) /\ m + k - 1 = n + k
      BY <1>1, <2>1
    <3>2. b[k] = s[m + k - 1]
      BY <2>6, <3>1
    <3>3. QED
      BY <3>1, <3>2
  <2>9. QED
    BY <2>4, <2>7, <2>8
<1>5. u \in Seq(S) /\ Len(u) = Len(s) - 1
  <2>1. u = a \o b /\ a \in Seq(S) /\ b \in Seq(S)
    BY <1>2, <1>3, <1>4
  <2>2. u \in Seq(S) /\ Len(u) = Len(a) + Len(b)
    BY <2>1
  <2>3. Len(a) = n - 1 /\ Len(b) = Len(s) - n
    BY <1>3, <1>4
  <2>4. QED
    BY <1>1, <2>2, <2>3
<1>6. \A k \in DOMAIN u : (\E j \in DOMAIN a : u[k] = a[j]) \/ (\E j \in DOMAIN b : u[k] = b[j])
  <2>1. u = a \o b /\ a \in Seq(S) /\ b \in Seq(S)
    BY <1>2, <1>3, <1>4
  <2>2. TAKE k \in DOMAIN u
  <2>3. QED
    BY <2>1, JoinedFrom
<1>7. \A j \in DOMAIN a : j \in DOMAIN s /\ a[j] = s[j]
  BY <1>1, <1>3
<1>8. \A j \in DOMAIN b : n + j \in DOMAIN s /\ b[j] = s[n + j]
  BY <1>1, <1>4
<1>9. \A k \in DOMAIN u : \E j \in DOMAIN s : u[k] = s[j]
  BY <1>6, <1>7, <1>8
<1>10. u = RemoveAt(s, n)
  BY <1>2 DEF RemoveAt
<1>11. Len(s) # 1 => u # <<>>
  BY <1>1, <1>5
<1>12. QED
  BY <1>5, <1>9, <1>10, <1>11

\* Every non-empty set of positions has a last one.
LEMMA LastIn ==
    ASSUME NEW k \in Nat, NEW N, N \subseteq 1..k, N # {}
    PROVE  LastOf(N) \in N
<1> DEFINE T == {k - n : n \in N}
<1>1. T \subseteq Nat /\ T # {}
  <2>1. \A n \in N : k - n \in Nat
    OBVIOUS
  <2>2. QED
    BY <2>1
<1>2. PICK d \in T : \A e \in T : d <= e
  BY <1>1, LeastNat
<1>3. PICK n \in N : d = k - n
  OBVIOUS
<1>4. ASSUME NEW j \in N PROVE j <= n
  <2>1. k - j \in T /\ j \in Nat /\ n \in Nat
    OBVIOUS
  <2>2. k - n <= k - j
    BY <1>2, <1>3, <2>1
  <2>3. QED
    BY <2>1, <2>2
<1>5. \E m \in N : \A j \in N : j <= m
  BY <1>4
<1>6. QED
  BY <1>5 DEF LastOf

----------------------------------------------------------------------------
(* Calls *)

\* Calls of the known kinds leave an MCM with a config of the known ones; when
\* those that set a config clear the root, its root is of its config or none.
LEMMA ConfiguredOK ==
    ASSUME NEW cs \in Seq(Calls), NEW m \in MCMs,
           NEW old \in [cfg : Configs, root : Configs \cup {NoRoot}]
    PROVE  /\ Configured(old, cs, m) \in [cfg : Configs, root : Configs \cup {NoRoot}]
           /\ /\ \A n \in DOMAIN cs : cs[n].op = "cfg" => cs[n].clear
              /\ old.root \in {NoRoot, old.cfg}
              => Configured(old, cs, m).root \in {NoRoot, Configured(old, cs, m).cfg}
<1> DEFINE N == ConfigCalls(cs, m)
<1>1. CASE N = {}
  BY <1>1 DEF Configured
<1>2. CASE N # {}
  <2>1. N \subseteq 1..Len(cs) /\ Len(cs) \in Nat
    BY DEF ConfigCalls
  <2>2. PICK l : l = LastOf(N)
    OBVIOUS
  <2>3. l \in N
    BY <1>2, <2>1, <2>2, LastIn
  <2>4. l \in DOMAIN cs /\ cs[l].op = "cfg"
    BY <2>3 DEF ConfigCalls
  <2>5. cs[l] \in Calls
    BY <2>4
  <2>6. cs[l].cfg \in Configs
    BY <2>4, <2>5 DEF Calls, Noop
  <2>7. PICK x : x = [cfg |-> cs[l].cfg, root |-> IF \E n \in N : cs[n].clear THEN NoRoot ELSE old.root]
    OBVIOUS
  <2>8. Configured(old, cs, m) = x
    BY <1>2, <2>2, <2>7 DEF Configured
  <2>9. x \in [cfg : Configs, root : Configs \cup {NoRoot}]
    BY <2>6, <2>7
  <2>10. (\A n \in DOMAIN cs : cs[n].op = "cfg" => cs[n].clear) => x.root = NoRoot
    BY <2>3, <2>4, <2>7
  <2>11. QED
    BY <2>8, <2>9, <2>10
<1>3. QED
  BY <1>1, <1>2

\* What calls add to a role's holders are accounts.
LEMMA GrantedOK ==
    ASSUME NEW cs \in Seq(Calls), NEW role
    PROVE  Granted(cs, role) \subseteq Accounts
<1>1. \A n \in DOMAIN cs : cs[n] \in Calls
  OBVIOUS
<1>2. \A n \in DOMAIN cs : cs[n].op = "grant" => cs[n].a \in Accounts
  BY <1>1 DEF Calls, Noop
<1>3. QED
  BY <1>2 DEF Granted

ChainTyped ==
    /\ mcm \in [Chains -> [MCMs -> [cfg : Configs, root : Configs \cup {NoRoot}]]]
    /\ holders \in [Chains -> [Roles -> SUBSET Accounts]]

\* Calls sent to a chain, or executed there by its timelock, keep the state of the
\* chains typed and on Stellar the roots with their configs.
LEMMA Performed ==
    ASSUME ChainTyped, RootSignedByCurrent, NEW c \in Chains, NEW cs \in Seq(Calls), Clears(c, cs), Perform(c, cs)
    PROVE  ChainTyped' /\ RootSignedByCurrent'
<1>1. mcm' = [mcm EXCEPT ![c] = [m \in MCMs |-> Configured(mcm[c][m], cs, m)]]
  BY DEF Perform
<1>2. holders' = [holders EXCEPT ![c] = [role \in Roles |-> holders[c][role] \cup Granted(cs, role)]]
  BY DEF Perform
<1>3. \A m \in MCMs : /\ mcm[c][m] \in [cfg : Configs, root : Configs \cup {NoRoot}]
                      /\ Configured(mcm[c][m], cs, m) \in [cfg : Configs, root : Configs \cup {NoRoot}]
  BY ConfiguredOK DEF ChainTyped
<1>4. mcm' \in [Chains -> [MCMs -> [cfg : Configs, root : Configs \cup {NoRoot}]]]
  BY <1>1, <1>3 DEF ChainTyped
<1>5. holders' \in [Chains -> [Roles -> SUBSET Accounts]]
  BY <1>2, GrantedOK DEF ChainTyped
<1>6. ASSUME NEW d \in Chains, Family[d] = "Stellar", NEW m \in MCMs
      PROVE  mcm'[d][m].root \in {NoRoot, mcm'[d][m].cfg}
  <2>1. CASE d # c
    BY <1>1, <1>6, <2>1 DEF RootSignedByCurrent, ChainTyped
  <2>2. CASE d = c
    <3>1. mcm'[d][m] = Configured(mcm[c][m], cs, m)
      BY <1>1, <2>2 DEF ChainTyped
    <3>2. \A n \in DOMAIN cs : cs[n].op = "cfg" => cs[n].clear
      BY <1>6, <2>2 DEF Clears
    <3>3. mcm[c][m].root \in {NoRoot, mcm[c][m].cfg}
      BY <1>6, <2>2 DEF RootSignedByCurrent
    <3>4. QED
      BY <1>3, <3>1, <3>2, <3>3, ConfiguredOK
  <2>3. QED
    BY <2>1, <2>2
<1>7. QED
  BY <1>4, <1>5, <1>6 DEF ChainTyped, RootSignedByCurrent

----------------------------------------------------------------------------
(* The run and its calls *)

\* The chain in progress is one of the request's.
LEMMA ChainChosen ==
    ASSUME RunWhole, pc # "idle", todo # {}
    PROVE  ch \in todo /\ ch \in DOMAIN req.by /\ ch \in Chains
<1>1. todo \subseteq DOMAIN req.by /\ DOMAIN req.by \subseteq Chains
  BY InputsAssumption DEF RunWhole
<1>2. todo \subseteq Nat
  BY <1>1, ChainsAssumption
<1>3. \E c \in todo : \A d \in todo : c <= d
  BY <1>2, LeastNat
<1>4. ch \in todo
  BY <1>3 DEF ch
<1>5. QED
  BY <1>1, <1>4

\* Calls that clear the root, joined, do.
LEMMA CallsJoined ==
    ASSUME NEW c, NEW s \in Seq(Calls), NEW t \in Seq(Calls), Clears(c, s), Clears(c, t), NEW u, u = s \o t
    PROVE  u \in Seq(Calls) /\ Clears(c, u) /\ (u # <<>> => s # <<>> \/ t # <<>>)
<1>0. \A n \in DOMAIN u : (\E k \in DOMAIN s : u[n] = s[k]) \/ (\E k \in DOMAIN t : u[n] = t[k])
  BY Joined
<1>1. ASSUME Family[c] = "Stellar", NEW n \in DOMAIN u, u[n].op = "cfg" PROVE u[n].clear
  BY <1>0, <1>1 DEF Clears
<1>2. QED
  BY <1>1, Joined DEF Clears

\* So do batches.
LEMMA BatchesJoined ==
    ASSUME NEW s \in Seq(Batches), NEW t \in Seq(Batches), AllClear(s), AllClear(t), NEW u, u = s \o t
    PROVE  u \in Seq(Batches) /\ AllClear(u) /\ (u # <<>> => s # <<>> \/ t # <<>>)
<1>0. \A n \in DOMAIN u : (\E k \in DOMAIN s : u[n] = s[k]) \/ (\E k \in DOMAIN t : u[n] = t[k])
  BY Joined
<1>1. ASSUME NEW n \in DOMAIN u PROVE Clears(u[n].ch, u[n].calls)
  BY <1>0 DEF AllClear
<1>2. QED
  BY <1>1, Joined DEF AllClear

\* An operation's call is sent, kept or taken from its report.  It leaves roots
\* with their configs, and what is kept of it clears the root.
LEMMA CallExecuted ==
    ASSUME ChainTyped, RootSignedByCurrent, ReportsWhole, calls \in Seq(Calls), calls # <<>> => req.mcms,
           NEW c \in Chains, c = ch, Clears(c, calls),
           NEW call \in Calls, Clears(c, <<call>>), ExecuteCall(call)
    PROVE  /\ ChainTyped' /\ RootSignedByCurrent' /\ ReportsWhole'
           /\ calls' \in Seq(Calls) /\ Clears(c, calls') /\ (calls' # <<>> => req.mcms)
<1>0. PICK k : k = OpKey(call)
  OBVIOUS
<1>1. k = OpKey(call) /\ k.ch = c /\ k.noSend = req.mcms
  BY <1>0 DEF OpKey
<1>2. PICK one : one = <<call>>
  OBVIOUS
<1>3. one \in Seq(Calls) /\ <<>> \in Seq(Calls) /\ Clears(c, <<>>)
  BY <1>2 DEF Clears
<1>4. CASE Reusable("op", k)
  <2>1. calls' = calls \o OutputOf("op", k) /\ UNCHANGED <<mcm, holders, reports>>
    BY <1>1, <1>4 DEF ExecuteCall
  <2>2. PICK r \in reports["op"] : r.k = k /\ r.out = OutputOf("op", k)
    BY <1>4 DEF Reusable, OutputOf
  <2>3. OpReportWhole(r) /\ r.k.ch = c /\ r.k.noSend = req.mcms
    BY <1>1, <2>2 DEF ReportsWhole
  <2>4. r.out \in Seq(Calls) /\ Clears(c, r.out) /\ (r.out # <<>> => req.mcms)
    BY <2>3 DEF OpReportWhole
  <2>5. calls' \in Seq(Calls) /\ Clears(c, calls') /\ (calls' # <<>> => calls # <<>> \/ r.out # <<>>)
    <3>1. PICK s, t, u : s = calls /\ t = r.out /\ u = calls'
      OBVIOUS
    <3>2. s \in Seq(Calls) /\ t \in Seq(Calls) /\ Clears(c, s) /\ Clears(c, t) /\ u = s \o t
      BY <2>1, <2>2, <2>4, <3>1
    <3>3. u \in Seq(Calls) /\ Clears(c, u) /\ (u # <<>> => s # <<>> \/ t # <<>>)
      BY <3>2, CallsJoined
    <3>4. QED
      BY <3>1, <3>3
  <2>6. ChainTyped' /\ RootSignedByCurrent' /\ ReportsWhole'
    BY <2>1 DEF ChainTyped, RootSignedByCurrent, ReportsWhole
  <2>7. QED
    BY <2>4, <2>5, <2>6
<1>5. CASE ~Reusable("op", k)
  <2>1. PICK o : o = OpOutput(call)
    OBVIOUS
  <2>2. /\ IF req.mcms THEN UNCHANGED <<mcm, holders, overridden>> ELSE Perform(c, one)
        /\ Report("op", k, o) /\ calls' = calls \o o
    BY <1>1, <1>2, <1>5, <2>1 DEF ExecuteCall
  <2>3. o \in Seq(Calls) /\ Clears(c, o) /\ (o # <<>> => req.mcms)
    BY <1>2, <1>3, <2>1 DEF OpOutput
  <2>4. calls' \in Seq(Calls) /\ Clears(c, calls') /\ (calls' # <<>> => calls # <<>> \/ o # <<>>)
    <3>1. PICK s, t, u : s = calls /\ t = o /\ u = calls'
      OBVIOUS
    <3>2. s \in Seq(Calls) /\ t \in Seq(Calls) /\ Clears(c, s) /\ Clears(c, t) /\ u = s \o t
      BY <2>2, <2>3, <3>1
    <3>3. u \in Seq(Calls) /\ Clears(c, u) /\ (u # <<>> => s # <<>> \/ t # <<>>)
      BY <3>2, CallsJoined
    <3>4. QED
      BY <3>1, <3>3
  <2>5. ChainTyped' /\ RootSignedByCurrent'
    <3>1. CASE req.mcms
      BY <2>2, <3>1 DEF ChainTyped, RootSignedByCurrent
    <3>2. CASE ~req.mcms
      BY <1>2, <1>3, <2>2, <3>2, Performed
    <3>3. QED
      BY <3>1, <3>2
  <2>6. ReportsWhole'
    <3> DEFINE e == [k |-> k, out |-> o]
    <3>1. reports' = [reports EXCEPT !["op"] = @ \cup {e}]
      BY <2>2 DEF Report
    <3>2. e.k.ch = c /\ e.out = o /\ e.k.noSend = req.mcms
      BY <1>1
    <3> HIDE DEF e
    <3>3. reports'["op"] = reports["op"] \cup {e} /\ reports'["chain"] = reports["chain"]
          /\ DOMAIN reports' = {"chain", "op"}
      BY <3>1 DEF ReportsWhole
    <3>4. OpReportWhole(e)
      BY <2>3, <3>2 DEF OpReportWhole
    <3>5. QED
      BY <3>3, <3>4 DEF ReportsWhole
  <2>7. QED
    BY <2>3, <2>4, <2>5, <2>6
<1>6. QED
  BY <1>4, <1>5

\* A new report of a chain's sequence with the batches of its calls.
LEMMA ChainReported ==
    ASSUME ReportsWhole, NEW k, NEW bs \in Seq(Batches), AllClear(bs), bs # <<>> => k.mcms,
           Report("chain", k, bs)
    PROVE  ReportsWhole'
<1> DEFINE e == [k |-> k, out |-> bs]
<1>1. reports' = [reports EXCEPT !["chain"] = @ \cup {e}]
  BY DEF Report
<1>2. e.k = k /\ e.out = bs
  OBVIOUS
<1> HIDE DEF e
<1>3. /\ reports'["chain"] = reports["chain"] \cup {e} /\ reports'["op"] = reports["op"]
      /\ DOMAIN reports' = {"chain", "op"}
  BY <1>1 DEF ReportsWhole
<1>4. ChainReportWhole(e)
  BY <1>2 DEF ChainReportWhole
<1>5. QED
  BY <1>3, <1>4 DEF ReportsWhole

\* The batches of calls that clear the root, one for all or one for each, do.
LEMMA Batched ==
    ASSUME NEW c \in Chains, c = ch, calls \in Seq(Calls), Clears(c, calls)
    PROVE  BatchOps \in Seq(Batches) /\ AllClear(BatchOps) /\ (BatchOps # <<>> => calls # <<>>)
<1>1. PICK bs : bs = BatchOps
  OBVIOUS
<1>2. ASSUME NEW cs \in Seq(Calls) PROVE Batch(cs) \in Batches /\ Batch(cs).ch = c /\ Batch(cs).calls = cs
  BY <1>2 DEF Batch, Batches
<1>3. CASE bs = BatchesEVM(calls)
  <2>1. CASE calls = <<>>
    BY <1>1, <1>3, <2>1 DEF BatchesEVM, AllClear
  <2>2. CASE calls # <<>>
    <3>1. PICK b : b = Batch(calls)
      OBVIOUS
    <3>2. b \in Batches /\ b.ch = c /\ b.calls = calls
      BY <1>2, <3>1
    <3>3. bs = <<b>>
      BY <1>3, <2>2, <3>1 DEF BatchesEVM
    <3>4. DOMAIN bs = {1} /\ bs[1] = b /\ bs \in Seq(Batches)
      BY <3>2, <3>3
    <3>5. AllClear(bs)
      BY <3>2, <3>4 DEF AllClear
    <3>6. QED
      BY <1>1, <2>2, <3>4, <3>5
  <2>3. QED
    BY <2>1, <2>2
<1>4. CASE bs = BatchesPerCall(calls)
  <2>1. bs = [n \in 1..Len(calls) |-> Batch(<<calls[n]>>)] /\ Len(calls) \in Nat
    BY <1>4 DEF BatchesPerCall
  <2>2. ASSUME NEW n \in 1..Len(calls)
        PROVE  Batch(<<calls[n]>>) \in Batches /\ Clears(Batch(<<calls[n]>>).ch, Batch(<<calls[n]>>).calls)
    <3>1. calls[n] \in Calls /\ n \in DOMAIN calls
      OBVIOUS
    <3>2. PICK one : one = <<calls[n]>>
      OBVIOUS
    <3>3. one \in Seq(Calls) /\ DOMAIN one = {1} /\ one[1] = calls[n]
      BY <3>1, <3>2
    <3>4. Clears(c, one)
      BY <3>1, <3>3 DEF Clears
    <3>5. Batch(one) \in Batches /\ Batch(one).ch = c /\ Batch(one).calls = one
      BY <1>2, <3>3
    <3>6. QED
      BY <3>2, <3>4, <3>5
  <2>3. bs \in [1..Len(calls) -> Batches]
    BY <2>1, <2>2
  <2>4. bs \in Seq(Batches) /\ Len(bs) = Len(calls)
    BY <2>1, <2>3
  <2>5. AllClear(bs)
    BY <2>1, <2>2 DEF AllClear
  <2>6. bs # <<>> => calls # <<>>
    BY <2>4
  <2>7. QED
    BY <1>1, <2>4, <2>5, <2>6
<1>5. QED
  BY <1>1, <1>3, <1>4 DEF BatchOps

----------------------------------------------------------------------------
(* The parts of the invariant: the chains, the proposals and reports, the  *)
(* place the run is at, and the calls it keeps                             *)

Counted == runs \in 0..MaxRuns /\ fails \in 0..MaxFails /\ env \in 0..MaxEnv
ProposalsWhole == \A p \in proposals : p # <<>> /\ p \in Seq(Batches) /\ AllClear(p)
PlaceOK ==
    /\ pc \in {"idle", "chain", "setConfig", "getRoot", "send", "grantRole", "grant", "fireDrill"}
    /\ req \in Inputs \cup {NoInput} /\ (pc = "idle" <=> req = NoInput)
    /\ todo \subseteq Chains /\ need \subseteq Accounts
    /\ pc \in {"getRoot", "send", "grant"} => targets # <<>>
    /\ RunWhole
Kept(s) == s # <<>> => req.mcms
KeptOK ==
    /\ calls \in Seq(Calls) /\ (Working => Clears(ch, calls)) /\ Kept(calls)
    /\ pc \in {"idle", "chain", "fireDrill"} => calls = <<>>
    /\ agg \in Seq(Batches) /\ AllClear(agg) /\ Kept(agg)

\* The invariant has these parts.
LEMMA Parts ==
    ASSUME GovInv
    PROVE  /\ ChainTyped /\ RootSignedByCurrent /\ Counted
           /\ ProposalsWhole /\ ReportsWhole /\ PlaceOK /\ KeptOK
<1>1. ((calls # <<>> \/ agg # <<>>) => req.mcms) <=> (Kept(calls) /\ Kept(agg))
  BY DEF Kept
<1>2. TypeOK <=> /\ ChainTyped /\ Counted /\ (\A p \in proposals : p # <<>>)
                  /\ pc \in {"idle", "chain", "setConfig", "getRoot", "send", "grantRole", "grant", "fireDrill"}
                  /\ req \in Inputs \cup {NoInput} /\ (pc = "idle" <=> req = NoInput)
                  /\ todo \subseteq Chains /\ need \subseteq Accounts
                  /\ (pc \in {"getRoot", "send", "grant"} => targets # <<>>)
                  /\ Kept(calls) /\ Kept(agg)
  BY <1>1, Zenon DEF TypeOK, ChainTyped, Counted
<1>3. QED
  BY <1>2, Zenon DEF GovInv, CallsWhole, ProposalsWhole, PlaceOK, KeptOK

\* And a step keeps it when it keeps them.
LEMMA Whole ==
    ASSUME ChainTyped', RootSignedByCurrent', Counted', ProposalsWhole', ReportsWhole', PlaceOK', KeptOK'
    PROVE  GovInv'
<1>1. ((calls' # <<>> \/ agg' # <<>>) => req'.mcms) <=> (Kept(calls)' /\ Kept(agg)')
  BY DEF Kept
<1>2. TypeOK' <=> /\ ChainTyped' /\ Counted' /\ (\A p \in proposals' : p # <<>>)
                  /\ pc' \in {"idle", "chain", "setConfig", "getRoot", "send", "grantRole", "grant", "fireDrill"}
                  /\ req' \in Inputs \cup {NoInput} /\ (pc' = "idle" <=> req' = NoInput)
                  /\ todo' \subseteq Chains /\ need' \subseteq Accounts
                  /\ (pc' \in {"getRoot", "send", "grant"} => targets' # <<>>)
                  /\ Kept(calls)' /\ Kept(agg)'
  BY <1>1, Zenon DEF TypeOK, ChainTyped, Counted
<1>3. QED
  BY <1>2, Zenon DEF GovInv, CallsWhole, ProposalsWhole, PlaceOK, KeptOK

\* A step beside the run leaves it alone.
LEMMA RunStays ==
    ASSUME PlaceOK, KeptOK, UNCHANGED <<pc, req, todo, targets, need, calls, agg>>
    PROVE  PlaceOK' /\ KeptOK'
<1>1. ch' = ch
  BY DEF ch
<1>2. PlaceOK'
  BY <1>1 DEF PlaceOK, RunWhole, Working
<1>3. KeptOK'
  BY <1>1 DEF KeptOK, Kept, Working
<1>4. QED
  BY <1>2, <1>3

\* The run is over.
LEMMA RunEnds ==
    ASSUME End
    PROVE  PlaceOK' /\ KeptOK'
<1>1. PlaceOK'
  BY DEF End, PlaceOK, RunWhole, Working
<1>2. calls' \in Seq(Calls) /\ agg' \in Seq(Batches) /\ calls' = <<>>
  BY DEF End
<1>3. ~Working' /\ Kept(calls)' /\ Kept(agg)'
  BY DEF End, Working, Kept
<1>4. AllClear(agg')
  BY DEF End, AllClear
<1>5. QED
  BY <1>1, <1>2, <1>3, <1>4 DEF KeptOK

\* The chain in progress is done, or its report is taken over.
LEMMA ChainEnds ==
    ASSUME PlaceOK, pc # "idle", todo # {}, todo' = todo \ {ch}, pc' = "chain", req' = req,
           need' \subseteq Accounts, calls' = <<>>, agg' \in Seq(Batches), AllClear(agg'), Kept(agg')
    PROVE  PlaceOK' /\ KeptOK'
<1>1. PlaceOK'
  BY DEF PlaceOK, RunWhole, Working
<1>2. ~Working' /\ Kept(calls)' /\ Kept(agg)'
  BY DEF Working, Kept
<1>3. QED
  BY <1>1, <1>2 DEF KeptOK

\* The sequence of the chain in progress goes on.
LEMMA ChainGoes ==
    ASSUME PlaceOK, KeptOK, pc # "idle", todo # {}, UNCHANGED <<req, todo, agg>>,
           pc' \in {"setConfig", "getRoot", "send", "grantRole", "grant", "fireDrill"},
           pc' \in {"getRoot", "send", "grant"} => targets' # <<>>,
           pc' \in {"setConfig", "getRoot", "send"} => req.cs = "setConfig",
           pc' \in {"grantRole", "grant"} => req.cs = "grantRole",
           pc' = "grant" => need' # {},
           targets' \in Seq(elems(req.by[ch])), need' \subseteq Accounts,
           calls' \in Seq(Calls), Clears(ch, calls'), Kept(calls'),
           pc' = "fireDrill" => calls' = <<>> /\ req.cs = "fireDrill"
    PROVE  PlaceOK' /\ KeptOK'
<1>1. ch' = ch
  BY DEF ch
<1>2. PlaceOK'
  BY <1>1 DEF PlaceOK, RunWhole
<1>3. Kept(calls)' /\ Kept(agg)' /\ Clears(ch, calls)'
  BY <1>1 DEF Kept, KeptOK, Clears
<1>4. QED
  BY <1>2, <1>3 DEF KeptOK

\* The target in progress is one of the input's: a configuration for an MCM, or
\* a role for some accounts.
LEMMA TargetOK ==
    ASSUME PlaceOK, Working, targets # <<>>
    PROVE  /\ Tail(targets) \in Seq(elems(req.by[ch]))
           /\ req.cs = "setConfig" => target.m \in MCMs /\ target.cfg \in Configs
           /\ req.cs = "grantRole" => target.role \in Roles /\ elems(target.to) \subseteq Accounts
<1>1. todo # {} /\ targets \in Seq(elems(req.by[ch])) /\ pc # "idle" /\ req \in Inputs /\ VerifyPreconditions(req)
  BY DEF PlaceOK, RunWhole, Working
<1>2. ch \in DOMAIN req.by
  BY <1>1, ChainChosen DEF PlaceOK
<1>3. Tail(targets) \in Seq(elems(req.by[ch])) /\ target \in elems(req.by[ch])
  BY <1>1 DEF target
<1>4. PICK n \in DOMAIN req.by[ch] : target = req.by[ch][n]
  BY <1>3 DEF elems
<1>5. ASSUME req.cs = "setConfig" PROVE target.m \in MCMs /\ target.cfg \in Configs
  <2>1. validateConfig(req)
    BY <1>1, <1>5 DEF VerifyPreconditions
  <2>2. target.m \in MCMs
    BY <1>2, <1>3, <2>1 DEF validateConfig
  <2>3. target.cfg \in Configs
    BY <1>1, <1>2, <1>4, <1>5, InputsAssumption
  <2>4. QED
    BY <2>2, <2>3
<1>6. ASSUME req.cs = "grantRole" PROVE target.role \in Roles /\ elems(target.to) \subseteq Accounts
  <2>1. target.role \in Roles /\ target.to \in Seq(Accounts)
    BY <1>1, <1>2, <1>4, <1>6, InputsAssumption
  <2>2. QED
    BY <2>1 DEF elems
<1>7. QED
  BY <1>3, <1>5, <1>6

\* A call that sets a config is known, and clears the root when it is to; one that
\* grants a role is, and has nothing to do with roots.
LEMMA CallsOK ==
    ASSUME NEW c
    PROVE  /\ \A m \in MCMs, cfg \in Configs, clear \in BOOLEAN :
                 /\ SetConfigCall(m, cfg, clear) \in Calls
                 /\ Family[c] # "Stellar" \/ clear => Clears(c, <<SetConfigCall(m, cfg, clear)>>)
           /\ \A role \in Roles, a \in Accounts :
                 GrantCall(role, a) \in Calls /\ Clears(c, <<GrantCall(role, a)>>)
<1>1. ASSUME NEW call PROVE DOMAIN <<call>> = {1} /\ <<call>>[1] = call
  OBVIOUS
<1>2. ASSUME NEW m \in MCMs, NEW cfg \in Configs, NEW clear \in BOOLEAN
      PROVE  /\ SetConfigCall(m, cfg, clear) \in Calls
             /\ Family[c] # "Stellar" \/ clear => Clears(c, <<SetConfigCall(m, cfg, clear)>>)
  <2>1. SetConfigCall(m, cfg, clear) \in Calls
    BY DEF SetConfigCall, Calls
  <2>2. SetConfigCall(m, cfg, clear).clear = clear
    BY DEF SetConfigCall
  <2>3. Family[c] # "Stellar" \/ clear => Clears(c, <<SetConfigCall(m, cfg, clear)>>)
    BY <1>1, <2>2 DEF Clears
  <2>4. QED
    BY <2>1, <2>3
<1>3. ASSUME NEW role \in Roles, NEW a \in Accounts
      PROVE  GrantCall(role, a) \in Calls /\ Clears(c, <<GrantCall(role, a)>>)
  <2>1. GrantCall(role, a) \in Calls /\ GrantCall(role, a).op = "grant"
    BY DEF GrantCall, Calls
  <2>2. Clears(c, <<GrantCall(role, a)>>)
    BY <1>1, <2>1 DEF Clears
  <2>3. QED
    BY <2>1, <2>2
<1>4. QED
  BY <1>2, <1>3

\* The call the run is about to make is one of these.
LEMMA NextCallOK ==
    ASSUME PlaceOK, Calling
    PROVE  NextCall \in Calls /\ Clears(ch, <<NextCall>>)
<1>1. Working /\ targets # <<>> /\ pc # "idle" /\ todo # {}
  BY DEF Calling, PlaceOK, RunWhole, Working
<1>2. PICK c : c = ch
  OBVIOUS
<1>3. c \in Chains /\ Family[c] \in {"EVM", "Solana", "Stellar"} /\ fam = Family[c]
  BY <1>1, <1>2, ChainChosen, FamilyAssumption DEF PlaceOK, fam
<1>4. CASE pc = "grant"
  <2>1. need # {} /\ need \subseteq Accounts /\ req.cs = "grantRole"
    BY <1>4 DEF PlaceOK, RunWhole
  <2>2. Grantee \in Accounts
    BY <2>1 DEF Grantee
  <2>3. PICK t, a : t = target /\ a = Grantee
    OBVIOUS
  <2>4. t.role \in Roles /\ a \in Accounts /\ NextCall = GrantCall(t.role, a)
    BY <1>1, <1>4, <2>1, <2>2, <2>3, TargetOK DEF NextCall
  <2>5. QED
    BY <1>2, <2>4, CallsOK
<1>5. CASE pc # "grant"
  <2>1. req.cs = "setConfig"
    BY <1>5 DEF PlaceOK, RunWhole, Calling
  <2>2. PICK t : t = target
    OBVIOUS
  <2>3. t.m \in MCMs /\ t.cfg \in Configs /\ NextCall = SetConfigCallOf(t)
    BY <1>1, <1>5, <2>1, <2>2, TargetOK DEF NextCall
  <2>4. PICK clear \in BOOLEAN : NextCall = SetConfigCall(t.m, t.cfg, clear) /\ (Family[c] = "Stellar" => clear)
    BY <1>3, <2>3 DEF SetConfigCallOf, OpEVMSetConfigMCM, OpSolanaSetConfigMCM, OpStellarSetConfigMCM, ClearRoot
  <2>5. QED
    BY <1>2, <2>3, <2>4, CallsOK
<1>6. QED
  BY <1>4, <1>5

----------------------------------------------------------------------------
(* Every action keeps the invariant *)

\* Start: a verified input, no chain begun.
LEMMA StartOK ==
    ASSUME GovInv, NEW i \in Inputs, Start(i)
    PROVE  GovInv'
<1>1. /\ ChainTyped /\ RootSignedByCurrent /\ Counted /\ ProposalsWhole /\ ReportsWhole
      /\ PlaceOK /\ KeptOK
  BY Parts
<1>2. ChainTyped' /\ RootSignedByCurrent' /\ ProposalsWhole' /\ ReportsWhole'
  BY <1>1 DEF Start, ChainTyped, RootSignedByCurrent, ProposalsWhole, ReportsWhole
<1>3. Counted'
  BY <1>1, BoundsAssumption DEF Start, Counted
<1>4. DOMAIN i.by \subseteq Chains /\ i # NoInput
  BY InputsAssumption
<1>5. PlaceOK'
  <2>1. /\ pc' = "chain" /\ req' = i /\ todo' = DOMAIN i.by /\ need' = need
        /\ VerifyPreconditions(req') /\ need \subseteq Accounts
    BY <1>1 DEF Start, PlaceOK, chainVars
  <2>2. RunWhole'
    BY <2>1 DEF RunWhole, Working
  <2>3. QED
    BY <1>4, <2>1, <2>2 DEF PlaceOK
<1>6. calls = <<>>
  BY <1>1 DEF Start, KeptOK
<1>7. KeptOK'
  <2>1. calls' = <<>> /\ agg' = <<>> /\ pc' = "chain"
    BY <1>6 DEF Start, chainVars
  <2>2. AllClear(agg') /\ Kept(calls)' /\ Kept(agg)' /\ ~Working'
    BY <2>1 DEF AllClear, Kept, Working
  <2>3. calls' \in Seq(Calls) /\ agg' \in Seq(Batches)
    BY <2>1
  <2>4. QED
    BY <2>1, <2>2, <2>3 DEF KeptOK
<1>8. QED
  BY <1>2, <1>3, <1>5, <1>7, Whole

\* ReuseChain: the batches of the report are merged, the chain is done.
LEMMA ReuseChainOK ==
    ASSUME GovInv, ReuseChain
    PROVE  GovInv'
<1>1. /\ ChainTyped /\ RootSignedByCurrent /\ Counted /\ ProposalsWhole /\ ReportsWhole
      /\ PlaceOK /\ KeptOK
  BY Parts
<1>2. /\ ChainTyped' /\ RootSignedByCurrent' /\ Counted' /\ ProposalsWhole' /\ ReportsWhole'
  BY <1>1 DEF ReuseChain, ChainTyped, RootSignedByCurrent, Counted, ProposalsWhole, ReportsWhole
<1>3. PICK k : k = ChainInput
  OBVIOUS
<1>4. PICK r \in reports["chain"] : r.k = k /\ r.out = OutputOf("chain", k)
  BY <1>3 DEF ReuseChain, Reusable, OutputOf
<1>5. ChainReportWhole(r) /\ r.k.mcms = req.mcms
  BY <1>1, <1>3, <1>4 DEF ReportsWhole, ChainInput
<1>6. r.out \in Seq(Batches) /\ AllClear(r.out) /\ Kept(r.out)
  BY <1>5 DEF ChainReportWhole, Kept
<1>7. agg \in Seq(Batches) /\ AllClear(agg) /\ Kept(agg) /\ calls = <<>>
  BY <1>1 DEF ReuseChain, KeptOK
<1>8. agg' \in Seq(Batches) /\ AllClear(agg') /\ Kept(agg')
  <2>1. PICK s, t, u : s = agg /\ t = r.out /\ u = agg'
    OBVIOUS
  <2>2. s \in Seq(Batches) /\ t \in Seq(Batches) /\ AllClear(s) /\ AllClear(t) /\ u = s \o t
    BY <1>3, <1>4, <1>6, <1>7, <2>1 DEF ReuseChain
  <2>3. u \in Seq(Batches) /\ AllClear(u) /\ (u # <<>> => s # <<>> \/ t # <<>>)
    BY <2>2, BatchesJoined
  <2>4. QED
    BY <1>6, <1>7, <2>1, <2>3 DEF Kept
<1>9. PlaceOK' /\ KeptOK'
  <2>1. /\ pc # "idle" /\ todo # {} /\ todo' = todo \ {ch} /\ pc' = "chain" /\ req' = req
        /\ need' \subseteq Accounts /\ calls' = <<>>
    BY <1>1, <1>7 DEF ReuseChain, PlaceOK, chainVars
  <2>2. QED
    BY <1>1, <1>8, <2>1, ChainEnds
<1>10. QED
  BY <1>2, <1>9, Whole

\* StartChain: the targets of the chain, no call yet.
LEMMA StartChainOK ==
    ASSUME GovInv, StartChain
    PROVE  GovInv'
<1>1. /\ ChainTyped /\ RootSignedByCurrent /\ Counted /\ ProposalsWhole /\ ReportsWhole
      /\ PlaceOK /\ KeptOK
  BY Parts
<1>2. /\ ChainTyped' /\ RootSignedByCurrent' /\ Counted' /\ ProposalsWhole' /\ ReportsWhole'
  BY <1>1 DEF StartChain, ChainTyped, RootSignedByCurrent, Counted, ProposalsWhole, ReportsWhole
<1>3. pc # "idle" /\ todo # {} /\ req \in Inputs
  BY <1>1 DEF StartChain, PlaceOK, RunWhole
<1>4. ch \in DOMAIN req.by
  BY <1>1, <1>3, ChainChosen DEF PlaceOK
<1>5. req.by[ch] \in Seq(elems(req.by[ch])) /\ req.cs \in {"setConfig", "grantRole", "fireDrill"}
  BY <1>3, <1>4, InputsAssumption DEF elems
<1>6. Clears(ch, <<>>) /\ Kept(<<>>)
  BY DEF Clears, Kept
<1>7. /\ UNCHANGED <<req, todo, agg>> /\ pc' = req.cs /\ targets' = req.by[ch]
      /\ need' = {} /\ calls' = <<>>
  BY DEF StartChain
<1>8. PlaceOK' /\ KeptOK'
  <2>1. /\ pc' \in {"setConfig", "getRoot", "send", "grantRole", "grant", "fireDrill"}
        /\ pc' \in {"getRoot", "send", "grant"} => targets' # <<>>
        /\ pc' \in {"setConfig", "getRoot", "send"} => req.cs = "setConfig"
        /\ pc' \in {"grantRole", "grant"} => req.cs = "grantRole"
        /\ pc' = "grant" => need' # {}
        /\ pc' = "fireDrill" => calls' = <<>> /\ req.cs = "fireDrill"
    BY <1>5, <1>7
  <2>2. targets' \in Seq(elems(req.by[ch])) /\ need' \subseteq Accounts /\ calls' \in Seq(Calls)
    BY <1>5, <1>7
  <2>3. QED
    BY <1>1, <1>3, <1>6, <1>7, <2>1, <2>2, ChainGoes
<1>9. QED
  BY <1>2, <1>8, Whole

\* ChainDone and the fire drill's step: the chain's batches are reported and merged.
LEMMA ChainMerged ==
    ASSUME GovInv, Working, NEW bs \in Seq(Batches), AllClear(bs), bs # <<>> => req.mcms,
           Report("chain", ChainInput, bs), agg' = agg \o bs, todo' = todo \ {ch},
           pc' = "chain", calls' = <<>>,
           UNCHANGED <<mcm, holders, proposals, req, need, runs, fails, env>>
    PROVE  GovInv'
<1>1. /\ ChainTyped /\ RootSignedByCurrent /\ Counted /\ ProposalsWhole /\ ReportsWhole
      /\ PlaceOK /\ KeptOK
  BY Parts
<1>2. /\ ChainTyped' /\ RootSignedByCurrent' /\ Counted' /\ ProposalsWhole'
  BY <1>1 DEF ChainTyped, RootSignedByCurrent, Counted, ProposalsWhole
<1>3. ReportsWhole'
  <2>1. PICK k : k = ChainInput
    OBVIOUS
  <2>2. k.mcms = req.mcms
    BY <2>1 DEF ChainInput
  <2>3. Report("chain", k, bs) /\ (bs # <<>> => k.mcms)
    BY <2>1, <2>2
  <2>4. QED
    BY <1>1, <2>3, ChainReported
<1>4. agg' \in Seq(Batches) /\ AllClear(agg') /\ Kept(agg')
  <2>1. PICK s, u : s = agg /\ u = agg'
    OBVIOUS
  <2>2. s \in Seq(Batches) /\ AllClear(s) /\ u = s \o bs
    BY <1>1, <2>1 DEF KeptOK
  <2>3. u \in Seq(Batches) /\ AllClear(u) /\ (u # <<>> => s # <<>> \/ bs # <<>>)
    BY <2>2, BatchesJoined
  <2>4. QED
    BY <1>1, <2>1, <2>3 DEF Kept, KeptOK
<1>5. PlaceOK' /\ KeptOK'
  <2>1. /\ pc # "idle" /\ todo # {} /\ need' \subseteq Accounts
    BY <1>1 DEF PlaceOK, RunWhole, Working
  <2>2. QED
    BY <1>1, <1>4, <2>1, ChainEnds
<1>6. QED
  BY <1>2, <1>3, <1>5, Whole

\* ChainDone: what it merges is made of the calls kept, on one chain.
LEMMA ChainDoneOK ==
    ASSUME GovInv, ChainDone
    PROVE  GovInv'
<1>1. PlaceOK /\ KeptOK
  BY Parts
<1>2. Working /\ pc # "idle" /\ todo # {}
  BY <1>1 DEF ChainDone, Working, PlaceOK, RunWhole
<1>3. PICK c, bs : c = ch /\ bs = BatchOps
  OBVIOUS
<1>4. c \in Chains /\ calls \in Seq(Calls) /\ Clears(c, calls) /\ Kept(calls)
  BY <1>1, <1>2, <1>3, ChainChosen DEF PlaceOK, KeptOK
<1>5. bs \in Seq(Batches) /\ AllClear(bs) /\ (bs # <<>> => calls # <<>>)
  BY <1>3, <1>4, Batched
<1>6. bs # <<>> => req.mcms
  BY <1>4, <1>5 DEF Kept
<1>7. /\ Report("chain", ChainInput, bs) /\ agg' = agg \o bs /\ todo' = todo \ {ch}
      /\ pc' = "chain" /\ calls' = <<>>
      /\ UNCHANGED <<mcm, holders, proposals, req, need, runs, fails, env>>
  BY <1>3 DEF ChainDone
<1>8. QED
  BY <1>2, <1>5, <1>6, <1>7, ChainMerged

\* The fire drill: one batch that does nothing, and always for a proposal.
LEMMA FireDrillOK ==
    ASSUME GovInv, pc = "fireDrill", FireDrillStep
    PROVE  GovInv'
<1>1. PlaceOK /\ KeptOK
  BY Parts
<1>2. /\ Working /\ pc # "idle" /\ todo # {} /\ calls = <<>> /\ VerifyPreconditions(req)
      /\ req.cs = "fireDrill"
  BY <1>1 DEF Working, PlaceOK, RunWhole, KeptOK
<1>3. PICK c, b, bs : c = ch /\ b = Batch(<<Noop>>) /\ bs = <<b>>
  OBVIOUS
<1>4. c \in Chains
  BY <1>1, <1>2, <1>3, ChainChosen DEF PlaceOK
<1>5. <<Noop>> \in Seq(Calls) /\ Clears(c, <<Noop>>)
  BY DEF Noop, Calls, Clears
<1>6. b \in Batches /\ b.ch = c /\ b.calls = <<Noop>>
  BY <1>3, <1>4, <1>5 DEF Batch, Batches
<1>7. bs \in Seq(Batches) /\ DOMAIN bs = {1} /\ bs[1] = b
  BY <1>3, <1>6
<1>8. AllClear(bs)
  BY <1>5, <1>6, <1>7 DEF AllClear
<1>9. agg' = agg \o bs
  <2>1. agg \in Seq(Batches) /\ agg' = Append(agg, b)
    BY <1>1, <1>3 DEF FireDrillStep, KeptOK
  <2>2. QED
    BY <1>3, <1>6, <2>1
<1>10. /\ Report("chain", ChainInput, bs) /\ todo' = todo \ {ch} /\ pc' = "chain" /\ calls' = <<>>
       /\ UNCHANGED <<mcm, holders, proposals, req, need, runs, fails, env>>
  BY <1>2, <1>3 DEF FireDrillStep, chainVars
<1>11. req.mcms
  BY <1>2, Zenon DEF VerifyPreconditions, VerifyFireDrill
<1>12. QED
  BY <1>2, <1>7, <1>8, <1>9, <1>10, <1>11, ChainMerged

\* An operation of the chain in progress: its call is sent, kept or taken from its
\* report, and the run goes on.
LEMMA CallMade ==
    ASSUME GovInv, Working, NEW call \in Calls, Clears(ch, <<call>>), ExecuteCall(call),
           UNCHANGED <<proposals, req, todo, agg, runs, fails, env>>,
           pc' \in {"setConfig", "grantRole", "grant"}, pc' = "setConfig" => req.cs = "setConfig",
           pc' \in {"grantRole", "grant"} => req.cs = "grantRole",
           pc' = "grant" => need' # {} /\ targets' # <<>>,
           targets' \in Seq(elems(req.by[ch])), need' \subseteq Accounts
    PROVE  GovInv'
<1>1. /\ ChainTyped /\ RootSignedByCurrent /\ Counted /\ ProposalsWhole /\ ReportsWhole
      /\ PlaceOK /\ KeptOK
  BY Parts
<1>2. pc # "idle" /\ todo # {}
  BY <1>1 DEF Working, PlaceOK, RunWhole
<1>3. PICK c : c = ch
  OBVIOUS
<1>4. c \in Chains /\ calls \in Seq(Calls) /\ Clears(c, calls) /\ (calls # <<>> => req.mcms)
  BY <1>1, <1>2, <1>3, ChainChosen DEF PlaceOK, KeptOK, Kept
<1>5. /\ ChainTyped' /\ RootSignedByCurrent' /\ ReportsWhole'
      /\ calls' \in Seq(Calls) /\ Clears(c, calls') /\ (calls' # <<>> => req.mcms)
  <2>1. Clears(c, <<call>>) /\ c = ch
    BY <1>3
  <2>2. QED
    BY <1>1, <1>4, <2>1, CallExecuted
<1>6. ProposalsWhole' /\ Counted'
  BY <1>1 DEF ProposalsWhole, Counted
<1>7. PlaceOK' /\ KeptOK'
  <2>1. Clears(ch, calls') /\ Kept(calls')
    BY <1>3, <1>5 DEF Kept
  <2>2. QED
    BY <1>1, <1>2, <1>5, <2>1, ChainGoes
<1>8. QED
  BY <1>5, <1>6, <1>7, Whole

\* A step between two calls of the chain in progress, with no call of its own.
LEMMA NoCallMade ==
    ASSUME GovInv, Working, ReportsWhole',
           UNCHANGED <<mcm, holders, proposals, req, todo, calls, agg, runs, fails, env>>,
           pc' \in {"setConfig", "getRoot", "send", "grantRole", "grant"},
           pc' \in {"setConfig", "getRoot", "send"} => req.cs = "setConfig",
           pc' \in {"grantRole", "grant"} => req.cs = "grantRole",
           pc' \in {"getRoot", "send", "grant"} => targets' # <<>>, pc' = "grant" => need' # {},
           targets' \in Seq(elems(req.by[ch])), need' \subseteq Accounts
    PROVE  GovInv'
<1>1. /\ ChainTyped /\ RootSignedByCurrent /\ Counted /\ ProposalsWhole /\ PlaceOK /\ KeptOK
  BY Parts
<1>2. pc # "idle" /\ todo # {}
  BY <1>1 DEF Working, PlaceOK, RunWhole
<1>3. ChainTyped' /\ RootSignedByCurrent' /\ ProposalsWhole' /\ Counted'
  BY <1>1 DEF ChainTyped, RootSignedByCurrent, ProposalsWhole, Counted
<1>4. calls' \in Seq(Calls) /\ Clears(ch, calls') /\ Kept(calls')
  BY <1>1 DEF KeptOK
<1>5. PlaceOK' /\ KeptOK'
  BY <1>1, <1>2, <1>4, ChainGoes
<1>6. QED
  BY <1>3, <1>5, Whole

\* runEVMSetConfig and runSolanaSetConfig: the chain has no root to clear.
LEMMA SetConfigOK ==
    ASSUME GovInv, runEVMSetConfig \/ runSolanaSetConfig
    PROVE  GovInv'
<1>1. PlaceOK /\ pc = "setConfig" /\ targets # <<>> /\ Working /\ fam \in {"EVM", "Solana"}
  BY Parts DEF runEVMSetConfig, runSolanaSetConfig, Working
<1>2. req.cs = "setConfig" /\ need \subseteq Accounts
  BY <1>1 DEF PlaceOK, RunWhole
<1>3. PICK c, t : c = ch /\ t = target
  OBVIOUS
<1>4. Family[c] # "Stellar" /\ t.m \in MCMs /\ t.cfg \in Configs /\ Tail(targets) \in Seq(elems(req.by[c]))
  BY <1>1, <1>2, <1>3, TargetOK DEF fam
<1>5. PICK call : call = SetConfigCall(t.m, t.cfg, FALSE)
  OBVIOUS
<1>6. call \in Calls /\ Clears(c, <<call>>)
  BY <1>4, <1>5, CallsOK
<1>7. SetConfigStep(call)
  BY <1>3, <1>5 DEF runEVMSetConfig, runSolanaSetConfig, OpEVMSetConfigMCM, OpSolanaSetConfigMCM
<1>8. /\ ExecuteCall(call) /\ UNCHANGED <<proposals, req, todo, agg, runs, fails, env>>
      /\ pc' = "setConfig" /\ targets' \in Seq(elems(req.by[ch])) /\ need' \subseteq Accounts
  BY <1>1, <1>2, <1>3, <1>4, <1>7 DEF SetConfigStep
<1>9. Clears(ch, <<call>>)
  BY <1>3, <1>6
<1>10. QED
  BY <1>1, <1>2, <1>6, <1>8, <1>9, CallMade

\* stellarSetConfig: its call clears the root.
LEMMA StellarSetConfigOK ==
    ASSUME GovInv, stellarSetConfig
    PROVE  GovInv'
<1>1. PlaceOK /\ pc = "send" /\ targets # <<>> /\ Working
  BY Parts DEF stellarSetConfig, Working, PlaceOK
<1>2. req.cs = "setConfig" /\ need \subseteq Accounts
  BY <1>1 DEF PlaceOK, RunWhole
<1>3. PICK c, t : c = ch /\ t = target
  OBVIOUS
<1>4. t.m \in MCMs /\ t.cfg \in Configs /\ Tail(targets) \in Seq(elems(req.by[c]))
  BY <1>1, <1>2, <1>3, TargetOK
<1>5. PICK call : call = SetConfigCall(t.m, t.cfg, TRUE)
  OBVIOUS
<1>6. call \in Calls /\ Clears(c, <<call>>)
  BY <1>4, <1>5, CallsOK
<1>7. /\ ExecuteCall(call) /\ UNCHANGED <<proposals, req, todo, agg, runs, fails, env>>
      /\ pc' = "setConfig" /\ targets' \in Seq(elems(req.by[ch])) /\ need' \subseteq Accounts
  BY <1>2, <1>3, <1>4, <1>5 DEF stellarSetConfig, OpStellarSetConfigMCM, ClearRoot
<1>8. Clears(ch, <<call>>)
  BY <1>3, <1>6
<1>9. QED
  BY <1>1, <1>2, <1>6, <1>7, <1>8, CallMade

\* stellarReuse: the calls of the report are kept; they clear the root too.
LEMMA StellarReuseOK ==
    ASSUME GovInv, stellarReuse
    PROVE  GovInv'
<1>1. PlaceOK /\ pc = "setConfig" /\ targets # <<>> /\ Working
  BY Parts DEF stellarReuse, Working
<1>2. req.cs = "setConfig" /\ need \subseteq Accounts
  BY <1>1 DEF PlaceOK, RunWhole
<1>3. PICK c, t : c = ch /\ t = target
  OBVIOUS
<1>4. t.m \in MCMs /\ t.cfg \in Configs /\ Tail(targets) \in Seq(elems(req.by[c]))
  BY <1>1, <1>2, <1>3, TargetOK
<1>5. PICK call : call = SetConfigCall(t.m, t.cfg, TRUE)
  OBVIOUS
<1>6. call \in Calls /\ Clears(c, <<call>>)
  BY <1>4, <1>5, CallsOK
<1>7. stellarKey = OpKey(call)
  BY <1>3, <1>5 DEF stellarKey, OpStellarSetConfigMCM, ClearRoot
<1>8. /\ ExecuteCall(call) /\ UNCHANGED <<proposals, req, todo, agg, runs, fails, env>>
      /\ pc' = "setConfig" /\ targets' \in Seq(elems(req.by[ch])) /\ need' \subseteq Accounts
  BY <1>1, <1>2, <1>3, <1>4, <1>7 DEF stellarReuse, ExecuteCall
<1>9. Clears(ch, <<call>>)
  BY <1>3, <1>6
<1>10. QED
  BY <1>1, <1>2, <1>6, <1>8, <1>9, CallMade

\* stellarGetConfig: nothing but the read.
LEMMA GetConfigOK ==
    ASSUME GovInv, stellarGetConfig
    PROVE  GovInv'
<1>1. PlaceOK /\ ReportsWhole /\ pc = "setConfig" /\ targets # <<>> /\ Working
  BY Parts DEF stellarGetConfig, Working
<1>2. req.cs = "setConfig" /\ need \subseteq Accounts /\ targets \in Seq(elems(req.by[ch]))
  BY <1>1 DEF PlaceOK, RunWhole
<1>3. ReportsWhole'
  BY <1>1 DEF stellarGetConfig, ReportsWhole
<1>4. /\ UNCHANGED <<mcm, holders, proposals, req, todo, calls, agg, runs, fails, env>>
      /\ pc' \in {"getRoot", "send"} /\ targets' = targets /\ need' = need
  BY DEF stellarGetConfig, chainVars
<1>5. QED
  BY <1>1, <1>2, <1>3, <1>4, NoCallMade

\* stellarGetRoot: an operation with nothing to do reports that it returned nothing.
LEMMA GetRootOK ==
    ASSUME GovInv, stellarGetRoot
    PROVE  GovInv'
<1>1. PlaceOK /\ ReportsWhole /\ pc = "getRoot" /\ targets # <<>> /\ Working
  BY Parts DEF stellarGetRoot, Working, PlaceOK
<1>2. /\ req.cs = "setConfig" /\ need \subseteq Accounts /\ targets \in Seq(elems(req.by[ch]))
      /\ Tail(targets) \in Seq(elems(req.by[ch]))
  BY <1>1, TargetOK DEF PlaceOK, RunWhole
<1>3. ReportsWhole'
  <2>1. CASE rootClear
    <3>1. PICK k, e : k = stellarKey /\ e = [k |-> k, out |-> <<>>]
      OBVIOUS
    <3>2. e.k = k /\ e.out = <<>> /\ reports' = [reports EXCEPT !["op"] = @ \cup {e}]
      BY <2>1, <3>1 DEF stellarGetRoot, Report
    <3>3. OpReportWhole(e)
      BY <3>2 DEF OpReportWhole, Clears
    <3>4. QED
      BY <1>1, <3>2, <3>3 DEF ReportsWhole
  <2>2. CASE ~rootClear
    BY <1>1, <2>2 DEF stellarGetRoot, ReportsWhole
  <2>3. QED
    BY <2>1, <2>2
<1>4. /\ UNCHANGED <<mcm, holders, proposals, req, todo, calls, agg, runs, fails, env>> /\ need' = need
      /\ \/ pc' = "setConfig" /\ targets' = Tail(targets)
         \/ pc' = "send" /\ targets' = targets
  BY DEF stellarGetRoot
<1>5. QED
  BY <1>1, <1>2, <1>3, <1>4, NoCallMade

\* ReadGrant: the grantees of one target, or the next target when it has none.
LEMMA ReadGrantOK ==
    ASSUME GovInv, pc = "grantRole", ReadGrant
    PROVE  GovInv'
<1>1. PlaceOK /\ ReportsWhole /\ targets # <<>> /\ Working
  BY Parts DEF ReadGrant, Working
<1>2. /\ req.cs = "grantRole" /\ need \subseteq Accounts /\ targets \in Seq(elems(req.by[ch]))
      /\ Tail(targets) \in Seq(elems(req.by[ch]))
  BY <1>1, TargetOK DEF PlaceOK, RunWhole
<1>3. AddressesNeedingGrant(target) \subseteq Accounts
  BY <1>1, <1>2, TargetOK DEF AddressesNeedingGrant
<1>4. ReportsWhole'
  BY <1>1 DEF ReadGrant, ReportsWhole
<1>5. /\ UNCHANGED <<mcm, holders, proposals, req, todo, calls, agg, runs, fails, env>>
      /\ \/ pc' = "grantRole" /\ targets' = Tail(targets) /\ need' = need
         \/ pc' = "grant" /\ targets' = targets /\ need' # {} /\ need' \subseteq Accounts
  BY <1>3 DEF ReadGrant
<1>6. QED
  BY <1>1, <1>2, <1>4, <1>5, NoCallMade

\* GrantStep: a grant of the target's role, the next grantee or the next target.
LEMMA GrantStepOK ==
    ASSUME GovInv, pc = "grant", GrantStep
    PROVE  GovInv'
<1>1. PlaceOK /\ Calling /\ Working
  BY Parts DEF Calling, Working
<1>2. /\ req.cs = "grantRole" /\ need \subseteq Accounts /\ targets # <<>>
      /\ targets \in Seq(elems(req.by[ch])) /\ Tail(targets) \in Seq(elems(req.by[ch]))
  BY <1>1, TargetOK DEF PlaceOK, RunWhole
<1>3. PICK call : call = GrantCall(target.role, Grantee)
  OBVIOUS
<1>4. call \in Calls /\ Clears(ch, <<call>>)
  BY <1>1, <1>3, NextCallOK DEF NextCall
<1>5. /\ ExecuteCall(call) /\ UNCHANGED <<proposals, req, todo, agg, runs, fails, env>>
      /\ need' \subseteq need
      /\ \/ pc' = "grantRole" /\ targets' = Tail(targets)
         \/ pc' = "grant" /\ targets' = targets /\ need' # {}
  BY <1>3 DEF GrantStep
<1>6. QED
  BY <1>1, <1>2, <1>4, <1>5, CallMade

\* buildOutput: the run's batches become a proposal, if there are any.
LEMMA BuildOutputOK ==
    ASSUME GovInv, buildOutput
    PROVE  GovInv'
<1>1. /\ ChainTyped /\ RootSignedByCurrent /\ Counted /\ ProposalsWhole /\ ReportsWhole /\ KeptOK
  BY Parts
<1>2. ChainTyped' /\ RootSignedByCurrent' /\ Counted' /\ ReportsWhole'
  BY <1>1 DEF buildOutput, ChainTyped, RootSignedByCurrent, Counted, ReportsWhole
<1>3. agg \in Seq(Batches) /\ AllClear(agg)
  BY <1>1 DEF KeptOK
<1>4. ProposalsWhole'
  BY <1>1, <1>3 DEF buildOutput, ProposalsWhole
<1>5. PlaceOK' /\ KeptOK'
  BY RunEnds DEF buildOutput
<1>6. QED
  BY <1>2, <1>4, <1>5, Whole

\* Reverted and Fail: the run ends with nothing done by this step.
LEMMA FailOK ==
    ASSUME GovInv, Reverted \/ Fail
    PROVE  GovInv'
<1>1. /\ ChainTyped /\ RootSignedByCurrent /\ Counted /\ ProposalsWhole /\ ReportsWhole
  BY Parts
<1>2. ChainTyped' /\ RootSignedByCurrent' /\ ProposalsWhole' /\ ReportsWhole'
  BY <1>1 DEF Reverted, Fail, ChainTyped, RootSignedByCurrent, ProposalsWhole, ReportsWhole
<1>3. Counted'
  BY <1>1, BoundsAssumption DEF Reverted, Fail, Counted
<1>4. PlaceOK' /\ KeptOK'
  BY RunEnds DEF Reverted, Fail
<1>5. QED
  BY <1>2, <1>3, <1>4, Whole

\* LoseResult: the call is mined and the run ends with neither its report nor its result.
LEMMA LoseResultOK ==
    ASSUME GovInv, LoseResult
    PROVE  GovInv'
<1>1. /\ ChainTyped /\ RootSignedByCurrent /\ Counted /\ ProposalsWhole /\ ReportsWhole /\ PlaceOK
  BY Parts
<1>2. NextCall \in Calls /\ Clears(ch, <<NextCall>>) /\ pc # "idle" /\ todo # {}
  BY <1>1, NextCallOK DEF LoseResult, Calling, PlaceOK, RunWhole, Working
<1>3. PICK c, cs : c = ch /\ cs = <<NextCall>>
  OBVIOUS
<1>4. c \in Chains /\ cs \in Seq(Calls) /\ Clears(c, cs) /\ Perform(c, cs)
  BY <1>1, <1>2, <1>3, ChainChosen DEF LoseResult, PlaceOK
<1>5. ChainTyped' /\ RootSignedByCurrent'
  BY <1>1, <1>4, Performed
<1>6. ProposalsWhole' /\ ReportsWhole'
  BY <1>1 DEF LoseResult, ProposalsWhole, ReportsWhole
<1>7. Counted'
  BY <1>1, BoundsAssumption DEF LoseResult, Counted
<1>8. PlaceOK' /\ KeptOK'
  BY RunEnds DEF LoseResult
<1>9. QED
  BY <1>5, <1>6, <1>7, <1>8, Whole

\* NewBundle: the reports are gone.
LEMMA NewBundleOK ==
    ASSUME GovInv, NewBundle
    PROVE  GovInv'
<1>1. /\ ChainTyped /\ RootSignedByCurrent /\ Counted /\ ProposalsWhole /\ PlaceOK /\ KeptOK
  BY Parts
<1>2. ChainTyped' /\ RootSignedByCurrent' /\ ProposalsWhole'
  BY <1>1 DEF NewBundle, ChainTyped, RootSignedByCurrent, ProposalsWhole
<1>3. ReportsWhole'
  BY DEF NewBundle, NoReports, ReportsWhole
<1>4. Counted'
  BY <1>1, BoundsAssumption DEF NewBundle, Counted
<1>5. PlaceOK' /\ KeptOK'
  <2>1. UNCHANGED <<pc, req, todo, targets, need, calls, agg>>
    BY DEF NewBundle, chainVars
  <2>2. QED
    BY <1>1, <2>1, RunStays
<1>6. QED
  BY <1>2, <1>3, <1>4, <1>5, Whole

\* ExecuteBatch: the timelock makes the calls of a batch, which is gone from the
\* proposal; what is left of the proposal is as it was.
LEMMA ExecuteBatchOK ==
    ASSUME GovInv, NEW p \in proposals, NEW n \in DOMAIN p, ExecuteBatch(p, n)
    PROVE  GovInv'
<1>1. /\ ChainTyped /\ RootSignedByCurrent /\ Counted /\ ProposalsWhole /\ ReportsWhole
      /\ PlaceOK /\ KeptOK
  BY Parts
<1>2. p \in Seq(Batches) /\ AllClear(p)
  BY <1>1 DEF ProposalsWhole
<1>3. PICK b : b = p[n]
  OBVIOUS
<1>4. b \in Batches /\ Clears(b.ch, b.calls)
  BY <1>2, <1>3 DEF AllClear
<1>5. b.ch \in Chains /\ b.calls \in Seq(Calls)
  BY <1>4 DEF Batches
<1>6. ChainTyped' /\ RootSignedByCurrent'
  <2>1. Perform(b.ch, b.calls)
    BY <1>3 DEF ExecuteBatch
  <2>2. QED
    BY <1>1, <1>4, <1>5, <2>1, Performed
<1>7. ProposalsWhole'
  <2>1. PICK q : q = RemoveAt(p, n)
    OBVIOUS
  <2>2. q \in Seq(Batches) /\ (Len(p) # 1 => q # <<>>)
    BY <1>2, <2>1, Removed
  <2>3. \A k \in DOMAIN q : \E j \in DOMAIN p : q[k] = p[j]
    BY <1>2, <2>1, Removed
  <2>4. AllClear(q)
    BY <1>2, <2>3 DEF AllClear
  <2>5. proposals' = (proposals \ {p}) \cup IF Len(p) = 1 THEN {} ELSE {q}
    BY <2>1 DEF ExecuteBatch
  <2>6. QED
    BY <1>1, <2>2, <2>4, <2>5 DEF ProposalsWhole
<1>8. ReportsWhole' /\ Counted'
  BY <1>1 DEF ExecuteBatch, ReportsWhole, Counted
<1>9. PlaceOK' /\ KeptOK'
  <2>1. UNCHANGED <<pc, req, todo, targets, need, calls, agg>>
    BY DEF ExecuteBatch, chainVars
  <2>2. QED
    BY <1>1, <2>1, RunStays
<1>10. QED
  BY <1>6, <1>7, <1>8, <1>9, Whole

\* SetRoot: signers sign under the config of the moment.
LEMMA SetRootOK ==
    ASSUME GovInv, NEW c \in Chains, NEW m \in MCMs, SetRoot(c, m)
    PROVE  GovInv'
<1>1. /\ ChainTyped /\ RootSignedByCurrent /\ Counted /\ ProposalsWhole /\ ReportsWhole
      /\ PlaceOK /\ KeptOK
  BY Parts
<1>2. PICK e : e = [mcm[c][m] EXCEPT !.root = mcm[c][m].cfg]
  OBVIOUS
<1>3. /\ e \in [cfg : Configs, root : Configs \cup {NoRoot}] /\ e.root = e.cfg
  BY <1>1, <1>2 DEF ChainTyped
<1>4. mcm' = [mcm EXCEPT ![c] = [mcm[c] EXCEPT ![m] = e]] /\ holders' = holders
  BY <1>2 DEF SetRoot
<1>5. ChainTyped' /\ RootSignedByCurrent'
  BY <1>1, <1>3, <1>4 DEF ChainTyped, RootSignedByCurrent
<1>6. ProposalsWhole' /\ ReportsWhole'
  BY <1>1 DEF SetRoot, ProposalsWhole, ReportsWhole
<1>7. Counted'
  BY <1>1, BoundsAssumption DEF SetRoot, Counted
<1>8. PlaceOK' /\ KeptOK'
  <2>1. UNCHANGED <<pc, req, todo, targets, need, calls, agg>>
    BY DEF SetRoot, chainVars
  <2>2. QED
    BY <1>1, <2>1, RunStays
<1>9. QED
  BY <1>5, <1>6, <1>7, <1>8, Whole

\* RevokeRole: an admin takes a role away.
LEMMA RevokeRoleOK ==
    ASSUME GovInv, NEW c \in Chains, NEW role \in Roles, NEW a \in Accounts, RevokeRole(c, role, a)
    PROVE  GovInv'
<1>1. /\ ChainTyped /\ RootSignedByCurrent /\ Counted /\ ProposalsWhole /\ ReportsWhole
      /\ PlaceOK /\ KeptOK
  BY Parts
<1>2. ChainTyped' /\ RootSignedByCurrent'
  BY <1>1 DEF RevokeRole, ChainTyped, RootSignedByCurrent
<1>3. ProposalsWhole' /\ ReportsWhole'
  BY <1>1 DEF RevokeRole, ProposalsWhole, ReportsWhole
<1>4. Counted'
  BY <1>1, BoundsAssumption DEF RevokeRole, Counted
<1>5. PlaceOK' /\ KeptOK'
  <2>1. UNCHANGED <<pc, req, todo, targets, need, calls, agg>>
    BY DEF RevokeRole, chainVars
  <2>2. QED
    BY <1>1, <2>1, RunStays
<1>6. QED
  BY <1>2, <1>3, <1>4, <1>5, Whole

----------------------------------------------------------------------------
\* No step, no change.
LEMMA StutterOK ==
    ASSUME GovInv, UNCHANGED vars
    PROVE  GovInv'
<1>1. /\ ChainTyped /\ RootSignedByCurrent /\ Counted /\ ProposalsWhole /\ ReportsWhole
      /\ PlaceOK /\ KeptOK
  BY Parts
<1>2. ChainTyped' /\ RootSignedByCurrent' /\ Counted' /\ ProposalsWhole' /\ ReportsWhole'
  BY <1>1 DEF vars, ChainTyped, RootSignedByCurrent, Counted, ProposalsWhole, ReportsWhole
<1>3. PlaceOK' /\ KeptOK'
  BY <1>1, RunStays DEF vars, chainVars
<1>4. QED
  BY <1>2, <1>3, Whole

\* MCMs with a config and at most a root of it, no reports, no proposals, no run.
LEMMA InitOK ==
    ASSUME Init
    PROVE  GovInv
<1>1. PICK r \in {NoRoot, InitConfig} :
         mcm = [c \in Chains |-> [m \in MCMs |-> [cfg |-> InitConfig, root |-> r]]]
  BY DEF Init
<1>2. ChainTyped /\ RootSignedByCurrent
  BY <1>1, InputsAssumption DEF Init, ChainTyped, RootSignedByCurrent
<1>3. Counted
  BY BoundsAssumption DEF Init, Counted
<1>4. (\A p \in proposals : p # <<>> /\ p \in Seq(Batches) /\ AllClear(p)) /\ ReportsWhole
  BY DEF Init, NoReports, ReportsWhole
<1>5. RunWhole /\ ~Working
  BY DEF Init, RunWhole, Working
<1>6. CallsWhole
  BY <1>4, <1>5 DEF Init, CallsWhole, AllClear
<1>7. TypeOK
  BY <1>2, <1>3 DEF Init, TypeOK, ChainTyped, Counted
<1>8. QED
  BY <1>2, <1>4, <1>5, <1>6, <1>7 DEF GovInv

\* The invariant is inductive.
LEMMA NextOK ==
    ASSUME GovInv, [Next]_vars
    PROVE  GovInv'
<1>1. CASE \E i \in Inputs : Start(i)
  BY <1>1, StartOK
<1>2. CASE Run
  BY <1>2, ReuseChainOK, StartChainOK, ChainDoneOK, BuildOutputOK, FailOK, SetConfigOK,
     StellarReuseOK, GetConfigOK, GetRootOK, StellarSetConfigOK, ReadGrantOK, GrantStepOK, FireDrillOK
     DEF Run, runEVMGrantRole, runSolanaGrantRole, OpEVMGrantRole, OpSolanaGrantRole,
         runEVMFireDrill, runSolanaFireDrill
<1>3. CASE Others
  BY <1>3, ExecuteBatchOK, SetRootOK, RevokeRoleOK DEF Others
<1>4. CASE Fail \/ LoseResult \/ NewBundle
  BY <1>4, FailOK, LoseResultOK, NewBundleOK
<1>5. CASE UNCHANGED vars
  BY <1>5, StutterOK
<1>6. QED
  BY <1>1, <1>2, <1>3, <1>4, <1>5 DEF Next

----------------------------------------------------------------------------
(* What holds in every state that can be reached *)

\* GovInv always holds.
THEOREM Invariance == Spec => []GovInv
<1>1. Init => GovInv
  BY InitOK
<1>2. GovInv /\ [Next]_vars => GovInv'
  BY NextOK
<1>3. QED
  BY <1>1, <1>2, PTL DEF Spec

\* The state is typed, and a run only works on chains its request names.
THEOREM TypeCorrect == Spec => []TypeOK
<1>1. GovInv => TypeOK
  BY DEF GovInv
<1>2. QED
  BY <1>1, Invariance, PTL

\* On Stellar no root outlives the config it was signed under, whether the config
\* is set directly, from a report of an earlier run or by a proposal (clearRoot).
THEOREM RootsSigned == Spec => []RootSignedByCurrent
<1>1. GovInv => RootSignedByCurrent
  BY DEF GovInv
<1>2. QED
  BY <1>1, Invariance, PTL

----------------------------------------------------------------------------
(* What runs do and propose.  In a bundle, what has held at some time only *)
(* grows, so what was done once stays done for a report reused later, and  *)
(* what was undone since is overridden.                                    *)

\* What has held keeps having held, whatever is done on the chains.
LEMMA EverGrows ==
    ASSUME Override(overridden) \/ UNCHANGED <<mcm, holders, overridden>>
    PROVE  Ever \subseteq Ever'
<1>1. PICK h, hn : h = Held(mcm, holders) /\ hn = Held(mcm', holders')
  OBVIOUS
<1>2. Ever = h \cup overridden /\ Ever' = hn \cup overridden'
  BY <1>1 DEF Ever
<1>3. CASE Override(overridden)
  <2>1. overridden' = (overridden \cup (h \ hn)) \ hn
    BY <1>1, <1>3 DEF Override
  <2>2. QED
    BY <1>2, <2>1
<1>4. CASE UNCHANGED <<mcm, holders, overridden>>
  BY <1>1, <1>2, <1>4
<1>5. QED
  BY <1>3, <1>4

\* The elements of two sequences are those of the two joined.
LEMMA ElemsJoined ==
    ASSUME NEW S, NEW s \in Seq(S), NEW t \in Seq(S), NEW u, u = s \o t
    PROVE  elems(s) \subseteq elems(u) /\ elems(t) \subseteq elems(u)
<1>1. u \in Seq(S) /\ Len(u) = Len(s) + Len(t) /\ Len(s) \in Nat /\ Len(t) \in Nat
  OBVIOUS
<1>2. DOMAIN u = 1..(Len(s) + Len(t)) /\ DOMAIN s = 1..Len(s) /\ DOMAIN t = 1..Len(t)
  BY <1>1
<1>3. ASSUME NEW n \in DOMAIN s PROVE n \in DOMAIN u /\ u[n] = s[n]
  BY <1>1, <1>2
<1>4. ASSUME NEW n \in DOMAIN t PROVE n + Len(s) \in DOMAIN u /\ u[n + Len(s)] = t[n]
  BY <1>1, <1>2
<1>5. QED
  BY <1>3, <1>4 DEF elems

\* The calls joined have the effects of both, and so have batches.
LEMMA EffectsJoined ==
    ASSUME NEW c, NEW s \in Seq(Calls), NEW t \in Seq(Calls), NEW u, u = s \o t
    PROVE  Effects(c, s) \subseteq Effects(c, u) /\ Effects(c, t) \subseteq Effects(c, u)
<1>1. elems(s) \subseteq elems(u) /\ elems(t) \subseteq elems(u)
  BY ElemsJoined
<1>2. QED
  BY <1>1 DEF Effects

\* Batches joined promise what both do, and are of a drill when one of them is.
LEMMA PromisedJoined ==
    ASSUME NEW c, NEW s \in Seq(Batches), NEW t \in Seq(Batches), NEW u, u = s \o t
    PROVE  /\ Promised(c, s) \subseteq Promised(c, u) /\ Promised(c, t) \subseteq Promised(c, u)
           /\ Drilled(c, s) \/ Drilled(c, t) => Drilled(c, u)
<1>1. elems(s) \subseteq elems(u) /\ elems(t) \subseteq elems(u)
  BY ElemsJoined
<1>2. Promised(c, s) \subseteq Promised(c, u) /\ Promised(c, t) \subseteq Promised(c, u)
  BY <1>1 DEF Promised
<1>3. QED
  BY <1>1, <1>2 DEF Drilled

\* The batches of a chain's calls promise their effects.
LEMMA BatchesPromise ==
    ASSUME calls \in Seq(Calls)
    PROVE  Effects(ch, calls) \subseteq Promised(ch, BatchOps)
<1>1. PICK c, bs : c = ch /\ bs = BatchOps
  OBVIOUS
<1>2. ASSUME NEW cs PROVE Batch(cs).ch = c /\ Batch(cs).calls = cs
  BY <1>1 DEF Batch
<1>3. SUFFICES ASSUME NEW x \in elems(calls) PROVE Effect(c, x) \subseteq Promised(c, bs)
  BY <1>1 DEF Effects
<1>4. PICK n \in DOMAIN calls : x = calls[n]
  BY <1>3 DEF elems
<1>5. \E b \in elems(bs) : b.ch = c /\ x \in elems(b.calls)
  <2>1. CASE bs = BatchesEVM(calls)
    <3>1. PICK b : b = Batch(calls)
      OBVIOUS
    <3>2. calls # <<>>
      BY <1>4
    <3>3. bs = <<b>>
      BY <2>1, <3>1, <3>2 DEF BatchesEVM
    <3>4. b \in elems(bs) /\ b.ch = c /\ b.calls = calls
      BY <1>2, <3>1, <3>3 DEF elems
    <3>5. QED
      BY <1>3, <3>4
  <2>2. CASE bs = BatchesPerCall(calls)
    <3>1. PICK one, b : one = <<x>> /\ b = Batch(one)
      OBVIOUS
    <3>2. n \in DOMAIN bs /\ bs[n] = b
      BY <1>4, <2>2, <3>1 DEF BatchesPerCall
    <3>3. b \in elems(bs) /\ b.ch = c /\ b.calls = one
      BY <1>2, <3>1, <3>2 DEF elems
    <3>4. x \in elems(one)
      BY <3>1 DEF elems
    <3>5. QED
      BY <3>3, <3>4
  <2>3. QED
    BY <1>1, <2>1, <2>2 DEF BatchOps
<1>6. PICK b \in elems(bs) : b.ch = c /\ x \in elems(b.calls)
  BY <1>5
<1>7. Effect(c, x) \subseteq Effects(c, b.calls)
  BY <1>6 DEF Effects
<1>8. QED
  BY <1>6, <1>7 DEF Promised

\* The config of an MCM holds, and its root when it is clear.
LEMMA HeldConfig ==
    ASSUME NEW ms, NEW hs, NEW c \in Chains, NEW m \in MCMs
    PROVE  /\ <<c, m, ms[c][m].cfg>> \in Held(ms, hs)
           /\ ms[c][m].root = NoRoot => <<c, m, NoRoot>> \in Held(ms, hs)
BY DEF Held

\* So does a role for its holders.
LEMMA HeldRole ==
    ASSUME NEW ms, NEW hs, NEW c \in Chains, NEW r \in Roles, NEW a \in hs[c][r], a \in Accounts
    PROVE  <<c, r, a>> \in Held(ms, hs)
BY DEF Held

\* A call that is sent has its effect.
LEMMA Sent ==
    ASSUME ChainTyped, NEW c \in Chains, NEW call \in Calls, Perform(c, <<call>>)
    PROVE  Effect(c, call) \subseteq Ever'
<1>1. PICK cs : cs = <<call>>
  OBVIOUS
<1>2. DOMAIN cs = {1} /\ cs[1] = call
  BY <1>1
<1>3. /\ mcm' = [mcm EXCEPT ![c] = [m \in MCMs |-> Configured(mcm[c][m], cs, m)]]
      /\ holders' = [holders EXCEPT ![c] = [role \in Roles |-> holders[c][role] \cup Granted(cs, role)]]
  BY <1>1 DEF Perform
<1>4. Held(mcm', holders') \subseteq Ever'
  BY DEF Ever
<1>5. CASE call.op = "cfg"
  <2>1. PICK m \in MCMs : m = call.m
    BY <1>5 DEF Calls, Noop
  <2>2. ConfigCalls(cs, m) = {1}
    BY <1>2, <1>5, <2>1 DEF ConfigCalls
  <2>3. LastOf({1}) = 1
    BY DEF LastOf
  <2>4. PICK e : e = Configured(mcm[c][m], cs, m)
    OBVIOUS
  <2>5. e.cfg = call.cfg /\ (call.clear => e.root = NoRoot)
    BY <1>2, <2>2, <2>3, <2>4 DEF Configured
  <2>6. mcm'[c][m] = e
    BY <1>3, <2>4 DEF ChainTyped
  <2>7. /\ <<c, m, call.cfg>> \in Held(mcm', holders')
        /\ call.clear => <<c, m, NoRoot>> \in Held(mcm', holders')
    <3>1. PICK ms, hs : ms = mcm' /\ hs = holders'
      OBVIOUS
    <3>2. <<c, m, ms[c][m].cfg>> \in Held(ms, hs) /\ (ms[c][m].root = NoRoot => <<c, m, NoRoot>> \in Held(ms, hs))
      BY HeldConfig
    <3>3. QED
      BY <2>5, <2>6, <3>1, <3>2
  <2>8. QED
    BY <1>4, <1>5, <2>1, <2>7 DEF Effect
<1>6. CASE call.op = "grant"
  <2>1. PICK role \in Roles : role = call.role
    BY <1>6 DEF Calls, Noop
  <2>2. call.a \in Granted(cs, role)
    BY <1>2, <1>6, <2>1 DEF Granted
  <2>3. call.a \in holders'[c][role]
    <3>1. PICK g : g = Granted(cs, role)
      OBVIOUS
    <3>2. holders'[c][role] = holders[c][role] \cup g
      BY <1>3, <3>1 DEF ChainTyped
    <3>3. QED
      BY <2>2, <3>1, <3>2
  <2>4. <<c, role, call.a>> \in Held(mcm', holders')
    <3>1. call.a \in Accounts
      BY <1>6 DEF Calls, Noop
    <3>2. PICK ms, hs, a : ms = mcm' /\ hs = holders' /\ a = call.a
      OBVIOUS
    <3>3. <<c, role, a>> \in Held(ms, hs)
      BY <2>3, <3>1, <3>2, HeldRole
    <3>4. QED
      BY <3>2, <3>3
  <2>5. QED
    BY <1>4, <1>6, <2>1, <2>4 DEF Effect
<1>7. CASE call.op \notin {"cfg", "grant"}
  BY <1>7 DEF Effect
<1>8. QED
  BY <1>5, <1>6, <1>7

\* Reports stay of things done.
LEMMA ReportsStay ==
    ASSUME ReportsDone, Ever \subseteq Ever', reports' = reports
    PROVE  ReportsDone'
<1>1. ASSUME NEW r \in reports["op"] PROVE OpReportDone(r)'
  BY DEF ReportsDone, OpReportDone
<1>2. ASSUME NEW r \in reports["chain"] PROVE ChainReportDone(r)'
  BY DEF ReportsDone, ChainReportDone
<1>3. QED
  BY <1>1, <1>2 DEF ReportsDone

\* And a new one of an operation is too.
LEMMA OpReported ==
    ASSUME ReportsWhole, ReportsDone, Ever \subseteq Ever', NEW k, NEW o, Report("op", k, o),
           Effect(k.ch, k.call) \subseteq Ever' \cup Effects(k.ch, o)
    PROVE  ReportsDone'
<1>1. PICK e : e = [k |-> k, out |-> o]
  OBVIOUS
<1>2. reports' = [reports EXCEPT !["op"] = @ \cup {e}]
  BY <1>1 DEF Report
<1>3. reports'["op"] = reports["op"] \cup {e} /\ reports'["chain"] = reports["chain"]
  BY <1>2 DEF ReportsWhole
<1>4. OpReportDone(e)'
  BY <1>1 DEF OpReportDone
<1>5. ASSUME NEW r \in reports["op"] PROVE OpReportDone(r)'
  BY DEF ReportsDone, OpReportDone
<1>6. ASSUME NEW r \in reports["chain"] PROVE ChainReportDone(r)'
  BY DEF ReportsDone, ChainReportDone
<1>7. QED
  BY <1>3, <1>4, <1>5, <1>6 DEF ReportsDone

\* And of a chain's sequence.
LEMMA SequenceReported ==
    ASSUME ReportsWhole, ReportsDone, Ever \subseteq Ever', NEW k, NEW o, Report("chain", k, o),
           \A t \in elems(k.targets) : AskedOf(k.cs, k.ch, t) \subseteq Ever' \cup Promised(k.ch, o),
           k.cs = "fireDrill" => Drilled(k.ch, o)
    PROVE  ReportsDone'
<1>1. PICK e : e = [k |-> k, out |-> o]
  OBVIOUS
<1>2. reports' = [reports EXCEPT !["chain"] = @ \cup {e}]
  BY <1>1 DEF Report
<1>3. reports'["chain"] = reports["chain"] \cup {e} /\ reports'["op"] = reports["op"]
  BY <1>2 DEF ReportsWhole
<1>4. ChainReportDone(e)'
  BY <1>1 DEF ChainReportDone
<1>5. ASSUME NEW r \in reports["op"] PROVE OpReportDone(r)'
  BY DEF ReportsDone, OpReportDone
<1>6. ASSUME NEW r \in reports["chain"] PROVE ChainReportDone(r)'
  BY DEF ReportsDone, ChainReportDone
<1>7. QED
  BY <1>3, <1>4, <1>5, <1>6 DEF ReportsDone

\* An operation's call is done afterwards, or among the calls kept: also when its
\* report was of another run.
LEMMA CallDone ==
    ASSUME ChainTyped, ReportsWhole, ReportsDone, calls \in Seq(Calls), NEW c \in Chains, c = ch,
           NEW call \in Calls, ExecuteCall(call)
    PROVE  /\ Ever \subseteq Ever' /\ ReportsDone'
           /\ Effect(c, call) \subseteq Ever' \cup Effects(c, calls')
           /\ Effects(c, calls) \subseteq Effects(c, calls')
<1>1. PICK k, s, u : k = OpKey(call) /\ s = calls /\ u = calls'
  OBVIOUS
<1>2. k.ch = c /\ k.call = call
  BY <1>1 DEF OpKey
<1>3. CASE Reusable("op", k)
  <2>1. u = s \o OutputOf("op", k) /\ UNCHANGED <<mcm, holders, reports, overridden>>
    BY <1>1, <1>3 DEF ExecuteCall
  <2>2. PICK r \in reports["op"] : r.k = k /\ r.out = OutputOf("op", k)
    BY <1>3 DEF Reusable, OutputOf
  <2>3. OpReportWhole(r) /\ OpReportDone(r)
    BY DEF ReportsWhole, ReportsDone
  <2>4. r.out \in Seq(Calls)
    BY <2>3 DEF OpReportWhole
  <2>5. Effect(c, call) \subseteq Ever \cup Effects(c, r.out)
    BY <1>2, <2>2, <2>3 DEF OpReportDone
  <2>6. PICK t : t = r.out
    OBVIOUS
  <2>7. Effects(c, s) \subseteq Effects(c, u) /\ Effects(c, t) \subseteq Effects(c, u)
    BY <1>1, <2>1, <2>2, <2>4, <2>6, EffectsJoined
  <2>8. Ever \subseteq Ever' /\ ReportsDone'
    BY <2>1, EverGrows, ReportsStay
  <2>9. QED
    BY <1>1, <2>5, <2>6, <2>7, <2>8
<1>4. CASE ~Reusable("op", k)
  <2>1. PICK one, t : one = <<call>> /\ t = OpOutput(call)
    OBVIOUS
  <2>2. /\ IF req.mcms THEN UNCHANGED <<mcm, holders, overridden>> ELSE Perform(c, one)
        /\ Report("op", k, t) /\ u = s \o t
    BY <1>1, <1>4, <2>1 DEF ExecuteCall
  <2>3. one \in Seq(Calls) /\ <<>> \in Seq(Calls) /\ t \in {one, <<>>} /\ (req.mcms => t = one)
    BY <2>1 DEF OpOutput
  <2>4. Effects(c, s) \subseteq Effects(c, u) /\ Effects(c, t) \subseteq Effects(c, u)
    BY <1>1, <2>2, <2>3, EffectsJoined
  <2>5. Ever \subseteq Ever'
    BY <2>2, EverGrows DEF Perform
  <2>6. Effect(c, call) \subseteq Ever' \cup Effects(c, t)
    <3>1. CASE req.mcms
      <4>1. call \in elems(t)
        BY <2>1, <2>3, <3>1 DEF elems
      <4>2. QED
        BY <4>1 DEF Effects
    <3>2. CASE ~req.mcms
      BY <2>1, <2>2, <3>2, Sent
    <3>3. QED
      BY <3>1, <3>2
  <2>7. ReportsDone'
    BY <1>2, <2>2, <2>5, <2>6, OpReported
  <2>8. QED
    BY <1>1, <2>4, <2>5, <2>6, <2>7
<1>5. QED
  BY <1>3, <1>4

\* The finished chains stay done.
LEMMA ChainsStay ==
    ASSUME ChainsDone, pc # "idle", Ever \subseteq Ever', UNCHANGED <<req, todo, agg>>
    PROVE  ChainsDone'
BY DEF ChainsDone, Asked

\* A run that is over, or has begun no chain, has nothing to show.
LEMMA NothingToShow ==
    ASSUME pc' \in {"idle", "chain"}
    PROVE  TargetsDone' /\ (pc' = "idle" => ChainsDone')
BY DEF TargetsDone, ChainsDone, Working

\* One more chain is done.
LEMMA ChainFinished ==
    ASSUME ChainsDone, pc # "idle", Ever \subseteq Ever', req' = req, todo' = todo \ {ch},
           agg \in Seq(Batches), NEW bs \in Seq(Batches), agg' = agg \o bs, pc' = "chain",
           \A t \in elems(req.by[ch]) : Asked(ch, t) \subseteq Ever' \cup Promised(ch, bs),
           req.cs = "fireDrill" => Drilled(ch, bs)
    PROVE  ChainsDone' /\ TargetsDone'
<1>1. PICK s, u, d : s = agg /\ u = agg' /\ d = ch
  OBVIOUS
<1>2. ASSUME NEW c
      PROVE  /\ Promised(c, s) \subseteq Promised(c, u) /\ Promised(c, bs) \subseteq Promised(c, u)
             /\ Drilled(c, s) \/ Drilled(c, bs) => Drilled(c, u)
  <2>1. s \in Seq(Batches) /\ u = s \o bs
    BY <1>1
  <2>2. QED
    BY <2>1, PromisedJoined
<1>3. ASSUME NEW c \in (DOMAIN req.by) \ todo'
      PROVE  /\ \A t \in elems(req.by[c]) : Asked(c, t) \subseteq Ever' \cup Promised(c, u)
             /\ req.cs = "fireDrill" => Drilled(c, u)
  <2>1. CASE c = d
    BY <1>1, <1>2, <2>1
  <2>2. CASE c # d
    <3>1. c \in (DOMAIN req.by) \ todo
      BY <1>1, <1>3, <2>2
    <3>2. /\ \A t \in elems(req.by[c]) : Asked(c, t) \subseteq Ever \cup Promised(c, s)
          /\ req.cs = "fireDrill" => Drilled(c, s)
      BY <1>1, <3>1 DEF ChainsDone
    <3>3. QED
      BY <1>2, <3>2
  <2>3. QED
    BY <2>1, <2>2
<1>4. ChainsDone'
  BY <1>1, <1>3 DEF ChainsDone, Asked
<1>5. QED
  BY <1>4, NothingToShow

\* A sequence is its first element and the rest.
LEMMA ElemsTail ==
    ASSUME NEW S, NEW s \in Seq(S), s # <<>>
    PROVE  elems(s) \subseteq elems(Tail(s)) \cup {Head(s)}
<1>1. PICK u : u = Tail(s)
  OBVIOUS
<1>2. Len(s) \in Nat /\ DOMAIN s = 1..Len(s) /\ u \in Seq(S) /\ DOMAIN u = 1..(Len(s) - 1)
  BY <1>1
<1>3. ASSUME NEW n \in DOMAIN s PROVE s[n] = Head(s) \/ \E k \in DOMAIN u : s[n] = u[k]
  <2>1. CASE n = 1
    BY <2>1
  <2>2. CASE n # 1
    <3>1. n - 1 \in DOMAIN u /\ u[n - 1] = s[n]
      BY <1>1, <1>2, <2>2
    <3>2. QED
      BY <3>1
  <2>3. QED
    BY <2>1, <2>2
<1>4. QED
  BY <1>1, <1>3 DEF elems

\* The target in progress is done, and passed.
LEMMA TargetPassed ==
    ASSUME TargetsDone, PlaceOK, Working, targets # <<>>, targets' = Tail(targets),
           UNCHANGED <<req, todo>>, pc' \in {"setConfig", "grantRole"},
           Ever \subseteq Ever', Effects(ch, calls) \subseteq Effects(ch, calls'),
           Asked(ch, target) \subseteq Ever' \cup Effects(ch, calls')
    PROVE  TargetsDone'
<1>1. ch' = ch
  BY DEF ch
<1>2. targets \in Seq(elems(req.by[ch]))
  BY DEF PlaceOK, RunWhole
<1>3. elems(targets) \subseteq elems(targets') \cup {target}
  <2>1. PICK S, s : S = elems(req.by[ch]) /\ s = targets
    OBVIOUS
  <2>2. s \in Seq(S) /\ s # <<>>
    BY <1>2, <2>1
  <2>3. elems(s) \subseteq elems(Tail(s)) \cup {Head(s)}
    BY <2>2, ElemsTail
  <2>4. QED
    BY <2>1, <2>3 DEF target
<1>4. ASSUME NEW t \in elems(req.by[ch])
      PROVE  t \in elems(targets') \/ Asked(ch, t) \subseteq Ever' \cup Effects(ch, calls')
  BY <1>3 DEF TargetsDone
<1>5. QED
  BY <1>1, <1>4 DEF TargetsDone, Asked

\* It is still in progress.
LEMMA TargetStays ==
    ASSUME TargetsDone, Working, targets' = targets, UNCHANGED <<req, todo>>,
           Ever \subseteq Ever', Effects(ch, calls) \subseteq Effects(ch, calls'),
           pc' = "getRoot" => <<ch, target.m, target.cfg>> \in Ever',
           pc' = "grant" => \A a \in elems(target.to) \ need' :
              <<ch, target.role, a>> \in Ever' \cup Effects(ch, calls')
    PROVE  TargetsDone'
<1>1. ch' = ch /\ target' = target
  BY DEF ch, target
<1>2. ASSUME NEW t \in elems(req.by[ch])
      PROVE  t \in elems(targets') \/ Asked(ch, t) \subseteq Ever' \cup Effects(ch, calls')
  BY DEF TargetsDone
<1>3. QED
  BY <1>1, <1>2 DEF TargetsDone, Asked

\* Beside the run, nothing it has done is lost.
LEMMA BesideDone ==
    ASSUME DoneInv, Ever \subseteq Ever', UNCHANGED <<pc, req, todo, targets, need, calls, agg, reports>>
    PROVE  DoneInv'
<1>1. ReportsDone'
  BY ReportsStay DEF DoneInv
<1>2. ch' = ch /\ target' = target
  BY DEF ch, target
<1>3. ChainsDone'
  BY DEF DoneInv, ChainsDone, Asked
<1>4. TargetsDone'
  BY <1>2 DEF DoneInv, TargetsDone, Asked, Working
<1>5. QED
  BY <1>1, <1>3, <1>4 DEF DoneInv

----------------------------------------------------------------------------
(* Every action keeps what is done *)

\* Start: no chain is finished, and none of the request's is skipped.
LEMMA StartDone ==
    ASSUME DoneInv, NEW i \in Inputs, Start(i)
    PROVE  DoneInv'
<1>1. Ever \subseteq Ever'
  BY EverGrows DEF Start
<1>2. ReportsDone'
  BY <1>1, ReportsStay DEF Start, DoneInv
<1>3. TargetsDone'
  BY NothingToShow DEF Start
<1>4. ChainsDone'
  BY DEF Start, ChainsDone
<1>5. QED
  BY <1>2, <1>3, <1>4 DEF DoneInv

\* ReuseChain: the report is of a sequence that did the same.
LEMMA ReuseChainDone ==
    ASSUME GovInv, DoneInv, ReuseChain
    PROVE  DoneInv'
<1>1. Ever \subseteq Ever'
  BY EverGrows DEF ReuseChain
<1>2. ReportsDone'
  BY <1>1, ReportsStay DEF ReuseChain, DoneInv
<1>3. PICK k, d : k = ChainInput /\ d = ch
  OBVIOUS
<1>4. PICK r \in reports["chain"] : r.k = k /\ r.out = OutputOf("chain", k)
  BY <1>3 DEF ReuseChain, Reusable, OutputOf
<1>5. ChainReportWhole(r) /\ ChainReportDone(r)
  BY Parts DEF ReportsWhole, DoneInv, ReportsDone
<1>6. PICK bs : bs = r.out
  OBVIOUS
<1>7. bs \in Seq(Batches) /\ agg \in Seq(Batches)
  BY <1>5, <1>6, Parts DEF ChainReportWhole, KeptOK
<1>8. k.ch = d /\ k.cs = req.cs /\ k.targets = req.by[d]
  BY <1>3 DEF ChainInput
<1>9. /\ \A t \in elems(req.by[d]) : Asked(d, t) \subseteq Ever \cup Promised(d, bs)
      /\ req.cs = "fireDrill" => Drilled(d, bs)
  BY <1>4, <1>5, <1>6, <1>8 DEF ChainReportDone, Asked
<1>10. ChainsDone /\ pc # "idle" /\ req' = req /\ todo' = todo \ {ch} /\ agg' = agg \o bs /\ pc' = "chain"
  BY <1>3, <1>4, <1>6 DEF ReuseChain, DoneInv
<1>11. ChainsDone' /\ TargetsDone'
  BY <1>1, <1>3, <1>7, <1>9, <1>10, ChainFinished
<1>12. QED
  BY <1>2, <1>11 DEF DoneInv

\* StartChain: all targets are still to be handled.
LEMMA StartChainDone ==
    ASSUME GovInv, DoneInv, StartChain
    PROVE  DoneInv'
<1>1. Ever \subseteq Ever'
  BY EverGrows DEF StartChain
<1>2. ReportsDone'
  BY <1>1, ReportsStay DEF StartChain, DoneInv
<1>3. ChainsDone'
  BY <1>1, ChainsStay DEF StartChain, DoneInv
<1>4. PlaceOK /\ req \in Inputs
  BY Parts DEF StartChain, PlaceOK, RunWhole
<1>5. pc' \in {"setConfig", "grantRole", "fireDrill"}
  BY <1>4, InputsAssumption DEF StartChain
<1>6. ch' = ch /\ req' = req /\ targets' = req.by[ch]
  BY DEF ch, StartChain
<1>7. TargetsDone'
  BY <1>5, <1>6 DEF TargetsDone
<1>8. QED
  BY <1>2, <1>3, <1>7 DEF DoneInv

\* ChainDone: all targets are behind, what is not done is in the chain's batches.
LEMMA ChainDoneDone ==
    ASSUME GovInv, DoneInv, ChainDone
    PROVE  DoneInv'
<1>1. PlaceOK /\ KeptOK /\ ReportsWhole
  BY Parts
<1>2. Working /\ pc # "idle" /\ todo # {} /\ req.cs # "fireDrill"
  BY <1>1 DEF ChainDone, Working, PlaceOK, RunWhole
<1>3. PICK d, bs, k : d = ch /\ bs = BatchOps /\ k = ChainInput
  OBVIOUS
<1>4. d \in Chains /\ calls \in Seq(Calls) /\ Clears(d, calls) /\ agg \in Seq(Batches)
  BY <1>1, <1>2, <1>3, ChainChosen DEF PlaceOK, KeptOK
<1>5. bs \in Seq(Batches)
  BY <1>3, <1>4, Batched
<1>6. Ever \subseteq Ever'
  BY EverGrows DEF ChainDone
<1>7. Effects(d, calls) \subseteq Promised(d, bs)
  BY <1>3, <1>4, BatchesPromise
<1>8. ASSUME NEW t \in elems(req.by[d]) PROVE Asked(d, t) \subseteq Ever' \cup Promised(d, bs)
  <2>1. t \notin elems(targets)
    BY DEF ChainDone, elems
  <2>2. Asked(d, t) \subseteq Ever \cup Effects(d, calls)
    BY <1>2, <1>3, <2>1 DEF DoneInv, TargetsDone
  <2>3. QED
    BY <1>6, <1>7, <2>2
<1>9. ReportsDone'
  <2>1. k.ch = d /\ k.cs = req.cs /\ k.targets = req.by[d]
    BY <1>3 DEF ChainInput
  <2>2. ReportsDone /\ Report("chain", k, bs)
    BY <1>3 DEF ChainDone, DoneInv
  <2>3. \A t \in elems(k.targets) : AskedOf(k.cs, k.ch, t) \subseteq Ever' \cup Promised(k.ch, bs)
    BY <1>8, <2>1 DEF Asked
  <2>4. QED
    BY <1>1, <1>2, <1>6, <2>1, <2>2, <2>3, SequenceReported
<1>10. ChainsDone' /\ TargetsDone'
  <2>1. ChainsDone /\ req' = req /\ todo' = todo \ {ch} /\ agg' = agg \o bs /\ pc' = "chain"
    BY <1>3 DEF ChainDone, DoneInv
  <2>2. \A t \in elems(req.by[ch]) : Asked(ch, t) \subseteq Ever' \cup Promised(ch, bs)
    BY <1>3, <1>8
  <2>3. QED
    BY <1>2, <1>4, <1>5, <1>6, <2>1, <2>2, ChainFinished
<1>11. QED
  BY <1>9, <1>10 DEF DoneInv

\* The fire drill: its batch is the chain's.
LEMMA FireDrillDone ==
    ASSUME GovInv, DoneInv, pc = "fireDrill", FireDrillStep
    PROVE  DoneInv'
<1>1. PlaceOK /\ KeptOK /\ ReportsWhole
  BY Parts
<1>2. pc # "idle" /\ todo # {} /\ req.cs = "fireDrill" /\ req \in Inputs
  BY <1>1 DEF Working, PlaceOK, RunWhole
<1>3. PICK d, b, bs, k : d = ch /\ b = Batch(<<Noop>>) /\ bs = <<b>> /\ k = ChainInput
  OBVIOUS
<1>4. d \in Chains /\ d \in DOMAIN req.by /\ agg \in Seq(Batches)
  BY <1>1, <1>2, <1>3, ChainChosen DEF PlaceOK, KeptOK
<1>5. <<Noop>> \in Seq(Calls)
  BY DEF Noop, Calls
<1>6. b \in Batches /\ b.ch = d /\ b.calls = <<Noop>>
  BY <1>3, <1>4, <1>5 DEF Batch, Batches
<1>7. bs \in Seq(Batches) /\ b \in elems(bs)
  BY <1>3, <1>6 DEF elems
<1>8. Drilled(d, bs)
  BY <1>6, <1>7 DEF Drilled
<1>9. elems(req.by[d]) = {}
  <2>1. ASSUME NEW n \in DOMAIN req.by[d] PROVE req.cs # "fireDrill"
    BY <1>2, <1>4, InputsAssumption
  <2>2. QED
    BY <1>2, <2>1 DEF elems
<1>10. Ever \subseteq Ever'
  BY EverGrows DEF FireDrillStep
<1>11. ReportsDone'
  <2>1. k.ch = d /\ k.targets = req.by[d]
    BY <1>3 DEF ChainInput
  <2>2. ReportsDone /\ Report("chain", k, bs)
    BY <1>3 DEF FireDrillStep, DoneInv
  <2>3. \A t \in elems(k.targets) : AskedOf(k.cs, k.ch, t) \subseteq Ever' \cup Promised(k.ch, bs)
    BY <1>9, <2>1
  <2>4. QED
    BY <1>1, <1>8, <1>10, <2>1, <2>2, <2>3, SequenceReported
<1>12. ChainsDone' /\ TargetsDone'
  <2>1. ChainsDone /\ req' = req /\ todo' = todo \ {ch} /\ agg' = agg \o bs /\ pc' = "chain"
    <3>1. agg' = Append(agg, b)
      BY <1>3 DEF FireDrillStep
    <3>2. agg' = agg \o bs
      BY <1>3, <1>4, <1>6, <3>1
    <3>3. QED
      BY <3>2 DEF FireDrillStep, DoneInv
  <2>2. Drilled(ch, bs) /\ \A t \in elems(req.by[ch]) : Asked(ch, t) \subseteq Ever' \cup Promised(ch, bs)
    BY <1>3, <1>8, <1>9
  <2>3. QED
    BY <1>2, <1>4, <1>7, <1>10, <2>1, <2>2, ChainFinished
<1>13. QED
  BY <1>11, <1>12 DEF DoneInv

\* An operation that does what its target asks for, and passes on to the next.
LEMMA TargetDone ==
    ASSUME GovInv, DoneInv, Working, targets # <<>>, NEW call \in Calls, ExecuteCall(call),
           Asked(ch, target) \subseteq Effect(ch, call), targets' = Tail(targets), pc' = "setConfig",
           UNCHANGED <<req, todo, agg>>
    PROVE  DoneInv'
<1>1. ChainTyped /\ ReportsWhole /\ PlaceOK /\ calls \in Seq(Calls)
  BY Parts DEF KeptOK
<1>2. pc # "idle" /\ todo # {}
  BY <1>1 DEF Working, PlaceOK, RunWhole
<1>3. PICK c : c = ch
  OBVIOUS
<1>4. c \in Chains
  BY <1>1, <1>2, <1>3, ChainChosen DEF PlaceOK
<1>5. /\ Ever \subseteq Ever' /\ ReportsDone'
      /\ Effect(c, call) \subseteq Ever' \cup Effects(c, calls')
      /\ Effects(c, calls) \subseteq Effects(c, calls')
  BY <1>1, <1>3, <1>4, CallDone DEF DoneInv
<1>6. ChainsDone'
  BY <1>2, <1>5, ChainsStay DEF DoneInv
<1>7. TargetsDone'
  <2>1. /\ Effects(ch, calls) \subseteq Effects(ch, calls')
        /\ Asked(ch, target) \subseteq Ever' \cup Effects(ch, calls')
    BY <1>3, <1>5
  <2>2. QED
    BY <1>1, <1>5, <2>1, TargetPassed DEF DoneInv
<1>8. QED
  BY <1>5, <1>6, <1>7 DEF DoneInv

\* A config is set, on Stellar with the root clear.
LEMMA ConfigAsked ==
    ASSUME req.cs = "setConfig", NEW clear \in BOOLEAN, Family[ch] = "Stellar" => clear,
           NEW call, call = SetConfigCall(target.m, target.cfg, clear)
    PROVE  Asked(ch, target) \subseteq Effect(ch, call)
<1>1. call.op = "cfg" /\ call.m = target.m /\ call.cfg = target.cfg /\ call.clear = clear
  BY DEF SetConfigCall
<1>2. QED
  BY <1>1 DEF Asked, AskedOf, Effect

\* runEVMSetConfig and runSolanaSetConfig.
LEMMA SetConfigDone ==
    ASSUME GovInv, DoneInv, runEVMSetConfig \/ runSolanaSetConfig
    PROVE  DoneInv'
<1>1. PlaceOK /\ pc = "setConfig" /\ targets # <<>> /\ Working /\ fam \in {"EVM", "Solana"}
  BY Parts DEF runEVMSetConfig, runSolanaSetConfig, Working
<1>2. req.cs = "setConfig" /\ target.m \in MCMs /\ target.cfg \in Configs /\ Family[ch] # "Stellar"
  BY <1>1, TargetOK DEF PlaceOK, RunWhole, fam
<1>3. PICK call : call = SetConfigCall(target.m, target.cfg, FALSE)
  OBVIOUS
<1>4. call \in Calls
  BY <1>2, <1>3, CallsOK
<1>5. Asked(ch, target) \subseteq Effect(ch, call)
  BY <1>2, <1>3, ConfigAsked
<1>6. SetConfigStep(call)
  BY <1>3 DEF runEVMSetConfig, runSolanaSetConfig, OpEVMSetConfigMCM, OpSolanaSetConfigMCM
<1>7. ExecuteCall(call) /\ targets' = Tail(targets) /\ pc' = "setConfig" /\ UNCHANGED <<req, todo, agg>>
  BY <1>1, <1>6 DEF SetConfigStep
<1>8. QED
  BY <1>1, <1>4, <1>5, <1>7, TargetDone

\* stellarSetConfig and stellarReuse.
LEMMA StellarDone ==
    ASSUME GovInv, DoneInv, stellarSetConfig \/ stellarReuse
    PROVE  DoneInv'
<1>1. PlaceOK /\ pc \in {"setConfig", "send"} /\ targets # <<>> /\ Working
  BY Parts DEF stellarSetConfig, stellarReuse, Working, PlaceOK
<1>2. req.cs = "setConfig" /\ target.m \in MCMs /\ target.cfg \in Configs
  BY <1>1, TargetOK DEF PlaceOK, RunWhole
<1>3. PICK call : call = SetConfigCall(target.m, target.cfg, TRUE)
  OBVIOUS
<1>4. call \in Calls
  BY <1>2, <1>3, CallsOK
<1>5. Asked(ch, target) \subseteq Effect(ch, call)
  BY <1>2, <1>3, ConfigAsked
<1>6. call = OpStellarSetConfigMCM(target) /\ stellarKey = OpKey(call)
  BY <1>3 DEF stellarKey, OpStellarSetConfigMCM, ClearRoot
<1>7. ExecuteCall(call) /\ targets' = Tail(targets) /\ pc' = "setConfig" /\ UNCHANGED <<req, todo, agg>>
  BY <1>1, <1>6 DEF stellarSetConfig, stellarReuse, ExecuteCall
<1>8. QED
  BY <1>1, <1>4, <1>5, <1>7, TargetDone

\* stellarGetConfig: a config that matches is one that holds.
LEMMA GetConfigDone ==
    ASSUME GovInv, DoneInv, stellarGetConfig
    PROVE  DoneInv'
<1>1. PlaceOK /\ pc = "setConfig" /\ targets # <<>> /\ Working /\ pc # "idle" /\ todo # {}
  BY Parts DEF stellarGetConfig, Working, PlaceOK, RunWhole
<1>2. req.cs = "setConfig" /\ target.m \in MCMs /\ ch \in Chains
  BY <1>1, TargetOK, ChainChosen DEF PlaceOK, RunWhole
<1>3. Ever \subseteq Ever'
  BY EverGrows DEF stellarGetConfig
<1>4. ReportsDone' /\ ChainsDone'
  BY <1>1, <1>3, ReportsStay, ChainsStay DEF stellarGetConfig, DoneInv
<1>5. pc' = "getRoot" => <<ch, target.m, target.cfg>> \in Ever'
  <2>1. PICK c, m, ms, hs : c = ch /\ m = target.m /\ ms = mcm /\ hs = holders
    OBVIOUS
  <2>2. <<c, m, ms[c][m].cfg>> \in Held(ms, hs)
    BY <1>2, <2>1, HeldConfig
  <2>3. pc' = "getRoot" => ms[c][m].cfg = target.cfg
    BY <2>1 DEF stellarGetConfig
  <2>4. QED
    BY <1>3, <2>1, <2>2, <2>3 DEF Ever
<1>6. TargetsDone'
  <2>1. /\ targets' = targets /\ UNCHANGED <<req, todo>> /\ pc' # "grant"
        /\ Effects(ch, calls) \subseteq Effects(ch, calls')
    BY DEF stellarGetConfig, chainVars
  <2>2. QED
    BY <1>1, <1>3, <1>5, <2>1, TargetStays DEF DoneInv
<1>7. QED
  BY <1>4, <1>6 DEF DoneInv

\* stellarGetRoot: the operation returns nothing when the config held and the root
\* is clear, also when the config has been changed between the two reads.
LEMMA GetRootDone ==
    ASSUME GovInv, DoneInv, stellarGetRoot
    PROVE  DoneInv'
<1>1. PlaceOK /\ ReportsWhole /\ pc = "getRoot" /\ targets # <<>> /\ Working /\ pc # "idle" /\ todo # {}
  BY Parts DEF stellarGetRoot, Working, PlaceOK, RunWhole
<1>2. req.cs = "setConfig" /\ target.m \in MCMs /\ ch \in Chains
  BY <1>1, TargetOK, ChainChosen DEF PlaceOK, RunWhole
<1>3. Ever \subseteq Ever'
  BY EverGrows DEF stellarGetRoot
<1>4. ChainsDone'
  BY <1>1, <1>3, ChainsStay DEF stellarGetRoot, DoneInv
<1>5. Effects(ch, calls) \subseteq Effects(ch, calls') /\ UNCHANGED <<req, todo>>
  BY DEF stellarGetRoot
<1>6. CASE rootClear
  <2>1. PICK c, m : c = ch /\ m = target.m
    OBVIOUS
  <2>2. <<c, m, NoRoot>> \in Ever
    <3>1. PICK ms, hs : ms = mcm /\ hs = holders
      OBVIOUS
    <3>2. ms[c][m].root = NoRoot
      BY <1>6, <2>1, <3>1 DEF rootClear
    <3>3. <<c, m, NoRoot>> \in Held(ms, hs)
      BY <1>2, <2>1, <3>2, HeldConfig
    <3>4. QED
      BY <3>1, <3>3 DEF Ever
  <2>3. <<c, m, target.cfg>> \in Ever
    BY <1>1, <2>1 DEF DoneInv, TargetsDone
  <2>4. PICK call : call = SetConfigCall(m, target.cfg, TRUE)
    OBVIOUS
  <2>5. Effect(c, call) \subseteq Ever
    <3>1. call.op = "cfg" /\ call.m = m /\ call.cfg = target.cfg
      BY <2>4 DEF SetConfigCall
    <3>2. QED
      BY <2>2, <2>3, <3>1 DEF Effect
  <2>6. PICK k : k = OpKey(call)
    OBVIOUS
  <2>7. k.ch = c /\ k.call = call /\ stellarKey = k
    BY <2>1, <2>4, <2>6 DEF OpKey, stellarKey, OpStellarSetConfigMCM, ClearRoot
  <2>8. ReportsDone'
    <3>1. Report("op", k, <<>>) /\ ReportsDone
      BY <1>6, <2>7 DEF stellarGetRoot, DoneInv
    <3>2. Effect(k.ch, k.call) \subseteq Ever' \cup Effects(k.ch, <<>>)
      BY <1>3, <2>5, <2>7
    <3>3. QED
      BY <1>1, <1>3, <3>1, <3>2, OpReported
  <2>9. TargetsDone'
    <3>1. Asked(ch, target) \subseteq Effect(ch, call)
      BY <1>2, <2>1, <2>4, ConfigAsked
    <3>2. Asked(ch, target) \subseteq Ever' \cup Effects(ch, calls')
      BY <1>3, <2>1, <2>5, <3>1
    <3>3. targets' = Tail(targets) /\ pc' = "setConfig"
      BY <1>6 DEF stellarGetRoot
    <3>4. QED
      BY <1>1, <1>3, <1>5, <3>2, <3>3, TargetPassed DEF DoneInv
  <2>10. QED
    BY <1>4, <2>8, <2>9 DEF DoneInv
<1>7. CASE ~rootClear
  <2>1. pc' = "send" /\ UNCHANGED <<reports, targets>>
    BY <1>7 DEF stellarGetRoot
  <2>2. ReportsDone'
    BY <1>3, <2>1, ReportsStay DEF DoneInv
  <2>3. TargetsDone'
    BY <1>1, <1>3, <1>5, <2>1, TargetStays DEF DoneInv
  <2>4. QED
    BY <1>4, <2>2, <2>3 DEF DoneInv
<1>8. QED
  BY <1>6, <1>7

\* ReadGrant: who needs no grant holds the role.
LEMMA ReadGrantDone ==
    ASSUME GovInv, DoneInv, pc = "grantRole", ReadGrant
    PROVE  DoneInv'
<1>1. /\ PlaceOK /\ ChainTyped /\ targets # <<>> /\ Working /\ pc # "idle" /\ todo # {}
  BY Parts DEF ReadGrant, Working, PlaceOK, RunWhole
<1>2. /\ req.cs = "grantRole" /\ target.role \in Roles /\ elems(target.to) \subseteq Accounts /\ ch \in Chains
  BY <1>1, TargetOK, ChainChosen DEF PlaceOK, RunWhole
<1>3. Ever \subseteq Ever'
  BY EverGrows DEF ReadGrant
<1>4. ReportsDone' /\ ChainsDone'
  BY <1>1, <1>3, ReportsStay, ChainsStay DEF ReadGrant, DoneInv
<1>5. /\ Effects(ch, calls) \subseteq Effects(ch, calls') /\ UNCHANGED <<req, todo>>
  BY DEF ReadGrant
<1>6. ASSUME NEW a \in elems(target.to) \ AddressesNeedingGrant(target)
      PROVE  <<ch, target.role, a>> \in Ever
  <2>1. PICK c, r, ms, hs : c = ch /\ r = target.role /\ ms = mcm /\ hs = holders
    OBVIOUS
  <2>2. a \in hs[c][r] /\ a \in Accounts
    BY <1>2, <2>1 DEF AddressesNeedingGrant, AddressesForRole
  <2>3. <<c, r, a>> \in Held(ms, hs)
    BY <1>2, <2>1, <2>2, HeldRole
  <2>4. QED
    BY <2>1, <2>3 DEF Ever
<1>7. CASE AddressesNeedingGrant(target) = {}
  <2>1. targets' = Tail(targets) /\ pc' = "grantRole"
    BY <1>7 DEF ReadGrant
  <2>2. Asked(ch, target) \subseteq Ever
    BY <1>2, <1>6, <1>7 DEF Asked, AskedOf
  <2>3. TargetsDone'
    BY <1>1, <1>3, <1>5, <2>1, <2>2, TargetPassed DEF DoneInv
  <2>4. QED
    BY <1>4, <2>3 DEF DoneInv
<1>8. CASE AddressesNeedingGrant(target) # {}
  <2>1. targets' = targets /\ pc' = "grant" /\ need' = AddressesNeedingGrant(target)
    BY <1>8 DEF ReadGrant
  <2>2. \A a \in elems(target.to) \ need' : <<ch, target.role, a>> \in Ever' \cup Effects(ch, calls')
    BY <1>3, <1>6, <2>1
  <2>3. TargetsDone'
    BY <1>1, <1>3, <1>5, <2>1, <2>2, TargetStays DEF DoneInv
  <2>4. QED
    BY <1>4, <2>3 DEF DoneInv
<1>9. QED
  BY <1>7, <1>8

\* GrantStep: one grantee more, and with the last one the target.
LEMMA GrantStepDone ==
    ASSUME GovInv, DoneInv, pc = "grant", GrantStep
    PROVE  DoneInv'
<1>1. /\ PlaceOK /\ ChainTyped /\ ReportsWhole /\ calls \in Seq(Calls)
      /\ targets # <<>> /\ Working /\ Calling /\ pc # "idle" /\ todo # {}
  BY Parts DEF Working, Calling, PlaceOK, KeptOK, RunWhole
<1>2. req.cs = "grantRole" /\ ch \in Chains
  BY <1>1, ChainChosen DEF PlaceOK, RunWhole
<1>3. PICK c, r, g, call : c = ch /\ r = target.role /\ g = Grantee /\ call = GrantCall(r, g)
  OBVIOUS
<1>4. call \in Calls /\ ExecuteCall(call)
  BY <1>1, <1>3, NextCallOK DEF NextCall, GrantStep
<1>5. Effect(c, call) = {<<c, r, g>>}
  BY <1>3 DEF Effect, GrantCall
<1>6. /\ Ever \subseteq Ever' /\ ReportsDone'
      /\ Effect(c, call) \subseteq Ever' \cup Effects(c, calls')
      /\ Effects(c, calls) \subseteq Effects(c, calls')
  BY <1>1, <1>2, <1>3, <1>4, CallDone DEF DoneInv
<1>7. UNCHANGED <<req, todo, agg>> /\ need' = need \ {g}
  BY <1>3 DEF GrantStep
<1>8. ChainsDone'
  BY <1>1, <1>6, <1>7, ChainsStay DEF DoneInv
<1>9. ASSUME NEW a \in elems(target.to) \ need' PROVE <<c, r, a>> \in Ever' \cup Effects(c, calls')
  <2>1. CASE a = g
    BY <1>5, <1>6, <2>1
  <2>2. CASE a # g
    <3>1. a \in elems(target.to) \ need
      BY <1>7, <2>2
    <3>2. <<c, r, a>> \in Ever \cup Effects(c, calls)
      BY <1>3, <3>1 DEF DoneInv, TargetsDone
    <3>3. QED
      BY <1>6, <3>2
  <2>3. QED
    BY <2>1, <2>2
<1>10. Effects(ch, calls) \subseteq Effects(ch, calls')
  BY <1>3, <1>6
<1>11. CASE need' = {}
  <2>1. targets' = Tail(targets) /\ pc' = "grantRole"
    BY <1>11 DEF GrantStep
  <2>2. Asked(ch, target) \subseteq Ever' \cup Effects(ch, calls')
    BY <1>2, <1>3, <1>9, <1>11 DEF Asked, AskedOf
  <2>3. TargetsDone'
    BY <1>1, <1>6, <1>7, <1>10, <2>1, <2>2, TargetPassed DEF DoneInv
  <2>4. QED
    BY <1>6, <1>8, <2>3 DEF DoneInv
<1>12. CASE need' # {}
  <2>1. targets' = targets /\ pc' = "grant"
    BY <1>12 DEF GrantStep
  <2>2. \A a \in elems(target.to) \ need' : <<ch, target.role, a>> \in Ever' \cup Effects(ch, calls')
    BY <1>3, <1>9
  <2>3. TargetsDone'
    BY <1>1, <1>6, <1>7, <1>10, <2>1, <2>2, TargetStays DEF DoneInv
  <2>4. QED
    BY <1>6, <1>8, <2>3 DEF DoneInv
<1>13. QED
  BY <1>11, <1>12

\* A run that ends has what it did in its reports.
LEMMA EndDone ==
    ASSUME DoneInv, buildOutput \/ Reverted \/ Fail \/ LoseResult
    PROVE  DoneInv'
<1>1. Ever \subseteq Ever'
  BY EverGrows DEF buildOutput, Reverted, Fail, LoseResult, Perform
<1>2. ReportsDone'
  BY <1>1, ReportsStay DEF buildOutput, Reverted, Fail, LoseResult, DoneInv
<1>3. ChainsDone' /\ TargetsDone'
  BY NothingToShow DEF buildOutput, Reverted, Fail, LoseResult, End
<1>4. QED
  BY <1>2, <1>3 DEF DoneInv

\* A new bundle knows of nothing that was done.
LEMMA NewBundleDone ==
    ASSUME NewBundle
    PROVE  DoneInv'
<1>1. ReportsDone'
  BY DEF NewBundle, NoReports, ReportsDone
<1>2. ChainsDone' /\ TargetsDone'
  BY NothingToShow DEF NewBundle
<1>3. QED
  BY <1>1, <1>2 DEF DoneInv

\* Timelocks, signers and admins undo nothing that is not overridden then.
LEMMA OthersDone ==
    ASSUME DoneInv, Others
    PROVE  DoneInv'
<1>1. Ever \subseteq Ever'
  BY EverGrows DEF Others, ExecuteBatch, SetRoot, RevokeRole, Perform
<1>2. UNCHANGED <<pc, req, todo, targets, need, calls, agg, reports>>
  BY DEF Others, ExecuteBatch, SetRoot, RevokeRole, chainVars
<1>3. QED
  BY <1>1, <1>2, BesideDone

\* No step, no change.
LEMMA StutterDone ==
    ASSUME DoneInv, UNCHANGED vars
    PROVE  DoneInv'
<1>1. Ever \subseteq Ever'
  BY EverGrows DEF vars
<1>2. QED
  BY <1>1, BesideDone DEF vars, chainVars

\* The invariant is inductive, beside GovInv.
LEMMA NextDone ==
    ASSUME GovInv, DoneInv, [Next]_vars
    PROVE  DoneInv'
<1>1. CASE \E i \in Inputs : Start(i)
  BY <1>1, StartDone
<1>2. CASE Run
  BY <1>2, ReuseChainDone, StartChainDone, ChainDoneDone, EndDone, SetConfigDone, StellarDone,
     GetConfigDone, GetRootDone, ReadGrantDone, GrantStepDone, FireDrillDone
     DEF Run, runEVMGrantRole, runSolanaGrantRole, OpEVMGrantRole, OpSolanaGrantRole,
         runEVMFireDrill, runSolanaFireDrill
<1>3. CASE Others
  BY <1>3, OthersDone
<1>4. CASE Fail \/ LoseResult \/ NewBundle
  BY <1>4, EndDone, NewBundleDone
<1>5. CASE UNCHANGED vars
  BY <1>5, StutterDone
<1>6. QED
  BY <1>1, <1>2, <1>3, <1>4, <1>5 DEF Next

----------------------------------------------------------------------------
(* What successful runs did *)

\* DoneInv always holds.
THEOREM DoneInvariance == Spec => []DoneInv
<1>1. Init => DoneInv
  BY DEF Init, NoReports, DoneInv, ReportsDone, ChainsDone, TargetsDone, Working
<1>2. GovInv /\ DoneInv /\ [Next]_vars => DoneInv'
  BY NextDone
<1>3. QED
  BY <1>1, <1>2, Invariance, PTL DEF Spec

\* When all chains are finished, what the request asked for is done or proposed.
LEMMA AllDone ==
    ASSUME GovInv, DoneInv, buildOutput, NEW c \in DOMAIN req.by
    PROVE  /\ \A t \in elems(req.by[c]) : Asked(c, t) \subseteq Ever \cup Promised(c, agg)
           /\ req.cs = "fireDrill" => Drilled(c, agg)
           /\ ~req.mcms => Promised(c, agg) = {}
<1>1. /\ \A t \in elems(req.by[c]) : Asked(c, t) \subseteq Ever \cup Promised(c, agg)
      /\ req.cs = "fireDrill" => Drilled(c, agg)
  BY DEF buildOutput, DoneInv, ChainsDone
<1>2. ASSUME ~req.mcms PROVE Promised(c, agg) = {}
  <2>1. agg = <<>>
    BY <1>2, Parts DEF KeptOK, Kept
  <2>2. elems(agg) = {}
    BY <2>1 DEF elems
  <2>3. QED
    BY <2>2 DEF Promised
<1>3. QED
  BY <1>1, <1>2

\* A direct run that succeeds has done what it was asked, whatever it skipped,
\* reused or repeated, unless it was undone since (ExecuteOnChainSequenceAndMerge,
\* setStellarMCMConfig, AddressesNeedingGrant).
THEOREM DirectRunsDo == Spec => DirectEffective
<1>1. GovInv /\ DoneInv => (buildOutput /\ ~req.mcms =>
         \A c \in DOMAIN req.by : \A n \in DOMAIN req.by[c] :
            Asked(c, req.by[c][n]) \subseteq Held(mcm, holders) \cup overridden)
  <2>1. SUFFICES ASSUME GovInv, DoneInv, buildOutput, ~req.mcms,
                        NEW c \in DOMAIN req.by, NEW n \in DOMAIN req.by[c]
                 PROVE  Asked(c, req.by[c][n]) \subseteq Held(mcm, holders) \cup overridden
    OBVIOUS
  <2>2. req.by[c][n] \in elems(req.by[c])
    BY DEF elems
  <2>3. QED
    BY <2>1, <2>2, AllDone DEF Ever
<1>2. QED
  BY <1>1, Invariance, DoneInvariance, PTL DEF DirectEffective

\* The proposal of a successful run would do what was asked and was not done
\* before; a fire drill's has one batch per chain (NewBatchOperationFromWrites,
\* buildOutput).
THEOREM ProposalsDo == Spec => ProposalEffective
<1>1. GovInv /\ DoneInv => (buildOutput /\ req.mcms =>
         \A c \in DOMAIN req.by :
            /\ \A n \in DOMAIN req.by[c] :
                  Asked(c, req.by[c][n]) \subseteq Held(mcm, holders) \cup overridden \cup Promised(c, agg)
            /\ req.cs = "fireDrill" => \E b \in elems(agg) : b.ch = c /\ b.calls = <<Noop>>)
  <2>1. SUFFICES ASSUME GovInv, DoneInv, buildOutput, NEW c \in DOMAIN req.by
                 PROVE  /\ \A n \in DOMAIN req.by[c] :
                              Asked(c, req.by[c][n]) \subseteq Held(mcm, holders) \cup overridden \cup Promised(c, agg)
                        /\ req.cs = "fireDrill" => Drilled(c, agg)
    BY DEF Drilled
  <2>2. \A n \in DOMAIN req.by[c] : req.by[c][n] \in elems(req.by[c])
    BY DEF elems
  <2>3. QED
    BY <2>1, <2>2, AllDone DEF Ever
<1>2. QED
  BY <1>1, Invariance, DoneInvariance, PTL DEF ProposalEffective
=============================================================================
