---------------------- MODULE TransferToTimelockProofs ---------------------
(* Machine-checked proofs about TransferToTimelock, for every value of its constants. *)
EXTENDS TransferToTimelock, ProofLemmas, TLAPS

(* The operators of the model *)

\* An input names chains and a sequence of contracts per chain.
LEMMA InputType ==
    ASSUME NEW i \in Inputs
    PROVE  /\ DOMAIN i.by \subseteq Chains /\ i.only \in BOOLEAN /\ i.bypass \in BOOLEAN /\ i # NoInput
           /\ \A c \in DOMAIN i.by : i.by[c] \in Seq(Contracts)
<1>1. DOMAIN i.by \in (SUBSET Chains) \ {{}} /\ i.only \in BOOLEAN /\ i.bypass \in BOOLEAN
      /\ \A c \in DOMAIN i.by : i.by[c] \in Seq(Contracts) \ {<<>>}
  BY InputsAssumption
<1>2. i # NoInput
  BY AccountsAssumption
<1>3. QED
  BY <1>1, <1>2

\* The elements of a sequence.
LEMMA ElementType ==
    ASSUME NEW S, NEW s \in Seq(S), NEW n \in DOMAIN s
    PROVE  s[n] \in S
OBVIOUS

\* What remains of a queue once its first contract is handled.
LEMMA TailType ==
    ASSUME NEW s \in Seq(Contracts), s # <<>>
    PROVE  /\ Head(s) \in Contracts /\ Tail(s) \in Seq(Contracts)
           /\ \A n \in DOMAIN s : s[n] = Head(s) \/ \E m \in DOMAIN Tail(s) : Tail(s)[m] = s[n]
<1>1. Head(s) \in Contracts /\ Tail(s) \in Seq(Contracts) /\ Head(s) = s[1]
  OBVIOUS
<1>2. ASSUME NEW n \in DOMAIN s, n # 1
      PROVE  n - 1 \in DOMAIN Tail(s) /\ Tail(s)[n - 1] = s[n]
  BY <1>2
<1>3. QED
  BY <1>1, <1>2

----------------------------------------------------------------------------
(* The parts of the type invariant *)

Stages == {"idle", "chain", "contract", "transfer", "reread", "confirm", "check", "send", "verify"}
OwnersType == owner \in [Contracts -> {Deployer, Timelock}] /\ pending \in [Contracts -> {Timelock, Nobody}]
SeqReports == [k: [ch: Chains, cs: Seq(Contracts), only: BOOLEAN, bypass: BOOLEAN], out: SUBSET (Batches \ {{}})]
TransferReports == [k: [ch: Chains, c: Contracts], out: {{}}]
OpReports == [k: [c: Contracts, only: BOOLEAN], out: Batches]
ReportsType == reports \in [seq: SUBSET SeqReports, transfer: SUBSET TransferReports, op: SUBSET OpReports]
RunType ==
    /\ agg \subseteq Batches \ {{}}
    /\ pc \in Stages
    /\ req \in fleet \cup {NoInput} /\ todo \subseteq Chains
    /\ pc = "idle" <=> req = NoInput
    /\ pc # "idle" => todo \subseteq DOMAIN req.by
    /\ pc \notin {"idle", "chain"} => todo # {}
    /\ queue \in Seq(Contracts) /\ batch \subseteq Contracts
    /\ pc \in {"transfer", "reread", "confirm", "check", "send", "verify"} => queue # <<>>
    /\ pc \in {"idle", "chain"} => queue = <<>> /\ batch = {}
OutsideType ==
    /\ fleet \in Fleets /\ proposals \subseteq Batches \ {{}}
    /\ refused \in Contracts \cup {Nobody} /\ stale \in BOOLEAN
    /\ fails \in 0..MaxFails /\ returns \in 0..MaxReturns

\* The type invariant, part by part.
LEMMA TypeParts == TypeOK <=> OwnersType /\ ReportsType /\ RunType /\ OutsideType
BY DEF TypeOK, OwnersType, ReportsType, SeqReports, TransferReports, OpReports, RunType, OutsideType, Stages

\* The parts of the invariant a step starts from.
LEMMA InvParts ==
    ASSUME IInv
    PROVE  OwnersType /\ ReportsType /\ RunType /\ OutsideType /\ ReportsTruthful /\ RunCovers
BY TypeParts DEF IInv

\* The run in progress: its input and the chain it is at.
LEMMA RunFacts ==
    ASSUME IInv, pc # "idle"
    PROVE  /\ req \in Inputs /\ req.only \in BOOLEAN /\ req.bypass \in BOOLEAN
           /\ todo \subseteq DOMAIN req.by /\ DOMAIN req.by \subseteq Chains
           /\ todo # {} => ch \in todo /\ ch \in Chains /\ req.by[ch] \in Seq(Contracts)
<1>1. req \in fleet /\ fleet \in Fleets /\ todo \subseteq DOMAIN req.by
  BY InvParts DEF RunType, OutsideType
<1>2. req \in Inputs
  BY <1>1 DEF Inputs
<1>3. /\ req.only \in BOOLEAN /\ req.bypass \in BOOLEAN /\ DOMAIN req.by \subseteq Chains
      /\ \A c \in DOMAIN req.by : req.by[c] \in Seq(Contracts)
  BY <1>2, InputType
<1>4. todo # {} => ch \in todo
  <2>1. todo \subseteq Nat
    BY <1>1, <1>3, ChainsAssumption
  <2>2. todo # {} => \E c \in todo : \A d \in todo : c <= d
    BY <2>1, LeastNat
  <2>3. QED
    BY <2>2 DEF ch
<1>5. QED
  BY <1>1, <1>2, <1>3, <1>4

\* The contract a run is at.
LEMMA ContractFacts ==
    ASSUME IInv, pc \notin {"idle", "chain"}, queue # <<>>
    PROVE  /\ Contract \in Contracts /\ Tail(queue) \in Seq(Contracts)
           /\ \A c : Left(c) => c = Contract \/ \E m \in DOMAIN Tail(queue) : Tail(queue)[m] = c
           /\ owner[Contract] \in {Deployer, Timelock}
<1>1. queue \in Seq(Contracts) /\ OwnersType
  BY InvParts DEF RunType
<1>2. /\ Contract \in Contracts /\ Tail(queue) \in Seq(Contracts)
      /\ \A n \in DOMAIN queue : queue[n] = Contract \/ \E m \in DOMAIN Tail(queue) : Tail(queue)[m] = queue[n]
  BY <1>1, TailType DEF Contract
<1>3. \A c : Left(c) => c = Contract \/ \E m \in DOMAIN Tail(queue) : Tail(queue)[m] = c
  BY <1>2 DEF Left
<1>4. QED
  BY <1>1, <1>2, <1>3 DEF OwnersType

----------------------------------------------------------------------------
(* What a step keeps *)

\* No step but ReturnOwnership takes a transfer or an acceptance back.
Advances ==
    /\ OwnersType'
    /\ \A c \in Contracts : (Sent(c) => Sent(c)') /\ (owner[c] = Timelock => owner'[c] = Timelock)

\* Owners that stay as they are have not gone back.
LEMMA OwnersSame ==
    ASSUME OwnersType, UNCHANGED <<owner, pending>>
    PROVE  Advances
BY DEF Advances, OwnersType, Sent

\* The deployer's transferOwnership is sent.
LEMMA TransferredOK ==
    ASSUME OwnersType, Contract \in Contracts, UNCHANGED owner, pending' = Transferred
    PROVE  Advances /\ \A c : c = Contract => Sent(c)'
BY DEF OwnersType, Transferred, Advances, Sent

\* What is covered stays covered.
LEMMA CoveredKept ==
    ASSUME Advances, NEW c \in Contracts, NEW B, Covered(c, B)
    PROVE  Covered(c, B)'
BY DEF Advances, Covered

\* Reports stay true while a step adds true ones only.
LEMMA TruthGrows ==
    ASSUME ReportsType, ReportsTruthful, Advances, UNCHANGED stale, ReportsType',
           ~stale =>
              /\ \A r \in reports'.transfer : r \in reports.transfer \/ Sent(r.k.c)'
              /\ \A r \in reports'.op : r \in reports.op \/ r.k.only \/ Covered(r.k.c, r.out)'
              /\ \A r \in reports'.seq : \/ r \in reports.seq \/ r.k.only
                                          \/ \A n \in DOMAIN r.k.cs : Covered(r.k.cs[n], UNION r.out)'
    PROVE  ReportsTruthful'
<1>1. ASSUME ~stale, NEW r \in reports.transfer PROVE Sent(r.k.c)'
  <2>1. r.k.c \in Contracts /\ Sent(r.k.c)
    BY <1>1 DEF ReportsType, TransferReports, ReportsTruthful
  <2>2. QED
    BY <2>1 DEF Advances
<1>2. ASSUME ~stale, NEW r \in reports.op, ~r.k.only PROVE Covered(r.k.c, r.out)'
  <2>1. r.k.c \in Contracts /\ Covered(r.k.c, r.out)
    BY <1>2 DEF ReportsType, OpReports, ReportsTruthful
  <2>2. QED
    BY <2>1, CoveredKept
<1>3. ASSUME ~stale, NEW r \in reports.seq, ~r.k.only, NEW n \in DOMAIN r.k.cs
      PROVE  Covered(r.k.cs[n], UNION r.out)'
  <2>1. r \in SeqReports
    BY DEF ReportsType
  <2>2. r.k.cs \in Seq(Contracts)
    BY <2>1 DEF SeqReports
  <2>3. r.k.cs[n] \in Contracts
    BY <1>3, <2>2, ElementType
  <2>4. Covered(r.k.cs[n], UNION r.out)
    BY <1>3, Zenon DEF ReportsTruthful
  <2>5. QED
    BY <2>3, <2>4, CoveredKept, Zenon
<1>4. ASSUME ~stale, NEW r \in reports'.transfer PROVE Sent(r.k.c)'
  BY <1>1, <1>4, Zenon
<1>5. ASSUME ~stale, NEW r \in reports'.op, ~r.k.only PROVE Covered(r.k.c, r.out)'
  BY <1>2, <1>5, Zenon
<1>6. ASSUME ~stale, NEW r \in reports'.seq, ~r.k.only, NEW n \in DOMAIN r.k.cs
      PROVE  Covered(r.k.cs[n], UNION r.out)'
  BY <1>3, <1>6, Zenon
<1>7. QED
  BY <1>4, <1>5, <1>6, Zenon DEF ReportsTruthful

\* ... in particular while it adds none.
LEMMA TruthKept ==
    ASSUME ReportsType, ReportsTruthful, Advances, UNCHANGED <<reports, stale>>
    PROVE  ReportsType' /\ ReportsTruthful'
<1>1. ReportsType'
  BY DEF ReportsType
<1>2. QED
  BY <1>1, TruthGrows

\* A bundle's reports, with one kind replaced.
LEMMA ReportsFields ==
    ASSUME ReportsType, NEW S
    PROVE  /\ [reports EXCEPT !.op = S] = [seq |-> reports.seq, transfer |-> reports.transfer, op |-> S]
           /\ [reports EXCEPT !.transfer = S] = [seq |-> reports.seq, transfer |-> S, op |-> reports.op]
           /\ [reports EXCEPT !.seq = S] = [seq |-> S, transfer |-> reports.transfer, op |-> reports.op]
BY DEF ReportsType

\* An operation's report is true when it is added.
LEMMA OperationTruthful ==
    ASSUME ReportsType, ReportsTruthful, Advances, UNCHANGED stale, NEW B \in Batches,
           Contract \in Contracts, req.only \in BOOLEAN,
           reports' = [reports EXCEPT !.op = @ \cup {[k |-> OpKey, out |-> B]}],
           (~stale /\ ~req.only) => \A c : c = Contract => Covered(c, B)'
    PROVE  ReportsType' /\ ReportsTruthful'
<1> DEFINE r == [k |-> OpKey, out |-> B]
           S == reports.op \cup {r}
<1>1. r \in OpReports /\ r.k.c = Contract /\ r.k.only = req.only /\ r.out = B
  BY DEF OpReports, OpKey
<1>2. reports' = [reports EXCEPT !.op = S]
  OBVIOUS
<1> HIDE DEF r
<1>3. /\ reports.seq \in SUBSET SeqReports /\ reports.transfer \in SUBSET TransferReports
      /\ S \in SUBSET OpReports
  BY <1>1 DEF ReportsType
<1> HIDE DEF S
<1>4. reports' = [seq |-> reports.seq, transfer |-> reports.transfer, op |-> S]
  BY <1>2, ReportsFields
<1>5. ReportsType' /\ reports'.seq = reports.seq /\ reports'.transfer = reports.transfer /\ reports'.op = S
  BY <1>3, <1>4 DEF ReportsType
<1>6. ~stale => \A s \in S : s \in reports.op \/ s.k.only \/ Covered(s.k.c, s.out)'
  <2>1. (~stale /\ ~r.k.only) => \A c, b : c = r.k.c /\ b = r.out => Covered(c, b)'
    BY <1>1
  <2>2. QED
    BY <2>1 DEF S
<1>7. QED
  BY <1>5, <1>6, TruthGrows

----------------------------------------------------------------------------
(* Where a step leaves the run *)

\* A run that ended leaves nothing to cover.
LEMMA ReturnOK ==
    ASSUME Return, UNCHANGED fleet
    PROVE  RunType' /\ RunCovers'
BY DEF Return, RunType, Stages, RunCovers

\* The chains Apply has finished stay covered while it works on another one.
LEMMA FinishedKept ==
    ASSUME IInv, pc # "idle", FinishedCovered, Advances, UNCHANGED <<req, todo, agg>>
    PROVE  FinishedCovered'
<1>1. ASSUME NEW d \in DOMAIN req.by \ todo, NEW n \in DOMAIN req.by[d]
      PROVE  Covered(req.by[d][n], UNION agg)'
  <2>1. req.by[d] \in Seq(Contracts)
    BY RunFacts, InputType
  <2>2. req.by[d][n] \in Contracts
    BY <2>1, ElementType
  <2>3. Covered(req.by[d][n], UNION agg)
    BY <1>1, Zenon DEF FinishedCovered
  <2>4. \A x, B : x = req.by[d][n] /\ B = UNION agg => Covered(x, B)'
    BY <2>2, <2>3, CoveredKept, Zenon
  <2>5. QED
    BY <2>4, Zenon DEF Covered, Sent
<1>2. QED
  BY <1>1, Zenon DEF FinishedCovered

\* The current chain stays covered when contracts leave the queue for the batch.
LEMMA CurrentKept ==
    ASSUME IInv, pc # "idle", todo # {}, CurrentCovered, Advances, UNCHANGED <<req, todo>>,
           batch \subseteq batch',
           \A c \in Contracts : Left(c) => Left(c)' \/ Covered(c, batch)'
    PROVE  CurrentCovered'
<1>1. req.by[ch] \in Seq(Contracts) /\ ch' = ch
  BY RunFacts DEF ch
<1>2. ASSUME NEW n \in DOMAIN req.by[ch]
      PROVE  \A c : c = req.by[ch][n] => Left(c)' \/ Covered(c, batch)'
  <2> DEFINE c == req.by[ch][n]
  <2>1. c \in Contracts /\ (Left(c) \/ Covered(c, batch))
    BY <1>1, ElementType DEF CurrentCovered
  <2> HIDE DEF c
  <2>2. CASE Left(c)
    BY <2>1, <2>2 DEF c
  <2>3. CASE Covered(c, batch)
    <3>1. \A x, B : x = c /\ B = batch => Covered(x, B)'
      BY <2>1, <2>3, CoveredKept
    <3>2. \A x : x = c => Covered(x, batch)'
      BY <3>1 DEF Covered
    <3>3. QED
      BY <3>2 DEF c
  <2>4. QED
    BY <2>1, <2>2, <2>3 DEF c
<1>3. QED
  BY <1>1, <1>2 DEF CurrentCovered, Left, Covered, Sent

\* The current contract is handled with the accept operations B.
LEMMA HandledOK ==
    ASSUME IInv, pc \notin {"idle", "chain"}, queue # <<>>, NEW B \in Batches, Handled(B),
           Advances, UNCHANGED stale,
           (~stale /\ ~req.only) => \A c : c = Contract => Covered(c, B)'
    PROVE  RunType' /\ RunCovers'
<1>1. RunType /\ RunCovers
  BY InvParts
<1>2. todo # {} /\ pc # "idle" /\ pc # "chain"
  BY <1>1 DEF RunType
<1>3. /\ Contract \in Contracts /\ Tail(queue) \in Seq(Contracts)
      /\ \A c : Left(c) => c = Contract \/ \E m \in DOMAIN Tail(queue) : Tail(queue)[m] = c
  BY <1>2, ContractFacts
<1>4. /\ batch' = batch \cup B /\ queue' = Tail(queue) /\ pc' = "contract"
      /\ UNCHANGED <<fleet, req, todo, agg>>
  BY DEF Handled
<1>5. RunType'
  BY <1>1, <1>2, <1>3, <1>4 DEF RunType, Stages, Batches
<1>6. ASSUME ~req.only, ~stale
      PROVE  FinishedCovered' /\ CurrentCovered'
  <2>1. FinishedCovered /\ CurrentCovered
    BY <1>1, <1>2, <1>6 DEF RunCovers
  <2>2. FinishedCovered'
    BY <1>2, <1>4, <2>1, FinishedKept
  <2>3. ASSUME NEW c \in Contracts, Left(c) PROVE Left(c)' \/ Covered(c, batch)'
    <3>1. CASE c = Contract
      <4>1. Covered(c, B)'
        BY <3>1, <1>6
      <4>2. QED
        BY <4>1, <1>4 DEF Covered
    <3>2. CASE \E m \in DOMAIN Tail(queue) : Tail(queue)[m] = c
      BY <3>2, <1>4 DEF Left
    <3>3. QED
      BY <2>3, <1>3, <3>1, <3>2
  <2>4. CurrentCovered'
    BY <1>2, <1>4, <2>1, <2>3, CurrentKept
  <2>5. QED
    BY <2>2, <2>4
<1>7. RunCovers'
  BY <1>4, <1>6 DEF RunCovers
<1>8. QED
  BY <1>5, <1>7

\* A step within the handling of the current contract.
LEMMA InsideOK ==
    ASSUME IInv, pc \notin {"idle", "chain"}, queue # <<>>, UNCHANGED <<fleet, applyVars, stale>>,
           Advances, pc' \in {"transfer", "reread", "confirm", "check", "send", "verify"},
           (pc' \in {"reread", "check", "verify"} /\ ~stale /\ ~req.only) =>
              \A c : c = Contract => Sent(c)'
    PROVE  RunType' /\ RunCovers'
<1>1. RunType /\ RunCovers
  BY InvParts
<1>2. UNCHANGED <<fleet, req, todo, queue, batch, agg, stale>> /\ todo # {} /\ pc # "idle" /\ pc # "chain"
  BY <1>1 DEF RunType, applyVars, chainVars
<1>3. RunType'
  BY <1>1, <1>2 DEF RunType, Stages
<1>4. ASSUME ~req.only, ~stale
      PROVE  FinishedCovered' /\ CurrentCovered'
  <2>1. FinishedCovered /\ CurrentCovered
    BY <1>1, <1>2, <1>4 DEF RunCovers
  <2>2. FinishedCovered'
    BY <1>2, <2>1, FinishedKept
  <2>3. \A c : Left(c) => Left(c)'
    BY <1>2 DEF Left
  <2>4. CurrentCovered'
    BY <1>2, <2>1, <2>3, CurrentKept
  <2>5. QED
    BY <2>2, <2>4
<1>5. (pc' \in {"reread", "check", "verify"} /\ ~stale /\ ~req.only) => Sent(Contract)'
  BY <1>2 DEF Sent, Contract
<1>6. RunCovers'
  BY <1>2, <1>4, <1>5 DEF RunCovers
<1>7. QED
  BY <1>3, <1>6

\* What is left to show of a step: the reports, the run and the rest.
LEMMA StepOK ==
    ASSUME OwnersType', ReportsType' /\ ReportsTruthful', RunType' /\ RunCovers', OutsideType'
    PROVE  IInv'
<1>1. TypeOK'
  BY DEF TypeOK, OwnersType, ReportsType, SeqReports, TransferReports, OpReports, RunType, OutsideType, Stages
<1>2. QED
  BY <1>1 DEF IInv

----------------------------------------------------------------------------
(* Apply *)

\* A run starts with nothing done (Apply).
LEMMA StartOK ==
    ASSUME IInv, NEW i \in fleet, Start(i)
    PROVE  IInv'
<1>1. OwnersType /\ ReportsType /\ RunType /\ OutsideType /\ ReportsTruthful
  BY InvParts
<1>2. i \in Inputs
  BY <1>1 DEF OutsideType, Inputs
<1>3. DOMAIN i.by \subseteq Chains /\ i # NoInput
  BY <1>2, InputType
<1>4. /\ pc = "idle" /\ pc' = "chain" /\ req' = i /\ todo' = DOMAIN i.by /\ agg' = {} /\ refused' = Nobody
      /\ UNCHANGED <<fleet, owner, pending, reports, proposals, queue, batch, stale, fails, returns>>
  BY DEF Start, chainVars, counters
<1>5. Advances /\ OwnersType'
  BY <1>1, <1>4, OwnersSame DEF Advances
<1>6. ReportsType' /\ ReportsTruthful'
  BY <1>1, <1>4, <1>5, TruthKept
<1>7. RunType'
  BY <1>1, <1>3, <1>4 DEF RunType, Stages
<1>8. RunCovers'
  BY <1>4 DEF RunCovers, FinishedCovered
<1>9. OutsideType'
  BY <1>1, <1>4 DEF OutsideType
<1>10. QED
  BY <1>5, <1>6, <1>7, <1>8, <1>9, StepOK

\* A chain whose sequence is reported or done leaves the chains to do: its contracts
\* are covered by the batches O.
LEMMA ChainLeft ==
    ASSUME IInv, pc # "idle", todo # {}, RunCovers, Advances, UNCHANGED <<fleet, req, stale>>,
           NEW O \in SUBSET (Batches \ {{}}),
           agg' = agg \cup O, todo' = todo \ {ch}, pc' = "chain", queue' = <<>>, batch' = {},
           (~stale /\ ~req.only) =>
              \A n \in DOMAIN req.by[ch] : \A c : c = req.by[ch][n] => Covered(c, UNION O)'
    PROVE  RunType' /\ RunCovers'
<1>1. RunType
  BY InvParts
<1>2. /\ ch \in todo /\ todo \subseteq DOMAIN req.by /\ req \in Inputs
      /\ DOMAIN req.by \subseteq Chains
  BY RunFacts
<1>3. RunType'
  BY <1>1, <1>2 DEF RunType, Stages
<1>4. ASSUME ~stale, ~req.only, NEW d \in DOMAIN req.by \ todo', NEW n \in DOMAIN req.by[d],
             NEW c, c = req.by[d][n], NEW U, U = UNION (agg \cup O)
      PROVE  Covered(c, U)'
  <2>1. UNION agg \subseteq U /\ UNION O \subseteq U
    BY <1>4
  <2>2. CASE d = ch
    <3>1. Covered(c, UNION O)'
      BY <1>4, <2>2, Zenon
    <3>2. QED
      BY <3>1, <2>1 DEF Covered
  <2>3. CASE d # ch
    <3>1. d \in DOMAIN req.by \ todo
      BY <1>4, <2>3
    <3>2. req.by[d] \in Seq(Contracts)
      BY <1>2, InputType
    <3>3. c \in Contracts
      BY <1>4, <3>2, ElementType
    <3>4. Covered(c, UNION agg)
      BY <1>4, <3>1, Zenon DEF RunCovers, FinishedCovered
    <3>5. Covered(c, U)
      BY <3>4, <2>1 DEF Covered
    <3>6. QED
      BY <3>3, <3>5, CoveredKept
  <2>4. QED
    BY <2>2, <2>3
<1>5. ASSUME ~stale, ~req.only PROVE FinishedCovered'
  <2>1. \A d \in DOMAIN req.by \ todo' : \A n \in DOMAIN req.by[d] : \A c, U :
           c = req.by[d][n] /\ U = UNION agg' => Covered(c, U)'
    BY <1>4, <1>5
  <2>2. req' = req
    OBVIOUS
  <2>3. ASSUME NEW d \in DOMAIN req.by \ todo', NEW n \in DOMAIN req.by[d]
        PROVE  Covered(req.by[d][n], UNION agg)'
    <3>1. PICK c, U : c = req.by[d][n] /\ U = UNION agg'
      OBVIOUS
    <3>2. Covered(c, U)'
      BY <2>1, <2>3, <3>1, Zenon
    <3>3. req'.by[d][n] = c
      BY <2>2, <3>1, Zenon
    <3>4. QED
      BY <3>1, <3>2, <3>3, Zenon DEF Covered, Sent
  <2>4. QED
    BY <2>2, <2>3, Zenon DEF FinishedCovered
<1>6. RunCovers'
  BY <1>5 DEF RunCovers
<1>7. QED
  BY <1>3, <1>6

\* The step owns and reads nothing of the chain.
LEMMA QuietOwners ==
    ASSUME IInv, UNCHANGED <<owner, pending>>
    PROVE  Advances /\ OwnersType'
BY InvParts, OwnersSame DEF Advances

\* A reported chain is covered by the batches of its report.
LEMMA ReuseChainOK ==
    ASSUME IInv, ReuseChain
    PROVE  IInv'
<1>1. OwnersType /\ ReportsType /\ RunType /\ OutsideType /\ ReportsTruthful /\ RunCovers
  BY InvParts
<1>2. /\ pc = "chain" /\ todo # {} /\ agg' = agg \cup OutputOf(reports.seq, SeqKey) /\ todo' = todo \ {ch}
      /\ UNCHANGED <<fleet, owner, pending, reports, proposals, pc, req, queue, batch, refused,
                     stale, fails, returns>>
  BY DEF ReuseChain, chainVars, counters
<1>3. Advances /\ OwnersType'
  BY <1>2, QuietOwners
<1>4. PICK r \in reports.seq : r.k = SeqKey /\ OutputOf(reports.seq, SeqKey) = r.out
  <2>1. \E r \in reports.seq : r.k = SeqKey
    BY DEF ReuseChain, Reusable
  <2>2. QED
    BY <2>1 DEF OutputOf
<1>5. r \in SeqReports
  BY <1>1 DEF ReportsType
<1>6. r.out \in SUBSET (Batches \ {{}}) /\ r.k.cs = req.by[ch] /\ r.k.only = req.only
  BY <1>4, <1>5 DEF SeqReports, SeqKey
<1>7. ch \in todo /\ req.by[ch] \in Seq(Contracts)
  BY <1>2, RunFacts
<1>8. ASSUME ~stale, ~req.only, NEW n \in DOMAIN req.by[ch], NEW c, c = req.by[ch][n]
      PROVE  Covered(c, UNION r.out)'
  <2>1. c \in Contracts
    BY <1>7, <1>8, ElementType
  <2>2. Covered(c, UNION r.out)
    BY <1>1, <1>4, <1>6, <1>8, Zenon DEF ReportsTruthful
  <2>3. QED
    BY <1>3, <2>1, <2>2, CoveredKept, Zenon
<1>9. agg' = agg \cup r.out /\ queue' = <<>> /\ batch' = {} /\ pc' = "chain"
  BY <1>1, <1>2, <1>4 DEF RunType
<1>10. RunType' /\ RunCovers'
  BY <1>1, <1>2, <1>3, <1>6, <1>8, <1>9, ChainLeft
<1>11. ReportsType' /\ ReportsTruthful'
  BY <1>1, <1>2, <1>3, TruthKept
<1>12. OutsideType'
  BY <1>1, <1>2 DEF OutsideType
<1>13. QED
  BY <1>3, <1>10, <1>11, <1>12, StepOK

\* A chain starts with every contract in the queue.
LEMMA StartChainOK ==
    ASSUME IInv, StartChain
    PROVE  IInv'
<1>1. OwnersType /\ ReportsType /\ RunType /\ OutsideType /\ ReportsTruthful /\ RunCovers
  BY InvParts
<1>2. /\ pc = "chain" /\ todo # {} /\ queue' = req.by[ch] /\ batch' = {} /\ pc' = "contract"
      /\ UNCHANGED <<fleet, owner, pending, reports, proposals, req, todo, agg, refused, stale, fails, returns>>
  BY DEF StartChain, counters
<1>3. Advances /\ OwnersType'
  BY <1>2, QuietOwners
<1>4. ch \in todo /\ req.by[ch] \in Seq(Contracts)
  BY <1>2, RunFacts
<1>5. RunType'
  BY <1>1, <1>2, <1>4 DEF RunType, Stages
<1>6. ASSUME ~req.only, ~stale
      PROVE  FinishedCovered' /\ CurrentCovered'
  <2>1. FinishedCovered
    BY <1>1, <1>2, <1>6 DEF RunCovers
  <2>2. FinishedCovered'
    BY <1>2, <1>3, <2>1, FinishedKept
  <2>3. ch' = ch
    BY <1>2 DEF ch
  <2>4. CurrentCovered'
    BY <1>2, <2>3 DEF CurrentCovered, Left
  <2>5. QED
    BY <2>2, <2>4
<1>7. RunCovers'
  BY <1>2, <1>6 DEF RunCovers
<1>8. ReportsType' /\ ReportsTruthful'
  BY <1>1, <1>2, <1>3, TruthKept
<1>9. OutsideType'
  BY <1>1, <1>2 DEF OutsideType
<1>10. QED
  BY <1>3, <1>5, <1>7, <1>8, <1>9, StepOK

\* The batches of a chain hold the contracts with an accept operation, and none is empty.
LEMMA ChainBatchesType ==
    ASSUME batch \subseteq Contracts
    PROVE  ChainBatches \in SUBSET (Batches \ {{}}) /\ UNION ChainBatches = batch
BY DEF ChainBatches, Batches

\* A chain is done once its queue is empty: each of its contracts is covered by its
\* batches, which its report keeps.
LEMMA ChainDoneOK ==
    ASSUME IInv, ChainDone
    PROVE  IInv'
<1>1. OwnersType /\ ReportsType /\ RunType /\ OutsideType /\ ReportsTruthful /\ RunCovers
  BY InvParts
<1>2. /\ pc = "contract" /\ queue = <<>> /\ pc' = "chain" /\ batch' = {}
      /\ reports' = [reports EXCEPT !.seq = @ \cup {[k |-> SeqKey, out |-> ChainBatches]}]
      /\ agg' = agg \cup ChainBatches /\ todo' = todo \ {ch}
      /\ UNCHANGED <<fleet, owner, pending, proposals, req, queue, refused, stale, fails, returns>>
  BY DEF ChainDone, counters
<1>3. Advances /\ OwnersType'
  BY <1>2, QuietOwners
<1>4. todo # {} /\ batch \subseteq Contracts
  BY <1>1, <1>2 DEF RunType
<1>5. ch \in Chains /\ req.by[ch] \in Seq(Contracts) /\ req.only \in BOOLEAN /\ req.bypass \in BOOLEAN
  BY <1>2, <1>4, RunFacts
<1>6. PICK O \in SUBSET (Batches \ {{}}) : O = ChainBatches /\ UNION O = batch
  BY <1>4, ChainBatchesType
<1>7. ASSUME ~stale, ~req.only, NEW n \in DOMAIN req.by[ch], NEW c, c = req.by[ch][n]
      PROVE  Covered(c, UNION O)'
  <2>1. CurrentCovered
    BY <1>1, <1>2, <1>7 DEF RunCovers
  <2>2. ~Left(c)
    BY <1>2 DEF Left
  <2>3. Covered(c, batch)
    BY <1>7, <2>1, <2>2 DEF CurrentCovered
  <2>4. c \in Contracts
    BY <1>5, <1>7, ElementType
  <2>5. Covered(c, UNION O)
    BY <1>6, <2>3, Zenon
  <2>6. QED
    BY <1>3, <2>4, <2>5, CoveredKept, Zenon
<1>8. RunType' /\ RunCovers'
  <2>1. agg' = agg \cup O /\ queue' = <<>>
    BY <1>2, <1>6
  <2>2. QED
    BY <1>1, <1>2, <1>3, <1>4, <1>7, <2>1, ChainLeft
<1>9. ReportsType' /\ ReportsTruthful'
  <2>1. PICK r : r = [k |-> SeqKey, out |-> O]
    OBVIOUS
  <2>2. r \in SeqReports /\ r.k.cs = req.by[ch] /\ r.k.only = req.only /\ r.out = O
    BY <1>5, <2>1 DEF SeqReports, SeqKey
  <2>3. PICK S : S = reports.seq \cup {r}
    OBVIOUS
  <2>4. /\ reports.op \in SUBSET OpReports /\ reports.transfer \in SUBSET TransferReports
        /\ S \in SUBSET SeqReports
    BY <1>1, <2>2, <2>3 DEF ReportsType
  <2>5. reports' = [reports EXCEPT !.seq = S]
    BY <1>2, <1>6, <2>1, <2>3
  <2>6. reports' = [seq |-> S, transfer |-> reports.transfer, op |-> reports.op]
    BY <1>1, <2>5, ReportsFields
  <2>7. ReportsType' /\ reports'.seq = S /\ reports'.transfer = reports.transfer /\ reports'.op = reports.op
    BY <2>4, <2>6 DEF ReportsType
  <2>8. ASSUME ~stale, ~r.k.only, NEW n \in DOMAIN r.k.cs
        PROVE  Covered(r.k.cs[n], UNION r.out)'
    BY <1>7, <2>2, <2>8, Zenon
  <2>9. QED
    BY <1>1, <1>2, <1>3, <2>3, <2>7, <2>8, TruthGrows
<1>10. OutsideType'
  BY <1>1, <1>2 DEF OutsideType
<1>11. QED
  BY <1>3, <1>8, <1>9, <1>10, StepOK

\* The run ends with its accept operations in a proposal (buildOutput).
LEMMA BuildOutputOK ==
    ASSUME IInv, BuildOutput
    PROVE  IInv'
<1>1. OwnersType /\ ReportsType /\ RunType /\ OutsideType /\ ReportsTruthful /\ RunCovers
  BY InvParts
<1>2. /\ pc = "chain" /\ todo = {} /\ proposals' = proposals \cup agg
      /\ pc' = "idle" /\ agg' = {} /\ req' = NoInput
      /\ UNCHANGED <<fleet, owner, pending, reports, todo, queue, batch, refused, stale, fails, returns>>
  BY DEF BuildOutput, chainVars, counters
<1>3. Advances /\ OwnersType'
  BY <1>2, QuietOwners
<1>4. RunType' /\ RunCovers'
  BY <1>1, <1>2 DEF RunType, Stages, RunCovers
<1>5. ReportsType' /\ ReportsTruthful'
  BY <1>1, <1>2, <1>3, TruthKept
<1>6. OutsideType'
  BY <1>1, <1>2 DEF OutsideType, RunType
<1>7. QED
  BY <1>3, <1>4, <1>5, <1>6, StepOK

----------------------------------------------------------------------------
(* EVM *)

\* The contract a family's first step is at, and what it may rely on.
LEMMA AtContract ==
    ASSUME IInv, pc \in {"contract", "transfer", "reread", "confirm", "check", "send", "verify"},
           pc = "contract" => queue # <<>>
    PROVE  /\ OwnersType /\ ReportsType /\ RunType /\ OutsideType /\ ReportsTruthful /\ RunCovers
           /\ pc \notin {"idle", "chain"} /\ queue # <<>>
           /\ Contract \in Contracts /\ {Contract} \in Batches /\ {} \in Batches
           /\ req.only \in BOOLEAN /\ ch \in Chains
<1>1. OwnersType /\ ReportsType /\ RunType /\ OutsideType /\ ReportsTruthful /\ RunCovers
  BY InvParts
<1>2. pc \notin {"idle", "chain"} /\ queue # <<>> /\ todo # {}
  BY <1>1 DEF RunType
<1>3. Contract \in Contracts
  BY <1>2, ContractFacts
<1>4. req.only \in BOOLEAN /\ ch \in Chains
  BY <1>2, RunFacts
<1>5. QED
  BY <1>1, <1>2, <1>3, <1>4 DEF Batches

\* The owner is read: the timelock's contracts need nothing, an accept-only run counts
\* on a transfer sent before.
LEMMA EvmOwnerOK ==
    ASSUME IInv, EvmOwner
    PROVE  IInv'
<1>1. pc = "contract" /\ queue # <<>>
  BY DEF EvmOwner, InFamily
<1>2. /\ OwnersType /\ ReportsType /\ RunType /\ OutsideType /\ ReportsTruthful /\ RunCovers
      /\ pc \notin {"idle", "chain"} /\ Contract \in Contracts /\ {Contract} \in Batches /\ {} \in Batches
  BY <1>1, AtContract
<1>3. UNCHANGED <<fleet, owner, pending, reports, proposals, refused, stale, fails, returns>>
  BY DEF EvmOwner, counters
<1>4. Advances /\ OwnersType'
  BY <1>3, QuietOwners
<1>5. RunType' /\ RunCovers'
  <2>1. CASE owner[Contract] = Timelock
    <3>1. Handled({})
      BY <2>1 DEF EvmOwner
    <3>2. \A c : c = Contract => Covered(c, {})'
      BY <2>1, <1>3 DEF Covered, Sent
    <3>3. QED
      BY <1>1, <1>2, <1>3, <1>4, <3>1, <3>2, HandledOK
  <2>2. CASE owner[Contract] # Timelock /\ req.only
    <3>1. Handled({Contract})
      BY <2>2 DEF EvmOwner
    <3>2. QED
      BY <1>1, <1>2, <1>3, <1>4, <2>2, <3>1, HandledOK
  <2>3. CASE owner[Contract] # Timelock /\ ~req.only
    <3>1. pc' = "transfer" /\ UNCHANGED <<fleet, applyVars, stale>>
      BY <2>3, <1>3 DEF EvmOwner
    <3>2. QED
      BY <1>1, <1>2, <1>4, <3>1, InsideOK
  <2>4. QED
    BY <2>1, <2>2, <2>3
<1>6. ReportsType' /\ ReportsTruthful'
  BY <1>2, <1>3, <1>4, TruthKept
<1>7. OutsideType'
  BY <1>2, <1>3 DEF OutsideType
<1>8. QED
  BY <1>4, <1>5, <1>6, <1>7, StepOK

\* The transfer the deployer sends, or the one a report stands for, is on chain.
LEMMA EvmSent ==
    ASSUME OwnersType, Contract \in Contracts, UNCHANGED owner, pending' = EvmSend
    PROVE  Advances /\ \A c : c = Contract => Sent(c)'
<1>1. owner[Contract] \in {Deployer, Timelock}
  BY DEF OwnersType
<1>2. CASE owner[Contract] = Deployer
  BY <1>2, TransferredOK DEF EvmSend
<1>3. CASE owner[Contract] = Timelock
  <2>1. UNCHANGED <<owner, pending>>
    BY <1>3, AccountsAssumption DEF EvmSend
  <2>2. Advances
    BY <2>1, OwnersSame
  <2>3. QED
    BY <1>3, <2>1, <2>2 DEF Sent
<1>4. QED
  BY <1>1, <1>2, <1>3

\* The owner of an EVM contract proposes the timelock.
LEMMA EvmTransferOK ==
    ASSUME IInv, EvmTransfer
    PROVE  IInv'
<1> DEFINE k == contractIdempotencyKey
<1>1. pc = "transfer"
  BY DEF EvmTransfer
<1>2. /\ OwnersType /\ ReportsType /\ RunType /\ OutsideType /\ ReportsTruthful /\ RunCovers
      /\ pc \notin {"idle", "chain"} /\ queue # <<>> /\ Contract \in Contracts /\ ch \in Chains
  BY <1>1, AtContract
<1>3. /\ pending' = IF Reusable(reports.transfer, k) THEN pending ELSE EvmSend
      /\ reports' = [reports EXCEPT !.transfer = @ \cup {[k |-> k, out |-> {}]}]
      /\ pc' = "reread"
      /\ UNCHANGED <<fleet, owner, proposals, applyVars, refused, stale, fails, returns>>
  BY DEF EvmTransfer, counters
<1>4. Advances /\ (~stale => \A c : c = Contract => Sent(c)')
  <2>1. CASE Reusable(reports.transfer, k)
    <3>1. UNCHANGED <<owner, pending>>
      BY <2>1, <1>3
    <3>2. Advances
      BY <1>2, <3>1, OwnersSame
    <3>3. PICK r \in reports.transfer : r.k = k
      BY <2>1 DEF Reusable
    <3>4. r.k.c = Contract
      BY <3>3 DEF contractIdempotencyKey
    <3>5. ~stale => Sent(Contract)
      BY <1>2, <3>3, <3>4 DEF ReportsTruthful
    <3>6. QED
      BY <3>1, <3>2, <3>5 DEF Sent
  <2>2. CASE ~Reusable(reports.transfer, k)
    BY <1>2, <1>3, <2>2, EvmSent
  <2>3. QED
    BY <2>1, <2>2
<1>5. RunType' /\ RunCovers'
  BY <1>1, <1>2, <1>3, <1>4, InsideOK
<1>6. ReportsType' /\ ReportsTruthful'
  <2>1. PICK r : r = [k |-> k, out |-> {}]
    OBVIOUS
  <2>2. r \in TransferReports /\ r.k.c = Contract
    BY <1>2, <2>1 DEF TransferReports, contractIdempotencyKey
  <2>3. PICK S : S = reports.transfer \cup {r}
    OBVIOUS
  <2>4. /\ reports.op \in SUBSET OpReports /\ reports.seq \in SUBSET SeqReports
        /\ S \in SUBSET TransferReports
    BY <1>2, <2>2, <2>3 DEF ReportsType
  <2>5. reports' = [reports EXCEPT !.transfer = S]
    BY <1>3, <2>1, <2>3
  <2>6. reports' = [seq |-> reports.seq, transfer |-> S, op |-> reports.op]
    BY <1>2, <2>5, ReportsFields
  <2>7. ReportsType' /\ reports'.transfer = S /\ reports'.seq = reports.seq /\ reports'.op = reports.op
    BY <2>4, <2>6 DEF ReportsType
  <2>8. ~stale => Sent(r.k.c)'
    BY <1>4, <2>2, Zenon
  <2>9. ASSUME ~stale, NEW s \in S PROVE s \in reports.transfer \/ Sent(s.k.c)'
    BY <2>3, <2>8, <2>9, Zenon
  <2>10. QED
    BY <1>2, <1>3, <1>4, <2>7, <2>9, TruthGrows, Zenon
<1>7. OutsideType'
  BY <1>2, <1>3 DEF OutsideType
<1>8. OwnersType'
  BY <1>4 DEF Advances
<1>9. QED
  BY <1>5, <1>6, <1>7, <1>8, StepOK

\* A run that ends without a proposal, its transfer sent or not.
LEMMA AbortOK ==
    ASSUME IInv, Return, Advances, UNCHANGED <<fleet, reports, proposals, refused, stale, returns>>,
           UNCHANGED fails \/ (fails < MaxFails /\ fails' = fails + 1)
    PROVE  IInv'
<1>1. OwnersType /\ ReportsType /\ RunType /\ OutsideType /\ ReportsTruthful /\ RunCovers
  BY InvParts
<1>2. RunType' /\ RunCovers'
  BY ReturnOK
<1>3. ReportsType' /\ ReportsTruthful'
  BY <1>1, TruthKept
<1>4. OutsideType'
  BY <1>1, BoundsAssumption DEF OutsideType
<1>5. QED
  BY <1>2, <1>3, <1>4, StepOK DEF Advances

\* A proposal of the timelock whose result is lost stands all the same.
LEMMA EvmLoseTransferOK ==
    ASSUME IInv, EvmLoseTransfer
    PROVE  IInv'
<1>1. pc = "transfer" /\ pending' = EvmSend /\ Abort
      /\ UNCHANGED <<fleet, owner, reports, proposals, refused, stale, returns>>
  BY DEF EvmLoseTransfer
<1>2. OwnersType /\ Contract \in Contracts
  BY <1>1, AtContract
<1>3. Advances
  BY <1>1, <1>2, EvmSent
<1>4. QED
  BY <1>1, <1>3, AbortOK DEF Abort

\* After the transfer the owner is read again: the accept may be needed no more.
LEMMA EvmRereadOK ==
    ASSUME IInv, EvmReread
    PROVE  IInv'
<1>1. pc = "reread" /\ UNCHANGED <<fleet, owner, pending, reports, proposals, refused, stale, fails, returns>>
  BY DEF EvmReread, counters
<1>2. /\ OwnersType /\ ReportsType /\ RunType /\ OutsideType /\ ReportsTruthful /\ RunCovers
      /\ pc \notin {"idle", "chain"} /\ queue # <<>>
      /\ Contract \in Contracts /\ {Contract} \in Batches /\ {} \in Batches
  BY <1>1, AtContract
<1>3. Advances /\ OwnersType'
  BY <1>1, QuietOwners
<1>4. PICK B \in Batches : B = IF owner[Contract] = Timelock THEN {} ELSE {Contract}
  BY <1>2
<1>5. (~stale /\ ~req.only) => \A c : c = Contract => Covered(c, B)'
  <2>1. (~stale /\ ~req.only) => Sent(Contract)
    BY <1>1, <1>2 DEF RunCovers
  <2>2. QED
    BY <1>1, <1>4, <2>1 DEF Covered, Sent
<1>6. RunType' /\ RunCovers'
  <2>1. Handled(B)
    BY <1>4 DEF EvmReread
  <2>2. QED
    BY <1>1, <1>2, <1>3, <1>5, <2>1, HandledOK
<1>7. ReportsType' /\ ReportsTruthful'
  BY <1>1, <1>2, <1>3, TruthKept
<1>8. OutsideType'
  BY <1>1, <1>2 DEF OutsideType
<1>9. QED
  BY <1>3, <1>6, <1>7, <1>8, StepOK

----------------------------------------------------------------------------
(* Solana and Stellar *)

\* A step that ends the handling of a contract and keeps the reports.
LEMMA HandledStep ==
    ASSUME IInv, pc \notin {"idle", "chain"}, queue # <<>>, NEW B \in Batches, Handled(B), Advances,
           UNCHANGED <<reports, proposals, refused, stale, fails, returns>>,
           (~stale /\ ~req.only) => \A c : c = Contract => Covered(c, B)'
    PROVE  IInv'
<1>1. ReportsType /\ ReportsTruthful /\ OutsideType
  BY InvParts
<1>2. RunType' /\ RunCovers'
  BY HandledOK
<1>3. ReportsType' /\ ReportsTruthful'
  BY <1>1, TruthKept
<1>4. OutsideType'
  BY <1>1 DEF OutsideType, Handled
<1>5. QED
  BY <1>2, <1>3, <1>4, StepOK DEF Advances

\* A step that ends the operation on a contract and reports it.
LEMMA OperationStep ==
    ASSUME IInv, pc \notin {"idle", "chain"}, queue # <<>>, NEW B \in Batches, Operation(B), Advances,
           UNCHANGED <<proposals, refused, stale, fails, returns>>,
           (~stale /\ ~req.only) => \A c : c = Contract => Covered(c, B)'
    PROVE  IInv'
<1>1. ReportsType /\ ReportsTruthful /\ OutsideType /\ OwnersType /\ RunType
  BY InvParts
<1>2. Contract \in Contracts /\ req.only \in BOOLEAN
  BY ContractFacts, RunFacts
<1>3. Handled(B) /\ reports' = [reports EXCEPT !.op = @ \cup {[k |-> OpKey, out |-> B]}]
  BY DEF Operation
<1>4. RunType' /\ RunCovers'
  BY <1>3, HandledOK
<1>5. ReportsType' /\ ReportsTruthful'
  BY <1>1, <1>2, <1>3, OperationTruthful
<1>6. OutsideType'
  BY <1>1, <1>3 DEF OutsideType, Handled
<1>7. QED
  BY <1>4, <1>5, <1>6, StepOK DEF Advances

\* A step inside the handling of a contract that keeps the reports.
LEMMA InsideStep ==
    ASSUME IInv, pc \notin {"idle", "chain"}, queue # <<>>, UNCHANGED applyVars, Advances,
           UNCHANGED <<fleet, reports, proposals, refused, stale, fails, returns>>,
           pc' \in {"transfer", "reread", "confirm", "check", "send", "verify"},
           (pc' \in {"reread", "check", "verify"} /\ ~stale /\ ~req.only) =>
              \A c : c = Contract => Sent(c)'
    PROVE  IInv'
<1>1. ReportsType /\ ReportsTruthful /\ OutsideType
  BY InvParts
<1>2. RunType' /\ RunCovers'
  BY InsideOK
<1>3. ReportsType' /\ ReportsTruthful'
  BY <1>1, TruthKept
<1>4. OutsideType'
  BY <1>1 DEF OutsideType
<1>5. QED
  BY <1>2, <1>3, <1>4, StepOK DEF Advances

\* A reported operation stands for the transfer and the accept operation it returned.
LEMMA ReuseOperationOK ==
    ASSUME IInv, pc = "contract", queue # <<>>, ReuseOperation,
           UNCHANGED <<fleet, owner, proposals, stale, fails, returns>>
    PROVE  IInv'
<1>1. ReportsType /\ ReportsTruthful
  BY InvParts
<1>2. /\ Handled(OutputOf(reports.op, OpKey)) /\ UNCHANGED <<pending, reports, refused>>
  BY DEF ReuseOperation
<1>3. PICK r \in reports.op : r.k = OpKey /\ OutputOf(reports.op, OpKey) = r.out
  <2>1. \E r \in reports.op : r.k = OpKey
    BY DEF ReuseOperation, Reusable
  <2>2. QED
    BY <2>1 DEF OutputOf
<1>4. r.out \in Batches /\ r.k.c = Contract /\ r.k.only = req.only
  BY <1>1, <1>3 DEF ReportsType, OpReports, OpKey
<1>5. Advances
  BY <1>2, QuietOwners
<1>6. (~stale /\ ~req.only) => \A c : c = Contract => Covered(c, r.out)'
  BY <1>1, <1>2, <1>3, <1>4 DEF ReportsTruthful, Covered, Sent
<1>7. Handled(r.out)
  BY <1>2, <1>3
<1>8. QED
  BY <1>2, <1>4, <1>5, <1>6, <1>7, HandledStep

\* The owner of a Solana program decides what is sent.
LEMMA SolanaOwnerOK ==
    ASSUME IInv, SolanaOwner
    PROVE  IInv'
<1>1. pc = "contract" /\ queue # <<>> /\ UNCHANGED <<fleet, owner, proposals, stale, fails, returns>>
  BY DEF SolanaOwner, InFamily, counters
<1>2. /\ OwnersType /\ pc \notin {"idle", "chain"} /\ Contract \in Contracts
      /\ {Contract} \in Batches /\ {} \in Batches
  BY <1>1, AtContract
<1>3. CASE owner[Contract] = Timelock /\ Handled({}) /\ UNCHANGED <<pending, reports, refused>>
  <2>1. Advances
    BY <1>1, <1>3, QuietOwners
  <2>2. \A c : c = Contract => Covered(c, {})'
    BY <1>1, <1>3 DEF Covered, Sent
  <2>3. QED
    BY <1>1, <1>2, <1>3, <2>1, <2>2, HandledStep
<1>4. CASE owner[Contract] # Timelock /\ ReuseOperation
  BY <1>1, <1>4, ReuseOperationOK
<1>5. CASE req.only /\ Operation({Contract}) /\ UNCHANGED <<pending, refused>>
  <2>1. Advances
    BY <1>1, <1>5, QuietOwners
  <2>2. QED
    BY <1>1, <1>2, <1>5, <2>1, OperationStep
<1>6. CASE ~req.only /\ pc' = "confirm" /\ UNCHANGED <<applyVars, reports>> /\ UNCHANGED <<pending, refused>>
  <2>1. Advances
    BY <1>1, <1>6, QuietOwners
  <2>2. QED
    BY <1>1, <1>2, <1>6, <2>1, InsideStep
<1>7. QED
  BY <1>3, <1>4, <1>5, <1>6 DEF SolanaOwner

\* A Solana transfer is confirmed, or refused as the deployer is not the owner.
LEMMA SolanaConfirmOK ==
    ASSUME IInv, SolanaConfirm
    PROVE  IInv'
<1>1. pc = "confirm" /\ UNCHANGED <<fleet, owner, reports, proposals, refused, stale, fails, returns>>
  BY DEF SolanaConfirm, counters
<1>2. OwnersType /\ Contract \in Contracts /\ pc \notin {"idle", "chain"} /\ queue # <<>>
  BY <1>1, AtContract
<1>3. CASE pending' = Transferred /\ pc' = "check" /\ UNCHANGED applyVars
  <2>1. Advances /\ \A c : c = Contract => Sent(c)'
    BY <1>1, <1>2, <1>3, TransferredOK
  <2>2. QED
    BY <1>1, <1>2, <1>3, <2>1, InsideStep
<1>4. CASE Return /\ UNCHANGED pending
  <2>1. Advances
    BY <1>1, <1>4, QuietOwners
  <2>2. QED
    BY <1>1, <1>4, <2>1, AbortOK
<1>5. QED
  BY <1>3, <1>4 DEF SolanaConfirm

\* After the transfer the owner is read again: a proposal may have accepted meanwhile.
LEMMA SolanaCheckOK ==
    ASSUME IInv, SolanaCheck
    PROVE  IInv'
<1>1. pc = "check" /\ UNCHANGED <<fleet, owner, pending, proposals, refused, stale, fails, returns>>
  BY DEF SolanaCheck, counters
<1>2. /\ RunCovers /\ pc \notin {"idle", "chain"} /\ queue # <<>>
      /\ {Contract} \in Batches /\ {} \in Batches
  BY <1>1, AtContract
<1>3. Advances
  BY <1>1, QuietOwners
<1>4. PICK B \in Batches : B = IF owner[Contract] = Timelock THEN {} ELSE {Contract}
  BY <1>2
<1>5. (~stale /\ ~req.only) => \A c : c = Contract => Covered(c, B)'
  <2>1. (~stale /\ ~req.only) => Sent(Contract)
    BY <1>1, <1>2 DEF RunCovers
  <2>2. QED
    BY <1>1, <1>4, <2>1 DEF Covered, Sent
<1>6. Operation(B)
  BY <1>4 DEF SolanaCheck
<1>7. QED
  BY <1>1, <1>2, <1>3, <1>5, <1>6, OperationStep

\* The owner of a Stellar contract decides what is sent.
LEMMA StellarOwnerOK ==
    ASSUME IInv, StellarOwner
    PROVE  IInv'
<1>1. pc = "contract" /\ queue # <<>> /\ UNCHANGED <<fleet, owner, proposals, stale, fails, returns>>
  BY DEF StellarOwner, InFamily, counters
<1>2. /\ OwnersType /\ RunType /\ OutsideType /\ ReportsType /\ ReportsTruthful
      /\ pc \notin {"idle", "chain"} /\ Contract \in Contracts
      /\ {Contract} \in Batches /\ {} \in Batches
  BY <1>1, AtContract
<1>3. CASE ReuseOperation
  BY <1>1, <1>3, ReuseOperationOK
<1>4. CASE owner[Contract] = Timelock /\ Operation({}) /\ UNCHANGED <<pending, refused>>
  <2>1. Advances
    BY <1>1, <1>4, QuietOwners
  <2>2. \A c : c = Contract => Covered(c, {})'
    BY <1>1, <1>4 DEF Covered, Sent
  <2>3. QED
    BY <1>1, <1>2, <1>4, <2>1, <2>2, OperationStep
<1>5. CASE refused' = Contract /\ Return /\ UNCHANGED <<pending, reports>>
  <2>1. Advances /\ OwnersType'
    BY <1>1, <1>5, QuietOwners
  <2>2. RunType' /\ RunCovers'
    BY <1>1, <1>5, ReturnOK
  <2>3. ReportsType' /\ ReportsTruthful'
    BY <1>1, <1>2, <1>5, <2>1, TruthKept
  <2>4. OutsideType'
    BY <1>1, <1>2, <1>5 DEF OutsideType
  <2>5. QED
    BY <2>1, <2>2, <2>3, <2>4, StepOK
<1>6. CASE pc' = "send" /\ UNCHANGED applyVars /\ UNCHANGED <<pending, reports, refused>>
  <2>1. Advances
    BY <1>1, <1>6, QuietOwners
  <2>2. QED
    BY <1>1, <1>2, <1>6, <2>1, InsideStep
<1>7. CASE Return /\ UNCHANGED <<pending, reports, refused>>
  <2>1. Advances
    BY <1>1, <1>7, QuietOwners
  <2>2. QED
    BY <1>1, <1>7, <2>1, AbortOK
<1>8. QED
  BY <1>3, <1>4, <1>5, <1>6, <1>7 DEF StellarOwner

\* A Stellar transfer is sent, or refused as the deployer is not the owner.
LEMMA StellarSendOK ==
    ASSUME IInv, StellarSend
    PROVE  IInv'
<1>1. pc = "send" /\ UNCHANGED <<fleet, owner, reports, proposals, refused, stale, fails, returns>>
  BY DEF StellarSend, counters
<1>2. OwnersType /\ Contract \in Contracts /\ pc \notin {"idle", "chain"} /\ queue # <<>>
  BY <1>1, AtContract
<1>3. CASE pending' = Transferred /\ pc' = "verify" /\ UNCHANGED applyVars
  <2>1. Advances /\ \A c : c = Contract => Sent(c)'
    BY <1>1, <1>2, <1>3, TransferredOK
  <2>2. QED
    BY <1>1, <1>2, <1>3, <2>1, InsideStep
<1>4. CASE Return /\ UNCHANGED pending
  <2>1. Advances
    BY <1>1, <1>4, QuietOwners
  <2>2. QED
    BY <1>1, <1>4, <2>1, AbortOK
<1>5. QED
  BY <1>3, <1>4 DEF StellarSend

\* The pending owner vouches for the report: it shows the transfer.
LEMMA StellarVerifyOK ==
    ASSUME IInv, StellarVerify
    PROVE  IInv'
<1>1. pc = "verify" /\ UNCHANGED <<fleet, owner, pending, proposals, refused, stale, fails, returns>>
  BY DEF StellarVerify, counters
<1>2. pc \notin {"idle", "chain"} /\ queue # <<>> /\ {Contract} \in Batches
  BY <1>1, AtContract
<1>3. Advances
  BY <1>1, QuietOwners
<1>4. CASE pending[Contract] = Timelock /\ Operation({Contract})
  <2>1. PICK B \in Batches : B = {Contract}
    BY <1>2
  <2>2. Operation(B) /\ \A c : c = Contract => Covered(c, B)'
    BY <1>1, <1>4, <2>1 DEF Covered, Sent
  <2>3. QED
    BY <1>1, <1>2, <1>3, <2>2, OperationStep
<1>5. CASE Return /\ UNCHANGED reports
  BY <1>1, <1>3, <1>5, AbortOK
<1>6. QED
  BY <1>4, <1>5 DEF StellarVerify

\* A transfer whose result is lost has been made.
LEMMA LoseTransferOK ==
    ASSUME IInv, LoseTransfer
    PROVE  IInv'
<1>1. pc \in {"confirm", "send"} /\ pending' = Transferred /\ Abort
      /\ UNCHANGED <<fleet, owner, reports, proposals, refused, stale, returns>>
  BY DEF LoseTransfer
<1>2. OwnersType /\ Contract \in Contracts
  BY <1>1, AtContract
<1>3. Advances
  BY <1>1, <1>2, TransferredOK
<1>4. QED
  BY <1>1, <1>3, AbortOK DEF Abort

\* A run that fails leaves the owners and the reports.
LEMMA FailOK ==
    ASSUME IInv, Fail
    PROVE  IInv'
<1>1. Abort /\ UNCHANGED <<fleet, owner, pending, reports, proposals, refused, stale, returns>>
  BY DEF Fail
<1>2. Advances
  BY <1>1, QuietOwners
<1>3. QED
  BY <1>1, <1>2, AbortOK DEF Abort

----------------------------------------------------------------------------
(* The environment *)

\* A run in progress is not disturbed by what others do on the chain, as long as it
\* takes no transfer back.
LEMMA UndisturbedOK ==
    ASSUME IInv, Advances, UNCHANGED <<fleet, pc, applyVars, stale>>
    PROVE  RunType' /\ RunCovers'
<1>1. RunType /\ RunCovers
  BY InvParts
<1>2. UNCHANGED <<fleet, pc, req, todo, queue, batch, agg, stale>>
  BY DEF applyVars, chainVars
<1>3. RunType'
  BY <1>1, <1>2 DEF RunType, Stages
<1>4. ASSUME pc # "idle", ~req.only, ~stale
      PROVE  FinishedCovered' /\ (pc # "chain" => CurrentCovered')
  <2>1. FinishedCovered /\ (pc # "chain" => CurrentCovered)
    BY <1>1, <1>4 DEF RunCovers
  <2>2. FinishedCovered'
    BY <1>2, <1>4, <2>1, FinishedKept
  <2>3. ASSUME pc # "chain" PROVE CurrentCovered'
    <3>1. todo # {} /\ \A c : Left(c) => Left(c)'
      BY <1>1, <1>2, <1>4, <2>3 DEF RunType, Left
    <3>2. QED
      BY <1>2, <1>4, <2>1, <2>3, <3>1, CurrentKept
  <2>4. QED
    BY <2>2, <2>3
<1>5. ASSUME pc \in {"reread", "check", "verify"}, ~req.only, ~stale
      PROVE  Sent(Contract)'
  <2>1. Contract \in Contracts /\ RunCovers
    BY <1>5, AtContract
  <2>2. Sent(Contract)
    BY <1>5, <2>1 DEF RunCovers
  <2>3. \A c : c = Contract => Sent(c)'
    BY <2>1, <2>2 DEF Advances
  <2>4. QED
    BY <1>2, <2>3 DEF Sent, Contract
<1>6. RunCovers'
  BY <1>2, <1>4, <1>5 DEF RunCovers
<1>7. QED
  BY <1>3, <1>6

\* A proposal moves ownership, and clears pending owners, only towards the timelock.
LEMMA ExecuteBatchOK ==
    ASSUME IInv, NEW B \in Batches, ExecuteBatch(B)
    PROVE  IInv'
<1>1. OwnersType /\ ReportsType /\ RunType /\ OutsideType /\ ReportsTruthful /\ RunCovers
  BY InvParts
<1>2. /\ owner' = [c \in Contracts |-> IF c \in B THEN Timelock ELSE owner[c]]
      /\ pending' = [c \in Contracts |-> IF c \in B THEN Nobody ELSE pending[c]]
      /\ proposals' = proposals \ {B}
      /\ UNCHANGED <<fleet, reports, pc, applyVars, refused, stale, fails, returns>>
  BY DEF ExecuteBatch, counters
<1>3. Advances
  BY <1>1, <1>2 DEF Advances, OwnersType, Sent
<1>4. RunType' /\ RunCovers'
  BY <1>2, <1>3, UndisturbedOK
<1>5. ReportsType' /\ ReportsTruthful'
  BY <1>1, <1>2, <1>3, TruthKept
<1>6. OutsideType'
  BY <1>1, <1>2 DEF OutsideType
<1>7. QED
  BY <1>3, <1>4, <1>5, <1>6, StepOK DEF Advances

\* An ownership given back makes the reports of the bundle stale; an empty bundle
\* promises nothing.
LEMMA ReturnOwnershipOK ==
    ASSUME IInv, NEW c, ReturnOwnership(c)
    PROVE  IInv'
<1>1. OwnersType /\ ReportsType /\ RunType /\ OutsideType
  BY InvParts
<1>2. /\ pc = "idle" /\ returns < MaxReturns /\ returns' = returns + 1
      /\ owner' = [owner EXCEPT ![c] = Deployer] /\ pending' = [pending EXCEPT ![c] = Nobody]
      /\ stale' = (stale \/ reports # NoReports)
      /\ UNCHANGED <<fleet, reports, proposals, pc, req, todo, queue, batch, agg, refused, fails>>
  BY DEF ReturnOwnership, applyVars, chainVars
<1>3. OwnersType'
  BY <1>1, <1>2 DEF OwnersType
<1>4. ReportsType' /\ ReportsTruthful'
  <2>1. ReportsType'
    BY <1>1, <1>2 DEF ReportsType
  <2>2. ~stale' => reports' = NoReports
    BY <1>2
  <2>3. QED
    BY <2>1, <2>2 DEF ReportsTruthful, NoReports
<1>5. RunType' /\ RunCovers'
  BY <1>1, <1>2 DEF RunType, RunCovers
<1>6. OutsideType'
  <2>1. returns' \in 0..MaxReturns
    BY <1>1, <1>2, BoundsAssumption DEF OutsideType
  <2>2. stale' \in BOOLEAN
    BY <1>2
  <2>3. QED
    BY <1>1, <1>2, <2>1, <2>2 DEF OutsideType
<1>7. QED
  BY <1>3, <1>4, <1>5, <1>6, StepOK

\* A fresh bundle has no reports that could be wrong.
LEMMA NewBundleOK ==
    ASSUME IInv, NewBundle
    PROVE  IInv'
<1>1. OwnersType /\ ReportsType /\ RunType /\ OutsideType
  BY InvParts
<1>2. /\ pc = "idle" /\ reports' = NoReports /\ stale' = FALSE
      /\ UNCHANGED <<fleet, owner, pending, proposals, pc, req, todo, queue, batch, agg, refused,
                     fails, returns>>
  BY DEF NewBundle, applyVars, chainVars, counters
<1>3. OwnersType'
  BY <1>1, <1>2 DEF OwnersType
<1>4. ReportsType' /\ ReportsTruthful'
  BY <1>2 DEF ReportsType, ReportsTruthful, NoReports
<1>5. RunType' /\ RunCovers'
  BY <1>1, <1>2 DEF RunType, RunCovers
<1>6. OutsideType'
  BY <1>1, <1>2 DEF OutsideType
<1>7. QED
  BY <1>3, <1>4, <1>5, <1>6, StepOK

----------------------------------------------------------------------------
(* The invariant *)

\* At first nothing is reported and nothing runs.
LEMMA InitOK == Init => IInv
<1> SUFFICES ASSUME Init PROVE IInv
  OBVIOUS
<1>1. OwnersType
  BY DEF Init, OwnersType
<1>2. ReportsType /\ ReportsTruthful
  BY DEF Init, ReportsType, ReportsTruthful, NoReports
<1>3. RunType /\ RunCovers
  BY DEF Init, RunType, Stages, RunCovers
<1>4. OutsideType
  <2>1. stale \in BOOLEAN
    BY Zenon DEF Init
  <2>2. fails \in 0..MaxFails /\ returns \in 0..MaxReturns
    BY BoundsAssumption DEF Init
  <2>3. fleet \in Fleets /\ proposals = {} /\ refused = Nobody
    BY DEF Init
  <2>4. QED
    BY <2>1, <2>2, <2>3 DEF OutsideType
<1>5. QED
  BY <1>1, <1>2, <1>3, <1>4, TypeParts DEF IInv

\* Where nothing changes the invariant stays.
LEMMA StutterOK ==
    ASSUME IInv, UNCHANGED vars
    PROVE  IInv'
<1>1. OwnersType /\ ReportsType /\ RunType /\ OutsideType /\ ReportsTruthful /\ RunCovers
  BY InvParts
<1>2. UNCHANGED <<fleet, owner, pending, reports, proposals, pc, applyVars, refused, stale, fails, returns>>
  BY DEF vars, counters
<1>3. Advances /\ OwnersType'
  BY <1>2, QuietOwners
<1>4. RunType' /\ RunCovers'
  BY <1>2, <1>3, UndisturbedOK
<1>5. ReportsType' /\ ReportsTruthful'
  BY <1>1, <1>2, <1>3, TruthKept
<1>6. OutsideType'
  BY <1>1, <1>2 DEF OutsideType
<1>7. QED
  BY <1>3, <1>4, <1>5, <1>6, StepOK

\* Every step keeps the invariant.
LEMMA Inductive == IInv /\ [Next]_vars => IInv'
<1> SUFFICES ASSUME IInv, [Next]_vars PROVE IInv'
  OBVIOUS
<1>1. ASSUME NEW i \in fleet, Start(i) PROVE IInv'
  BY <1>1, StartOK
<1>2. CASE Step
  <2>1. CASE ReuseChain \/ StartChain \/ ChainDone \/ BuildOutput
    BY <2>1, ReuseChainOK, StartChainOK, ChainDoneOK, BuildOutputOK
  <2>2. CASE EvmOwner \/ EvmTransfer \/ EvmReread
    BY <2>2, EvmOwnerOK, EvmTransferOK, EvmRereadOK
  <2>3. CASE SolanaOwner \/ SolanaConfirm \/ SolanaCheck
    BY <2>3, SolanaOwnerOK, SolanaConfirmOK, SolanaCheckOK
  <2>4. CASE StellarOwner \/ StellarSend \/ StellarVerify
    BY <2>4, StellarOwnerOK, StellarSendOK, StellarVerifyOK
  <2>5. QED
    BY <1>2, <2>1, <2>2, <2>3, <2>4 DEF Step
<1>3. CASE EvmLoseTransfer \/ LoseTransfer \/ Fail
  BY <1>3, EvmLoseTransferOK, LoseTransferOK, FailOK
<1>4. ASSUME NEW B \in Batches, ExecuteBatch(B) PROVE IInv'
  BY <1>4, ExecuteBatchOK
<1>5. ASSUME NEW c \in Returnable, ReturnOwnership(c) PROVE IInv'
  BY <1>5, ReturnOwnershipOK
<1>6. CASE NewBundle
  BY <1>6, NewBundleOK
<1>7. CASE UNCHANGED vars
  BY <1>7, StutterOK
<1>8. QED
  BY <1>1, <1>2, <1>3, <1>4, <1>5, <1>6, <1>7 DEF Next

\* The invariant behind the properties: the reports of the bundle are promises that still hold, and
\* what a run left behind it is covered by its batches.
THEOREM Invariance == Spec => []IInv
<1>1. Init => IInv
  BY InitOK
<1>2. IInv /\ [Next]_vars => IInv'
  BY Inductive
<1>3. QED
  BY <1>1, <1>2, PTL DEF Spec

\* The variables keep their types, and a run's bookkeeping goes with its step.
THEOREM TypeCorrect == Spec => []TypeOK
<1>1. IInv => TypeOK
  BY DEF IInv
<1>2. QED
  BY <1>1, Invariance, PTL

\* What Apply proposes is complete: with every chain finished, each contract of the input is
\* owned by the timelock, or its transfer is on chain and its acceptance in the proposal.
THEOREM ProposalComplete == Spec => []ProposalCompletes
<1>1. IInv => ProposalCompletes
  <2> SUFFICES ASSUME IInv, pc = "chain", todo = {}, ~req.only, ~stale, NEW c \in ContractsOf(req)
               PROVE  owner[c] = Timelock \/ (pending[c] = Timelock /\ Accepting(c))
    BY DEF ProposalCompletes
  <2>1. FinishedCovered
    BY InvParts DEF RunCovers
  <2>2. PICK d \in DOMAIN req.by : \E n \in DOMAIN req.by[d] : c = req.by[d][n]
    BY DEF ContractsOf
  <2>3. PICK n \in DOMAIN req.by[d] : c = req.by[d][n]
    BY <2>2
  <2>4. Covered(c, UNION agg)
    BY <2>1, <2>3, Zenon DEF FinishedCovered
  <2>5. QED
    BY <2>4 DEF Covered, Sent, Accepting
<1>2. QED
  BY <1>1, Invariance, PTL
=============================================================================
