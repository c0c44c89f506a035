-------------------------- MODULE AuxiliaryProofs --------------------------
(***************************************************************************)
(* Proofs about the datastore changesets, the Job Distributor changesets,  *)
(* and LINK tokens and native payments, each for every value of its        *)
(* constants:                                                              *)
(*   - a merge changes exactly what the changeset's input asks;            *)
(*   - no two nodes share a key unless an update skipped its check;        *)
(*   - a successful propose run has a job for each node it listed;         *)
(*   - every recorded ref names a token, shared mint keys apart;           *)
(*   - a payment is made twice only after its confirmation was lost.       *)
(***************************************************************************)
EXTENDS Datastore, JobDistributor, Tokens, ProofLemmas, FiniteSetTheorems

----------------------------------------------------------------------------
(* The datastore: a changeset changes what its input names and nothing else *)

\* What a changeset that reuses no report computes from a copy of the datastore,
\* and from the datastore as it is.
Computed(d, i) ==
    CASE i.cs \in {"create", "update"} -> Put(d, i.kind, i.items)
      [] i.cs = "delete" -> RemoteDelete(d, i.kind, i.items)
      [] i.cs = "env" -> UpdateEnvMetadataOp(d, i.items)
      [] i.cs = "resources" ->
           RemoteDelete(RemoteDelete(RemoteDelete(d, "ref", i.items["ref"]),
                                     "contract", i.items["contract"]), "chain", i.items["chain"])
FromStore(i) == Computed(Env, i)

\* The changesets: each with a kind of entry, "env", or "all" for resources.
Classified(i) ==
    \/ i.cs \in {"create", "update", "delete"} /\ i.kind \in Kinds
    \/ i.cs = "env" /\ i.kind = "env" /\ i.items # <<>>
    \/ i.cs = "resources"

\* An output that waits for its merge is of an input of its kind and, unless a
\* report was reused, was computed from the datastore as it still is: nothing but
\* the merge writes it.
OutputFresh ==
    ~DSIdle => /\ dsReq \in DSInputs /\ Classified(dsReq)
               /\ ~reused => out = FromStore(dsReq)

DSInv == DOMAIN store = Entries /\ OutputFresh

\* An entry is of a kind and an id; there is one of the environment.
LEMMA EntryShape ==
    ASSUME NEW e \in Entries
    PROVE  /\ e = <<e[1], e[2]>>
           /\ e[1] \in Kinds \/ e[1] = "env"
           /\ e[1] = "env" <=> e = <<"env", "">>
<1>1. CASE e \in Kinds \X Ids
  <2>1. PICK k \in Kinds, x \in Ids : e = <<k, x>>
    BY <1>1
  <2>2. k # "env"
    BY DEF Kinds
  <2>3. QED
    BY <2>1, <2>2
<1>2. CASE e = <<"env", "">>
  BY <1>2
<1>3. QED
  BY <1>1, <1>2 DEF Entries

\* The key of an item is its kind and its id (keys/keys.go).
LEMMA KeyIsKindAndId ==
    ASSUME NEW kind \in Kinds, NEW k
    PROVE  Key(kind, k) = <<kind, k.id>>
BY DEF Key, Kinds, AddressRefToFrameworkKey, ContractMetadataToFrameworkKey,
       ChainMetadataToFrameworkKey

\* An operation that finds no report of its input returns what it has computed.
LEMMA NotReused ==
    ASSUME NEW op, NEW in, NEW fresh, ~DSReusable(op, in)
    PROVE  Executed(op, in, fresh) = fresh
BY DEF Executed

\* The operations of DeleteResources, when none finds a report, stage the deletions
\* of all three kinds in one copy.
LEMMA SequenceStagesAll ==
    ASSUME NEW d, NEW given,
           ~DSReusable("deleteRef", given["ref"]),
           ~DSReusable("deleteContract", given["contract"]),
           ~DSReusable("deleteChain", given["chain"])
    PROVE  DeleteResourcesSeq(d, given)["chain"] =
             RemoteDelete(RemoteDelete(RemoteDelete(d, "ref", given["ref"]),
                                       "contract", given["contract"]), "chain", given["chain"])
BY NotReused DEF DeleteResourcesSeq, DeleteAddressRefOp, DeleteContractMetadataOp,
                 DeleteChainMetadataOp

\* A changeset of one operation, whose fresh output is FromStore of its input.
LEMMA ApplyKeeps ==
    ASSUME DSInv, NEW i \in DSInputs, NEW cs, NEW kind, NEW op, NEW in,
           Submitted(i, cs, kind), Classified(i),
           ApplyOp(op, in, FromStore(i))
    PROVE  DSInv'
<1>1. store' = store /\ dsReq' = i
  BY DEF Submitted
<1>2. ~reused' => out' = FromStore(i)
  BY NotReused DEF ApplyOp
<1>3. Classified(dsReq)'
  BY <1>1 DEF Classified
<1>4. FromStore(dsReq)' = FromStore(i)
  BY <1>1 DEF FromStore, Env
<1>5. QED
  BY <1>1, <1>2, <1>3, <1>4 DEF DSInv, OutputFresh, DSIdle

\* Each changeset computes its output from the datastore, or takes a report's.
LEMMA ChangesetKeeps ==
    ASSUME DSInv, NEW i \in DSInputs, Changeset(i)
    PROVE  DSInv'
<1> USE DEF Kinds
<1>1. CASE CreateAddressRef(i)
  <2>1. i.cs = "create" /\ i.kind = "ref"
    BY <1>1 DEF CreateAddressRef, Submitted
  <2>2. FromStore(i) = CreateAddressRefOp(Env, i.items)
    BY <2>1 DEF FromStore, Computed, CreateAddressRefOp
  <2>3. QED
    BY <1>1, <2>1, <2>2, ApplyKeeps DEF CreateAddressRef, Classified
<1>2. CASE CreateContractMetadata(i)
  <2>1. i.cs = "create" /\ i.kind = "contract"
    BY <1>2 DEF CreateContractMetadata, Submitted
  <2>2. FromStore(i) = CreateContractMetadataOp(Env, i.items)
    BY <2>1 DEF FromStore, Computed, CreateContractMetadataOp
  <2>3. QED
    BY <1>2, <2>1, <2>2, ApplyKeeps DEF CreateContractMetadata, Classified
<1>3. CASE CreateChainMetadata(i)
  <2>1. i.cs = "create" /\ i.kind = "chain"
    BY <1>3 DEF CreateChainMetadata, Submitted
  <2>2. FromStore(i) = CreateChainMetadataOp(Env, i.items)
    BY <2>1 DEF FromStore, Computed, CreateChainMetadataOp
  <2>3. QED
    BY <1>3, <2>1, <2>2, ApplyKeeps DEF CreateChainMetadata, Classified
<1>4. CASE UpdateAddressRef(i)
  <2>1. i.cs = "update" /\ i.kind = "ref"
    BY <1>4 DEF UpdateAddressRef, Submitted
  <2>2. FromStore(i) = UpdateAddressRefOp(Env, i.items)
    BY <2>1 DEF FromStore, Computed, UpdateAddressRefOp
  <2>3. QED
    BY <1>4, <2>1, <2>2, ApplyKeeps DEF UpdateAddressRef, Classified
<1>5. CASE UpdateContractMetadata(i)
  <2>1. i.cs = "update" /\ i.kind = "contract"
    BY <1>5 DEF UpdateContractMetadata, Submitted
  <2>2. FromStore(i) = UpdateContractMetadataOp(Env, i.items)
    BY <2>1 DEF FromStore, Computed, UpdateContractMetadataOp
  <2>3. QED
    BY <1>5, <2>1, <2>2, ApplyKeeps DEF UpdateContractMetadata, Classified
<1>6. CASE UpdateChainMetadata(i)
  <2>1. i.cs = "update" /\ i.kind = "chain"
    BY <1>6 DEF UpdateChainMetadata, Submitted
  <2>2. FromStore(i) = UpdateChainMetadataOp(Env, i.items)
    BY <2>1 DEF FromStore, Computed, UpdateChainMetadataOp
  <2>3. QED
    BY <1>6, <2>1, <2>2, ApplyKeeps DEF UpdateChainMetadata, Classified
<1>7. CASE UpdateEnvMetadata(i)
  <2>1. i.cs = "env" /\ i.kind = "env" /\ i.items # <<>>
    BY <1>7 DEF UpdateEnvMetadata, Submitted
  <2>2. FromStore(i) = UpdateEnvMetadataOp(Env, i.items)
    BY <2>1 DEF FromStore, Computed
  <2>3. QED
    BY <1>7, <2>1, <2>2, ApplyKeeps DEF UpdateEnvMetadata, Classified
<1>8. CASE DeleteAddressRef(i)
  <2>1. i.cs = "delete" /\ i.kind = "ref"
    BY <1>8 DEF DeleteAddressRef, Submitted
  <2>2. FromStore(i) = DeleteAddressRefOp(Env, i.items)
    BY <2>1 DEF FromStore, Computed, DeleteAddressRefOp
  <2>3. QED
    BY <1>8, <2>1, <2>2, ApplyKeeps DEF DeleteAddressRef, Classified
<1>9. CASE DeleteContractMetadata(i)
  <2>1. i.cs = "delete" /\ i.kind = "contract"
    BY <1>9 DEF DeleteContractMetadata, Submitted
  <2>2. FromStore(i) = DeleteContractMetadataOp(Env, i.items)
    BY <2>1 DEF FromStore, Computed, DeleteContractMetadataOp
  <2>3. QED
    BY <1>9, <2>1, <2>2, ApplyKeeps DEF DeleteContractMetadata, Classified
<1>10. CASE DeleteChainMetadata(i)
  <2>1. i.cs = "delete" /\ i.kind = "chain"
    BY <1>10 DEF DeleteChainMetadata, Submitted
  <2>2. FromStore(i) = DeleteChainMetadataOp(Env, i.items)
    BY <2>1 DEF FromStore, Computed, DeleteChainMetadataOp
  <2>3. QED
    BY <1>10, <2>1, <2>2, ApplyKeeps DEF DeleteChainMetadata, Classified
<1>11. CASE DeleteResources(i)
  <2>1. /\ i.cs = "resources" /\ store' = store /\ dsReq' = i
        /\ Classified(i)
    BY <1>11 DEF DeleteResources, Submitted, Classified
  <2>2. ~reused' => out' = FromStore(i)
    <3>1. CASE DSReusable("resources", i.items)
      BY <1>11, <3>1 DEF DeleteResources, ApplyOp
    <3>2. CASE ~DSReusable("resources", i.items)
      <4> SUFFICES ASSUME ~reused'
                   PROVE  out' = FromStore(i)
        OBVIOUS
      <4>1. /\ ~DSReusable("deleteRef", i.items["ref"])
            /\ ~DSReusable("deleteContract", i.items["contract"])
            /\ ~DSReusable("deleteChain", i.items["chain"])
            /\ out' = DeleteResourcesSeq(Env, i.items)["chain"]
        BY <1>11, <3>2 DEF DeleteResources
      <4>2. QED
        BY <2>1, <4>1, SequenceStagesAll DEF FromStore, Computed
    <3>3. QED
      BY <3>1, <3>2
  <2>3. FromStore(dsReq)' = FromStore(i)
    BY <2>1 DEF FromStore, Env
  <2>4. Classified(dsReq)'
    BY <2>1 DEF Classified
  <2>5. QED
    BY <2>1, <2>2, <2>3, <2>4 DEF DSInv, OutputFresh, DSIdle
<1>12. QED
  BY <1>1, <1>2, <1>3, <1>4, <1>5, <1>6, <1>7, <1>8, <1>9, <1>10, <1>11 DEF Changeset

\* Every step of the datastore's specification keeps DSInv.
LEMMA DSNextInv ==
    ASSUME DSInv, [DSNext]_dsVars
    PROVE  DSInv'
<1>1. ASSUME NEW i \in DSInputs, Changeset(i)
      PROVE  DSInv'
  BY <1>1, ChangesetKeeps
<1>2. CASE MergeOutput
  BY <1>2 DEF MergeOutput, Merged, DSInv, OutputFresh, DSIdle
<1>3. CASE LoseOutput
  BY <1>3 DEF LoseOutput, DSInv, OutputFresh, DSIdle
<1>4. CASE NewDSBundle
  BY <1>4 DEF NewDSBundle, DSInv, OutputFresh, DSIdle
<1>5. CASE UNCHANGED dsVars
  <2>1. FromStore(dsReq)' = FromStore(dsReq)
    BY <1>5 DEF dsVars, FromStore, Env
  <2>2. QED
    BY <1>5, <2>1 DEF dsVars, DSInv, OutputFresh, DSIdle, Classified
<1>6. QED
  BY <1>1, <1>2, <1>3, <1>4, <1>5 DEF DSNext

\* DSInv holds in every state of the datastore's specification.
THEOREM DSInvariance == DSSpec => []DSInv
<1>1. DSInit => DSInv
  BY DEF DSInit, DSInv, OutputFresh, DSIdle
<1>2. DSInv /\ [DSNext]_dsVars => DSInv'
  BY DSNextInv
<1>3. QED
  BY <1>1, <1>2, PTL DEF DSSpec

\* The merge of a created or updated kind writes its items over their entries.
LEMMA PutMerged ==
    ASSUME DSInv, MergeOutput, ~reused, dsReq.cs \in {"create", "update"}, NEW e \in Entries
    PROVE  IF Asked(dsReq, e) THEN store'[e] \in Wanted(dsReq, e) ELSE store'[e] = store[e]
<1> DEFINE given == dsReq.items
           kind == dsReq.kind
           hits == {n \in DOMAIN given : Key(kind, given[n]) = e}
<1>1. /\ dsReq \in DSInputs /\ kind \in Kinds /\ out = Put(Env, kind, given)
  BY DEF DSInv, OutputFresh, MergeOutput, Classified, FromStore, Computed
<1>2. /\ out.del = {}
      /\ out.entries[e] = IF hits = {} THEN store[e] ELSE given[CHOOSE n \in hits : TRUE].val
  BY <1>1 DEF Put, Env
<1>3. \A n \in DOMAIN given : given[n].val \in Values /\ given[n].val # Absent
  BY <1>1, DSAssumption DEF DSInputsAssumption
<1>4. e = <<e[1], e[2]>> /\ (e[1] \in Kinds \/ e[1] = "env")
  BY EntryShape
<1>5. \A n \in DOMAIN given : Key(kind, given[n]) = e <=> kind = e[1] /\ given[n].id = e[2]
  <2> TAKE n \in DOMAIN given
  <2>1. Key(kind, given[n]) = <<kind, given[n].id>>
    BY <1>1, KeyIsKindAndId
  <2>2. QED
    BY <1>4, <2>1
<1>6. Asked(dsReq, e) <=> hits # {}
  BY <1>1, <1>4, <1>5 DEF Asked, Items, Kinds
<1>7. store'[e] = IF out.entries[e] # Absent THEN out.entries[e] ELSE store[e]
  BY <1>2 DEF MergeOutput, Merged
<1>8. CASE hits = {}
  BY <1>2, <1>6, <1>7, <1>8
<1>9. CASE hits # {}
  <2> DEFINE m == CHOOSE n \in hits : TRUE
  <2>1. m \in hits
    BY <1>9
  <2> HIDE DEF m
  <2>2. m \in DOMAIN given /\ given[m].id = e[2]
    BY <2>1, <1>5
  <2>3. store'[e] = given[m].val
    BY <1>2, <1>3, <1>7, <1>9, <2>2 DEF m
  <2>4. Wanted(dsReq, e) = {given[n].val : n \in {k \in DOMAIN given : given[k].id = e[2]}}
    BY DEF Wanted
  <2>5. QED
    BY <1>6, <1>9, <2>2, <2>3, <2>4
<1>10. QED
  BY <1>8, <1>9

\* The merge of a deletion makes the deletions it staged and no other change.
LEMMA DeletionMerged ==
    ASSUME DSInv, MergeOutput, ~reused, dsReq.cs \in {"delete", "resources"}, NEW e \in Entries
    PROVE  IF Asked(dsReq, e) THEN store'[e] \in Wanted(dsReq, e) ELSE store'[e] = store[e]
<1>1. Classified(dsReq) /\ out = FromStore(dsReq) /\ out.entries = store
  BY DEF DSInv, OutputFresh, MergeOutput, FromStore, Computed, RemoteDelete, Env
<1>2. e = <<e[1], e[2]>> /\ (e[1] \in Kinds \/ e[1] = "env")
  BY EntryShape
<1>3. ASSUME NEW k \in Kinds, NEW x
      PROVE  Key(k, x) = e <=> k = e[1] /\ x.id = e[2]
  <2>1. Key(k, x) = <<k, x.id>>
    BY KeyIsKindAndId
  <2>2. QED
    BY <1>2, <2>1
<1>4. Asked(dsReq, e) <=> e \in out.del
  <2>1. CASE dsReq.cs = "delete"
    <3>1. dsReq.kind \in Kinds /\ out.del = {Key(dsReq.kind, dsReq.items[n]) : n \in DOMAIN dsReq.items}
      BY <1>1, <2>1 DEF Classified, FromStore, Computed, RemoteDelete, Env
    <3>2. QED
      BY <1>2, <1>3, <2>1, <3>1 DEF Asked, Items, Kinds
  <2>2. CASE dsReq.cs = "resources"
    <3> DEFINE staged(k) == {Key(k, dsReq.items[k][n]) : n \in DOMAIN dsReq.items[k]}
    <3>1. out.del = staged("ref") \cup staged("contract") \cup staged("chain")
      BY <1>1, <2>2 DEF FromStore, Computed, RemoteDelete, Env
    <3>2. e \in out.del <=> \E k \in Kinds : \E n \in DOMAIN dsReq.items[k] :
                               k = e[1] /\ dsReq.items[k][n].id = e[2]
      <4>1. e \in out.del <=> \E k \in Kinds : e \in staged(k)
        BY <3>1 DEF Kinds
      <4>2. QED
        BY <1>3, <4>1
    <3>3. QED
      BY <1>2, <2>2, <3>2 DEF Asked, Items, Kinds
  <2>3. QED
    BY <2>1, <2>2
<1>5. store'[e] = IF e \in out.del THEN Absent
                  ELSE IF store[e] # Absent THEN store[e] ELSE store[e]
  BY <1>1 DEF MergeOutput, Merged
<1>6. QED
  BY <1>4, <1>5 DEF Wanted

\* The merge of the environment metadata replaces them.
LEMMA EnvMerged ==
    ASSUME DSInv, MergeOutput, ~reused, dsReq.cs = "env", NEW e \in Entries
    PROVE  IF Asked(dsReq, e) THEN store'[e] \in Wanted(dsReq, e) ELSE store'[e] = store[e]
<1>1. /\ dsReq \in DSInputs /\ Classified(dsReq) /\ dsReq.items # <<>>
      /\ out = UpdateEnvMetadataOp(Env, dsReq.items)
  BY DEF DSInv, OutputFresh, MergeOutput, Classified, FromStore, Computed
<1>2. dsReq.items \in Seq(Range(dsReq.items)) /\ dsReq.kind = "env"
  BY <1>1, DSAssumption DEF DSInputsAssumption, Classified
<1>3. 1 \in DOMAIN dsReq.items
  BY <1>1, <1>2
<1>4. dsReq.items[1].val # Absent
  BY <1>1, <1>3, DSAssumption DEF DSInputsAssumption
<1>5. e = <<"env", "">> <=> e[1] = "env"
  BY EntryShape
<1>6. Asked(dsReq, e) <=> e[1] = "env"
  BY <1>2 DEF Asked, Items
<1>7. out.del = {} /\ out.entries[e] = IF e = <<"env", "">> THEN dsReq.items[1].val ELSE store[e]
  BY <1>1 DEF UpdateEnvMetadataOp, Env, DSInv
<1>8. store'[e] = IF e = <<"env", "">> THEN dsReq.items[1].val ELSE store[e]
  BY <1>4, <1>7 DEF MergeOutput, Merged
<1>9. QED
  BY <1>5, <1>6, <1>8 DEF Wanted

\* A changeset that took no output from a report changes exactly the entries its
\* input names, to what it asks (the operations' copies and their merge).
THEOREM ChangesExact == DSSpec => AppliedExactly
<1> DEFINE Exact == MergeOutput /\ ~reused =>
      \A e \in Entries :
         IF Asked(dsReq, e) THEN store'[e] \in Wanted(dsReq, e) ELSE store'[e] = store[e]
<1>1. DSInv /\ [DSNext]_dsVars => [Exact]_dsVars
  <2> SUFFICES ASSUME DSInv, MergeOutput, ~reused, NEW e \in Entries
               PROVE  IF Asked(dsReq, e) THEN store'[e] \in Wanted(dsReq, e)
                      ELSE store'[e] = store[e]
    OBVIOUS
  <2>1. dsReq.cs \in {"create", "update", "delete", "resources", "env"}
    BY DEF DSInv, OutputFresh, MergeOutput, Classified
  <2>2. QED
    BY <2>1, PutMerged, DeletionMerged, EnvMerged
<1>2. QED
  BY <1>1, DSInvariance, PTL DEF DSSpec, AppliedExactly

----------------------------------------------------------------------------
(* The inductive invariant behind UniqueKeys and ProposedEverywhere *)

IsNode(x) == x = [key |-> x.key, name |-> x.name, labels |-> x.labels, on |-> x.on]
IsJob(x) == x = [node |-> x.node, spec |-> x.spec, st |-> x.st, deleted |-> x.deleted]

\* The ids of nodes and jobs are 1 to their number, and each has all its fields
\* (the service keeps what OpJDRegisterNode and OpJDProposeJob have sent).
NodesWhole ==
    /\ IsList(nodes)
    /\ \A n \in DOMAIN nodes : IsNode(nodes[n])
JobsWhole ==
    /\ IsList(jobs)
    /\ \A j \in DOMAIN jobs : IsJob(jobs[j])

\* Each node listed in a report of propose-job has a job with its specification:
\* OpJDProposeJob reports only when all its proposals went through, and a job
\* keeps its node and specification whatever happens to it later.
Landed(n, spec) == \E j \in DOMAIN jobs : jobs[j].node = n /\ jobs[j].spec = spec
ProposalsReported ==
    /\ DOMAIN jdReports = Ops
    /\ \A r \in jdReports["propose"] : \A n \in r.out : Landed(n, r.in.job.spec)

JDInv == NodesWhole /\ JobsWhole /\ UniqueKeys /\ ProposalsReported

----------------------------------------------------------------------------
(* The Job Distributor: no two nodes have the same key *)

\* The lookup by key answers an id whose node has the key, or that there is none.
LEMMA LookupFinds ==
    ASSUME NodesWhole, NEW k
    PROVE  \/ /\ ListNodeByPublicKey(k) = Nothing
              /\ \A n \in DOMAIN nodes : nodes[n].key # k
           \/ /\ ListNodeByPublicKey(k) \in DOMAIN nodes
              /\ nodes[ListNodeByPublicKey(k)].key = k
<1> DEFINE ids == {n \in DOMAIN nodes : nodes[n].key = k}
<1>1. ListNodeByPublicKey(k) = IF ids = {} THEN Nothing ELSE CHOOSE n \in ids : \A m \in ids : n <= m
  BY DEF ListNodeByPublicKey
<1>2. ids \subseteq Nat
  BY ListIds DEF NodesWhole
<1>3. CASE ids = {}
  BY <1>1, <1>3
<1>4. CASE ids # {}
  <2>1. \E n \in ids : \A m \in ids : n <= m
    BY <1>2, <1>4, LeastNat
  <2>2. ListNodeByPublicKey(k) \in ids
    BY <1>1, <1>4, <2>1
  <2>3. QED
    BY <2>2
<1>5. QED
  BY <1>3, <1>4

\* Registering keeps the keys apart: a node is added only under a new key, also
\* when the answer of an earlier registration was lost.
LEMMA RegisterKeys ==
    ASSUME NodesWhole, UniqueKeys, OpJDRegisterNode
    PROVE  NodesWhole' /\ UniqueKeys'
<1> DEFINE x == ThisItem existing == ListNodeByPublicKey(x.key)
           e == [key |-> x.key, name |-> x.name, on |-> TRUE, labels |-> x.labels \cup {jdReq.dom, EnvName}]
<1>1. nodes' = IF existing # Nothing THEN nodes ELSE Append(nodes, e)
  BY DEF OpJDRegisterNode
<1>2. blind' = blind
  BY DEF OpJDRegisterNode
<1>3. e.key = x.key /\ IsNode(e)
  BY DEF IsNode
<1> HIDE DEF e
<1>4. CASE existing # Nothing
  BY <1>1, <1>2, <1>4 DEF NodesWhole, UniqueKeys
<1>5. CASE existing = Nothing
  <2>1. nodes' = Append(nodes, e)
    BY <1>1, <1>5
  <2>2. \A n \in DOMAIN nodes : nodes[n].key # x.key
    <3>1. IsList(nodes) /\ DOMAIN nodes \subseteq Nat
      BY ListIds DEF NodesWhole
    <3>2. QED
      BY <1>5, <3>1, LookupFinds, NothingAssumption
  <2>3. /\ IsList(nodes')
        /\ DOMAIN nodes' = 1..(Len(nodes) + 1)
        /\ \A n \in DOMAIN nodes : nodes'[n] = nodes[n]
        /\ nodes'[Len(nodes) + 1] = e
    <3>1. IsList(nodes)
      BY DEF NodesWhole
    <3>2. PICK s, t, f : s = nodes /\ t = nodes' /\ f = e
      OBVIOUS
    <3>3. IsList(s) /\ t = Append(s, f)
      BY <2>1, <3>1, <3>2
    <3>4. IsList(t)
      BY <3>3, AppendWhole
    <3>5. DOMAIN t = 1..(Len(s) + 1)
      BY <3>3, AppendWhole
    <3>6. \A n \in DOMAIN s : t[n] = s[n]
      BY <3>3, AppendWhole
    <3>7. t[Len(s) + 1] = f
      BY <3>3, AppendWhole
    <3>8. QED
      BY <3>2, <3>4, <3>5, <3>6, <3>7
  <2>4. /\ \A n \in DOMAIN nodes' : n \in DOMAIN nodes \/ n = Len(nodes) + 1
        /\ Len(nodes) + 1 \notin DOMAIN nodes
    BY <2>3, ListIds DEF NodesWhole
  <2>5. NodesWhole'
    BY <1>3, <2>3, <2>4 DEF NodesWhole
  <2>6. UniqueKeys'
    BY <1>2, <1>3, <2>2, <2>3, <2>4 DEF UniqueKeys
  <2>7. QED
    BY <2>5, <2>6
<1>6. QED
  BY <1>4, <1>5

\* A change of one node that leaves it whole and its key free keeps the keys apart.
LEMMA ChangeKeys ==
    ASSUME NodesWhole, NEW k, NEW v, IsNode(v), nodes' = [nodes EXCEPT ![k] = v]
    PROVE  /\ NodesWhole'
           /\ (UniqueKeys /\ \A n \in DOMAIN nodes : nodes[n].key = v.key => n = k) /\ blind' = blind => UniqueKeys'
<1>1. /\ IsList(nodes')
      /\ DOMAIN nodes' = DOMAIN nodes
      /\ \A n \in DOMAIN nodes : nodes'[n] = IF n = k THEN v ELSE nodes[n]
  BY ExceptWhole DEF NodesWhole
<1>2. NodesWhole'
  BY <1>1 DEF NodesWhole
<1>3. ASSUME UniqueKeys, \A n \in DOMAIN nodes : nodes[n].key = v.key => n = k, blind' = blind
      PROVE  UniqueKeys'
  BY <1>1, <1>3 DEF UniqueKeys
<1>4. QED
  BY <1>2, <1>3

\* What a switch of a node writes, as a whole record.
LEMMA NodeSwitched ==
    ASSUME NEW r, IsNode(r), NEW b
    PROVE  [r EXCEPT !.on = b] = [key |-> r.key, name |-> r.name, labels |-> r.labels, on |-> b]
BY DEF IsNode

\* Updating keeps the keys apart unless the conflict check was skipped: the key
\* looked up is free, or already the node's own.
LEMMA UpdateKeys ==
    ASSUME NodesWhole, UniqueKeys, OpJDUpdateNode
    PROVE  NodesWhole' /\ UniqueKeys'
<1> DEFINE x == ThisItem
           v == [key |-> x.key, name |-> IF x.name = Nothing THEN nodes[x.id].name ELSE x.name,
                 labels |-> labelsFromMap(x.labels, nodes[x.id].labels), on |-> nodes[x.id].on]
<1>1. CASE UNCHANGED <<nodes, blind>>
  BY <1>1 DEF NodesWhole, UniqueKeys
<1>2. CASE /\ x.id \in DOMAIN nodes
           /\ \/ ListNodeByPublicKey(x.key) \in {Nothing, x.id} /\ UNCHANGED blind
              \/ blind' = TRUE
           /\ nodes' = [nodes EXCEPT ![x.id] = v]
  <2>2. nodes' = [nodes EXCEPT ![x.id] = v]
    BY <1>2
  <2>3. IsNode(v) /\ v.key = x.key
    BY DEF IsNode
  <2> HIDE DEF v
  <2>4. NodesWhole' /\ ((UniqueKeys /\ \A n \in DOMAIN nodes : nodes[n].key = v.key => n = x.id)
                           /\ blind' = blind => UniqueKeys')
    BY <2>2, <2>3, ChangeKeys
  <2>5. CASE blind' = TRUE
    BY <2>4, <2>5 DEF UniqueKeys
  <2>6. CASE ListNodeByPublicKey(x.key) \in {Nothing, x.id} /\ UNCHANGED blind
    <3>1. CASE blind
      BY <2>4, <2>6, <3>1 DEF UniqueKeys
    <3>2. CASE ~blind
      <4>1. ASSUME NEW n \in DOMAIN nodes, nodes[n].key = v.key PROVE n = x.id
        <5>1. IsList(nodes) /\ DOMAIN nodes \subseteq Nat
          BY ListIds DEF NodesWhole
        <5>2. nodes[n].key = x.key
          BY <2>3, <4>1
        <5>3. ListNodeByPublicKey(x.key) = x.id /\ nodes[x.id].key = x.key
          BY <2>6, <5>1, <5>2, LookupFinds, NothingAssumption
        <5>4. QED
          BY <1>2, <3>2, <5>2, <5>3 DEF UniqueKeys
      <4>2. QED
        BY <2>4, <2>6, <4>1
    <3>3. QED
      BY <3>1, <3>2
  <2>7. QED
    BY <1>2, <2>5, <2>6
<1>3. QED
  BY <1>1, <1>2 DEF OpJDUpdateNode

\* Disabling a node and enabling it again keep its key.
LEMMA SwitchKeys ==
    ASSUME NodesWhole, UniqueKeys, blind' = blind, NEW n \in DOMAIN nodes, NEW b,
           nodes' = [nodes EXCEPT ![n].on = b]
    PROVE  NodesWhole' /\ UniqueKeys'
<1> DEFINE v == [key |-> nodes[n].key, name |-> nodes[n].name, labels |-> nodes[n].labels, on |-> b]
<1>1. IsNode(nodes[n])
  BY DEF NodesWhole
<1>2. nodes' = [nodes EXCEPT ![n] = v]
  <2>1. nodes' = [nodes EXCEPT ![n] = [@ EXCEPT !.on = b]]
    OBVIOUS
  <2>2. v = [nodes[n] EXCEPT !.on = b]
    BY <1>1, NodeSwitched
  <2>3. QED
    BY <2>1, <2>2
<1>3. IsNode(v) /\ v.key = nodes[n].key
  BY DEF IsNode
<1> HIDE DEF v
<1>4. NodesWhole' /\ ((UniqueKeys /\ \A m \in DOMAIN nodes : nodes[m].key = v.key => m = n)
                         /\ blind' = blind => UniqueKeys')
  BY <1>2, <1>3, ChangeKeys
<1>5. CASE blind
  BY <1>4, <1>5 DEF UniqueKeys
<1>6. CASE ~blind
  BY <1>3, <1>4, <1>6 DEF UniqueKeys
<1>7. QED
  BY <1>5, <1>6

----------------------------------------------------------------------------
(* The Job Distributor: what propose-job reports has landed *)

Rank(N, n) == Cardinality({m \in N : m < n})

\* Nodes of a set have different positions in it, each below the set's size: the
\* proposals of OpJDProposeJob go to different nodes.
LEMMA Positions ==
    ASSUME NEW N, IsFiniteSet(N), N \subseteq Nat, NEW a \in N
    PROVE  /\ Rank(N, a) \in 0..(Cardinality(N) - 1)
           /\ \A b \in N : Rank(N, a) = Rank(N, b) => a = b
<1> DEFINE Below(n) == {m \in N : m < n}
<1>1. ASSUME NEW S, NEW T, IsFiniteSet(T), S \subseteq T, NEW x \in T, x \notin S
      PROVE  IsFiniteSet(S) /\ Cardinality(S) \in Nat /\ Cardinality(T) \in Nat /\ Cardinality(S) < Cardinality(T)
  <2>1. IsFiniteSet(S) /\ Cardinality(S) <= Cardinality(T) /\ (Cardinality(S) = Cardinality(T) => S = T)
    BY <1>1, FS_Subset
  <2>2. Cardinality(S) \in Nat /\ Cardinality(T) \in Nat
    BY <1>1, <2>1, FS_CardinalityType
  <2>3. QED
    BY <1>1, <2>1, <2>2
<1>2. \A n \in N : Below(n) \subseteq N /\ n \notin Below(n)
  OBVIOUS
<1>3. ASSUME NEW b \in N, NEW c \in N, b < c
      PROVE  Below(b) \subseteq Below(c) /\ b \in Below(c)
  <2>1. \A m \in N : m < b => m < c
    <3>1. b \in Nat /\ c \in Nat /\ \A m \in N : m \in Nat
      OBVIOUS
    <3>2. QED
      BY <1>3, <3>1
  <2>2. QED
    BY <1>3, <2>1
<1> HIDE DEF Below
<1>4. \A n \in N : IsFiniteSet(Below(n)) /\ Cardinality(Below(n)) \in Nat /\ Cardinality(N) \in Nat
                      /\ Cardinality(Below(n)) < Cardinality(N)
  BY <1>1, <1>2
<1>5. \A b, c \in N : b < c => Cardinality(Below(b)) < Cardinality(Below(c))
  BY <1>1, <1>2, <1>3, <1>4
<1>6. Cardinality(Below(a)) \in 0..(Cardinality(N) - 1)
  BY <1>4
<1>7. ASSUME NEW b \in N, Cardinality(Below(a)) = Cardinality(Below(b)) PROVE a = b
  BY <1>4, <1>5, <1>7
<1>8. QED
  BY <1>6, <1>7 DEF Below, Rank

\* Jobs keep their ids, nodes and specifications.
JobsKept ==
    \A j \in DOMAIN jobs : j \in DOMAIN jobs' /\ jobs'[j].node = jobs[j].node /\ jobs'[j].spec = jobs[j].spec

\* Proposing to the nodes of a set adds a job for each of them and keeps the others.
LEMMA ProposedLands ==
    ASSUME JobsWhole, NEW N, IsFiniteSet(N), N \subseteq Nat, NEW x, jobs' = Proposed(N, x)
    PROVE  /\ JobsWhole' /\ JobsKept
           /\ \A n \in N : Landed(n, x.spec)'
<1> DEFINE next == Len(jobs) total == next + Cardinality(N)
           At(i) == CHOOSE n \in N : Rank(N, n) = i
           new(j) == [node |-> At(j - next - 1), spec |-> x.spec, st |-> "PROPOSED", deleted |-> FALSE]
<1>1. IsList(jobs) /\ DOMAIN jobs = 1..next /\ next \in Nat
  BY ListIds DEF JobsWhole
<1>2. Cardinality(N) \in Nat /\ total \in Nat /\ next <= total
  BY <1>1, FS_CardinalityType
<1>3. jobs' = [j \in 1..total |-> IF j <= next THEN jobs[j] ELSE new(j)]
  BY DEF Proposed, Rank
<1>4. ASSUME NEW j
      PROVE  IsJob(new(j)) /\ new(j).node = At(j - next - 1) /\ new(j).spec = x.spec
  <2> HIDE DEF At, next
  <2>1. QED
    BY DEF IsJob
<1>5. ASSUME NEW n \in N PROVE At(Rank(N, n)) = n
  <2>1. \A b \in N : Rank(N, n) = Rank(N, b) => n = b
    BY Positions
  <2>2. \A b \in N : Rank(N, b) = Rank(N, n) => b = n
    BY <2>1
  <2>3. QED
    BY <2>2
<1> HIDE DEF At, new, total, next
<1>6. DOMAIN jobs' = 1..total /\ \A j \in 1..total : jobs'[j] = IF j <= next THEN jobs[j] ELSE new(j)
  BY <1>3
<1>7. \A j \in DOMAIN jobs : j \in DOMAIN jobs' /\ jobs'[j] = jobs[j]
  BY <1>1, <1>2, <1>6
<1>8. JobsWhole'
  <2>1. PICK t : t = jobs'
    OBVIOUS
  <2> DEFINE T == {t[j] : j \in 1..total}
  <2>2. t \in [1..total -> T] /\ \A j \in 1..total : t[j] \in T
    <3>1. t = [j \in 1..total |-> IF j <= next THEN jobs[j] ELSE new(j)]
      BY <1>3, <2>1
    <3>2. QED
      BY <3>1
  <2> HIDE DEF T
  <2>3. t \in Seq(T)
    BY <1>2, <2>2
  <2>4. IsList(t)
    BY <2>3, ListOf
  <2>5. \A j \in DOMAIN jobs' : IsJob(jobs'[j])
    BY <1>1, <1>2, <1>4, <1>6 DEF JobsWhole
  <2>6. QED
    BY <2>1, <2>4, <2>5 DEF JobsWhole
<1>9. ASSUME NEW n \in N PROVE \E j \in DOMAIN jobs' : jobs'[j].node = n /\ jobs'[j].spec = x.spec
  <2> DEFINE i == Rank(N, n) j == next + i + 1
  <2>1. i \in 0..(Cardinality(N) - 1)
    BY Positions
  <2>2. At(i) = n
    BY <1>5
  <2> HIDE DEF i
  <2>3. j \in 1..total /\ ~(j <= next) /\ j - next - 1 = i
    BY <1>1, <1>2, <2>1 DEF total
  <2>4. jobs'[j] = new(j) /\ new(j).node = n /\ new(j).spec = x.spec
    BY <1>4, <1>6, <2>2, <2>3
  <2> HIDE DEF j
  <2>5. QED
    BY <1>6, <2>3, <2>4
<1>10. QED
  BY <1>7, <1>8, <1>9 DEF JobsKept, Landed

\* A change of a job's status, or its deletion, keeps its node and specification.
LEMMA JobChanged ==
    ASSUME JobsWhole, NEW k, NEW s, NEW d,
           \/ jobs' = [jobs EXCEPT ![k].st = s]
           \/ jobs' = [jobs EXCEPT ![k].deleted = d]
    PROVE  JobsWhole' /\ JobsKept
<1>1. PICK v, t : t = jobs' /\ t = [jobs EXCEPT ![k] = v] /\ (k \in DOMAIN jobs =>
                     IsJob(v) /\ v.node = jobs[k].node /\ v.spec = jobs[k].spec)
  <2>1. k \in DOMAIN jobs => IsJob(jobs[k])
    BY DEF JobsWhole
  <2>2. ASSUME NEW r, IsJob(r)
        PROVE  LET a == [r EXCEPT !.st = s] b == [r EXCEPT !.deleted = d]
               IN  IsJob(a) /\ a.node = r.node /\ a.spec = r.spec /\ IsJob(b) /\ b.node = r.node /\ b.spec = r.spec
    BY <2>2 DEF IsJob
  <2>3. CASE jobs' = [jobs EXCEPT ![k] = [@ EXCEPT !.st = s]]
    BY <2>1, <2>2, <2>3
  <2>4. CASE jobs' = [jobs EXCEPT ![k] = [@ EXCEPT !.deleted = d]]
    BY <2>1, <2>2, <2>4
  <2>5. QED
    BY <2>3, <2>4
<1>2. IsList(jobs)
  BY DEF JobsWhole
<1>3. IsList(t)
  BY <1>1, <1>2, ExceptWhole
<1>4. DOMAIN t = DOMAIN jobs /\ \A n \in DOMAIN jobs : t[n] = IF n = k THEN v ELSE jobs[n]
  BY <1>1
<1>5. JobsWhole'
  BY <1>1, <1>3, <1>4 DEF JobsWhole
<1>6. JobsKept
  BY <1>1, <1>4 DEF JobsKept
<1>7. QED
  BY <1>5, <1>6

\* A node keeps the job it got for a specification.
LEMMA LandedKept ==
    ASSUME JobsKept, NEW n, NEW spec, Landed(n, spec)
    PROVE  Landed(n, spec)'
BY DEF JobsKept, Landed

\* A report of another operation, or of a proposal that reached all its nodes,
\* keeps the reports of propose-job true.
LEMMA ReportKept ==
    ASSUME ProposalsReported, JobsKept, NEW op \in Ops, NEW x, NEW o,
           op = "propose" => \A n \in o : Landed(n, x.job.spec)',
           JDReport(op, x, o) \/ jdReports' = jdReports
    PROVE  ProposalsReported'
<1>1. ASSUME NEW r \in jdReports["propose"], NEW n \in r.out PROVE Landed(n, r.in.job.spec)'
  BY LandedKept DEF ProposalsReported
<1>2. CASE jdReports' = jdReports
  BY <1>1, <1>2 DEF ProposalsReported
<1>3. CASE JDReport(op, x, o)
  <2> DEFINE e == [in |-> x, out |-> o]
  <2>1. jdReports' = [jdReports EXCEPT ![op] = @ \cup {e}]
    BY <1>3 DEF JDReport
  <2>2. DOMAIN jdReports' = Ops /\ "propose" \in Ops
    BY <2>1 DEF ProposalsReported, Ops
  <2>3. e.in = x /\ e.out = o
    OBVIOUS
  <2> HIDE DEF e
  <2>4. ASSUME NEW r \in jdReports'["propose"], NEW n \in r.out PROVE Landed(n, r.in.job.spec)'
    <3>1. CASE r \in jdReports["propose"]
      BY <1>1, <3>1
    <3>2. CASE op = "propose" /\ r = e
      BY <2>3, <3>2
    <3>3. QED
      BY <2>1, <2>2, <3>1, <3>2 DEF ProposalsReported
  <2>5. QED
    BY <2>2, <2>4 DEF ProposalsReported
<1>4. QED
  BY <1>2, <1>3

\* What the invariant needs of a step that leaves the nodes and their keys alone.
NodesStay == UNCHANGED <<nodes, blind>>

\* A step that does not touch the nodes keeps the keys apart.
LEMMA KeysStay ==
    ASSUME NodesWhole, UniqueKeys, NodesStay
    PROVE  NodesWhole' /\ UniqueKeys'
BY DEF NodesWhole, UniqueKeys, NodesStay

\* A step that does not touch the jobs keeps them.
LEMMA JobsStay ==
    ASSUME JobsWhole, jobs' = jobs
    PROVE  JobsWhole' /\ JobsKept
BY DEF JobsWhole, JobsKept

\* Proposing reports only when every listed node has got its job.
LEMMA ProposeInv ==
    ASSUME JDInv, OpJDProposeJob
    PROVE  JDInv'
<1> PICK x, N, k : x = ThisItem /\ N = Selected(x) /\ k = OpInput(x)
  OBVIOUS
<1>1. NodesWhole /\ JobsWhole /\ UniqueKeys /\ ProposalsReported
  BY DEF JDInv
<1>2. NodesWhole' /\ UniqueKeys'
  BY <1>1, KeysStay DEF OpJDProposeJob, NodesStay
<1>3. "propose" \in Ops
  BY DEF Ops
<1>4. jdReq.cs = "propose"
  BY DEF OpJDProposeJob, Fresh, Item
<1>5. k = SeqJDProposeJobs(x)
  BY <1>4 DEF OpInput
<1>6. k.job = x
  BY <1>5 DEF SeqJDProposeJobs
<1>7. N \subseteq Nat /\ IsFiniteSet(N)
  <2>1. N \subseteq 1..Len(nodes) /\ Len(nodes) \in Nat
    BY <1>1, ListIds DEF Selected, NodesWhole
  <2>2. IsFiniteSet(1..Len(nodes))
    BY <2>1, FS_Interval
  <2>3. QED
    BY <2>1, <2>2, FS_Subset
<1>8. CASE failed' = TRUE /\ UNCHANGED <<jobs, jdReports>>
  <2>1. JobsWhole' /\ JobsKept
    BY <1>1, <1>8, JobsStay
  <2>2. ProposalsReported'
    BY <1>1, <1>8, <2>1, LandedKept DEF ProposalsReported
  <2>3. QED
    BY <1>2, <2>1, <2>2 DEF JDInv
<1>9. ASSUME NEW F \in SUBSET N, jobs' = Proposed(N \ F, x),
             \/ F = {} /\ Answered("propose", k, N)
             \/ jdReports' = jdReports
      PROVE  JDInv'
  <2>1. IsFiniteSet(N \ F) /\ N \ F \subseteq Nat
    BY <1>7, FS_Subset
  <2>2. /\ JobsWhole' /\ JobsKept
        /\ \A n \in N \ F : Landed(n, x.spec)'
    <3>1. PICK M : M = N \ F
      OBVIOUS
    <3>2. JobsWhole /\ IsFiniteSet(M) /\ M \subseteq Nat /\ jobs' = Proposed(M, x)
      BY <1>1, <1>9, <2>1, <3>1
    <3>3. JobsWhole' /\ JobsKept
      BY <3>2, ProposedLands
    <3>4. \A n \in M : Landed(n, x.spec)'
      BY <3>2, ProposedLands
    <3>5. QED
      BY <3>1, <3>3, <3>4
  <2>3. ProposalsReported'
    <3>1. CASE jdReports' = jdReports
      BY <1>1, <2>2, <3>1, LandedKept DEF ProposalsReported
    <3>2. CASE F = {} /\ Answered("propose", k, N)
      <4>1. \A n \in N : Landed(n, x.spec)'
        BY <2>2, <3>2
      <4>2. \A n \in N : Landed(n, k.job.spec)'
        BY <1>6, <4>1
      <4>3. JDReport("propose", k, N) \/ jdReports' = jdReports
        BY <3>2 DEF Answered
      <4>4. QED
        BY <1>1, <1>3, <2>2, <4>2, <4>3, ReportKept
    <3>3. QED
      BY <1>9, <3>1, <3>2
  <2>4. QED
    BY <1>2, <2>2, <2>3 DEF JDInv
<1>10. QED
  BY <1>8, <1>9 DEF OpJDProposeJob, Refuse, ProposeError

\* A step whose jobs keep their nodes, and whose report is of another operation.
LEMMA OtherReports ==
    ASSUME JDInv, NodesWhole' /\ UniqueKeys', JobsWhole' /\ JobsKept,
           NEW op \in Ops \ {"propose"}, NEW x, NEW o, JDReport(op, x, o) \/ jdReports' = jdReports
    PROVE  JDInv'
<1>1. op \in Ops /\ op # "propose"
  OBVIOUS
<1>2. ProposalsReported
  BY DEF JDInv
<1>3. ProposalsReported'
  BY <1>1, <1>2, ReportKept
<1>4. QED
  BY <1>3 DEF JDInv

\* An answer is a report, or none.
LEMMA AnswerReports ==
    ASSUME NEW op, NEW x, NEW o, Answered(op, x, o)
    PROVE  JDReport(op, x, o) \/ jdReports' = jdReports
BY DEF Answered

\* The three node operations: the keys stay apart, jobs and proposals stay.
LEMMA RegisterInv ==
    ASSUME JDInv, OpJDRegisterNode
    PROVE  JDInv'
<1>1. NodesWhole' /\ UniqueKeys'
  BY RegisterKeys DEF JDInv
<1>2. JobsWhole' /\ JobsKept
  BY JobsStay DEF JDInv, OpJDRegisterNode
<1>3. PICK k, e : Answered("register", k, e)
  BY DEF OpJDRegisterNode
<1>4. "register" \in Ops \ {"propose"}
  BY DEF Ops
<1>5. QED
  BY <1>1, <1>2, <1>3, <1>4, AnswerReports, OtherReports

\* An update changes no key and leaves the jobs.
LEMMA UpdateInv ==
    ASSUME JDInv, OpJDUpdateNode
    PROVE  JDInv'
<1>1. NodesWhole' /\ UniqueKeys'
  BY UpdateKeys DEF JDInv
<1>2. JobsWhole' /\ JobsKept
  BY JobsStay DEF JDInv, OpJDUpdateNode
<1>3. \E k : JDReport("update", k, Nothing) \/ jdReports' = jdReports
  BY DEF OpJDUpdateNode, Answered, Refuse
<1>4. "update" \in Ops \ {"propose"}
  BY DEF Ops
<1>5. QED
  BY <1>1, <1>2, <1>3, <1>4, OtherReports

\* A node that is disabled keeps its key and its jobs.
LEMMA DisableInv ==
    ASSUME JDInv, OpJDDisableNode
    PROVE  JDInv'
<1>1. PICK n : n = ListNodeByPublicKey(ThisItem)
  OBVIOUS
<1>2. /\ nodes' = IF n = Nothing THEN nodes ELSE [nodes EXCEPT ![n].on = FALSE]
      /\ Answered("disable", OpInput(ThisItem), n) /\ jobs' = jobs /\ blind' = blind
  BY <1>1 DEF OpJDDisableNode
<1>3. n = Nothing \/ n \in DOMAIN nodes
  BY <1>1, LookupFinds DEF JDInv
<1>4. JobsWhole' /\ JobsKept
  BY <1>2, JobsStay DEF JDInv
<1>5. "disable" \in Ops \ {"propose"}
  BY DEF Ops
<1>6. NodesWhole' /\ UniqueKeys'
  <2>1. CASE n = Nothing
    <3>1. nodes' = nodes
      BY <1>2, <2>1
    <3>2. QED
      BY <1>2, <3>1, KeysStay DEF JDInv, NodesStay
  <2>2. CASE n # Nothing
    <3>1. n \in DOMAIN nodes /\ nodes' = [nodes EXCEPT ![n].on = FALSE]
      BY <1>2, <1>3, <2>2
    <3>2. QED
      BY <1>2, <3>1, SwitchKeys DEF JDInv
  <2>3. QED
    BY <2>1, <2>2
<1>7. QED
  BY <1>2, <1>4, <1>5, <1>6, AnswerReports, OtherReports

\* Revoking and deleting change a job's status and mark only.
LEMMA RevokeInv ==
    ASSUME JDInv, OpJDRevokeJob
    PROVE  JDInv'
<1>1. NodesWhole' /\ UniqueKeys'
  BY KeysStay DEF JDInv, OpJDRevokeJob, NodesStay
<1>2. JobsWhole' /\ JobsKept
  <2>1. jobs' = jobs \/ jobs' = [jobs EXCEPT ![ThisItem].st = "REVOKED"]
    BY DEF OpJDRevokeJob
  <2>2. QED
    BY <2>1, JobsStay, JobChanged DEF JDInv
<1>3. \E k, o : JDReport("revoke", k, o) \/ jdReports' = jdReports
  BY DEF OpJDRevokeJob, Answered, Refuse
<1>4. "revoke" \in Ops \ {"propose"}
  BY DEF Ops
<1>5. QED
  BY <1>1, <1>2, <1>3, <1>4, OtherReports

\* A deleted job is one that was there; none is added.
LEMMA DeleteInv ==
    ASSUME JDInv, OpJDDeleteJob
    PROVE  JDInv'
<1>1. NodesWhole' /\ UniqueKeys'
  BY KeysStay DEF JDInv, OpJDDeleteJob, NodesStay
<1>2. JobsWhole' /\ JobsKept
  BY JobChanged DEF JDInv, OpJDDeleteJob
<1>3. \E k, o : JDReport("delete", k, o) \/ jdReports' = jdReports
  BY DEF OpJDDeleteJob, Answered
<1>4. "delete" \in Ops \ {"propose"}
  BY DEF Ops
<1>5. QED
  BY <1>1, <1>2, <1>3, <1>4, OtherReports

\* The end of a sequence adds at most its own report.
LEMMA ReturnInv ==
    ASSUME JDInv, SeqReturns
    PROVE  JDInv'
<1>1. NodesWhole' /\ UniqueKeys'
  BY KeysStay DEF JDInv, SeqReturns, NodesStay
<1>2. JobsWhole' /\ JobsKept
  BY JobsStay DEF JDInv, SeqReturns
<1>3. JDReport("seq", jdReq, Nothing) \/ jdReports' = jdReports
  BY DEF SeqReturns
<1>4. "seq" \in Ops \ {"propose"}
  BY DEF Ops
<1>5. QED
  BY <1>1, <1>2, <1>3, <1>4, OtherReports

\* The environment: a node's answer, an administrator, a new bundle.
LEMMA AnswerInv ==
    ASSUME JDInv, NEW j \in DOMAIN jobs, NodeAnswers(j)
    PROVE  JDInv'
<1>1. NodesWhole' /\ UniqueKeys'
  BY KeysStay DEF JDInv, NodeAnswers, NodesStay
<1>2. JobsWhole' /\ JobsKept
  BY JobChanged DEF JDInv, NodeAnswers
<1>3. jdReports' = jdReports /\ "seq" \in Ops \ {"propose"}
  BY DEF NodeAnswers, Ops
<1>4. QED
  BY <1>1, <1>2, <1>3, OtherReports

\* A node that is enabled again keeps its key.
LEMMA EnableInv ==
    ASSUME JDInv, NEW n \in DOMAIN nodes, EnableNode(n)
    PROVE  JDInv'
<1>1. NodesWhole' /\ UniqueKeys'
  BY SwitchKeys DEF JDInv, EnableNode
<1>2. JobsWhole' /\ JobsKept
  BY JobsStay DEF JDInv, EnableNode
<1>3. jdReports' = jdReports /\ "seq" \in Ops \ {"propose"}
  BY DEF EnableNode, Ops
<1>4. QED
  BY <1>1, <1>2, <1>3, OtherReports

\* A fresh bundle forgets the reports, not the nodes and jobs.
LEMMA BundleInv ==
    ASSUME JDInv, NewJDBundle
    PROVE  JDInv'
<1>1. NodesWhole' /\ UniqueKeys'
  BY KeysStay DEF JDInv, NewJDBundle, NodesStay
<1>2. JobsWhole' /\ JobsKept
  BY JobsStay DEF JDInv, NewJDBundle
<1>3. ProposalsReported'
  BY DEF NewJDBundle, NoJDReports, ProposalsReported, Ops
<1>4. QED
  BY <1>1, <1>2, <1>3 DEF JDInv

\* The other steps leave nodes, jobs and reports as they are.
LEMMA QuietInv ==
    ASSUME JDInv, UNCHANGED <<nodes, blind, jobs, jdReports>>
    PROVE  JDInv'
<1>1. NodesWhole' /\ UniqueKeys'
  BY KeysStay DEF JDInv, NodesStay
<1>2. JobsWhole' /\ JobsKept
  BY JobsStay DEF JDInv
<1>3. jdReports' = jdReports /\ "seq" \in Ops \ {"propose"}
  BY DEF Ops
<1>4. QED
  BY <1>1, <1>2, <1>3, OtherReports

\* Every step of the Job Distributor changesets keeps the invariant.
LEMMA JDNextInv ==
    ASSUME JDInv, [JDNext]_jdVars
    PROVE  JDInv'
<1>1. CASE UNCHANGED jdVars
  BY <1>1, QuietInv DEF jdVars
<1>2. CASE \E i \in JDInputs : JDStart(i)
  BY <1>2, QuietInv DEF JDStart
<1>3. CASE ReuseItem \/ FailItem
  BY <1>3, QuietInv DEF ReuseItem, FailItem
<1>4. CASE SeqJDDeleteJobs \/ FailList
  BY <1>4, QuietInv DEF SeqJDDeleteJobs, FailList
<1>5. CASE OpJDRegisterNode
  BY <1>5, RegisterInv
<1>6. CASE OpJDUpdateNode
  BY <1>6, UpdateInv
<1>7. CASE OpJDDisableNode
  BY <1>7, DisableInv
<1>8. CASE OpJDProposeJob
  BY <1>8, ProposeInv
<1>9. CASE OpJDRevokeJob
  BY <1>9, RevokeInv
<1>10. CASE OpJDDeleteJob
  BY <1>10, DeleteInv
<1>11. CASE SeqReturns
  BY <1>11, ReturnInv
<1>12. CASE \E j \in DOMAIN jobs : NodeAnswers(j)
  BY <1>12, AnswerInv
<1>13. CASE \E n \in DOMAIN nodes : EnableNode(n)
  BY <1>13, EnableInv
<1>14. CASE NewJDBundle
  BY <1>14, BundleInv
<1>15. QED
  BY <1>1, <1>2, <1>3, <1>4, <1>5, <1>6, <1>7, <1>8, <1>9, <1>10, <1>11, <1>12, <1>13, <1>14 DEF JDNext

\* At first the Job Distributor has no nodes and no jobs.
LEMMA JDInitInv ==
    ASSUME JDInit
    PROVE  JDInv
<1>1. nodes = <<>> /\ jobs = <<>> /\ jdReports = NoJDReports
  BY DEF JDInit
<1>2. IsList(<<>>) /\ DOMAIN <<>> = {}
  BY DEF IsList
<1>3. NodesWhole /\ JobsWhole /\ UniqueKeys
  BY <1>1, <1>2 DEF NodesWhole, JobsWhole, UniqueKeys
<1>4. ProposalsReported
  BY <1>1 DEF ProposalsReported, NoJDReports, Ops
<1>5. QED
  BY <1>3, <1>4 DEF JDInv

\* The invariant holds in every state of the Job Distributor changesets.
THEOREM JDInvariance == JDSpec => []JDInv
<1>1. JDInit => JDInv
  BY JDInitInv
<1>2. JDInv /\ [JDNext]_jdVars => JDInv'
  BY JDNextInv
<1>3. QED
  BY <1>1, <1>2, PTL DEF JDSpec

\* No two nodes have the same key unless an update skipped its conflict check,
\* for every set of inputs and any number of retries and lost answers
\* (OpJDRegisterNode, OpJDUpdateNode).
THEOREM KeysUnique == JDSpec => []UniqueKeys
<1>1. JDInv => UniqueKeys
  BY DEF JDInv
<1>2. QED
  BY <1>1, JDInvariance, PTL

----------------------------------------------------------------------------
(* What a delete run that succeeds has done *)

\* The job was deleted, or its proposal is no longer active. Neither is undone: a
\* node answers only a proposal of a job that is still there.
Gone(J, j) == j \in DOMAIN J /\ (J[j].deleted \/ J[j].st \notin Active)
Waiting(j) == \E n \in DOMAIN items : items[n] = j

\* Reports of deletions are of jobs that are gone.
DeletionsReported ==
    /\ \A r \in jdReports["delete"] : Gone(jobs, r.in)
    /\ \A r \in jdReports["seq"] :
          r.in.cs = "delete" => \A k \in DOMAIN r.in.items : Gone(jobs, r.in.items[k])

\* The jobs of a delete run exist, and after the listing those that do not wait to
\* be deleted are gone, unless one failed.
DeletionRuns ==
    jdPc # "idle" /\ jdReq.cs = "delete" =>
        /\ jdPc \in {"list", "item"} /\ IsList(items)
        /\ \A n \in DOMAIN items : items[n] \in DOMAIN jobs
        /\ jdPc = "list" => items = jdReq.items
        /\ jdPc = "item" /\ ~failed =>
              \A k \in DOMAIN jdReq.items : Gone(jobs, jdReq.items[k]) \/ Waiting(jdReq.items[k])

DelInv == DeletionsReported /\ DeletionRuns

\* The elements of a list are finitely many.
LEMMA ItemsFinite ==
    ASSUME NEW s, IsList(s)
    PROVE  IsFiniteSet({s[n] : n \in DOMAIN s})
<1>1. DOMAIN s = 1..Len(s) /\ Len(s) \in Nat
  BY ListIds
<1>2. PICK T : T = {s[n] : n \in DOMAIN s}
  OBVIOUS
<1>3. s \in Seq(T)
  BY <1>2 DEF IsList
<1>4. s \in [DOMAIN s -> T] /\ \A t \in T : \E n \in DOMAIN s : s[n] = t
  BY <1>1, <1>2, <1>3
<1>5. s \in Surjection(DOMAIN s, T)
  BY <1>4 DEF Surjection
<1>6. IsFiniteSet(DOMAIN s)
  BY <1>1, FS_Interval
<1>7. QED
  BY <1>2, <1>5, <1>6, FS_Surjection

\* The head of a list is its first element.
LEMMA ListHead ==
    ASSUME NEW s, IsList(s), s # <<>>
    PROVE  1 \in DOMAIN s /\ Head(s) = s[1]
<1>1. s \in Seq({s[n] : n \in DOMAIN s})
  BY DEF IsList
<1>2. QED
  BY <1>1

\* What a step may do to the jobs.
LEMMA JobSteps ==
    ASSUME [JDNext]_jdVars
    PROVE  \/ jobs' = jobs
           \/ \E N \in SUBSET DOMAIN nodes : \E x : jobs' = Proposed(N, x)
           \/ \E k : jobs' = [jobs EXCEPT ![k].st = "REVOKED"]
           \/ \E k : jobs' = [jobs EXCEPT ![k].deleted = TRUE]
           \/ \E k \in DOMAIN jobs : \E s : /\ jobs[k].st = "PROPOSED" /\ ~jobs[k].deleted
                                        /\ jobs' = [jobs EXCEPT ![k].st = s]
<1>1. CASE OpJDProposeJob
  <2>1. Selected(ThisItem) \subseteq DOMAIN nodes
    BY DEF Selected
  <2>2. QED
    BY <1>1, <2>1 DEF OpJDProposeJob
<1>2. CASE OpJDRevokeJob
  BY <1>2 DEF OpJDRevokeJob
<1>3. CASE OpJDDeleteJob
  BY <1>3 DEF OpJDDeleteJob
<1>4. CASE \E j \in DOMAIN jobs : NodeAnswers(j)
  BY <1>4 DEF NodeAnswers
<1>5. CASE \E i \in JDInputs : JDStart(i)
  BY <1>5 DEF JDStart
<1>6. CASE OpJDRegisterNode \/ OpJDUpdateNode \/ OpJDDisableNode
  BY <1>6 DEF OpJDRegisterNode, OpJDUpdateNode, OpJDDisableNode
<1>7. CASE ReuseItem \/ SeqJDDeleteJobs \/ FailItem \/ FailList \/ SeqReturns
  BY <1>7 DEF ReuseItem, SeqJDDeleteJobs, FailItem, FailList, SeqReturns
<1>8. CASE (\E n \in DOMAIN nodes : EnableNode(n)) \/ NewJDBundle \/ UNCHANGED jdVars
  BY <1>8 DEF EnableNode, NewJDBundle, jdVars
<1>9. QED
  BY <1>1, <1>2, <1>3, <1>4, <1>5, <1>6, <1>7, <1>8 DEF JDNext

\* Jobs stay; one that is gone stays so.
LEMMA GoneStays ==
    ASSUME JDInv, [JDNext]_jdVars, NEW j \in DOMAIN jobs
    PROVE  j \in DOMAIN jobs' /\ (Gone(jobs, j) => Gone(jobs', j))
<1>1. CASE jobs' = jobs
  BY <1>1 DEF Gone
<1>2. ASSUME NEW N \in SUBSET DOMAIN nodes, NEW x, jobs' = Proposed(N, x)
      PROVE  j \in DOMAIN jobs' /\ jobs'[j] = jobs[j]
  <2>1. DOMAIN jobs = 1..Len(jobs) /\ Len(jobs) \in Nat /\ DOMAIN nodes = 1..Len(nodes) /\ Len(nodes) \in Nat
    BY ListIds DEF JDInv, JobsWhole, NodesWhole
  <2>2. IsFiniteSet(N)
    <3>1. IsFiniteSet(DOMAIN nodes)
      BY <2>1, FS_Interval
    <3>2. QED
      BY <3>1, FS_Subset
  <2>3. Cardinality(N) \in Nat
    BY <2>2, FS_CardinalityType
  <2>4. DOMAIN jobs' = 1..(Len(jobs) + Cardinality(N))
    BY <1>2 DEF Proposed
  <2>5. j \in DOMAIN jobs' /\ j <= Len(jobs)
    BY <2>1, <2>3, <2>4
  <2>6. QED
    BY <1>2, <2>4, <2>5 DEF Proposed
<1>3. IsJob(jobs[j])
  BY DEF JDInv, JobsWhole
<1>4. ASSUME NEW k, NEW s, jobs' = [jobs EXCEPT ![k].st = s]
      PROVE  /\ j \in DOMAIN jobs' /\ jobs'[j].deleted = jobs[j].deleted
             /\ jobs'[j].st = IF j = k THEN s ELSE jobs[j].st
  BY <1>3, <1>4 DEF IsJob
<1>5. ASSUME NEW k, jobs' = [jobs EXCEPT ![k].deleted = TRUE]
      PROVE  /\ j \in DOMAIN jobs' /\ jobs'[j].st = jobs[j].st
             /\ jobs'[j].deleted = IF j = k THEN TRUE ELSE jobs[j].deleted
  BY <1>3, <1>5 DEF IsJob
<1>6. CASE \E N \in SUBSET DOMAIN nodes : \E x : jobs' = Proposed(N, x)
  BY <1>2, <1>6 DEF Gone
<1>7. CASE \E k : jobs' = [jobs EXCEPT ![k].st = "REVOKED"]
  BY <1>4, <1>7 DEF Gone, Active
<1>8. CASE \E k : jobs' = [jobs EXCEPT ![k].deleted = TRUE]
  <2>1. PICK k : jobs' = [jobs EXCEPT ![k].deleted = TRUE]
    BY <1>8
  <2>2. CASE j = k
    BY <1>5, <2>1, <2>2 DEF Gone
  <2>3. CASE j # k
    BY <1>5, <2>1, <2>3 DEF Gone
  <2>4. QED
    BY <2>2, <2>3
<1>9. CASE \E k \in DOMAIN jobs : \E s : /\ jobs[k].st = "PROPOSED" /\ ~jobs[k].deleted
                                     /\ jobs' = [jobs EXCEPT ![k].st = s]
  BY <1>4, <1>9 DEF Gone, Active
<1>10. QED
  BY <1>1, <1>6, <1>7, <1>8, <1>9, JobSteps

\* A report of another operation, or of a deletion that was made, leaves the
\* reports of deletions true.
LEMMA DeletionReportKept ==
    ASSUME JDInv, DelInv, [JDNext]_jdVars, NEW op \in Ops, NEW x, NEW o,
           op = "delete" => Gone(jobs', x),
           op = "seq" /\ x.cs = "delete" => \A k \in DOMAIN x.items : Gone(jobs', x.items[k]),
           JDReport(op, x, o) \/ jdReports' = jdReports
    PROVE  DeletionsReported'
<1>1. \A r \in jdReports["delete"] : Gone(jobs', r.in)
  BY GoneStays DEF DelInv, DeletionsReported, Gone
<1>2. \A r \in jdReports["seq"] : r.in.cs = "delete" => \A k \in DOMAIN r.in.items : Gone(jobs', r.in.items[k])
  BY GoneStays DEF DelInv, DeletionsReported, Gone
<1>3. CASE jdReports' = jdReports
  BY <1>1, <1>2, <1>3 DEF DeletionsReported
<1>4. CASE JDReport(op, x, o)
  <2> DEFINE e == [in |-> x, out |-> o]
  <2>1. DOMAIN jdReports = Ops /\ {"delete", "seq"} \subseteq Ops
    BY DEF JDInv, ProposalsReported, Ops
  <2>2. jdReports' = [jdReports EXCEPT ![op] = @ \cup {e}] /\ e.in = x
    BY <1>4 DEF JDReport
  <2> HIDE DEF e
  <2>3. \A q \in Ops : \A r \in jdReports'[q] : r \in jdReports[q] \/ (q = op /\ r = e)
    BY <2>1, <2>2
  <2>4. \A r \in jdReports'["delete"] : Gone(jobs', r.in)
    BY <1>1, <2>1, <2>2, <2>3
  <2>5. \A r \in jdReports'["seq"] : r.in.cs = "delete" => \A k \in DOMAIN r.in.items : Gone(jobs', r.in.items[k])
    BY <1>2, <2>1, <2>2, <2>3
  <2>6. QED
    BY <2>4, <2>5 DEF DeletionsReported
<1>5. QED
  BY <1>3, <1>4

\* A step that leaves the run alone, or one that is not of a delete run.
LEMMA RunStays ==
    ASSUME JDInv, DelInv, [JDNext]_jdVars, UNCHANGED <<jdPc, jdReq, items, failed>>
    PROVE  DeletionRuns'
BY GoneStays DEF DelInv, DeletionRuns, Waiting, Gone

\* An item that is done with leaves the list: it is gone, or it has failed.
LEMMA ItemDone ==
    ASSUME JDInv, DelInv, [JDNext]_jdVars, jdPc = "item", items # <<>>, NextItem,
           jdReq.cs = "delete" => failed' \/ (failed' = failed /\ Gone(jobs', ThisItem))
    PROVE  DeletionRuns'
<1> SUFFICES ASSUME jdReq.cs = "delete"
             PROVE  DeletionRuns'
  BY DEF NextItem, DeletionRuns
<1>1. jdPc' = "item" /\ jdReq' = jdReq /\ items' = Tail(items)
  BY DEF NextItem
<1>2. IsList(items) /\ \A n \in DOMAIN items : items[n] \in DOMAIN jobs
  BY DEF DelInv, DeletionRuns
<1> DEFINE T == {items[n] : n \in DOMAIN items}
<1>3. items \in Seq(T)
  BY <1>2 DEF IsList
<1>4. \A n \in DOMAIN items : items[n] \in T
  OBVIOUS
<1>5. \A y \in T : y \in DOMAIN jobs
  BY <1>2
<1> HIDE DEF T
<1>6. /\ DOMAIN items = 1..Len(items) /\ Len(items) \in Nat \ {0}
      /\ Tail(items) \in Seq(T) /\ DOMAIN Tail(items) = 1..(Len(items) - 1)
      /\ Head(items) = items[1] /\ \A n \in 1..(Len(items) - 1) : Tail(items)[n] = items[n + 1]
  BY <1>3
<1>7. IsList(items')
  BY <1>1, <1>6, ListOf
<1>8. \A n \in DOMAIN items' : items'[n] \in DOMAIN jobs'
  <2>1. \A n \in DOMAIN items' : items'[n] \in T
    BY <1>1, <1>6
  <2>2. QED
    BY <1>5, <2>1, GoneStays
<1>9. ASSUME ~failed', NEW k \in DOMAIN jdReq.items
      PROVE  Gone(jobs', jdReq.items[k]) \/ \E n \in DOMAIN items' : items'[n] = jdReq.items[k]
  <2>1. ~failed /\ Gone(jobs', items[1])
    BY <1>6, <1>9 DEF ThisItem
  <2>2. CASE Gone(jobs, jdReq.items[k])
    BY <2>2, GoneStays DEF Gone
  <2>3. CASE Waiting(jdReq.items[k])
    <3>1. PICK n \in 1..Len(items) : items[n] = jdReq.items[k]
      BY <1>6, <2>3 DEF Waiting
    <3>2. CASE n = 1
      BY <2>1, <3>1, <3>2
    <3>3. CASE n # 1
      <4>1. n - 1 \in 1..(Len(items) - 1) /\ (n - 1) + 1 = n
        BY <1>6, <3>3
      <4>2. items'[n - 1] = items[n] /\ n - 1 \in DOMAIN items'
        BY <1>1, <1>6, <4>1
      <4>3. QED
        BY <3>1, <4>2
    <3>4. QED
      BY <3>2, <3>3
  <2>4. QED
    BY <2>1, <2>2, <2>3 DEF DelInv, DeletionRuns
<1>10. QED
  BY <1>1, <1>7, <1>8, <1>9 DEF DeletionRuns, Waiting

\* The start of a run: nothing is done, or the report of the sequence says it is.
LEMMA StartDel ==
    ASSUME JDInv, DelInv, NEW i \in JDInputs, JDStart(i), [JDNext]_jdVars
    PROVE  DelInv'
<1>1. /\ jobs' = jobs /\ jdReports' = jdReports /\ jdReq' = i /\ failed' = FALSE
      /\ JDVerify(i)
  BY DEF JDStart
<1>2. DeletionsReported'
  <2>1. "register" \in Ops
    BY DEF Ops
  <2>2. QED
    BY <1>1, <2>1, DeletionReportKept
<1>3. ASSUME i.cs = "delete"
      PROVE  DeletionRuns'
  <2>1. \A k \in DOMAIN i.items : i.items[k] \in DOMAIN jobs
    BY <1>1, <1>3 DEF JDVerify, DeleteJobsVerify
  <2>2. CASE Reported("seq", i) /\ jdPc' = "item" /\ items' = <<>>
    <3>1. \A k \in DOMAIN i.items : Gone(jobs', i.items[k])
      BY <1>1, <1>3, <2>2 DEF Reported, DelInv, DeletionsReported, Gone
    <3>2. IsList(items') /\ DOMAIN items' = {}
      BY <2>2 DEF IsList
    <3>3. QED
      BY <1>1, <2>2, <3>1, <3>2 DEF DeletionRuns
  <2>3. CASE items' = i.items /\ jdPc' = "list"
    <3>1. IsList(items')
      BY <2>3, JDAssumption DEF IsList
    <3>2. QED
      BY <1>1, <2>1, <2>3, <3>1 DEF DeletionRuns
  <2>4. QED
    BY <1>3, <2>2, <2>3 DEF JDStart
<1>4. ASSUME i.cs # "delete"
      PROVE  DeletionRuns'
  <2>1. jdReq'.cs # "delete"
    BY <1>1, <1>4
  <2>2. QED
    BY <2>1 DEF DeletionRuns
<1>5. QED
  BY <1>2, <1>3, <1>4 DEF DelInv

\* After the listing, a job without an active proposal is gone and the others wait.
LEMMA ListDel ==
    ASSUME JDInv, DelInv, SeqJDDeleteJobs, [JDNext]_jdVars
    PROVE  DeletionRuns'
<1> SUFFICES ASSUME jdReq.cs = "delete"
             PROVE  DeletionRuns'
  BY DEF SeqJDDeleteJobs, DeletionRuns
<1>1. /\ IsList(items) /\ items = jdReq.items
      /\ \A n \in DOMAIN items : items[n] \in DOMAIN jobs
  BY DEF DelInv, DeletionRuns, SeqJDDeleteJobs
<1>2. PICK J : J = {j \in {items[n] : n \in DOMAIN items} : eligibleJobIDsForDeletion(j)}
  OBVIOUS
<1>3. items' \in Listings(J) /\ jdPc' = "item" /\ jobs' = jobs /\ jdReq' = jdReq
  BY <1>2 DEF SeqJDDeleteJobs
<1>4. IsFiniteSet(J)
  <2>1. DOMAIN items = 1..Len(items) /\ Len(items) \in Nat
    BY <1>1, ListIds
  <2>2. IsFiniteSet(DOMAIN items)
    BY <2>1, FS_Interval
  <2>3. IsFiniteSet({items[n] : n \in DOMAIN items})
    BY <1>1, <2>1, ItemsFinite
  <2>4. QED
    BY <1>2, <2>3, FS_Subset
<1>5. /\ items' \in [1..Cardinality(J) -> J] /\ Cardinality(J) \in Nat
      /\ \A j \in J : \E n \in DOMAIN items' : items'[n] = j
  BY <1>3, <1>4, FS_CardinalityType DEF Listings
<1>6. IsList(items')
  <2>1. items' \in Seq(J)
    BY <1>5
  <2>2. QED
    BY <2>1, ListOf
<1>7. \A n \in DOMAIN items' : items'[n] \in DOMAIN jobs'
  BY <1>1, <1>2, <1>3, <1>5
<1>8. ASSUME NEW k \in DOMAIN jdReq.items
      PROVE  Gone(jobs', jdReq.items[k]) \/ \E n \in DOMAIN items' : items'[n] = jdReq.items[k]
  <2>1. CASE eligibleJobIDsForDeletion(jdReq.items[k])
    <3>1. jdReq.items[k] \in J
      BY <1>1, <1>2, <2>1
    <3>2. QED
      BY <1>5, <3>1
  <2>2. CASE ~eligibleJobIDsForDeletion(jdReq.items[k])
    BY <1>1, <1>3, <2>2 DEF Gone, eligibleJobIDsForDeletion
  <2>3. QED
    BY <2>1, <2>2
<1>9. QED
  BY <1>3, <1>6, <1>7, <1>8 DEF DeletionRuns, Waiting

\* Every step keeps what delete runs rely on.
LEMMA DelNextInv ==
    ASSUME JDInv, DelInv, [JDNext]_jdVars
    PROVE  DelInv'
<1>1. ASSUME NEW op \in Ops \ {"delete", "seq"}, NEW x, NEW o, JDReport(op, x, o) \/ jdReports' = jdReports
      PROVE  DeletionsReported'
  BY <1>1, DeletionReportKept
<1>2. {"register", "update", "disable", "propose", "revoke"} \subseteq Ops \ {"delete", "seq"} /\ {"delete", "seq"} \subseteq Ops
  BY DEF Ops
<1>3. jdReports' = jdReports => DeletionsReported'
  BY <1>1, <1>2
<1>4. ASSUME NEW i \in JDInputs, JDStart(i) PROVE DelInv'
  BY <1>4, StartDel
<1>5. CASE ReuseItem
  <2>1. jdReq.cs = "delete" => Gone(jobs, ThisItem)
    BY <1>5 DEF ReuseItem, Reported, OpInput, SeqJDRevokeJobs, DelInv, DeletionsReported
  <2>2. jdReq.cs = "delete" => Gone(jobs', ThisItem)
    BY <2>1, GoneStays DEF Gone
  <2>3. DeletionRuns'
    BY <1>5, <2>2, ItemDone DEF ReuseItem
  <2>4. QED
    BY <1>3, <1>5, <2>3 DEF ReuseItem, DelInv
<1>6. CASE OpJDRegisterNode
  <2>1. \E x, o : JDReport("register", x, o) \/ jdReports' = jdReports
    BY <1>6, AnswerReports DEF OpJDRegisterNode
  <2>2. DeletionRuns'
    BY <1>6, ItemDone DEF OpJDRegisterNode, Fresh, Item
  <2>3. QED
    BY <1>1, <1>2, <2>1, <2>2 DEF DelInv
<1>7. CASE OpJDUpdateNode
  <2>1. \E x, o : JDReport("update", x, o) \/ jdReports' = jdReports
    BY <1>7 DEF OpJDUpdateNode, Answered, Refuse
  <2>2. DeletionRuns'
    BY <1>7, ItemDone DEF OpJDUpdateNode, Fresh, Item
  <2>3. QED
    BY <1>1, <1>2, <2>1, <2>2 DEF DelInv
<1>8. CASE OpJDDisableNode
  <2>1. \E x, o : JDReport("disable", x, o) \/ jdReports' = jdReports
    BY <1>8, AnswerReports DEF OpJDDisableNode
  <2>2. DeletionRuns'
    BY <1>8, ItemDone DEF OpJDDisableNode, Fresh, Item
  <2>3. QED
    BY <1>1, <1>2, <2>1, <2>2 DEF DelInv
<1>9. CASE OpJDProposeJob
  <2>1. \E x, o : JDReport("propose", x, o) \/ jdReports' = jdReports
    BY <1>9 DEF OpJDProposeJob, Answered, Refuse
  <2>2. DeletionRuns'
    BY <1>9, ItemDone DEF OpJDProposeJob, Fresh, Item
  <2>3. QED
    BY <1>1, <1>2, <2>1, <2>2 DEF DelInv
<1>10. CASE OpJDRevokeJob
  <2>1. \E x, o : JDReport("revoke", x, o) \/ jdReports' = jdReports
    BY <1>10 DEF OpJDRevokeJob, Answered, Refuse
  <2>2. DeletionRuns'
    BY <1>10, ItemDone DEF OpJDRevokeJob, Fresh, Item
  <2>3. QED
    BY <1>1, <1>2, <2>1, <2>2 DEF DelInv
<1>11. CASE SeqJDDeleteJobs
  BY <1>3, <1>11, ListDel DEF SeqJDDeleteJobs, DelInv
<1>12. CASE OpJDDeleteJob
  <2>1. jdPc = "item" /\ items # <<>> /\ jdReq.cs = "delete" /\ NextItem
    BY <1>12 DEF OpJDDeleteJob, Fresh, Item
  <2>2. ThisItem \in DOMAIN jobs
    <3>1. IsList(items) /\ \A n \in DOMAIN items : items[n] \in DOMAIN jobs
      BY <2>1 DEF DelInv, DeletionRuns
    <3>2. 1 \in DOMAIN items /\ ThisItem = items[1]
      BY <2>1, <3>1, ListHead DEF ThisItem
    <3>3. QED
      BY <3>1, <3>2
  <2>3. Gone(jobs', ThisItem)
    <3>1. PICK j : j = ThisItem /\ j \in DOMAIN jobs /\ jobs' = [jobs EXCEPT ![j].deleted = TRUE]
      BY <1>12, <2>2 DEF OpJDDeleteJob
    <3>2. IsJob(jobs[j])
      BY <3>1 DEF JDInv, JobsWhole
    <3>3. j \in DOMAIN jobs' /\ jobs'[j].deleted = TRUE
      BY <3>1, <3>2 DEF IsJob
    <3>4. ThisItem = j /\ (j \in DOMAIN jobs' /\ (jobs'[j].deleted \/ jobs'[j].st \notin Active))
      BY <3>1, <3>3
    <3>5. QED
      BY <3>4, <3>3 DEF Gone
  <2>4. Answered("delete", ThisItem, Nothing)
    BY <1>12 DEF OpJDDeleteJob
  <2>5. DeletionRuns'
    BY <2>1, <2>3, <2>4, ItemDone DEF Answered
  <2>6. DeletionsReported'
    BY <1>2, <2>3, <2>4, AnswerReports, DeletionReportKept
  <2>7. QED
    BY <2>5, <2>6 DEF DelInv
<1>13. CASE FailItem
  <2>1. DeletionRuns'
    BY <1>13, ItemDone DEF FailItem
  <2>2. QED
    BY <1>3, <1>13, <2>1 DEF FailItem, DelInv
<1>14. CASE FailList
  BY <1>3, <1>14 DEF FailList, DelInv, DeletionRuns
<1>15. CASE SeqReturns
  <2>1. jdPc' = "idle" /\ jobs' = jobs
    BY <1>15 DEF SeqReturns
  <2>2. jdReq.cs = "delete" /\ ~failed => \A k \in DOMAIN jdReq.items : Gone(jobs, jdReq.items[k])
    BY <1>15 DEF SeqReturns, DelInv, DeletionRuns, Waiting
  <2>3. jdReq.cs = "delete" /\ ~failed => \A k \in DOMAIN jdReq.items : Gone(jobs', jdReq.items[k])
    BY <2>1, <2>2 DEF Gone
  <2>4. jdReports' = jdReports \/ (~failed /\ JDReport("seq", jdReq, Nothing))
    BY <1>15 DEF SeqReturns
  <2>5. DeletionsReported'
    <3>1. CASE jdReports' = jdReports
      BY <1>3, <3>1
    <3>2. CASE ~failed /\ JDReport("seq", jdReq, Nothing)
      BY <1>2, <2>3, <3>2, DeletionReportKept
    <3>3. QED
      BY <2>4, <3>1, <3>2
  <2>6. QED
    BY <2>1, <2>5 DEF DelInv, DeletionRuns
<1>16. ASSUME NEW j \in DOMAIN jobs, NodeAnswers(j) PROVE DelInv'
  BY <1>3, <1>16, RunStays DEF NodeAnswers, DelInv
<1>17. ASSUME NEW n \in DOMAIN nodes, EnableNode(n) PROVE DelInv'
  BY <1>3, <1>17, RunStays DEF EnableNode, DelInv
<1>18. CASE NewJDBundle
  <2>1. DeletionsReported'
    BY <1>2, <1>18 DEF NewJDBundle, NoJDReports, DeletionsReported
  <2>2. QED
    BY <1>18, <2>1, RunStays DEF NewJDBundle, DelInv
<1>19. CASE UNCHANGED jdVars
  BY <1>3, <1>19, RunStays DEF jdVars, DelInv
<1>20. QED
  BY <1>4, <1>5, <1>6, <1>7, <1>8, <1>9, <1>10, <1>11, <1>12, <1>13, <1>14, <1>15, <1>16, <1>17, <1>18, <1>19
     DEF JDNext

\* DelInv holds in every state of the Job Distributor changesets.
THEOREM DeletionInvariance == JDSpec => []DelInv
<1>1. JDInit => DelInv
  BY DEF JDInit, DelInv, DeletionsReported, DeletionRuns, NoJDReports, Ops
<1>2. JDInv /\ DelInv /\ [JDNext]_jdVars => DelInv'
  BY DelNextInv
<1>3. QED
  BY <1>1, <1>2, JDInvariance, PTL DEF JDSpec

\* A delete run that succeeds leaves no job of its input with an active proposal,
\* whatever was deleted, revoked or answered before and meanwhile (SeqJDDeleteJobs).
THEOREM DeletionsLand == JDSpec => DeletedOrInactive
<1> DEFINE Good == SeqReturns /\ jdReq.cs = "delete" /\ ~failed =>
          \A k \in DOMAIN jdReq.items :
             jobs[jdReq.items[k]].deleted \/ jobs[jdReq.items[k]].st \notin Active
<1>1. DelInv => Good
  <2> SUFFICES ASSUME DelInv, SeqReturns, jdReq.cs = "delete", ~failed, NEW k \in DOMAIN jdReq.items
               PROVE  Gone(jobs, jdReq.items[k])
    BY DEF Gone
  <2>1. jdPc = "item" /\ items = <<>>
    BY DEF SeqReturns
  <2>2. Gone(jobs, jdReq.items[k]) \/ Waiting(jdReq.items[k])
    BY <2>1 DEF DelInv, DeletionRuns
  <2>3. QED
    BY <2>1, <2>2 DEF Waiting
<1>2. DelInv /\ [JDNext]_jdVars => [Good]_jdVars
  BY <1>1
<1>3. QED
  BY <1>2, DeletionInvariance, PTL DEF JDSpec, DeletedOrInactive

----------------------------------------------------------------------------
(* What a propose run that succeeds has done *)

\* A report of the proposals of a job, to one node at least.
Sent(R, dom, x) == \E r \in R["propose"] : r.in = [dom |-> dom, job |-> x] /\ r.out # {}

\* Reports of propose-job name nodes, and a report of the sequence stands beside
\* one for each of its jobs (a job without a node is refused, and one that failed
\* denies the sequence its report).
SequencesReported ==
    /\ \A r \in jdReports["propose"] : r.out # {}
    /\ \A r \in jdReports["seq"] :
          r.in.cs = "propose" => \A k \in DOMAIN r.in.items : Sent(jdReports, r.in.dom, r.in.items[k])

\* In a propose run the jobs that no longer wait have been proposed, unless one failed.
ProposeRuns ==
    jdPc # "idle" /\ jdReq.cs = "propose" =>
        /\ jdPc = "item" /\ IsList(items)
        /\ ~failed => \A k \in DOMAIN jdReq.items :
                         Sent(jdReports, jdReq.dom, jdReq.items[k]) \/ Waiting(jdReq.items[k])

ProInv == SequencesReported /\ ProposeRuns

\* What leaves the list with its head is the head only.
LEMMA TailWaits ==
    ASSUME IsList(items), items # <<>>, items' = Tail(items)
    PROVE  /\ IsList(items')
           /\ \A y : Waiting(y) => y = ThisItem \/ Waiting(y)'
<1> DEFINE T == {items[n] : n \in DOMAIN items}
<1>1. items \in Seq(T)
  BY DEF IsList
<1> HIDE DEF T
<1>2. /\ DOMAIN items = 1..Len(items) /\ Len(items) \in Nat \ {0}
      /\ Tail(items) \in Seq(T) /\ DOMAIN Tail(items) = 1..(Len(items) - 1)
      /\ Head(items) = items[1] /\ \A n \in 1..(Len(items) - 1) : Tail(items)[n] = items[n + 1]
  BY <1>1
<1>3. IsList(items')
  BY <1>2, ListOf
<1>4. ASSUME NEW y, NEW n \in DOMAIN items, items[n] = y, y # ThisItem
      PROVE  \E m \in DOMAIN items' : items'[m] = y
  <2>1. n \in 1..Len(items) /\ n # 1
    BY <1>2, <1>4 DEF ThisItem
  <2>2. n - 1 \in 1..(Len(items) - 1) /\ (n - 1) + 1 = n
    BY <1>2, <2>1
  <2>3. items'[n - 1] = items[n] /\ n - 1 \in DOMAIN items'
    BY <1>2, <2>2
  <2>4. QED
    BY <1>4, <2>3
<1>5. QED
  BY <1>3, <1>4 DEF Waiting

\* Reports are added, until a new bundle drops them all.
LEMMA ReportsGrow ==
    ASSUME JDInv, NEW op \in Ops, NEW x, NEW o, JDReport(op, x, o) \/ jdReports' = jdReports
    PROVE  /\ \A q \in Ops : jdReports[q] \subseteq jdReports'[q]
           /\ \A q \in Ops : \A r \in jdReports'[q] :
                 r \in jdReports[q] \/ (q = op /\ r = [in |-> x, out |-> o])
           /\ JDReport(op, x, o) => [in |-> x, out |-> o] \in jdReports'[op]
           /\ \A d, y : Sent(jdReports, d, y) => Sent(jdReports', d, y)
<1>1. DOMAIN jdReports = Ops /\ "propose" \in Ops
  BY DEF JDInv, ProposalsReported, Ops
<1>2. PICK e : e = [in |-> x, out |-> o]
  OBVIOUS
<1>3. jdReports' = [jdReports EXCEPT ![op] = @ \cup {e}] \/ jdReports' = jdReports
  BY <1>2 DEF JDReport
<1>4. \A q \in Ops : jdReports[q] \subseteq jdReports'[q]
  BY <1>1, <1>3
<1>5. \A q \in Ops : \A r \in jdReports'[q] : r \in jdReports[q] \/ (q = op /\ r = e)
  BY <1>1, <1>3
<1>6. JDReport(op, x, o) => e \in jdReports'[op]
  BY <1>1, <1>2 DEF JDReport
<1>7. \A d, y : Sent(jdReports, d, y) => Sent(jdReports', d, y)
  BY <1>1, <1>4 DEF Sent
<1>8. QED
  BY <1>2, <1>4, <1>5, <1>6, <1>7

\* A report of another operation, of proposals to some node, or of a sequence whose
\* jobs are all reported, leaves the reports as they should be.
LEMMA SequenceReportKept ==
    ASSUME JDInv, ProInv, NEW op \in Ops, NEW x, NEW o,
           op = "propose" => o # {},
           op = "seq" /\ x.cs = "propose" => \A k \in DOMAIN x.items : Sent(jdReports, x.dom, x.items[k]),
           JDReport(op, x, o) \/ jdReports' = jdReports
    PROVE  SequencesReported'
<1> PICK e : e = [in |-> x, out |-> o]
  OBVIOUS
<1>1. e.in = x /\ e.out = o
  OBVIOUS
<1>2. {"propose", "seq"} \subseteq Ops
  BY DEF Ops
<1>3. \A q \in Ops : \A r \in jdReports'[q] : r \in jdReports[q] \/ (q = op /\ r = e)
  BY ReportsGrow
<1>4. \A r \in jdReports'["propose"] : r.out # {}
  BY <1>1, <1>2, <1>3 DEF ProInv, SequencesReported
<1>5. \A r \in jdReports'["seq"] :
         r.in.cs = "propose" => \A k \in DOMAIN r.in.items : Sent(jdReports, r.in.dom, r.in.items[k])
  BY <1>1, <1>2, <1>3 DEF ProInv, SequencesReported
<1>6. \A d, y : Sent(jdReports, d, y) => Sent(jdReports', d, y)
  BY ReportsGrow
<1>7. QED
  BY <1>4, <1>5, <1>6 DEF SequencesReported

\* An item that is done with leaves the list: it was proposed, or it has failed.
LEMMA ProposalDone ==
    ASSUME JDInv, ProInv, jdPc = "item", items # <<>>, NextItem,
           \A d, y : Sent(jdReports, d, y) => Sent(jdReports', d, y),
           jdReq.cs = "propose" => failed' \/ (failed' = failed /\ Sent(jdReports', jdReq.dom, ThisItem))
    PROVE  ProposeRuns'
<1> SUFFICES ASSUME jdReq.cs = "propose"
             PROVE  ProposeRuns'
  BY DEF NextItem, ProposeRuns
<1>1. jdPc' = "item" /\ jdReq' = jdReq /\ items' = Tail(items)
  BY DEF NextItem
<1>2. IsList(items)
  BY DEF ProInv, ProposeRuns
<1>3. /\ IsList(items')
      /\ \A y : Waiting(y) => y = ThisItem \/ Waiting(y)'
  BY <1>1, <1>2, TailWaits
<1>4. ASSUME ~failed', NEW k \in DOMAIN jdReq.items
      PROVE  Sent(jdReports', jdReq.dom, jdReq.items[k]) \/ Waiting(jdReq.items[k])'
  <2>1. ~failed /\ Sent(jdReports', jdReq.dom, ThisItem)
    BY <1>4
  <2>2. Sent(jdReports, jdReq.dom, jdReq.items[k]) \/ Waiting(jdReq.items[k])
    BY <2>1 DEF ProInv, ProposeRuns
  <2>3. PICK y : y = jdReq.items[k]
    OBVIOUS
  <2>4. CASE Waiting(y)
    <3>1. y = ThisItem \/ Waiting(y)'
      BY <1>3, <2>4
    <3>2. QED
      BY <1>1, <2>1, <2>3, <3>1
  <2>5. QED
    BY <2>2, <2>3, <2>4
<1>5. QED
  BY <1>1, <1>3, <1>4 DEF ProposeRuns

\* The start of a run: every job waits, or the report of the sequence says that all
\* were proposed.
LEMMA StartPro ==
    ASSUME JDInv, ProInv, NEW i \in JDInputs, JDStart(i)
    PROVE  ProInv'
<1>1. jdReports' = jdReports /\ jdReq' = i /\ failed' = FALSE
  BY DEF JDStart
<1>2. SequencesReported'
  BY <1>1 DEF ProInv, SequencesReported
<1>3. ASSUME i.cs = "propose"
      PROVE  ProposeRuns'
  <2>1. CASE Reported("seq", i) /\ jdPc' = "item" /\ items' = <<>>
    <3>1. \A k \in DOMAIN i.items : Sent(jdReports, i.dom, i.items[k])
      BY <1>3, <2>1 DEF Reported, ProInv, SequencesReported
    <3>2. IsList(items')
      BY <2>1 DEF IsList
    <3>3. QED
      BY <1>1, <2>1, <3>1, <3>2 DEF ProposeRuns
  <2>2. CASE items' = i.items /\ jdPc' = "item"
    <3>1. IsList(items')
      BY <2>2, JDAssumption DEF IsList
    <3>2. \A k \in DOMAIN i.items : \E n \in DOMAIN items' : items'[n] = i.items[k]
      BY <2>2
    <3>3. QED
      BY <1>1, <2>2, <3>1, <3>2 DEF ProposeRuns, Waiting
  <2>3. QED
    BY <1>3, <2>1, <2>2 DEF JDStart
<1>4. ASSUME i.cs # "propose"
      PROVE  ProposeRuns'
  BY <1>1, <1>4 DEF ProposeRuns
<1>5. QED
  BY <1>2, <1>3, <1>4 DEF ProInv

\* A report of proposals is of some node, and stands for the job just done with.
LEMMA ProposePro ==
    ASSUME JDInv, ProInv, OpJDProposeJob
    PROVE  ProInv'
<1> PICK x, N, k : x = ThisItem /\ N = Selected(x) /\ k = OpInput(x)
  OBVIOUS
<1>1. jdPc = "item" /\ items # <<>> /\ NextItem /\ jdReq.cs = "propose"
  BY DEF OpJDProposeJob, Fresh, Item
<1>2. "propose" \in Ops
  BY DEF Ops
<1>3. k = [dom |-> jdReq.dom, job |-> x]
  BY <1>1 DEF OpInput, SeqJDProposeJobs
<1>4. \/ failed' = TRUE /\ jdReports' = jdReports
      \/ N # {} /\ failed' = failed /\ JDReport("propose", k, N)
  BY DEF OpJDProposeJob, Refuse, Answered, ProposeError
<1>5. CASE failed' = TRUE /\ jdReports' = jdReports
  BY <1>1, <1>5, ProposalDone DEF ProInv, SequencesReported
<1>6. CASE N # {} /\ failed' = failed /\ JDReport("propose", k, N)
  <2>1. SequencesReported'
    BY <1>2, <1>6, SequenceReportKept
  <2>2. PICK e : e = [in |-> k, out |-> N]
    OBVIOUS
  <2>3. e \in jdReports'["propose"] /\ e.in = k /\ e.out = N
    BY <1>2, <1>6, <2>2, ReportsGrow
  <2>4. Sent(jdReports', jdReq.dom, ThisItem)
    BY <1>3, <1>6, <2>3 DEF Sent
  <2>5. ProposeRuns'
    BY <1>1, <1>2, <1>6, <2>4, ReportsGrow, ProposalDone
  <2>6. QED
    BY <2>1, <2>5 DEF ProInv
<1>7. QED
  BY <1>4, <1>5, <1>6

\* Every step keeps what propose runs rely on.
LEMMA ProNextInv ==
    ASSUME JDInv, ProInv, [JDNext]_jdVars
    PROVE  ProInv'
<1>1. ASSUME NEW op \in Ops \ {"propose", "seq"}, NEW x, NEW o, JDReport(op, x, o) \/ jdReports' = jdReports
      PROVE  /\ SequencesReported'
             /\ \A d, y : Sent(jdReports, d, y) => Sent(jdReports', d, y)
  <2>1. op \in Ops /\ op # "propose" /\ op # "seq"
    OBVIOUS
  <2>2. SequencesReported'
    BY <1>1, <2>1, SequenceReportKept
  <2>3. QED
    BY <1>1, <2>1, <2>2, ReportsGrow
<1>2. {"register", "update", "disable", "revoke", "delete"} \subseteq Ops \ {"propose", "seq"} /\ "seq" \in Ops
  BY DEF Ops
<1>3. jdReports' = jdReports => SequencesReported'
  BY DEF ProInv, SequencesReported
<1>4. UNCHANGED <<jdPc, jdReq, items, failed, jdReports>> => ProInv'
  BY <1>3 DEF ProInv, ProposeRuns, Waiting
<1>5. ASSUME NEW i \in JDInputs, JDStart(i) PROVE ProInv'
  BY <1>5, StartPro
<1>6. CASE ReuseItem
  <2>1. jdPc = "item" /\ items # <<>> /\ NextItem /\ failed' = failed /\ jdReports' = jdReports
    BY <1>6 DEF ReuseItem
  <2>2. jdReq.cs = "propose" => Sent(jdReports, jdReq.dom, ThisItem)
    BY <1>6 DEF ReuseItem, Reported, OpInput, SeqJDProposeJobs, Sent, ProInv, SequencesReported
  <2>3. ProposeRuns'
    BY <2>1, <2>2, ProposalDone
  <2>4. QED
    BY <1>3, <2>1, <2>3 DEF ProInv
<1>7. CASE OpJDRegisterNode
  <2>1. PICK x, o : JDReport("register", x, o) \/ jdReports' = jdReports
    BY <1>7 DEF OpJDRegisterNode, Answered
  <2>2. jdPc = "item" /\ items # <<>> /\ NextItem /\ jdReq.cs = "register"
    BY <1>7 DEF OpJDRegisterNode, Fresh, Item
  <2>3. SequencesReported'
    BY <1>1, <1>2, <2>1
  <2>4. ProposeRuns'
    BY <1>1, <1>2, <2>1, <2>2, ProposalDone
  <2>5. QED
    BY <2>3, <2>4 DEF ProInv
<1>8. CASE OpJDUpdateNode
  <2>1. PICK x, o : JDReport("update", x, o) \/ jdReports' = jdReports
    BY <1>8 DEF OpJDUpdateNode, Answered, Refuse
  <2>2. jdPc = "item" /\ items # <<>> /\ NextItem /\ jdReq.cs = "update"
    BY <1>8 DEF OpJDUpdateNode, Fresh, Item
  <2>3. SequencesReported'
    BY <1>1, <1>2, <2>1
  <2>4. ProposeRuns'
    BY <1>1, <1>2, <2>1, <2>2, ProposalDone
  <2>5. QED
    BY <2>3, <2>4 DEF ProInv
<1>9. CASE OpJDDisableNode
  <2>1. PICK x, o : JDReport("disable", x, o) \/ jdReports' = jdReports
    BY <1>9 DEF OpJDDisableNode, Answered
  <2>2. jdPc = "item" /\ items # <<>> /\ NextItem /\ jdReq.cs = "disable"
    BY <1>9 DEF OpJDDisableNode, Fresh, Item
  <2>3. SequencesReported'
    BY <1>1, <1>2, <2>1
  <2>4. ProposeRuns'
    BY <1>1, <1>2, <2>1, <2>2, ProposalDone
  <2>5. QED
    BY <2>3, <2>4 DEF ProInv
<1>10. CASE OpJDProposeJob
  BY <1>10, ProposePro
<1>11. CASE OpJDRevokeJob
  <2>1. PICK x, o : JDReport("revoke", x, o) \/ jdReports' = jdReports
    BY <1>11 DEF OpJDRevokeJob, Answered, Refuse
  <2>2. jdPc = "item" /\ items # <<>> /\ NextItem /\ jdReq.cs = "revoke"
    BY <1>11 DEF OpJDRevokeJob, Fresh, Item
  <2>3. SequencesReported'
    BY <1>1, <1>2, <2>1
  <2>4. ProposeRuns'
    BY <1>1, <1>2, <2>1, <2>2, ProposalDone
  <2>5. QED
    BY <2>3, <2>4 DEF ProInv
<1>12. CASE OpJDDeleteJob
  <2>1. PICK x, o : JDReport("delete", x, o) \/ jdReports' = jdReports
    BY <1>12 DEF OpJDDeleteJob, Answered
  <2>2. jdPc = "item" /\ items # <<>> /\ NextItem /\ jdReq.cs = "delete"
    BY <1>12 DEF OpJDDeleteJob, Fresh, Item
  <2>3. SequencesReported'
    BY <1>1, <1>2, <2>1
  <2>4. ProposeRuns'
    BY <1>1, <1>2, <2>1, <2>2, ProposalDone
  <2>5. QED
    BY <2>3, <2>4 DEF ProInv
<1>13. CASE FailItem
  <2>1. jdPc = "item" /\ items # <<>> /\ NextItem /\ failed' = TRUE /\ jdReports' = jdReports
    BY <1>13 DEF FailItem
  <2>2. ProposeRuns'
    BY <2>1, ProposalDone
  <2>3. QED
    BY <1>3, <2>1, <2>2 DEF ProInv
<1>14. CASE SeqJDDeleteJobs
  <2>1. jdPc = "list" /\ jdReq' = jdReq /\ jdReports' = jdReports
    BY <1>14 DEF SeqJDDeleteJobs
  <2>2. jdReq.cs # "propose"
    BY <2>1 DEF ProInv, ProposeRuns
  <2>3. QED
    BY <1>3, <2>1, <2>2 DEF ProInv, ProposeRuns
<1>15. CASE FailList
  BY <1>3, <1>15 DEF FailList, ProInv, ProposeRuns
<1>16. CASE SeqReturns
  <2>1. jdPc = "item" /\ items = <<>> /\ jdPc' = "idle"
    BY <1>16 DEF SeqReturns
  <2>2. jdReq.cs = "propose" /\ ~failed => \A k \in DOMAIN jdReq.items : Sent(jdReports, jdReq.dom, jdReq.items[k])
    BY <2>1 DEF ProInv, ProposeRuns, Waiting
  <2>3. jdReports' = jdReports \/ (~failed /\ JDReport("seq", jdReq, Nothing))
    BY <1>16 DEF SeqReturns
  <2>4. SequencesReported'
    BY <1>2, <1>3, <2>2, <2>3, SequenceReportKept
  <2>5. QED
    BY <2>1, <2>4 DEF ProInv, ProposeRuns
<1>17. ASSUME NEW j \in DOMAIN jobs, NodeAnswers(j) PROVE ProInv'
  BY <1>4, <1>17 DEF NodeAnswers
<1>18. ASSUME NEW n \in DOMAIN nodes, EnableNode(n) PROVE ProInv'
  BY <1>4, <1>18 DEF EnableNode
<1>19. CASE NewJDBundle
  <2>1. SequencesReported'
    BY <1>2, <1>19 DEF NewJDBundle, NoJDReports, SequencesReported, Ops
  <2>2. QED
    BY <1>19, <2>1 DEF NewJDBundle, ProInv, ProposeRuns
<1>20. CASE UNCHANGED jdVars
  BY <1>4, <1>20 DEF jdVars
<1>21. QED
  BY <1>5, <1>6, <1>7, <1>8, <1>9, <1>10, <1>11, <1>12, <1>13, <1>14, <1>15, <1>16, <1>17, <1>18, <1>19, <1>20
     DEF JDNext

\* ProInv holds in every state of the Job Distributor changesets.
THEOREM ProposalInvariance == JDSpec => []ProInv
<1>1. JDInit => ProInv
  BY DEF JDInit, ProInv, SequencesReported, ProposeRuns, NoJDReports, Ops
<1>2. JDInv /\ ProInv /\ [JDNext]_jdVars => ProInv'
  BY ProNextInv
<1>3. QED
  BY <1>1, <1>2, JDInvariance, PTL DEF JDSpec

\* A propose run that succeeds has proposed each of its jobs to some node in this
\* bundle, and every node listed for it has a job of that specification, whatever
\* failed before (OpJDProposeJob, SeqJDProposeJobs).
THEOREM ProposalsLand == JDSpec => ProposedEverywhere
<1> DEFINE made(x) == {r \in jdReports["propose"] : r.in = SeqJDProposeJobs(x)}
           Good == SeqReturns /\ jdReq.cs = "propose" /\ ~failed =>
          \A k \in DOMAIN jdReq.items :
             LET x == jdReq.items[k]
             IN  /\ \E r \in made(x) : r.out # {}
                 /\ \A r \in made(x) : \A n \in r.out :
                       \E j \in DOMAIN jobs : jobs[j].node = n /\ jobs[j].spec = x.spec
<1>1. ASSUME JDInv, ProInv, SeqReturns, jdReq.cs = "propose", ~failed, NEW k \in DOMAIN jdReq.items, NEW x,
             x = jdReq.items[k]
      PROVE  /\ \E r \in made(x) : r.out # {}
             /\ \A r \in made(x) : \A n \in r.out :
                   \E j \in DOMAIN jobs : jobs[j].node = n /\ jobs[j].spec = x.spec
  <2>1. jdPc = "item" /\ items = <<>>
    BY <1>1 DEF SeqReturns
  <2>2. Sent(jdReports, jdReq.dom, x)
    BY <1>1, <2>1 DEF ProInv, ProposeRuns, Waiting
  <2>3. \E r \in made(x) : r.out # {}
    BY <2>2 DEF Sent, SeqJDProposeJobs
  <2>4. ASSUME NEW r \in made(x), NEW n \in r.out
        PROVE  \E j \in DOMAIN jobs : jobs[j].node = n /\ jobs[j].spec = x.spec
    <3>1. r \in jdReports["propose"] /\ r.in.job = x
      BY DEF SeqJDProposeJobs
    <3>2. Landed(n, r.in.job.spec)
      BY <1>1, <3>1 DEF JDInv, ProposalsReported
    <3>3. QED
      BY <3>1, <3>2 DEF Landed
  <2>5. QED
    BY <2>3, <2>4
<1>2. JDInv /\ ProInv => Good
  BY <1>1
<1>3. JDInv /\ ProInv /\ [JDNext]_jdVars => [Good]_jdVars
  BY <1>2
<1>4. QED
  BY <1>3, JDInvariance, ProposalInvariance, PTL DEF JDSpec, ProposedEverywhere

----------------------------------------------------------------------------
(* LINK tokens: what is recorded names a token *)

\* Of an input's tokens, the ones on Solana are LINK tokens.
LEMMA SolanaType ==
    ASSUME NEW j \in InputTokens, OnSolana(j)
    PROVE  j.type = linkTokenTypeAndVersion
<1>1. PICK i \in LinkInputs : j \in TokensOf(i)
  BY DEF InputTokens
<1>2. \/ \E c, t, q : j = Token(c, t, q, NoMint)
      \/ \E c, q, m : j = Token(c, linkTokenTypeAndVersion, q, m)
  BY <1>1 DEF TokensOf
<1>3. ASSUME NEW c, NEW t, NEW q, NEW m PROVE Token(c, t, q, m).mint = m /\ Token(c, t, q, m).type = t
  BY DEF Token
<1>4. QED
  BY <1>2, <1>3 DEF OnSolana

\* The keys of a payment, a Solana token and an EVM token are different.
LEMMA KeysApart ==
    ASSUME NEW i, NEW j, linkTokenKey(i) = linkTokenKey(j)
    PROVE  /\ OnSolana(i) <=> OnSolana(j)
           /\ OnSolana(j) => i.mint = j.mint
           /\ ~OnSolana(j) => i.ch = j.ch /\ i.type = j.type /\ i.qual = j.qual
<1>1. ASSUME NEW a, NEW b, NEW c, NEW d PROVE <<a>> # <<b, c, d>>
  OBVIOUS
<1>2. CASE OnSolana(i) /\ OnSolana(j)
  BY <1>2 DEF linkTokenKey
<1>3. CASE ~OnSolana(i) /\ ~OnSolana(j)
  BY <1>3 DEF linkTokenKey
<1>4. CASE OnSolana(i) /\ ~OnSolana(j)
  BY <1>1, <1>4 DEF linkTokenKey
<1>5. CASE ~OnSolana(i) /\ OnSolana(j)
  BY <1>1, <1>5 DEF linkTokenKey
<1>6. QED
  BY <1>2, <1>3, <1>4, <1>5

\* The key of a payment is no token's.
LEMMA NativeKeyApart ==
    ASSUME NEW p, NEW j
    PROVE  TransferNativeOpsInput(p) # linkTokenKey(j)
<1>1. ASSUME NEW a, NEW b, NEW c, NEW d, NEW e PROVE <<d, e>> # <<a>> /\ <<d, e>> # <<a, b, c>>
  OBVIOUS
<1>2. QED
  BY <1>1 DEF TransferNativeOpsInput, linkTokenKey

\* A token named stays named, for tokens are never removed.
LEMMA NamedStays ==
    ASSUME tokens \subseteq tokens', NEW r, NamesToken(r)
    PROVE  NamesToken(r)'
BY DEF NamesToken, TokenAt

\* A report of a link operation stays true.
LEMMA ReportStays ==
    ASSUME tokens \subseteq tokens', NEW r, NEW j, LinkReport(r, j)
    PROVE  LinkReport(r, j)'
BY DEF LinkReport, TokenAt

\* What is recorded names tokens exactly when each ref does.
LEMMA RecordedNames == RecordedTokens <=> \A r \in refs : NamesToken(r)
BY DEF RecordedTokens, NamesToken, TokenAt

\* A step that adds tokens, and changes nothing else but to end the run, keeps it.
LEMMA LinkStays ==
    ASSUME LinkInv, tokens \subseteq tokens', refs' = refs, tkReports' \subseteq tkReports,
           tkTodo' \subseteq tkTodo, tkOut' \subseteq tkOut, tkPc' = tkPc \/ tkTodo' = {}
    PROVE  LinkInv'
<1>1. (\A r \in refs : NamesToken(r))'
  BY NamedStays, RecordedNames DEF LinkInv
<1>2. RecordedTokens'
  BY <1>1 DEF RecordedTokens, NamesToken, TokenAt
<1>3. RunNames'
  <2>1. \A r \in tkOut' : NamesToken(r)'
    BY NamedStays DEF LinkInv, RunNames
  <2>2. (tkTodo' # {} => tkPc' = "link") /\ tkTodo' \subseteq InputTokens
    BY DEF LinkInv, RunNames
  <2>3. QED
    BY <2>1, <2>2 DEF RunNames
<1>4. LinkReports'
  BY ReportStays DEF LinkInv, LinkReports
<1>5. QED
  BY <1>2, <1>3, <1>4 DEF LinkInv

\* A token that is saved is named by its new ref; those saved before stay named.
LEMMA SaveNames ==
    ASSUME LinkInv, tokens \subseteq tokens', refs' = refs, tkPc' = tkPc, NEW j, NEW a, saveAddressRef(j, a),
           SharedMint(a) \/ TokenAt(j.ch, j.type, a)',
           LinkReports'
    PROVE  LinkInv'
<1> DEFINE e == [ch |-> j.ch, type |-> j.type, qual |-> j.qual, addr |-> a]
<1>1. tkOut' = tkOut \cup {e} /\ tkTodo' \subseteq tkTodo
  BY DEF saveAddressRef
<1>2. NamesToken(e)'
  BY DEF NamesToken
<1> HIDE DEF e
<1>3. (\A r \in refs : NamesToken(r))'
  BY NamedStays, RecordedNames DEF LinkInv
<1>4. RecordedTokens'
  BY <1>3 DEF RecordedTokens, NamesToken, TokenAt
<1>5. \A r \in tkOut' : NamesToken(r)'
  BY <1>1, <1>2, NamedStays DEF LinkInv, RunNames
<1>6. RunNames'
  BY <1>1, <1>5 DEF RunNames, LinkInv
<1>7. QED
  BY <1>4, <1>6 DEF LinkInv

\* A reused report names the token it was made for, or one of the same mint key.
LEMMA ReuseNames ==
    ASSUME LinkInv, NEW j \in tkTodo, ReuseLink(j)
    PROVE  LinkInv'
<1>1. PICK r \in tkReports : r.k = linkTokenKey(j) /\ TkOutput(linkTokenKey(j)) = r.out
  BY DEF ReuseLink, TkReusable, TkOutput
<1>2. PICK i \in InputTokens : LinkReport(r, i)
  <2>1. \A p \in Payments : r.k # TransferNativeOpsInput(p)
    BY <1>1, NativeKeyApart
  <2>2. QED
    BY <2>1 DEF LinkInv, LinkReports
<1>3. linkTokenKey(i) = linkTokenKey(j)
  BY <1>1, <1>2 DEF LinkReport
<1>4. j \in InputTokens
  BY DEF LinkInv, RunNames
<1>5. SharedMint(r.out) \/ TokenAt(j.ch, j.type, r.out)
  <2>1. CASE ~OnSolana(j)
    BY <1>2, <1>3, <2>1, KeysApart DEF LinkReport
  <2>2. CASE OnSolana(j) /\ i.ch = j.ch
    <3>1. OnSolana(i)
      BY <1>3, <2>2, KeysApart
    <3>2. i.type = j.type
      BY <1>4, <2>2, <3>1, SolanaType
    <3>3. QED
      BY <1>2, <2>2, <3>2 DEF LinkReport
  <2>3. CASE OnSolana(j) /\ i.ch # j.ch
    <3>1. OnSolana(i) /\ i.mint = j.mint /\ r.out = i.mint
      BY <1>2, <1>3, <2>3, KeysApart DEF LinkReport
    <3>2. PICK a, b \in LinkInputs : i \in TokensOf(a) /\ j \in TokensOf(b)
      BY <1>4 DEF InputTokens
    <3>3. SharedMint(r.out)
      BY <2>3, <3>1, <3>2 DEF SharedMint
    <3>4. QED
      BY <3>3
  <2>4. QED
    BY <2>1, <2>2, <2>3
<1>6. UNCHANGED <<tokens, refs, tkPc, tkReports>> /\ saveAddressRef(j, r.out)
  BY <1>1 DEF ReuseLink
<1>7. LinkReports'
  BY <1>6, ReportStays DEF LinkInv, LinkReports
<1>8. (SharedMint(r.out) \/ TokenAt(j.ch, j.type, r.out))'
  BY <1>5, <1>6 DEF TokenAt
<1>9. QED
  BY <1>6, <1>7, <1>8, SaveNames

\* A token that is created exists, and the others stay.
LEMMA CreatedExists ==
    ASSUME NEW j, NEW a, a = AddressOf(j), CreateToken(j)
    PROVE  tokens \subseteq tokens' /\ TokenAt(j.ch, j.type, a)' /\ (OnSolana(j) => a = j.mint)
<1>1. tokens' = tokens \cup {[ch |-> j.ch, type |-> j.type, addr |-> a]}
  BY DEF CreateToken
<1>2. OnSolana(j) => a = j.mint
  BY DEF AddressOf
<1>3. QED
  BY <1>1, <1>2 DEF TokenAt

\* Deploying by an operation records and reports the address of the new token.
LEMMA DeployNames ==
    ASSUME LinkInv, NEW j \in tkTodo, DeployByOperation(j)
    PROVE  LinkInv'
<1>1. PICK a, k : a = AddressOf(j) /\ k = linkTokenKey(j)
  OBVIOUS
<1>2. CreateToken(j) /\ saveAddressRef(j, a) /\ TkReport(k, a) /\ UNCHANGED <<refs, tkPc>>
  BY <1>1 DEF DeployByOperation
<1>3. tokens \subseteq tokens' /\ TokenAt(j.ch, j.type, a)' /\ (OnSolana(j) => a = j.mint)
  BY <1>1, <1>2, CreatedExists
<1>4. j \in InputTokens
  BY DEF LinkInv, RunNames
<1>5. LinkReports'
  <2> DEFINE e == [k |-> k, out |-> a]
  <2>1. tkReports' = tkReports \cup {e}
    BY <1>2 DEF TkReport
  <2>2. LinkReport(e, j)'
    BY <1>1, <1>3 DEF LinkReport
  <2> HIDE DEF e
  <2>3. QED
    BY <1>3, <1>4, <2>1, <2>2, ReportStays DEF LinkInv, LinkReports
<1>6. QED
  BY <1>2, <1>3, <1>5, SaveNames

\* Deploying without operations records the address of the new token.
LEMMA DirectNames ==
    ASSUME LinkInv, NEW j \in tkTodo, NEW cs, DeployDirectly(j, cs)
    PROVE  LinkInv'
<1>1. PICK a : a = AddressOf(j)
  OBVIOUS
<1>2. CreateToken(j) /\ saveAddressRef(j, a) /\ UNCHANGED <<refs, tkPc, tkReports>>
  BY <1>1 DEF DeployDirectly
<1>3. tokens \subseteq tokens' /\ TokenAt(j.ch, j.type, a)'
  BY <1>1, <1>2, CreatedExists
<1>4. LinkReports'
  BY <1>2, <1>3, ReportStays DEF LinkInv, LinkReports
<1>5. QED
  BY <1>2, <1>3, <1>4, SaveNames

\* A deployment that fails may have created its token, and is not recorded.
LEMMA FailLinkNames ==
    ASSUME LinkInv, NEW j \in tkTodo, FailLink(j)
    PROVE  LinkInv'
<1>1. tokens \subseteq tokens'
  BY DEF FailLink, CreateToken
<1>2. refs' = refs /\ tkReports' = tkReports
  BY DEF FailLink
<1>3. tkTodo' \subseteq tkTodo
  BY DEF FailLink
<1>4. tkOut' \subseteq tkOut /\ (tkPc' = tkPc \/ tkTodo' = {})
  BY DEF FailLink, LinkFails
<1>5. QED
  BY <1>1, <1>2, <1>3, <1>4, LinkStays

\* What a run has put out is recorded, and what it does not replace stays.
LEMMA ReturnsNames ==
    ASSUME LinkInv, DeployLinkTokenReturns
    PROVE  LinkInv'
<1>1. /\ UNCHANGED <<tokens, tkTodo, tkReports>> /\ tkTodo = {} /\ tkOut' = {}
      /\ refs' \subseteq refs \cup tkOut
  BY DEF DeployLinkTokenReturns, Recorded
<1>2. \A r \in refs \cup tkOut : NamesToken(r)
  BY RecordedNames DEF LinkInv, RunNames
<1>3. \A r \in refs' : NamesToken(r)'
  BY <1>1, <1>2, NamedStays
<1>4. RecordedTokens'
  BY <1>3 DEF RecordedTokens, NamesToken, TokenAt
<1>5. RunNames' /\ LinkReports'
  BY <1>1, ReportStays DEF LinkInv, LinkReports, RunNames
<1>6. QED
  BY <1>4, <1>5 DEF LinkInv

\* A run begins with the tokens of its input.
LEMMA LinkStartNames ==
    ASSUME LinkInv, NEW i \in LinkInputs, LinkStart(i)
    PROVE  LinkInv'
<1>1. UNCHANGED <<tokens, refs, tkReports>> /\ tkTodo' = TokensOf(i) /\ tkOut' = {} /\ tkPc' = "link"
  BY DEF LinkStart
<1>2. TokensOf(i) \subseteq InputTokens
  BY DEF InputTokens
<1>3. RecordedTokens'
  BY <1>1 DEF LinkInv, RecordedTokens
<1>4. RunNames'
  BY <1>1, <1>2 DEF RunNames
<1>5. LinkReports'
  BY <1>1, ReportStays DEF LinkInv, LinkReports
<1>6. QED
  BY <1>3, <1>4, <1>5 DEF LinkInv

\* The report of a payment is no report of a link operation.
LEMMA ConfirmNames ==
    ASSUME LinkInv, tkReq \in Payments, Confirm
    PROVE  LinkInv'
<1>1. UNCHANGED <<tokens, refs, tkTodo, tkOut>> /\ tkPc = "confirm"
  BY DEF Confirm, links
<1>2. PICK k : k = TransferNativeOpsInput(tkReq)
  OBVIOUS
<1>3. tkReports' = tkReports \cup {[k |-> k, out |-> NoMint]}
  BY <1>2 DEF Confirm, TkReport
<1>4. RecordedTokens'
  BY <1>1 DEF LinkInv, RecordedTokens
<1>5. RunNames'
  BY <1>1, NamedStays DEF LinkInv, RunNames
<1>6. LinkReports'
  <2>1. PICK p \in Payments : k = TransferNativeOpsInput(p)
    BY <1>2
  <2>2. QED
    BY <1>1, <1>3, <2>1, ReportStays DEF LinkInv, LinkReports
<1>7. QED
  BY <1>4, <1>5, <1>6 DEF LinkInv

\* The steps that deploy and record no token.
LEMMA QuietNames ==
    ASSUME LinkInv, UNCHANGED links, tkReports' \subseteq tkReports, tkPc' = tkPc \/ tkPc # "link"
    PROVE  LinkInv'
<1>1. UNCHANGED <<tokens, refs, tkTodo, tkOut>>
  BY DEF links
<1>2. tkPc' = tkPc \/ tkTodo' = {}
  BY <1>1 DEF LinkInv, RunNames
<1>3. QED
  BY <1>1, <1>2, LinkStays

----------------------------------------------------------------------------
(* Native payments: a second payment follows a lost confirmation *)

\* A report once made is found as long as no report is dropped.
LEMMA ReusableStays ==
    ASSUME tkReports \subseteq tkReports', NEW k, TkReusable(k)
    PROVE  TkReusable(k)'
BY DEF TkReusable

\* What was settled stays settled in the bundle, but for the transaction awaited.
LEMMA SettledStays ==
    ASSUME NEW t, Settled(t), lost \subseteq lost', tkReports \subseteq tkReports', tkBundles' = tkBundles,
           tkPc = "confirm" /\ t = tx => Settled(t)'
    PROVE  Settled(t)'
<1>1. ASSUME NEW p \in Payments, p.ch = t.ch, p.to = t.to, p.amount = t.amount, t.bundle = tkBundles,
             TkReusable(TransferNativeOpsInput(p))
      PROVE  Settled(t)'
  <2>1. PICK k : k = TransferNativeOpsInput(p)
    OBVIOUS
  <2>2. TkReusable(k)'
    BY <1>1, <2>1, ReusableStays
  <2>3. TkReusable(TransferNativeOpsInput(p))'
    BY <2>1, <2>2 DEF TransferNativeOpsInput
  <2>4. QED
    BY <1>1, <2>3 DEF Settled
<1>2. CASE t.run \in lost
  BY <1>2 DEF Settled
<1>3. CASE t.bundle \in 0..(tkBundles - 1)
  BY <1>3 DEF Settled
<1>4. QED
  BY <1>1, <1>2, <1>3 DEF Settled

\* A step that mines nothing and puts nothing new in flight keeps the invariant as
\* far as the run and what was sent do.
LEMMA NativeKeeps ==
    ASSUME NativeInv, mined' = mined, lost \subseteq lost', InFlight' \subseteq InFlight,
           PayingWhole', AllSettled'
    PROVE  NativeInv'
<1>1. OnChain' = OnChain
  BY DEF OnChain
<1>2. ChainWhole'
  BY DEF NativeInv, ChainWhole
<1>3. FlightWhole'
  BY DEF NativeInv, FlightWhole
<1>4. LostBefore'
  BY <1>1 DEF NativeInv, LostBefore, SamePayment
<1>5. PaidTwiceOnlyIfLost'
  BY DEF NativeInv, PaidTwiceOnlyIfLost
<1>6. QED
  BY <1>2, <1>3, <1>4, <1>5 DEF NativeInv

\* Steps beside the payments: they may add reports.
LEMMA BesideKeeps ==
    ASSUME NativeInv, UNCHANGED <<natives, tkBundles>>, ~Paying, ~Paying', tkReports \subseteq tkReports'
    PROVE  NativeInv'
<1>1. mined' = mined /\ lost' = lost /\ mempool' = mempool /\ tkBundles' = tkBundles
  BY DEF natives
<1>2. tkPc \notin {"send", "confirm"} /\ tkPc' \notin {"send", "confirm"}
  BY DEF Paying
<1>3. InFlight' \subseteq InFlight
  BY <1>1, <1>2 DEF InFlight
<1>4. PayingWhole'
  BY <1>1, <1>2 DEF NativeInv, PayingWhole
<1>5. AllSettled'
  <2>1. mempool' \cup OnChain' = mempool \cup OnChain
    BY <1>1 DEF OnChain
  <2>2. ASSUME NEW t \in mempool \cup OnChain PROVE Settled(t)'
    BY <1>1, <1>2, SettledStays DEF NativeInv, AllSettled
  <2>3. QED
    BY <2>1, <2>2 DEF AllSettled
<1>6. QED
  BY <1>1, <1>3, <1>4, <1>5, NativeKeeps

\* The payment begins when its report is not found.
LEMMA TransferKeeps ==
    ASSUME NativeInv, NEW p \in Payments, TransferNative(p)
    PROVE  NativeInv'
<1>1. tkPc = "idle" /\ UNCHANGED <<natives, tkReports, tkBundles>>
  BY DEF TransferNative
<1>2. CASE UNCHANGED <<tkPc, tkReq>>
  BY <1>1, <1>2, BesideKeeps DEF Paying
<1>3. CASE ~TkReusable(TransferNativeOpsInput(p)) /\ tkPc' = "nonce" /\ tkReq' = p
  <2>1. mined' = mined /\ lost' = lost /\ mempool' = mempool /\ tkBundles' = tkBundles
    BY <1>1 DEF natives
  <2>2. InFlight' \subseteq InFlight
    BY <1>3, <2>1 DEF InFlight
  <2>3. PayingWhole'
    <3>1. ~TkReusable(TransferNativeOpsInput(tkReq))'
      BY <1>1, <1>3 DEF TkReusable, TransferNativeOpsInput
    <3>2. QED
      BY <1>3, <2>1, <3>1 DEF NativeInv, PayingWhole
  <2>4. AllSettled'
    <3>1. mempool' \cup OnChain' = mempool \cup OnChain
      BY <2>1 DEF OnChain
    <3>2. ASSUME NEW t \in mempool \cup OnChain PROVE Settled(t)'
      BY <1>1, <2>1, SettledStays DEF NativeInv, AllSettled
    <3>3. QED
      BY <3>1, <3>2 DEF AllSettled
  <2>5. QED
    BY <2>1, <2>2, <2>3, <2>4, NativeKeeps
<1>4. QED
  BY <1>2, <1>3 DEF TransferNative

\* The mined transactions of the payment were lost sight of when it is made again:
\* its run found no report of them in the bundle.
LEMMA ReadNonceKeeps ==
    ASSUME NativeInv, ReadNonce
    PROVE  NativeInv'
<1>1. /\ tkPc = "nonce" /\ tkPc' = "send" /\ tkReq \in Payments
      /\ UNCHANGED <<tkReq, mempool, mined, lost, tkReports, tkBundles>>
      /\ tx' = [ch |-> tkReq.ch, to |-> tkReq.to, amount |-> tkReq.amount, nonce |-> NonceAt(tkReq.ch),
                run |-> tkRuns, bundle |-> tkBundles, seen |-> Len(mined[tkReq.ch])]
  BY DEF ReadNonce, NativeInv, PayingWhole, Paying
<1>2. /\ tx'.ch = tkReq.ch /\ tx'.to = tkReq.to /\ tx'.amount = tkReq.amount /\ tx'.bundle = tkBundles
      /\ tx'.nonce = Len(mined[tkReq.ch]) /\ tx'.seen = tx'.nonce
  BY <1>1 DEF NonceAt
<1>3. tkReq.ch \in EVMChains
  BY <1>1, TokensAssumption
<1>4. Len(mined[tkReq.ch]) \in Nat
  BY <1>3 DEF NativeInv, ChainWhole
<1>5. InFlight' \subseteq mempool \cup {tx'} /\ mempool \subseteq InFlight
  BY <1>1 DEF InFlight
<1>6. OnChain' = OnChain
  BY <1>1 DEF OnChain
<1>7. ChainWhole'
  BY <1>1 DEF NativeInv, ChainWhole
<1>8. FlightWhole'
  <2>1. \A t \in mempool : t.ch \in EVMChains /\ t.nonce \in Nat /\ t.seen = t.nonce /\ t.nonce <= Len(mined[t.ch])
    BY <1>5 DEF NativeInv, FlightWhole
  <2>2. tx'.ch \in EVMChains /\ tx'.nonce \in Nat /\ tx'.seen = tx'.nonce /\ tx'.nonce <= Len(mined[tx'.ch])
    BY <1>2, <1>3, <1>4
  <2>3. QED
    BY <1>1, <1>5, <2>1, <2>2 DEF FlightWhole
<1>9. PayingWhole'
  <2>1. ~TkReusable(TransferNativeOpsInput(tkReq))'
    BY <1>1 DEF TkReusable, TransferNativeOpsInput, NativeInv, PayingWhole, Paying
  <2>2. QED
    BY <1>1, <1>2, <2>1 DEF NativeInv, PayingWhole
<1>10. AllSettled'
  <2>1. ASSUME NEW t \in mempool \cup OnChain PROVE Settled(t)'
    BY <1>1, SettledStays DEF NativeInv, AllSettled
  <2>2. QED
    BY <1>1, <1>6, <2>1 DEF AllSettled
<1>11. LostBefore'
  <2>1. ASSUME NEW t \in OnChain, NEW u \in InFlight', t.ch = u.ch, t.to = u.to, t.amount = u.amount,
               t.bundle = u.bundle, t.nonce < u.nonce
        PROVE  t.run \in lost
    <3>1. CASE u \in mempool
      BY <1>5, <2>1, <3>1 DEF NativeInv, LostBefore, SamePayment
    <3>2. CASE u = tx'
      <4>1. Settled(t)
        BY DEF NativeInv, AllSettled
      <4>2. ASSUME NEW p \in Payments, p.ch = t.ch, p.to = t.to, p.amount = t.amount
            PROVE  ~TkReusable(TransferNativeOpsInput(p))
        <5>1. p = tkReq
          <6>1. /\ p = [ch |-> p.ch, to |-> p.to, amount |-> p.amount]
                /\ tkReq = [ch |-> tkReq.ch, to |-> tkReq.to, amount |-> tkReq.amount]
            BY <1>1, TokensAssumption
          <6>2. QED
            BY <1>2, <2>1, <3>2, <4>2, <6>1
        <5>2. QED
          BY <1>1, <5>1 DEF NativeInv, PayingWhole, Paying
      <4>3. t.bundle = tkBundles /\ tkBundles \in Nat
        BY <1>2, <2>1, <3>2 DEF NativeInv, PayingWhole
      <4>4. QED
        BY <1>1, <4>1, <4>2, <4>3 DEF Settled
    <3>3. QED
      BY <1>5, <3>1, <3>2
  <2>2. QED
    BY <1>1, <1>6, <2>1 DEF LostBefore, SamePayment
<1>12. PaidTwiceOnlyIfLost'
  BY <1>1 DEF NativeInv, PaidTwiceOnlyIfLost
<1>13. QED
  BY <1>7, <1>8, <1>9, <1>10, <1>11, <1>12 DEF NativeInv

\* What is sent is awaited.
LEMMA SendKeeps ==
    ASSUME NativeInv, TransferNativeOp
    PROVE  NativeInv'
<1>1. /\ tkPc = "send" /\ tkPc' = "confirm" /\ mempool' = mempool \cup {tx}
      /\ UNCHANGED <<tkReq, tx, mined, lost, tkReports, tkBundles>>
  BY DEF TransferNativeOp
<1>2. InFlight' \subseteq InFlight
  BY <1>1 DEF InFlight
<1>3. PayingWhole'
  <2>1. ~TkReusable(TransferNativeOpsInput(tkReq))'
    BY <1>1 DEF TkReusable, TransferNativeOpsInput, NativeInv, PayingWhole, Paying
  <2>2. QED
    BY <1>1, <2>1 DEF NativeInv, PayingWhole, Paying
<1>4. AllSettled'
  <2>1. ASSUME NEW t \in mempool \cup OnChain PROVE Settled(t)'
    BY <1>1, SettledStays DEF NativeInv, AllSettled
  <2>2. Settled(tx)'
    BY <1>1 DEF Settled, NativeInv, PayingWhole
  <2>3. mempool' \cup OnChain' = (mempool \cup OnChain) \cup {tx}
    BY <1>1 DEF OnChain
  <2>4. tx' = tx
    BY <1>1
  <2>5. \A t \in mempool' \cup OnChain' : Settled(t)'
    <3>1. PICK u : u = tx
      OBVIOUS
    <3>2. Settled(u)'
      BY <2>2, <2>4, <3>1 DEF Settled
    <3>3. QED
      BY <2>1, <2>3, <3>1, <3>2
  <2>6. QED
    BY <2>5 DEF AllSettled
<1>5. QED
  BY <1>1, <1>2, <1>3, <1>4, NativeKeeps

\* A transaction that was refused is not in flight.
LEMMA RefusedKeeps ==
    ASSUME NativeInv, SendRefused
    PROVE  NativeInv'
<1>1. tkPc = "send" /\ tkPc' = "idle" /\ UNCHANGED <<tx, mempool, mined, lost, tkReports, tkBundles>>
  BY DEF SendRefused, TkEnd, natives
<1>2. InFlight' \subseteq InFlight
  BY <1>1 DEF InFlight
<1>3. PayingWhole'
  BY <1>1 DEF NativeInv, PayingWhole, Paying
<1>4. AllSettled'
  <2>1. ASSUME NEW t \in mempool \cup OnChain PROVE Settled(t)'
    BY <1>1, SettledStays DEF NativeInv, AllSettled
  <2>2. QED
    BY <1>1, <2>1 DEF AllSettled, OnChain
<1>5. QED
  BY <1>1, <1>2, <1>3, <1>4, NativeKeeps

\* A confirmed transaction is reported in its bundle.
LEMMA ConfirmKeeps ==
    ASSUME NativeInv, Confirm
    PROVE  NativeInv'
<1>1. PICK p : p = tkReq
  OBVIOUS
<1>2. /\ tkPc = "confirm" /\ tkPc' = "idle" /\ UNCHANGED <<tx, mempool, mined, lost, tkBundles>>
      /\ tkReports' = tkReports \cup {[k |-> TransferNativeOpsInput(p), out |-> NoMint]}
  BY <1>1 DEF Confirm, TkEnd, natives, TkReport
<1>3. InFlight' \subseteq InFlight
  BY <1>2 DEF InFlight
<1>4. PayingWhole'
  BY <1>2 DEF NativeInv, PayingWhole, Paying
<1>5. p \in Payments /\ tx.ch = p.ch /\ tx.to = p.to /\ tx.amount = p.amount /\ tx.bundle = tkBundles
  BY <1>1, <1>2 DEF NativeInv, PayingWhole, Paying
<1>6. TkReusable(TransferNativeOpsInput(p))'
  <2>1. PICK e : e = [k |-> TransferNativeOpsInput(p), out |-> NoMint]
    OBVIOUS
  <2>2. e \in tkReports' /\ e.k = TransferNativeOpsInput(p)
    BY <1>2, <2>1
  <2>3. QED
    BY <2>2 DEF TkReusable, TransferNativeOpsInput
<1>7. ASSUME NEW t \in mempool \cup OnChain PROVE Settled(t)'
  <2>1. ASSUME t = tx PROVE Settled(t)'
    BY <1>2, <1>5, <1>6, <2>1 DEF Settled
  <2>2. QED
    BY <1>2, <2>1, SettledStays DEF NativeInv, AllSettled
<1>8. AllSettled'
  BY <1>2, <1>7 DEF AllSettled, OnChain
<1>9. QED
  BY <1>2, <1>3, <1>4, <1>8, NativeKeeps

\* A transaction whose confirmation did not come is lost sight of.
LEMMA ConfirmFailsKeeps ==
    ASSUME NativeInv, ConfirmFails
    PROVE  NativeInv'
<1>1. /\ tkPc = "confirm" /\ tkPc' = "idle" /\ UNCHANGED <<tx, mempool, mined, tkReports, tkBundles>>
      /\ lost' = lost \cup {tx.run}
  BY DEF ConfirmFails, TkEnd
<1>2. InFlight' \subseteq InFlight
  BY <1>1 DEF InFlight
<1>3. PayingWhole'
  BY <1>1 DEF NativeInv, PayingWhole, Paying
<1>4. ASSUME NEW t \in mempool \cup OnChain PROVE Settled(t)'
  <2>1. ASSUME t = tx PROVE Settled(t)'
    BY <1>1, <2>1 DEF Settled
  <2>2. QED
    BY <1>1, <2>1, SettledStays DEF NativeInv, AllSettled
<1>5. AllSettled'
  BY <1>1, <1>4 DEF AllSettled, OnChain
<1>6. QED
  BY <1>1, <1>2, <1>3, <1>5, NativeKeeps

\* A new bundle leaves the payments of earlier bundles behind.
LEMMA NewBundleKeeps ==
    ASSUME NativeInv, NewTkBundle
    PROVE  NativeInv'
<1>1. tkPc = "idle" /\ UNCHANGED <<tkPc, tx, mempool, mined, lost>> /\ tkBundles' = tkBundles + 1
  BY DEF NewTkBundle, natives
<1>2. tkBundles \in Nat
  BY DEF NativeInv, PayingWhole
<1>3. InFlight' \subseteq InFlight
  BY <1>1 DEF InFlight
<1>4. PayingWhole'
  BY <1>1, <1>2 DEF PayingWhole, Paying
<1>5. ASSUME NEW t \in mempool \cup OnChain PROVE Settled(t)'
  <2>1. Settled(t)
    BY DEF NativeInv, AllSettled
  <2>2. t.run \in lost \/ t.bundle \in 0..(tkBundles - 1) \/ t.bundle = tkBundles
    BY <1>1, <2>1 DEF Settled
  <2>3. t.run \in lost \/ t.bundle \in 0..(tkBundles' - 1)
    BY <1>1, <1>2, <2>2
  <2>4. QED
    BY <1>1, <2>3 DEF Settled
<1>6. AllSettled'
  BY <1>1, <1>5 DEF AllSettled, OnChain
<1>7. QED
  BY <1>1, <1>3, <1>4, <1>6, NativeKeeps

\* Where the transactions of a chain are.
LEMMA ChainParts ==
    ASSUME NativeInv, NEW c \in EVMChains
    PROVE  IsList(mined[c]) /\ \A n \in DOMAIN mined[c] :
              /\ mined[c][n] \in OnChain
              /\ mined[c][n].nonce = n - 1 /\ mined[c][n].seen = n - 1 /\ mined[c][n].ch = c
<1>1. IsList(mined[c])
  BY DEF NativeInv, ChainWhole, IsList
<1>2. \A n \in DOMAIN mined[c] : mined[c][n].nonce = n - 1 /\ mined[c][n].seen = n - 1 /\ mined[c][n].ch = c
  BY DEF NativeInv, ChainWhole
<1>3. \A n \in DOMAIN mined[c] : mined[c][n] \in OnChain
  BY DEF OnChain
<1>4. QED
  BY <1>1, <1>2, <1>3

\* A chain that mines a transaction has it at the end, at its nonce.
LEMMA MineWhole ==
    ASSUME NativeInv, NEW t \in mempool, Mine(t)
    PROVE  /\ t.ch \in EVMChains /\ t.nonce = Len(mined[t.ch]) /\ t.nonce \in Nat /\ t.seen = t.nonce
           /\ DOMAIN mined' = EVMChains
           /\ \A c \in EVMChains : c # t.ch => mined'[c] = mined[c]
           /\ IsList(mined'[t.ch])
           /\ DOMAIN mined'[t.ch] = 1..(t.nonce + 1) /\ DOMAIN mined[t.ch] = 1..t.nonce
           /\ Len(mined'[t.ch]) = t.nonce + 1
           /\ \A n \in 1..t.nonce : mined'[t.ch][n] = mined[t.ch][n]
           /\ mined'[t.ch][t.nonce + 1] = t
<1>1. t \in InFlight
  BY DEF InFlight
<1>2. t.ch \in EVMChains /\ t.nonce \in Nat /\ t.seen = t.nonce
  BY <1>1 DEF NativeInv, FlightWhole
<1>3. t.nonce = Len(mined[t.ch]) /\ mined' = [mined EXCEPT ![t.ch] = Append(@, t)]
  BY DEF Mine
<1>4. DOMAIN mined = EVMChains
  BY DEF NativeInv, ChainWhole
<1>5. PICK s, r : s = mined[t.ch] /\ r = mined'[t.ch] /\ r = Append(s, t)
  BY <1>2, <1>3, <1>4
<1>6. IsList(s)
  BY <1>2, <1>5 DEF NativeInv, ChainWhole, IsList
<1>7. IsList(r)
  BY <1>5, <1>6, AppendWhole
<1>8. DOMAIN r = 1..(Len(s) + 1)
  BY <1>5, <1>6, AppendWhole
<1>9. \A n \in DOMAIN s : r[n] = s[n]
  BY <1>5, <1>6, AppendWhole
<1>10. r[Len(s) + 1] = t
  BY <1>5, <1>6, AppendWhole
<1>11. DOMAIN s = 1..Len(s) /\ Len(s) = t.nonce
  BY <1>3, <1>5, <1>6, ListIds
<1>12. Len(r) = t.nonce + 1
  BY <1>2, <1>7, <1>8, <1>11, ListIds DEF IsList
<1>13. DOMAIN mined' = EVMChains /\ \A c \in EVMChains : c # t.ch => mined'[c] = mined[c]
  BY <1>3, <1>4
<1>14. QED
  BY <1>2, <1>3, <1>5, <1>7, <1>8, <1>9, <1>10, <1>11, <1>12, <1>13

\* Mining puts a transaction behind those whose confirmation was lost: whatever is
\* still in flight read its nonce before.
LEMMA MineKeeps ==
    ASSUME NativeInv, NEW t \in mempool, Mine(t)
    PROVE  NativeInv'
<1>1. /\ t.ch \in EVMChains /\ t.nonce = Len(mined[t.ch]) /\ t.nonce \in Nat /\ t.seen = t.nonce
      /\ DOMAIN mined' = EVMChains
      /\ \A c \in EVMChains : c # t.ch => mined'[c] = mined[c]
      /\ IsList(mined'[t.ch])
      /\ DOMAIN mined'[t.ch] = 1..(t.nonce + 1) /\ DOMAIN mined[t.ch] = 1..t.nonce
      /\ Len(mined'[t.ch]) = t.nonce + 1
      /\ \A n \in 1..t.nonce : mined'[t.ch][n] = mined[t.ch][n]
      /\ mined'[t.ch][t.nonce + 1] = t
  BY MineWhole
<1>2. UNCHANGED <<tkPc, tkReq, tx, lost, tkReports, tkBundles>> /\ mempool' \subseteq mempool
  BY DEF Mine
<1>3. InFlight' \subseteq InFlight
  BY <1>2 DEF InFlight
<1>4. OnChain' \subseteq OnChain \cup {t}
  <2>1. ASSUME NEW c \in EVMChains, NEW n \in DOMAIN mined'[c]
        PROVE  mined'[c][n] = t \/ (n \in DOMAIN mined[c] /\ mined'[c][n] = mined[c][n])
    BY <1>1
  <2>2. QED
    BY <2>1 DEF OnChain
<1>5. ChainWhole'
  <2>1. ASSUME NEW c \in EVMChains
        PROVE  /\ IsList(mined'[c])
               /\ \A n \in DOMAIN mined'[c] : mined'[c][n].nonce = n - 1 /\ mined'[c][n].seen = n - 1
                                                /\ mined'[c][n].ch = c
    <3>1. ASSUME NEW n \in DOMAIN mined'[c]
          PROVE  mined'[c][n].nonce = n - 1 /\ mined'[c][n].seen = n - 1 /\ mined'[c][n].ch = c
      <4>1. CASE n \in DOMAIN mined[c] /\ mined'[c][n] = mined[c][n]
        BY <4>1, ChainParts
      <4>2. CASE c = t.ch /\ n = t.nonce + 1
        BY <1>1, <4>2
      <4>3. QED
        BY <1>1, <4>1, <4>2
    <3>2. IsList(mined'[c])
      BY <1>1, ChainParts
    <3>3. QED
      BY <3>1, <3>2
  <2>2. QED
    BY <1>1, <2>1 DEF ChainWhole, IsList
<1>6. \A c \in EVMChains : Len(mined[c]) \in Nat /\ Len(mined'[c]) \in Nat /\ Len(mined[c]) <= Len(mined'[c])
  <2>1. \A c \in EVMChains : Len(mined[c]) \in Nat
    BY DEF NativeInv, ChainWhole
  <2>2. QED
    BY <1>1, <2>1
<1>7. FlightWhole'
  <2>1. ASSUME NEW u \in InFlight'
        PROVE  u.ch \in EVMChains /\ u.nonce \in Nat /\ u.seen = u.nonce /\ u.nonce <= Len(mined'[u.ch])
    <3>1. u.ch \in EVMChains /\ u.nonce \in Nat /\ u.seen = u.nonce /\ u.nonce <= Len(mined[u.ch])
      BY <1>3 DEF NativeInv, FlightWhole
    <3>2. Len(mined[u.ch]) \in Nat /\ Len(mined'[u.ch]) \in Nat /\ Len(mined[u.ch]) <= Len(mined'[u.ch])
      BY <1>6, <3>1
    <3>3. QED
      BY <3>1, <3>2
  <2>2. QED
    BY <2>1 DEF FlightWhole
<1>8. PayingWhole'
  BY <1>2 DEF NativeInv, PayingWhole, Paying, TkReusable
<1>9. AllSettled'
  <2>1. ASSUME NEW u \in mempool \cup OnChain PROVE Settled(u)'
    BY <1>2 DEF NativeInv, AllSettled, Settled, TkReusable
  <2>2. mempool' \cup OnChain' \subseteq mempool \cup OnChain
    BY <1>2, <1>4
  <2>3. QED
    BY <2>1, <2>2 DEF AllSettled
<1>10. LostBefore'
  <2>1. ASSUME NEW o \in OnChain', NEW u \in InFlight', SamePayment(o, u), o.nonce < u.nonce
        PROVE  o.run \in lost
    <3>1. CASE o \in OnChain
      BY <1>3, <2>1, <3>1 DEF NativeInv, LostBefore
    <3>2. CASE o = t
      <4>1. u.nonce \in Nat /\ u.nonce <= Len(mined[u.ch])
        BY <1>3 DEF NativeInv, FlightWhole
      <4>2. u.ch = t.ch
        BY <2>1, <3>2 DEF SamePayment
      <4>3. QED
        BY <1>1, <2>1, <3>2, <4>1, <4>2
    <3>3. QED
      BY <1>4, <3>1, <3>2
  <2>2. QED
    BY <1>2, <2>1 DEF LostBefore, SamePayment
<1>11. PaidTwiceOnlyIfLost'
  <2>1. ASSUME NEW c \in EVMChains, NEW m \in DOMAIN mined'[c], NEW n \in DOMAIN mined'[c], m < n,
               mined'[c][m].to = mined'[c][n].to, mined'[c][m].amount = mined'[c][n].amount,
               mined'[c][m].bundle = mined'[c][n].bundle
        PROVE  mined'[c][m].run \in lost /\ mined'[c][n].seen >= m
    <3>1. CASE n \in DOMAIN mined[c] /\ m \in DOMAIN mined[c]
      <4>1. mined'[c][m] = mined[c][m] /\ mined'[c][n] = mined[c][n]
        BY <1>1, <3>1
      <4>2. QED
        BY <2>1, <3>1, <4>1 DEF NativeInv, PaidTwiceOnlyIfLost
    <3>2. CASE c = t.ch /\ n = t.nonce + 1
      <4>1. m \in 1..t.nonce
        BY <1>1, <2>1, <3>2
      <4>2. mined'[c][m] = mined[c][m] /\ mined'[c][n] = t /\ m \in DOMAIN mined[c]
        BY <1>1, <3>2, <4>1
      <4>3. PICK o : o = mined[c][m]
        OBVIOUS
      <4>4. o \in OnChain /\ o.nonce = m - 1 /\ o.ch = c
        BY <4>2, <4>3, ChainParts
      <4>5. t \in InFlight
        BY DEF InFlight
      <4>6. o.nonce < t.nonce
        BY <1>1, <4>1, <4>4
      <4>7. SamePayment(o, t)
        BY <2>1, <3>2, <4>2, <4>3, <4>4 DEF SamePayment
      <4>8. o.run \in lost
        BY <4>4, <4>5, <4>6, <4>7 DEF NativeInv, LostBefore
      <4>9. t.seen >= m
        BY <1>1, <4>1
      <4>10. QED
        BY <4>2, <4>3, <4>8, <4>9
    <3>3. QED
      <4>1. n \in DOMAIN mined[c] \/ (c = t.ch /\ n = t.nonce + 1)
        BY <1>1
      <4>2. CASE n \in DOMAIN mined[c] /\ c = t.ch
        BY <1>1, <2>1, <3>1, <4>2
      <4>3. CASE c # t.ch
        BY <1>1, <3>1, <4>3
      <4>4. QED
        BY <3>2, <4>1, <4>2, <4>3
  <2>2. QED
    BY <1>1, <1>2, <2>1 DEF PaidTwiceOnlyIfLost
<1>12. QED
  BY <1>5, <1>7, <1>8, <1>9, <1>10, <1>11 DEF NativeInv

\* The steps of the link changesets pay nothing, and only add reports.
LEMMA LinkStepsBeside ==
    ASSUME NEW j, NEW i,
           \/ LinkStart(i) \/ ReuseLink(j) \/ DeployByOperation(j) \/ FailLink(j) \/ DeployLinkTokenReturns
           \/ \E cs : DeployDirectly(j, cs)
    PROVE  UNCHANGED natives /\ tkBundles' = tkBundles /\ ~Paying /\ ~Paying' /\ tkReports \subseteq tkReports'
<1>1. CASE LinkStart(i)
  BY <1>1 DEF LinkStart, Paying
<1>2. CASE ReuseLink(j)
  BY <1>2 DEF ReuseLink, Turn, Paying
<1>3. CASE DeployByOperation(j)
  BY <1>3 DEF DeployByOperation, TkReport, Turn, Paying
<1>4. CASE FailLink(j)
  BY <1>4 DEF FailLink, LinkFails, TkEnd, Turn, Paying
<1>5. CASE DeployLinkTokenReturns
  BY <1>5 DEF DeployLinkTokenReturns, TkEnd, Paying
<1>6. CASE \E cs : DeployDirectly(j, cs)
  BY <1>6 DEF DeployDirectly, Turn, Paying
<1>7. QED
  BY <1>1, <1>2, <1>3, <1>4, <1>5, <1>6

\* Both invariants, for the steps of either part look at the other's reports.
TkInv == LinkInv /\ NativeInv

\* Every step of the link changesets keeps both.
LEMMA LinkNextInv ==
    ASSUME TkInv,
           \/ \E i \in LinkInputs : LinkStart(i)
           \/ \E j \in tkTodo :
                \/ ReuseLink(j) \/ OpEVMDeployLinkToken(j) \/ OpEVMDeployStaticLinkToken(j)
                \/ OpSolanaDeployLinkToken(j) \/ deployLinkTokenContractEVM(j)
                \/ DeployStaticLinkToken(j) \/ DeploySolanaLinkToken(j) \/ FailLink(j)
           \/ DeployLinkTokenReturns
    PROVE  TkInv'
<1>1. LinkInv /\ NativeInv
  BY DEF TkInv
<1>2. CASE \E i \in LinkInputs : LinkStart(i)
  BY <1>1, <1>2, LinkStartNames, LinkStepsBeside, BesideKeeps DEF TkInv
<1>3. CASE \E j \in tkTodo : ReuseLink(j)
  BY <1>1, <1>3, ReuseNames, LinkStepsBeside, BesideKeeps DEF TkInv
<1>4. CASE \E j \in tkTodo : OpEVMDeployLinkToken(j) \/ OpEVMDeployStaticLinkToken(j) \/ OpSolanaDeployLinkToken(j)
  <2>1. \E j \in tkTodo : DeployByOperation(j)
    BY <1>4 DEF OpEVMDeployLinkToken, OpEVMDeployStaticLinkToken, OpSolanaDeployLinkToken
  <2>2. QED
    BY <1>1, <2>1, DeployNames, LinkStepsBeside, BesideKeeps DEF TkInv
<1>5. CASE \E j \in tkTodo : deployLinkTokenContractEVM(j) \/ DeployStaticLinkToken(j) \/ DeploySolanaLinkToken(j)
  <2>1. \E j \in tkTodo : \E cs : DeployDirectly(j, cs)
    BY <1>5 DEF deployLinkTokenContractEVM, DeployStaticLinkToken, DeploySolanaLinkToken
  <2>2. QED
    BY <1>1, <2>1, DirectNames, LinkStepsBeside, BesideKeeps DEF TkInv
<1>6. CASE \E j \in tkTodo : FailLink(j)
  BY <1>1, <1>6, FailLinkNames, LinkStepsBeside, BesideKeeps DEF TkInv
<1>7. CASE DeployLinkTokenReturns
  BY <1>1, <1>7, ReturnsNames, LinkStepsBeside, BesideKeeps DEF TkInv
<1>8. QED
  BY <1>2, <1>3, <1>4, <1>5, <1>6, <1>7

\* Every step keeps both invariants.
LEMMA TkNextInv ==
    ASSUME TkInv, [TkNext]_tkVars
    PROVE  TkInv'
<1>1. LinkInv /\ NativeInv
  BY DEF TkInv
<1>2. CASE UNCHANGED tkVars
  <2>1. UNCHANGED <<links, natives, tkReports, tkPc, tkReq, tkBundles>>
    BY <1>2 DEF tkVars
  <2>2. LinkInv'
    BY <1>1, <2>1, QuietNames
  <2>3. UNCHANGED <<mined, lost, mempool, tx>>
    BY <2>1 DEF natives
  <2>4. InFlight' \subseteq InFlight
    BY <2>1, <2>3 DEF InFlight
  <2>5. PayingWhole'
    BY <1>1, <2>1, <2>3 DEF NativeInv, PayingWhole, Paying, TkReusable, TransferNativeOpsInput
  <2>6. AllSettled'
    BY <1>1, <2>1, <2>3 DEF NativeInv, AllSettled, Settled, OnChain, TkReusable, TransferNativeOpsInput
  <2>7. QED
    BY <1>1, <2>2, <2>3, <2>4, <2>5, <2>6, NativeKeeps DEF TkInv
<1>3. CASE \/ \E i \in LinkInputs : LinkStart(i)
           \/ \E j \in tkTodo :
                \/ ReuseLink(j) \/ OpEVMDeployLinkToken(j) \/ OpEVMDeployStaticLinkToken(j)
                \/ OpSolanaDeployLinkToken(j) \/ deployLinkTokenContractEVM(j)
                \/ DeployStaticLinkToken(j) \/ DeploySolanaLinkToken(j) \/ FailLink(j)
           \/ DeployLinkTokenReturns
  BY <1>3, LinkNextInv
<1>4. CASE \E p \in Payments : TransferNative(p)
  <2>1. UNCHANGED links /\ tkReports' = tkReports /\ tkPc # "link"
    BY <1>4 DEF TransferNative
  <2>2. QED
    BY <1>1, <1>4, <2>1, TransferKeeps, QuietNames DEF TkInv
<1>5. CASE ReadNonce
  <2>1. UNCHANGED links /\ tkReports' = tkReports /\ tkPc # "link"
    BY <1>5 DEF ReadNonce
  <2>2. QED
    BY <1>1, <1>5, <2>1, ReadNonceKeeps, QuietNames DEF TkInv
<1>6. CASE TransferNativeOp
  <2>1. UNCHANGED links /\ tkReports' = tkReports /\ tkPc # "link"
    BY <1>6 DEF TransferNativeOp
  <2>2. QED
    BY <1>1, <1>6, <2>1, SendKeeps, QuietNames DEF TkInv
<1>7. CASE SendRefused
  <2>1. UNCHANGED links /\ tkReports' = tkReports /\ tkPc # "link"
    BY <1>7 DEF SendRefused
  <2>2. QED
    BY <1>1, <1>7, <2>1, RefusedKeeps, QuietNames DEF TkInv
<1>8. CASE Confirm
  <2>1. tkReq \in Payments
    BY <1>1, <1>8 DEF Confirm, NativeInv, PayingWhole, Paying
  <2>2. QED
    BY <1>1, <1>8, <2>1, ConfirmKeeps, ConfirmNames DEF TkInv
<1>9. CASE ConfirmFails
  <2>1. UNCHANGED links /\ tkReports' = tkReports /\ tkPc # "link"
    BY <1>9 DEF ConfirmFails
  <2>2. QED
    BY <1>1, <1>9, <2>1, ConfirmFailsKeeps, QuietNames DEF TkInv
<1>10. CASE \E t \in mempool : Mine(t)
  <2>1. UNCHANGED links /\ tkReports' = tkReports /\ tkPc' = tkPc
    BY <1>10 DEF Mine
  <2>2. QED
    BY <1>1, <1>10, <2>1, MineKeeps, QuietNames DEF TkInv
<1>11. CASE NewTkBundle
  <2>1. UNCHANGED links /\ tkReports' \subseteq tkReports /\ tkPc' = tkPc
    BY <1>11 DEF NewTkBundle
  <2>2. QED
    BY <1>1, <1>11, <2>1, NewBundleKeeps, QuietNames DEF TkInv
<1>12. QED
  BY <1>2, <1>3, <1>4, <1>5, <1>6, <1>7, <1>8, <1>9, <1>10, <1>11 DEF TkNext

\* At first nothing is deployed and nothing is sent.
LEMMA TkInitInv ==
    ASSUME TkInit
    PROVE  TkInv
<1>1. LinkInv
  BY DEF TkInit, LinkInv, RecordedTokens, RunNames, LinkReports
<1>2. IsList(<<>>) /\ DOMAIN <<>> = {}
  BY DEF IsList
<1>3. mined = [c \in EVMChains |-> <<>>] /\ tkPc = "idle" /\ mempool = {} /\ tkBundles = 0
  BY DEF TkInit
<1>4. \A c \in EVMChains : DOMAIN mined[c] = {}
  BY <1>2, <1>3
<1>5. InFlight = {} /\ OnChain = {}
  BY <1>3, <1>4 DEF InFlight, OnChain
<1>6. ChainWhole
  <2>1. \A c \in EVMChains : IsList(mined[c])
    BY <1>2, <1>3
  <2>2. QED
    BY <1>3, <1>4, <2>1 DEF ChainWhole, IsList
<1>7. FlightWhole /\ PayingWhole /\ AllSettled /\ LostBefore
  BY <1>3, <1>5 DEF FlightWhole, PayingWhole, AllSettled, LostBefore, Paying
<1>8. PaidTwiceOnlyIfLost
  BY <1>4 DEF PaidTwiceOnlyIfLost
<1>9. QED
  BY <1>1, <1>6, <1>7, <1>8 DEF TkInv, NativeInv

\* Both invariants hold in every state of the token and payment changesets.
THEOREM TkInvariance == TkSpec => []TkInv
<1>1. TkInit => TkInv
  BY TkInitInv
<1>2. TkInv /\ [TkNext]_tkVars => TkInv'
  BY TkNextInv
<1>3. QED
  BY <1>1, <1>2, PTL DEF TkSpec

\* Every recorded ref names a token of its type on its chain, or has a mint key
\* that inputs use on two chains (DeployLinkTokenChangeset.Apply).
THEOREM RefsNameTokens == TkSpec => []RecordedTokens
<1>1. TkInv => RecordedTokens
  BY DEF TkInv, LinkInv
<1>2. QED
  BY <1>1, TkInvariance, PTL

\* A bundle makes a payment twice only when the first run lost the confirmation of
\* a transaction that was mined before the second read its nonce (TransferNativeOp).
THEOREM SecondPayment == TkSpec => []PaidTwiceOnlyIfLost
<1>1. TkInv => PaidTwiceOnlyIfLost
  BY DEF TkInv, NativeInv
<1>2. QED
  BY <1>1, TkInvariance, PTL
=============================================================================
