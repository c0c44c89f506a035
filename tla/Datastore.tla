----------------------------- MODULE Datastore -----------------------------
(***************************************************************************)
(* The datastore changesets: create, update and delete address refs,       *)
(* contract metadata and chain metadata, delete several of them at once,   *)
(* and replace the environment metadata.                                   *)
(*   datastore/changesets, datastore/operations, datastore/sequences,      *)
(*   datastore/keys                                                        *)
(*                                                                         *)
(* An operation copies the whole environment datastore, changes the copy   *)
(* and returns it; the framework merges it into the environment after the  *)
(* changeset.  A deletion is only staged in the copy (RemoteDelete) and    *)
(* carried out by that merge.  Like every operation, these return the      *)
(* output of an earlier report of the same input in the same bundle: then  *)
(* the copy is an old one.                                                 *)
(***************************************************************************)
EXTENDS Naturals, Sequences, SequencesExt

CONSTANTS
    Ids,          \* the keys of each kind of entry; for refs, the qualifier
    Values,       \* contents of an entry
    DSInputs,     \* [cs: changeset, kind, items], see DSInputsAssumption
    Absent,       \* no entry
    MaxDSRuns,    \* bound: changeset runs
    MaxDSBundles  \* bound: new operations bundles

Kinds == {"ref", "contract", "chain"}
Entries == (Kinds \X Ids) \cup {<<"env", "">>}

\* An item is [id, ver, val]: a key (ver: whether it has a version) and a content.
DSInputsAssumption(i) ==
    /\ i.cs \in {"create", "update", "delete", "resources", "env"}
    /\ IF i.cs = "resources" THEN DOMAIN i.items = Kinds ELSE i.items \in Seq(Range(i.items))
    /\ i.cs \in {"create", "update", "env"} => \A n \in DOMAIN i.items : i.items[n].val \in Values
ASSUME DSAssumption ==
    /\ {MaxDSRuns, MaxDSBundles} \subseteq Nat /\ "" \in Ids /\ Absent \notin Values
    /\ \A i \in DSInputs : DSInputsAssumption(i)

VARIABLES
    store,     \* the environment's entries
    out,       \* the running changeset's output [entries, del: staged deletions]
    dsReq,     \* its input
    reused,    \* whether it took an output from an earlier report
    dsReports, \* reports [op, in, out] of the bundle
    dsRuns, dsBundles

dsVars == <<store, out, dsReq, reused, dsReports, dsRuns, dsBundles>>

DSIdle == out = Absent

----------------------------------------------------------------------------
(* keys/keys.go *)

\* A ref key without a version is refused.
HasVersion(items) == \A n \in DOMAIN items : items[n].ver
AddressRefToFrameworkKey(k) == <<"ref", k.id>>
ContractMetadataToFrameworkKey(k) == <<"contract", k.id>>
ChainMetadataToFrameworkKey(k) == <<"chain", k.id>>

Key(kind, k) ==
    CASE kind = "ref" -> AddressRefToFrameworkKey(k)
      [] kind = "contract" -> ContractMetadataToFrameworkKey(k)
      [] kind = "chain" -> ChainMetadataToFrameworkKey(k)

Exists(kind, k) == store[Key(kind, k)] # Absent

----------------------------------------------------------------------------
(* operations/: what each does to a copy d of the datastore *)

\* Add and Update put every item into the copy.
Put(d, kind, items) ==
    [d EXCEPT !.entries =
       [e \in Entries |->
          LET hits == {n \in DOMAIN items : Key(kind, items[n]) = e}
          IN  IF hits = {} THEN @[e] ELSE items[CHOOSE n \in hits : TRUE].val]]

\* RemoteDelete leaves the entry and stages its key.
RemoteDelete(d, kind, items) == [d EXCEPT !.del = @ \cup {Key(kind, items[n]) : n \in DOMAIN items}]

CreateAddressRefOp(d, items) == Put(d, "ref", items)
CreateContractMetadataOp(d, items) == Put(d, "contract", items)
CreateChainMetadataOp(d, items) == Put(d, "chain", items)
UpdateAddressRefOp(d, items) == Put(d, "ref", items)
UpdateContractMetadataOp(d, items) == Put(d, "contract", items)
UpdateChainMetadataOp(d, items) == Put(d, "chain", items)
UpdateEnvMetadataOp(d, items) == [d EXCEPT !.entries[<<"env", "">>] = items[1].val]
DeleteAddressRefOp(d, items) == RemoteDelete(d, "ref", items)
DeleteContractMetadataOp(d, items) == RemoteDelete(d, "contract", items)
DeleteChainMetadataOp(d, items) == RemoteDelete(d, "chain", items)

----------------------------------------------------------------------------
(* ExecuteOperation and ExecuteSequence, of the framework *)

Env == [entries |-> store, del |-> {}]

DSReusable(op, in) == \E r \in dsReports : r.op = op /\ r.in = in
Executed(op, in, fresh) ==
    IF DSReusable(op, in) THEN (CHOOSE r \in dsReports : r.op = op /\ r.in = in).out ELSE fresh
DSReport(op, in, o) == [op |-> op, in |-> in, out |-> o]

\* A changeset that consists of one operation.
ApplyOp(op, in, fresh) ==
    /\ out' = Executed(op, in, fresh)
    /\ reused' = DSReusable(op, in)
    /\ dsReports' = dsReports \cup {DSReport(op, in, out')}

----------------------------------------------------------------------------
(* changesets/: VerifyPreconditions and Apply *)

Unique(kind, items) == IsInjective([n \in DOMAIN items |-> Key(kind, items[n])])
CreateVerify(kind, items) ==
    items # <<>> /\ Unique(kind, items) /\ \A n \in DOMAIN items : ~Exists(kind, items[n])
UpdateVerify(kind, items) ==
    items # <<>> /\ Unique(kind, items) /\ \A n \in DOMAIN items : Exists(kind, items[n])
DeleteVerify(kind, items) == items # <<>> /\ \A n \in DOMAIN items : Exists(kind, items[n])

Submitted(i, cs, kind) ==
    /\ DSIdle /\ dsRuns < MaxDSRuns /\ i.cs = cs /\ i.kind = kind
    /\ dsReq' = i /\ dsRuns' = dsRuns + 1 /\ UNCHANGED <<store, dsBundles>>

CreateAddressRef(i) ==
    /\ Submitted(i, "create", "ref") /\ CreateVerify("ref", i.items)
    /\ ApplyOp("createRef", i.items, CreateAddressRefOp(Env, i.items))
CreateContractMetadata(i) ==
    /\ Submitted(i, "create", "contract") /\ CreateVerify("contract", i.items)
    /\ ApplyOp("createContract", i.items, CreateContractMetadataOp(Env, i.items))
CreateChainMetadata(i) ==
    /\ Submitted(i, "create", "chain") /\ CreateVerify("chain", i.items)
    /\ ApplyOp("createChain", i.items, CreateChainMetadataOp(Env, i.items))
UpdateAddressRef(i) ==
    /\ Submitted(i, "update", "ref") /\ UpdateVerify("ref", i.items)
    /\ ApplyOp("updateRef", i.items, UpdateAddressRefOp(Env, i.items))
UpdateContractMetadata(i) ==
    /\ Submitted(i, "update", "contract") /\ UpdateVerify("contract", i.items)
    /\ ApplyOp("updateContract", i.items, UpdateContractMetadataOp(Env, i.items))
UpdateChainMetadata(i) ==
    /\ Submitted(i, "update", "chain") /\ UpdateVerify("chain", i.items)
    /\ ApplyOp("updateChain", i.items, UpdateChainMetadataOp(Env, i.items))
UpdateEnvMetadata(i) ==
    /\ Submitted(i, "env", "env") /\ i.items # <<>>
    /\ ApplyOp("updateEnv", i.items, UpdateEnvMetadataOp(Env, i.items))
DeleteAddressRef(i) ==
    /\ Submitted(i, "delete", "ref") /\ HasVersion(i.items) /\ DeleteVerify("ref", i.items)
    /\ ApplyOp("deleteRef", i.items, DeleteAddressRefOp(Env, i.items))
DeleteContractMetadata(i) ==
    /\ Submitted(i, "delete", "contract") /\ DeleteVerify("contract", i.items)
    /\ ApplyOp("deleteContract", i.items, DeleteContractMetadataOp(Env, i.items))
DeleteChainMetadata(i) ==
    /\ Submitted(i, "delete", "chain") /\ DeleteVerify("chain", i.items)
    /\ ApplyOp("deleteChain", i.items, DeleteChainMetadataOp(Env, i.items))

\* Three delete operations, each on the output of the one before.
DeleteResourcesSeq_Unchained(d, items) ==
    LET a == Executed("deleteRef", items["ref"], DeleteAddressRefOp(d, items["ref"]))
        b == Executed("deleteContract", items["contract"], DeleteContractMetadataOp(d, items["contract"]))
        c == Executed("deleteChain", items["chain"], DeleteChainMetadataOp(b, items["chain"]))
    IN  [ref |-> a, contract |-> b, chain |-> c]
DeleteResourcesSeq(d, items) ==
    LET a == Executed("deleteRef", items["ref"], DeleteAddressRefOp(d, items["ref"]))
        b == Executed("deleteContract", items["contract"], DeleteContractMetadataOp(a, items["contract"]))
        c == Executed("deleteChain", items["chain"], DeleteChainMetadataOp(b, items["chain"]))
    IN  [ref |-> a, contract |-> b, chain |-> c]

DeleteResourcesVerify(items) ==
    /\ \E k \in Kinds : items[k] # <<>>
    /\ HasVersion(items["ref"])
    /\ \A k \in Kinds : \A n \in DOMAIN items[k] : Exists(k, items[k][n])

DeleteResources(i) ==
    /\ Submitted(i, "resources", "all") /\ DeleteResourcesVerify(i.items)
    /\ \/ /\ DSReusable("resources", i.items)
          /\ ApplyOp("resources", i.items, Absent)
       \/ /\ ~DSReusable("resources", i.items)
          /\ LET o == DeleteResourcesSeq(Env, i.items)
             IN  /\ out' = o["chain"]
                 /\ dsReports' = dsReports \cup
                      {DSReport("deleteRef", i.items["ref"], o["ref"]),
                       DSReport("deleteContract", i.items["contract"], o["contract"]),
                       DSReport("deleteChain", i.items["chain"], o["chain"]),
                       DSReport("resources", i.items, o["chain"])}
          /\ reused' = \/ DSReusable("deleteRef", i.items["ref"])
                       \/ DSReusable("deleteContract", i.items["contract"])
                       \/ DSReusable("deleteChain", i.items["chain"])

----------------------------------------------------------------------------
(* The framework around the changesets *)

\* The output is merged: its entries are written, then its deletions made.
Merged(o) ==
    [e \in Entries |-> IF e \in o.del THEN Absent
                       ELSE IF o.entries[e] # Absent THEN o.entries[e] ELSE store[e]]

MergeOutput ==
    /\ ~DSIdle
    /\ store' = Merged(out) /\ out' = Absent
    /\ UNCHANGED <<dsReq, reused, dsReports, dsRuns, dsBundles>>

\* The process dies before the merge; the bundle's reports survive.
LoseOutput ==
    /\ ~DSIdle /\ out' = Absent
    /\ UNCHANGED <<store, dsReq, reused, dsReports, dsRuns, dsBundles>>

NewDSBundle ==
    /\ DSIdle /\ dsBundles < MaxDSBundles /\ dsReports # {}
    /\ dsBundles' = dsBundles + 1 /\ dsReports' = {}
    /\ UNCHANGED <<store, out, dsReq, reused, dsRuns>>

DSInit ==
    /\ store = [e \in Entries |-> Absent] /\ out = Absent /\ dsReq = Absent
    /\ reused = FALSE /\ dsReports = {} /\ dsRuns = 0 /\ dsBundles = 0

Changeset(i) ==
    \/ CreateAddressRef(i) \/ CreateContractMetadata(i) \/ CreateChainMetadata(i)
    \/ UpdateAddressRef(i) \/ UpdateContractMetadata(i) \/ UpdateChainMetadata(i)
    \/ UpdateEnvMetadata(i)
    \/ DeleteAddressRef(i) \/ DeleteContractMetadata(i) \/ DeleteChainMetadata(i)
    \/ DeleteResources(i)

DSNext == (\E i \in DSInputs : Changeset(i)) \/ MergeOutput \/ LoseOutput \/ NewDSBundle
DSSpec == DSInit /\ [][DSNext]_dsVars

----------------------------------------------------------------------------
(* Properties *)

Items(i, k) ==
    IF i.cs = "resources" THEN i.items[k] ELSE IF i.kind = k THEN i.items ELSE <<>>
Asked(i, e) ==
    IF e[1] = "env" THEN i.cs = "env" ELSE \E n \in DOMAIN Items(i, e[1]) : Items(i, e[1])[n].id = e[2]
Wanted(i, e) ==
    CASE i.cs \in {"delete", "resources"} -> {Absent}
      [] i.cs = "env" -> {i.items[1].val}
      [] OTHER -> {i.items[n].val : n \in {m \in DOMAIN i.items : i.items[m].id = e[2]}}

\* A changeset that took no output from an earlier report changes exactly the
\* entries its input names, and to what it asks, whichever changesets, lost
\* outputs and bundles came before: the snapshot it returns writes back every
\* other entry as it was, and deletions staged by one operation of the sequence
\* survive the next (DeleteResourcesSeq, RemoteDelete).
AppliedExactly ==
    [][ MergeOutput /\ ~reused =>
          \A e \in Entries :
             IF Asked(dsReq, e) THEN store'[e] \in Wanted(dsReq, e) ELSE store'[e] = store[e] ]_dsVars

\* A deletion of several resources that succeeded and was merged has deleted them
\* ("Staged deletions ... are recorded in the Datastore and executed during the
\* post-changeset merge phase", datastore/sequences/delete_resources.go).
DeletionsMade ==
    [][ MergeOutput /\ dsReq.cs = "resources" =>
          \A e \in Entries : Asked(dsReq, e) => store'[e] = Absent ]_dsVars
=============================================================================
