--------------------------- MODULE JobDistributor ---------------------------
(***************************************************************************)
(* The Job Distributor changesets: register, update and disable nodes;     *)
(* propose, revoke and delete jobs.                                        *)
(*   jd/changesets/nodes, jd/changesets/jobs, jd/operations                *)
(*                                                                         *)
(* Each changeset runs one sequence, which executes one operation per item *)
(* of its input.  A failed item does not stop the others: the errors are   *)
(* joined, and the sequence has a report only when no item failed.  The    *)
(* Job Distributor is a remote service: a call fails without effect, or    *)
(* takes effect and its answer is lost.                                    *)
(***************************************************************************)
EXTENDS Naturals, Sequences, FiniteSets

CONSTANTS
    JDInputs,     \* [cs: changeset, dom, items]
    EnvName,      \* the environment label
    Nothing,      \* no node, no run, labels not given
    MaxJobs,      \* bound: jobs ever proposed
    MaxJDRuns,    \* bound: changeset runs
    MaxJDFails,   \* bound: calls that fail or whose answer is lost
    MaxAdmin      \* bound: nodes enabled again by an administrator

ASSUME JDAssumption ==
    /\ {MaxJobs, MaxJDRuns, MaxJDFails, MaxAdmin} \subseteq Nat
    /\ \A i \in JDInputs :
          /\ i.cs \in {"register", "update", "disable", "propose", "revoke", "delete"}
          /\ i.items \in Seq({i.items[n] : n \in DOMAIN i.items})

\* An empty answer of a lookup is no id.
ASSUME NothingAssumption == Nothing \notin Nat

VARIABLES
    nodes,     \* sequence (the index is the id) of [key, name, labels, on]
    jobs,      \* sequence of [node, spec, st: its proposal's status, deleted]
    jdPc,      \* "idle", "list" (the proposals of the jobs to delete), "item"
    jdReq,     \* the input
    items,     \* items still to be executed
    failed,    \* whether an item failed
    blind,     \* ghost: an update's lookup of its key has failed
    jdReports, \* reports of the bundle: [op -> set of [in, out]]
    jdRuns, jdFails, admin

jdVars == <<nodes, jobs, jdPc, jdReq, items, failed, blind, jdReports, jdRuns, jdFails, admin>>

Active == {"PROPOSED", "APPROVED", "PENDING"}

Ops == {"seq", "register", "update", "disable", "propose", "revoke", "delete"}
NoJDReports == [op \in Ops |-> {}]
Reported(op, x) == \E r \in jdReports[op] : r.in = x
JDReport(op, x, o) == jdReports' = [jdReports EXCEPT ![op] = @ \cup {[in |-> x, out |-> o]}]

----------------------------------------------------------------------------
(* operations/util.go *)

\* The node with this key, enabled or not.
ListNodeByPublicKey_Enabled(k) ==
    LET ids == {n \in DOMAIN nodes : nodes[n].key = k /\ nodes[n].on}
    IN  IF ids = {} THEN Nothing ELSE CHOOSE n \in ids : \A m \in ids : n <= m
ListNodeByPublicKey(k) ==
    LET ids == {n \in DOMAIN nodes : nodes[n].key = k}
    IN  IF ids = {} THEN Nothing ELSE CHOOSE n \in ids : \A m \in ids : n <= m

\* Whether RevokeJob answers NotFound: no such job, or revoked or deleted before.
isJDNotFound(j) == j \in DOMAIN jobs => jobs[j].deleted \/ jobs[j].st = "REVOKED"

----------------------------------------------------------------------------
(* changesets/: VerifyPreconditions *)

Distinct(s) == \A m, n \in DOMAIN s : s[m] = s[n] => m = n
Column(s, f) == [n \in DOMAIN s |-> s[n][f]]

RegisterVerify(i) == i.items # <<>> /\ Distinct(Column(i.items, "name")) /\ Distinct(Column(i.items, "key"))
UpdateNodesVerify(i) == i.items # <<>> /\ Distinct(Column(i.items, "id")) /\ Distinct(Column(i.items, "key"))
DisableVerify(i) == i.items # <<>> /\ Distinct(i.items)
ProposeVerify(i) == i.items # <<>> /\ \A n \in DOMAIN i.items : i.items[n].labels # {}
RevokeVerify(i) == i.items # <<>> /\ Distinct(i.items)
\* Only deleting looks at the service: every job exists and none is deleted.
DeleteJobsVerify(i) ==
    /\ i.items # <<>> /\ Distinct(i.items)
    /\ \A n \in DOMAIN i.items : i.items[n] \in DOMAIN jobs /\ ~jobs[i.items[n]].deleted

JDVerify(i) ==
    CASE i.cs = "register" -> RegisterVerify(i) [] i.cs = "update" -> UpdateNodesVerify(i)
      [] i.cs = "disable" -> DisableVerify(i)   [] i.cs = "propose" -> ProposeVerify(i)
      [] i.cs = "revoke" -> RevokeVerify(i)     [] i.cs = "delete" -> DeleteJobsVerify(i)

\* Apply: the sequence runs, or its report of the same input is returned.
JDStart(i) ==
    /\ jdPc = "idle" /\ jdRuns < MaxJDRuns /\ JDVerify(i)
    /\ jdRuns' = jdRuns + 1 /\ jdReq' = i /\ failed' = FALSE
    /\ \/ /\ Reported("seq", i) /\ jdPc' = "item" /\ items' = <<>>
       \/ /\ ~Reported("seq", i) /\ items' = i.items
          /\ jdPc' = IF i.cs = "delete" THEN "list" ELSE "item"
    /\ UNCHANGED <<nodes, jobs, blind, jdReports, jdFails, admin>>

----------------------------------------------------------------------------
(* operations/nodes.go, jobs.go: one operation per item *)

Item(cs) == jdPc = "item" /\ items # <<>> /\ jdReq.cs = cs
ThisItem == Head(items)
NextItem == items' = Tail(items) /\ UNCHANGED <<jdPc, jdReq, jdRuns, admin>>

\* The operation's result gets into its report, or it is lost with an error.
Answered(op, x, o) ==
    \/ JDReport(op, x, o) /\ UNCHANGED <<failed, jdFails>>
    \/ jdFails < MaxJDFails /\ jdFails' = jdFails + 1 /\ failed' = TRUE /\ UNCHANGED jdReports
Refuse == failed' = TRUE /\ UNCHANGED <<jdReports, jdFails>>

\* The sequences pass each operation what its report is found by.
SeqJDRegisterNodes(x) == [dom |-> jdReq.dom, node |-> x]
SeqJDUpdateNodes(x) == x
SeqJDDisableNodes(x) == x
SeqJDProposeJobs(x) == [dom |-> jdReq.dom, job |-> x]
SeqJDRevokeJobs(x) == x
OpInput(x) ==
    CASE jdReq.cs = "register" -> SeqJDRegisterNodes(x) [] jdReq.cs = "update" -> SeqJDUpdateNodes(x)
      [] jdReq.cs = "disable" -> SeqJDDisableNodes(x)   [] jdReq.cs = "propose" -> SeqJDProposeJobs(x)
      [] jdReq.cs \in {"revoke", "delete"} -> SeqJDRevokeJobs(x)

ReuseItem ==
    /\ jdPc = "item" /\ items # <<>> /\ Reported(jdReq.cs, OpInput(ThisItem))
    /\ NextItem /\ UNCHANGED <<nodes, jobs, blind, failed, jdReports, jdFails>>

Fresh(cs) == Item(cs) /\ ~Reported(cs, OpInput(ThisItem))

\* A new node also gets the labels of its product and environment.
OpJDRegisterNode ==
    /\ Fresh("register")
    /\ LET x == ThisItem
           existing == ListNodeByPublicKey(x.key)
       IN  /\ nodes' = IF existing # Nothing THEN nodes
                       ELSE Append(nodes, [key |-> x.key, name |-> x.name, on |-> TRUE,
                                           labels |-> x.labels \cup {jdReq.dom, EnvName}])
           /\ Answered("register", OpInput(x), existing)
    /\ NextItem /\ UNCHANGED <<jobs, blind>>

\* Labels that are given replace all labels, none given keeps them.
labelsFromMap(given, old) == IF given = Nothing THEN old ELSE given

\* When the lookup fails the conflict check is skipped.
OpJDUpdateNode ==
    LET x == ThisItem IN
    /\ Fresh("update")
    /\ \/ /\ x.id \notin DOMAIN nodes
          /\ Refuse /\ UNCHANGED <<nodes, blind>>
       \/ /\ x.id \in DOMAIN nodes
          /\ ListNodeByPublicKey(x.key) \notin {Nothing, x.id}
          /\ Refuse /\ UNCHANGED <<nodes, blind>>
       \/ /\ x.id \in DOMAIN nodes
          /\ \/ ListNodeByPublicKey(x.key) \in {Nothing, x.id} /\ UNCHANGED blind
                /\ Answered("update", OpInput(x), Nothing)
             \/ jdFails < MaxJDFails /\ jdFails' = jdFails + 1 /\ blind' = TRUE
                /\ JDReport("update", OpInput(x), Nothing) /\ UNCHANGED failed
          /\ nodes' = [nodes EXCEPT ![x.id] =
                         [key |-> x.key, on |-> @.on, labels |-> labelsFromMap(x.labels, @.labels),
                          name |-> IF x.name = Nothing THEN @.name ELSE x.name]]
    /\ NextItem /\ UNCHANGED jobs

\* No such node, or one that is disabled: nothing to do.
OpJDDisableNode ==
    /\ Fresh("disable")
    /\ LET n == ListNodeByPublicKey(ThisItem)
       IN  /\ nodes' = IF n = Nothing THEN nodes ELSE [nodes EXCEPT ![n].on = FALSE]
           /\ Answered("disable", OpInput(ThisItem), n)
    /\ NextItem /\ UNCHANGED <<jobs, blind>>

\* The enabled nodes with the product, the environment and the job's labels.
Selected(x) ==
    {n \in DOMAIN nodes : nodes[n].on /\ x.labels \cup {jdReq.dom, EnvName} \subseteq nodes[n].labels}

Proposed(N, x) ==
    LET next == Len(jobs)
    IN  [j \in 1..(next + Cardinality(N)) |->
           IF j <= next THEN jobs[j]
           ELSE [node |-> CHOOSE n \in N : Cardinality({m \in N : m < n}) = j - next - 1,
                 spec |-> x.spec, st |-> "PROPOSED", deleted |-> FALSE]]

\* The proposals to nodes in F fail; one error fails the operation, but all nodes
\* are tried.  (The report's output, empty in the code, holds the listed nodes.)
ProposeError_LastOnly(N, F) == \E n \in F : \A m \in N : m <= n
ProposeError(N, F) == F # {}
OpJDProposeJob ==
    LET x == ThisItem N == Selected(ThisItem) IN
    /\ Fresh("propose")
    /\ \/ N = {} /\ Refuse /\ UNCHANGED jobs
       \/ /\ N # {}
          /\ \E F \in SUBSET N :
                /\ Len(jobs) + Cardinality(N \ F) <= MaxJobs
                /\ jobs' = Proposed(N \ F, x)
                /\ IF F = {} THEN Answered("propose", OpInput(x), N)
                   ELSE /\ jdFails < MaxJDFails /\ jdFails' = jdFails + 1
                        /\ IF ProposeError(N, F) THEN failed' = TRUE /\ UNCHANGED jdReports
                           ELSE JDReport("propose", OpInput(x), N) /\ UNCHANGED failed
    /\ NextItem /\ UNCHANGED <<nodes, blind>>

\* A proposal the node has not answered is revoked; NotFound is no error.
OpJDRevokeJob ==
    LET j == ThisItem IN
    /\ Fresh("revoke")
    /\ \/ isJDNotFound(j) /\ Answered("revoke", j, TRUE) /\ UNCHANGED jobs
       \/ /\ ~isJDNotFound(j) /\ jobs[j].st = "PROPOSED"
          /\ jobs' = [jobs EXCEPT ![j].st = "REVOKED"] /\ Answered("revoke", j, FALSE)
       \/ /\ ~isJDNotFound(j) /\ jobs[j].st # "PROPOSED" /\ Refuse /\ UNCHANGED jobs
    /\ NextItem /\ UNCHANGED <<nodes, blind>>

eligibleJobIDsForDeletion_NotApproved(j) == jobs[j].st \in {"PROPOSED", "PENDING"}
eligibleJobIDsForDeletion(j) == jobs[j].st \in Active

\* Jobs without an active proposal are left out; it is an error if all are. The
\* others come in the order in which the service lists their proposals.
Listings(J) == {s \in [1..Cardinality(J) -> J] : \A j \in J : \E n \in DOMAIN s : s[n] = j}
SeqJDDeleteJobs ==
    /\ jdPc = "list"
    /\ LET eligible == {j \in {items[n] : n \in DOMAIN items} : eligibleJobIDsForDeletion(j)}
       IN  items' \in Listings(eligible) /\ failed' = (eligible = {})
    /\ jdPc' = "item"
    /\ UNCHANGED <<nodes, jobs, blind, jdReq, jdReports, jdRuns, jdFails, admin>>

OpJDDeleteJob ==
    /\ Fresh("delete")
    /\ jobs' = [jobs EXCEPT ![ThisItem].deleted = TRUE]
    /\ Answered("delete", ThisItem, Nothing)
    /\ NextItem /\ UNCHANGED <<nodes, blind>>

\* A call of the operation fails without effect.
FailItem ==
    /\ jdPc = "item" /\ items # <<>> /\ ~Reported(jdReq.cs, OpInput(ThisItem))
    /\ jdFails < MaxJDFails /\ jdFails' = jdFails + 1 /\ failed' = TRUE
    /\ NextItem /\ UNCHANGED <<nodes, jobs, blind, jdReports>>

FailList ==
    /\ jdPc = "list" /\ jdFails < MaxJDFails /\ jdFails' = jdFails + 1
    /\ jdPc' = "idle" /\ items' = <<>> /\ jdReq' = Nothing /\ failed' = FALSE
    /\ UNCHANGED <<nodes, jobs, blind, jdReports, jdRuns, admin>>

\* The sequence ends: with a report, or with the joined errors.
SeqReturns ==
    /\ jdPc = "item" /\ items = <<>>
    /\ IF failed THEN UNCHANGED jdReports ELSE JDReport("seq", jdReq, Nothing)
    /\ jdPc' = "idle" /\ jdReq' = Nothing /\ failed' = FALSE
    /\ UNCHANGED <<nodes, jobs, items, blind, jdRuns, jdFails, admin>>

----------------------------------------------------------------------------
(* The environment *)

\* A node operator answers a proposal; an approved job may await a new revision.
NodeAnswers(j) ==
    /\ jobs[j].st = "PROPOSED" /\ ~jobs[j].deleted
    /\ \E s \in {"APPROVED", "REJECTED", "PENDING"} : jobs' = [jobs EXCEPT ![j].st = s]
    /\ UNCHANGED <<nodes, jdPc, jdReq, items, failed, blind, jdReports, jdRuns, jdFails, admin>>

EnableNode(n) ==
    /\ ~nodes[n].on /\ admin < MaxAdmin /\ admin' = admin + 1
    /\ nodes' = [nodes EXCEPT ![n].on = TRUE]
    /\ UNCHANGED <<jobs, jdPc, jdReq, items, failed, blind, jdReports, jdRuns, jdFails>>

NewJDBundle ==
    /\ jdPc = "idle" /\ jdReports # NoJDReports /\ jdReports' = NoJDReports
    /\ UNCHANGED <<nodes, jobs, jdPc, jdReq, items, failed, blind, jdRuns, jdFails, admin>>

JDInit ==
    /\ nodes = <<>> /\ jobs = <<>> /\ jdPc = "idle" /\ jdReq = Nothing /\ items = <<>>
    /\ failed = FALSE /\ blind = FALSE /\ jdReports = NoJDReports /\ jdRuns = 0 /\ jdFails = 0 /\ admin = 0

JDNext ==
    \/ \E i \in JDInputs : JDStart(i)
    \/ ReuseItem \/ OpJDRegisterNode \/ OpJDUpdateNode \/ OpJDDisableNode
    \/ OpJDProposeJob \/ OpJDRevokeJob \/ SeqJDDeleteJobs \/ OpJDDeleteJob
    \/ FailItem \/ FailList \/ SeqReturns
    \/ \E j \in DOMAIN jobs : NodeAnswers(j)
    \/ \E n \in DOMAIN nodes : EnableNode(n)
    \/ NewJDBundle

JDSpec == JDInit /\ [][JDNext]_jdVars

----------------------------------------------------------------------------
(* Properties *)

\* No two nodes of the Job Distributor have the same key, although registrations
\* are retried after lost answers and keys move between nodes, as long as no
\* update was made without its conflict check (OpJDRegisterNode, OpJDUpdateNode).
UniqueKeys ==
    ~blind => \A m, n \in DOMAIN nodes : nodes[m].key = nodes[n].key => m = n

\* When proposing succeeds, no job was skipped: each was proposed to some node in
\* this bundle, and every node listed for it has got it, whatever proposals failed
\* in this and earlier runs and whichever reports are reused (OpJDProposeJob
\* collects the nodes' errors, SeqJDProposeJobs those of the jobs).
ProposedEverywhere ==
    [][ SeqReturns /\ jdReq.cs = "propose" /\ ~failed =>
          \A k \in DOMAIN jdReq.items :
             LET x == jdReq.items[k]
                 made == {r \in jdReports["propose"] : r.in = SeqJDProposeJobs(x)}
             IN  /\ \E r \in made : r.out # {}
                 /\ \A r \in made : \A n \in r.out :
                       \E j \in DOMAIN jobs : jobs[j].node = n /\ jobs[j].spec = x.spec ]_jdVars

\* When deleting succeeds, none of the jobs is left with an active proposal,
\* although nodes answer meanwhile and jobs that are not eligible are passed over
\* in silence (SeqJDDeleteJobs, eligibleJobIDsForDeletion).
DeletedOrInactive ==
    [][ SeqReturns /\ jdReq.cs = "delete" /\ ~failed =>
          \A k \in DOMAIN jdReq.items :
             jobs[jdReq.items[k]].deleted \/ jobs[jdReq.items[k]].st \notin Active ]_jdVars

=============================================================================
