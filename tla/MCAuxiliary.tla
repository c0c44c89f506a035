---------------------------- MODULE MCAuxiliary ----------------------------
(* The changesets beside MCMS: datastore, Job Distributor, LINK tokens and    *)
(* native payments.  They share no state, so a behaviour consists of the      *)
(* steps of one of the three.                                                 *)
EXTENDS Datastore, JobDistributor, Tokens

Init == DSInit /\ JDInit /\ TkInit
Next ==
    \/ jdRuns = 0 /\ tkRuns = 0 /\ DSNext /\ UNCHANGED <<jdVars, tkVars>>
    \/ dsRuns = 0 /\ tkRuns = 0 /\ JDNext /\ UNCHANGED <<dsVars, tkVars>>
    \/ dsRuns = 0 /\ jdRuns = 0 /\ TkNext /\ UNCHANGED <<dsVars, jdVars>>
Spec == Init /\ [][Next]_<<dsVars, jdVars, tkVars>>

----------------------------------------------------------------------------
MCIds == {"", "q"}
It(id, v) == [id |-> id, ver |-> TRUE, val |-> v]
In(cs, k, s) == [cs |-> cs, kind |-> k, items |-> s]
Keys(r, c, h) == [ref |-> r, contract |-> c, chain |-> h]

\* Each changeset, with one entry or with both; a key without a version; the
\* same entry twice; deletions over one kind and over all.
MCDSInputs ==
    {In("create", "ref", <<It("", 1), It("q", 1)>>), In("create", "ref", <<It("q", 2), It("q", 1)>>),
     In("update", "ref", <<It("q", 2)>>),
     In("create", "contract", <<It("q", 1)>>), In("update", "contract", <<It("q", 2)>>),
     In("create", "chain", <<It("", 1)>>), In("update", "chain", <<It("", 2)>>),
     In("env", "env", <<It("", 1)>>),
     In("delete", "ref", <<It("q", 0)>>), In("delete", "ref", <<[id |-> "", ver |-> FALSE, val |-> 0]>>),
     In("delete", "contract", <<It("q", 0)>>), In("delete", "chain", <<It("", 0)>>),
     In("resources", "all", Keys(<<It("", 0)>>, <<>>, <<>>)),
     In("resources", "all", Keys(<<It("q", 0)>>, <<>>, <<>>)),
     In("resources", "all", Keys(<<It("q", 0)>>, <<It("q", 0)>>, <<It("", 0)>>))}

JD(cs, s) == [cs |-> cs, dom |-> "d", items |-> s]
Node(k, n, l) == [key |-> k, name |-> n, labels |-> l]
Change(n, k, l) == [id |-> n, key |-> k, name |-> Nothing, labels |-> l]

Job(l, t) == [labels |-> {l}, spec |-> t]

\* Two nodes, one of them again under another name; keys that move to a free key
\* and to a taken one; labels replaced; two jobs, for both nodes and for the second.
MCJDInputs ==
    {JD("register", <<Node("k1", "n1", {"a"}), Node("k2", "n2", {"a", "b"})>>),
     JD("register", <<Node("k1", "n3", {"a"})>>),
     JD("update", <<Change(1, "k3", Nothing)>>), JD("update", <<Change(2, "k1", {"a", "d", "env"})>>),
     JD("disable", <<"k1", "k3">>), JD("propose", <<Job("a", "s"), Job("b", "t")>>),
     JD("revoke", <<1, 2>>), JD("delete", <<1, 2>>), JD("delete", <<2>>)}

CONSTANTS m1, m2, m3

EVM(v, q) == [variant |-> v, qual |-> q]
Sol(m, q) == [mint |-> m, qual |-> q]
Old(cs, l, m) == [cs |-> cs, list |-> l, mint |-> m]

\* Both families, one mint key on two chains; the older changesets on the same chains.
MCLinkInputs ==
    {[cs |-> "link", evm |-> [c \in {1, 2} |-> EVM("", "")], sol |-> [c \in {3} |-> Sol(m1, "")]],
     [cs |-> "link", evm |-> [c \in {1} |-> EVM("static", "")], sol |-> [c \in {3, 4} |-> Sol(m2, "q")]],
     Old("oldLink", <<1, 2>>, NoMint), Old("oldStatic", <<2, 1>>, NoMint), Old("oldSolana", <<3>>, m3)}
MCPayments == {[ch |-> 1, to |-> "a", amount |-> 1], [ch |-> 1, to |-> "b", amount |-> 1]}
=============================================================================
