------------------------------- MODULE Tokens -------------------------------
(***************************************************************************)
(* LINK tokens, deployed by a changeset over EVM and Solana chains or by   *)
(* the three older ones, and payments in an EVM chain's native token.      *)
(*   tokens/link/changesets, tokens/link/operations, link/changesets,      *)
(*   evm/changesets                                                        *)
(*                                                                         *)
(* The newer changeset deploys by operations, whose reports a retry        *)
(* reuses; the older ones have no reports, and one of them deploys to all  *)
(* chains at once.  A payment is signed with the nonce of the last mined   *)
(* transaction, so it competes with one that is still pending.             *)
(***************************************************************************)
EXTENDS Naturals, Sequences, FiniteSets

CONSTANTS
    EVMChains, SolanaChains,
    LinkInputs,    \* [cs: "link", evm, sol]: per-chain configs; or [cs, list, mint]
    Payments,      \* TransferNativeInput: [ch, to, amount]
    Funds,         \* the deployer's native balance on a chain at first
    GasCost,       \* what the gas of a payment costs at most
    NoMint,
    MaxTkRuns,     \* bound: changeset runs
    MaxTkFails,    \* bound: calls that fail or whose result is lost
    MaxTkBundles   \* bound: new operations bundles

ASSUME TokensAssumption ==
    /\ EVMChains \cap SolanaChains = {}
    /\ {Funds, GasCost, MaxTkRuns, MaxTkFails, MaxTkBundles} \subseteq Nat
    /\ \A i \in LinkInputs : i.cs \in {"link", "oldLink", "oldStatic", "oldSolana"}
    /\ \A p \in Payments : p.ch \in EVMChains /\ p.amount \in Nat
    /\ \A p \in Payments : p = [ch |-> p.ch, to |-> p.to, amount |-> p.amount]

VARIABLES
    tokens,   \* token contracts and mints: [ch, type, addr]
    refs,     \* address refs of the datastore: [ch, type, qual, addr]
    book,     \* the address book of the older changesets: [ch, type]
    tkPc, tkReq,
    tkTodo,   \* tokens still to be deployed by the run
    tkOut,    \* its refs
    tkErr,    \* whether a chain of DeployLinkToken has failed
    tx,       \* the payment being made
    mempool, mined, funds,
    lost,     \* ghost: runs that sent a payment and did not see it confirmed
    tkReports, tkRuns, tkFails, tkBundles

links == <<tokens, refs, book, tkTodo, tkOut, tkErr>>
natives == <<tx, mempool, mined, funds, lost>>
tkVars == <<tkPc, tkReq, links, natives, tkReports, tkRuns, tkFails, tkBundles>>

TkReusable(k) == \E r \in tkReports : r.k = k
TkOutput(k) == (CHOOSE r \in tkReports : r.k = k).out
TkReport(k, o) == tkReports' = tkReports \cup {[k |-> k, out |-> o]}

TkEnd == tkPc' = "idle" /\ tkReq' = NoMint
TkFailed == tkFails < MaxTkFails /\ tkFails' = tkFails + 1

----------------------------------------------------------------------------
(* deploy_link_token.go (both), validation.go *)

linkTokenTypeAndVersion == "LinkToken"
staticLinkTokenTypeAndVersion == "StaticLinkToken"

\* A token to deploy; on Solana its mint key is given and becomes its address.
Token(c, type, q, mint) == [ch |-> c, type |-> type, qual |-> q, mint |-> mint]
OnSolana(j) == j.mint # NoMint

EVMType(variant) ==
    IF variant = "static" THEN staticLinkTokenTypeAndVersion ELSE linkTokenTypeAndVersion
TokensOf(i) ==
    CASE i.cs = "link" ->
           {Token(c, EVMType(i.evm[c].variant), i.evm[c].qual, NoMint) : c \in DOMAIN i.evm}
             \cup {Token(c, linkTokenTypeAndVersion, i.sol[c].qual, i.sol[c].mint) : c \in DOMAIN i.sol}
      [] i.cs = "oldStatic" ->
           {Token(i.list[n], staticLinkTokenTypeAndVersion, "", NoMint) : n \in DOMAIN i.list}
      [] OTHER -> {Token(i.list[n], linkTokenTypeAndVersion, "", i.mint) : n \in DOMAIN i.list}

validateSelectorsFamily(J) ==
    \A j \in J : j.ch \in IF OnSolana(j) THEN SolanaChains ELSE EVMChains
validateNoDuplicateSelectors(list) == \A m, n \in DOMAIN list : list[m] = list[n] => m = n

\* The newer changeset compares the qualifier too; the older ones also look into
\* the address book.
validateNoExistingContract(j) ==
    ~\E r \in refs : r.ch = j.ch /\ r.type = j.type /\ r.qual = j.qual
oldValidateNoExistingContract(j) ==
    ~\E r \in refs \cup book : r.ch = j.ch /\ r.type = j.type

VerifyLink(i) ==
    /\ validateSelectorsFamily(TokensOf(i))
    /\ IF i.cs = "link" THEN TokensOf(i) # {} /\ \A j \in TokensOf(i) : validateNoExistingContract(j)
       ELSE /\ validateNoDuplicateSelectors(i.list)
            /\ \A j \in TokensOf(i) : oldValidateNoExistingContract(j)

LinkStart(i) ==
    /\ tkPc = "idle" /\ tkRuns < MaxTkRuns /\ VerifyLink(i)
    /\ tkRuns' = tkRuns + 1 /\ tkPc' = "link" /\ tkReq' = i
    /\ tkTodo' = TokensOf(i) /\ tkOut' = {} /\ tkErr' = FALSE
    /\ UNCHANGED <<tokens, refs, book, natives, tkReports, tkFails, tkBundles>>

\* EVM chains come before Solana chains, in no order; the static tokens are
\* deployed in the order of the list, the others all at once.
Position(c) == CHOOSE n \in DOMAIN tkReq.list : tkReq.list[n] = c
Turn(j) ==
    /\ tkPc = "link"
    /\ CASE tkReq.cs = "link" -> OnSolana(j) => \A k \in tkTodo : OnSolana(k)
         [] tkReq.cs = "oldStatic" -> \A k \in tkTodo : Position(j.ch) <= Position(k.ch)
         [] OTHER -> TRUE

\* What the operations' reports are found by: on Solana the mint key and no chain.
linkTokenKey_NoChain(j) ==
    IF OnSolana(j) THEN <<j.mint>> ELSE <<0, j.type, j.qual>>
linkTokenKey(j) ==
    IF OnSolana(j) THEN <<j.mint>> ELSE <<j.ch, j.type, j.qual>>

saveAddressRef(j, a) ==
    /\ tkOut' = tkOut \cup {[ch |-> j.ch, type |-> j.type, qual |-> j.qual, addr |-> a]}
    /\ tkTodo' = tkTodo \ {j}

\* A contract gets a new address; a mint can be created once on a chain.
AddressOf(j) == IF OnSolana(j) THEN j.mint ELSE Cardinality(tokens) + 1
Creatable(j) == OnSolana(j) => ~\E t \in tokens : t.ch = j.ch /\ t.addr = j.mint
CreateToken(j) ==
    /\ Creatable(j)
    /\ tokens' = tokens \cup {[ch |-> j.ch, type |-> j.type, addr |-> AddressOf(j)]}

ReuseLink(j) ==
    /\ Turn(j) /\ tkReq.cs = "link" /\ TkReusable(linkTokenKey(j))
    /\ saveAddressRef(j, TkOutput(linkTokenKey(j)))
    /\ UNCHANGED <<tokens, refs, book, tkErr, tkPc, tkReq, natives, tkReports, tkRuns, tkFails, tkBundles>>

DeployByOperation(j) ==
    /\ Turn(j) /\ tkReq.cs = "link" /\ ~TkReusable(linkTokenKey(j))
    /\ CreateToken(j) /\ saveAddressRef(j, AddressOf(j))
    /\ TkReport(linkTokenKey(j), AddressOf(j))
    /\ UNCHANGED <<refs, book, tkErr, tkPc, tkReq, natives, tkRuns, tkFails, tkBundles>>
OpEVMDeployLinkToken(j) ==
    ~OnSolana(j) /\ j.type = linkTokenTypeAndVersion /\ DeployByOperation(j)
OpEVMDeployStaticLinkToken(j) ==
    ~OnSolana(j) /\ j.type = staticLinkTokenTypeAndVersion /\ DeployByOperation(j)
OpSolanaDeployLinkToken(j) == OnSolana(j) /\ DeployByOperation(j)

DeployDirectly(j, cs) ==
    /\ Turn(j) /\ tkReq.cs = cs
    /\ CreateToken(j) /\ saveAddressRef(j, AddressOf(j))
    /\ UNCHANGED <<refs, book, tkErr, tkPc, tkReq, natives, tkReports, tkRuns, tkFails, tkBundles>>
deployLinkTokenContractEVM(j) == DeployDirectly(j, "oldLink")
DeployStaticLinkToken(j) == DeployDirectly(j, "oldStatic")
DeploySolanaLinkToken(j) == DeployDirectly(j, "oldSolana")

\* A deployment fails, with or without effect.  DeployLinkToken goes on with the
\* other chains and returns what it has with the error, the others return at once.
LinkFails ==
    IF tkReq.cs = "oldLink"
    THEN tkErr' = TRUE /\ UNCHANGED <<tkPc, tkReq, tkOut>>
    ELSE TkEnd /\ tkOut' = {} /\ UNCHANGED tkErr
FailLink(j) ==
    /\ Turn(j) /\ ~(tkReq.cs = "link" /\ TkReusable(linkTokenKey(j)))
    /\ \/ TkFailed /\ (UNCHANGED tokens \/ CreateToken(j))
       \/ ~Creatable(j) /\ UNCHANGED <<tokens, tkFails>>
    /\ LinkFails /\ tkTodo' = IF tkReq.cs = "oldLink" THEN tkTodo \ {j} ELSE {}
    /\ UNCHANGED <<refs, book, natives, tkReports, tkRuns, tkBundles>>

\* The output is merged; that of a failed run may be, by hand.
Recorded ==
    tkOut \cup {r \in refs : ~\E o \in tkOut : o.ch = r.ch /\ o.type = r.type /\ o.qual = r.qual}
DeployLinkTokenReturns ==
    /\ tkPc = "link" /\ tkTodo = {}
    /\ \/ tkErr /\ UNCHANGED <<refs, book>>
       \/ /\ refs' = Recorded
          /\ book' = IF tkReq.cs = "link" THEN book
                     ELSE book \cup {[ch |-> o.ch, type |-> o.type] : o \in tkOut}
    /\ TkEnd /\ tkOut' = {} /\ tkErr' = FALSE
    /\ UNCHANGED <<tokens, tkTodo, natives, tkReports, tkRuns, tkFails, tkBundles>>

----------------------------------------------------------------------------
(* transfer_native.go *)

\* VerifyPreconditions simulates the payment.
VerifyTransferNative(p) == p.amount > 0 /\ funds[p.ch] >= p.amount

TransferNativeOpsInput(p) == <<"native", p>>

TransferNative(p) ==
    /\ tkPc = "idle" /\ tkRuns < MaxTkRuns /\ VerifyTransferNative(p)
    /\ tkRuns' = tkRuns + 1
    /\ IF TkReusable(TransferNativeOpsInput(p)) THEN UNCHANGED <<tkPc, tkReq>> ELSE tkPc' = "nonce" /\ tkReq' = p
    /\ UNCHANGED <<links, natives, tkReports, tkFails, tkBundles>>

\* The nonce of the latest block, whatever is pending.
NonceAt_Pending(c) == Len(mined[c]) + Cardinality({t.nonce : t \in {u \in mempool : u.ch = c}})
NonceAt(c) == Len(mined[c])

ReadNonce ==
    /\ tkPc = "nonce" /\ tkPc' = "send"
    /\ tx' = [ch |-> tkReq.ch, to |-> tkReq.to, amount |-> tkReq.amount, nonce |-> NonceAt(tkReq.ch),
              run |-> tkRuns, bundle |-> tkBundles, seen |-> Len(mined[tkReq.ch])]
    /\ UNCHANGED <<tkReq, links, mempool, mined, funds, lost, tkReports, tkRuns, tkFails, tkBundles>>

gasPlusValue == GasCost + tx.amount
Sendable == funds[tx.ch] >= gasPlusValue /\ tx.nonce >= Len(mined[tx.ch])

\* A second transaction with a nonce is taken as a replacement, or refused; the
\* calls before it may fail too.
TransferNativeOp ==
    /\ tkPc = "send" /\ Sendable
    /\ mempool' = mempool \cup {tx} /\ tkPc' = "confirm"
    /\ UNCHANGED <<tkReq, links, tx, mined, funds, lost, tkReports, tkRuns, tkFails, tkBundles>>
SendRefused ==
    /\ tkPc = "send"
    /\ \/ TkFailed
       \/ /\ ~Sendable \/ \E t \in mempool : t.ch = tx.ch /\ t.nonce = tx.nonce
          /\ UNCHANGED tkFails
    /\ TkEnd
    /\ UNCHANGED <<links, natives, tkReports, tkRuns, tkBundles>>

IsMined(t) == \E n \in DOMAIN mined[t.ch] : mined[t.ch][n] = t
Confirm ==
    /\ tkPc = "confirm" /\ IsMined(tx)
    /\ TkReport(TransferNativeOpsInput(tkReq), NoMint) /\ TkEnd
    /\ UNCHANGED <<links, natives, tkRuns, tkFails, tkBundles>>

\* The wait ends without a receipt: in time, or because another has the nonce.
ConfirmFails ==
    /\ tkPc = "confirm"
    /\ TkFailed \/ (tx.nonce < Len(mined[tx.ch]) /\ ~IsMined(tx) /\ UNCHANGED tkFails)
    /\ lost' = lost \cup {tx.run} /\ TkEnd
    /\ UNCHANGED <<links, tx, mempool, mined, funds, tkReports, tkRuns, tkBundles>>

\* The chain.
Mine(t) ==
    /\ t.nonce = Len(mined[t.ch]) /\ funds[t.ch] >= GasCost + t.amount
    /\ mined' = [mined EXCEPT ![t.ch] = Append(@, t)]
    /\ funds' = [funds EXCEPT ![t.ch] = @ - (GasCost + t.amount)]
    /\ mempool' = {u \in mempool : u.ch # t.ch \/ u.nonce # t.nonce}
    /\ UNCHANGED <<tkPc, tkReq, links, tx, lost, tkReports, tkRuns, tkFails, tkBundles>>

NewTkBundle ==
    /\ tkPc = "idle" /\ tkBundles < MaxTkBundles /\ tkReports # {}
    /\ tkBundles' = tkBundles + 1 /\ tkReports' = {}
    /\ UNCHANGED <<tkPc, tkReq, links, natives, tkRuns, tkFails>>

TkInit ==
    /\ tokens = {} /\ refs = {} /\ book = {} /\ tkPc = "idle" /\ tkReq = NoMint /\ tkTodo = {}
    /\ tkOut = {} /\ tkErr = FALSE /\ tx = NoMint /\ mempool = {} /\ lost = {} /\ tkReports = {}
    /\ mined = [c \in EVMChains |-> <<>>] /\ funds = [c \in EVMChains |-> Funds]
    /\ tkRuns = 0 /\ tkFails = 0 /\ tkBundles = 0

TkNext ==
    \/ \E i \in LinkInputs : LinkStart(i)
    \/ \E j \in tkTodo :
         \/ ReuseLink(j) \/ OpEVMDeployLinkToken(j) \/ OpEVMDeployStaticLinkToken(j)
         \/ OpSolanaDeployLinkToken(j) \/ deployLinkTokenContractEVM(j)
         \/ DeployStaticLinkToken(j) \/ DeploySolanaLinkToken(j) \/ FailLink(j)
    \/ DeployLinkTokenReturns
    \/ \E p \in Payments : TransferNative(p)
    \/ ReadNonce \/ TransferNativeOp \/ SendRefused \/ Confirm \/ ConfirmFails
    \/ \E t \in mempool : Mine(t)
    \/ NewTkBundle

TkSpec == TkInit /\ [][TkNext]_tkVars

----------------------------------------------------------------------------
(* Properties *)

\* A mint key that inputs use on more than one chain.
SharedMint(a) == \E i, k \in LinkInputs : \E s \in TokensOf(i), t \in TokensOf(k) :
                    s.mint = a /\ t.mint = a /\ s.ch # t.ch

\* Every recorded ref names a token of its type that exists on its chain, whichever
\* chains failed before and whichever reports and older changesets were used; the
\* exception are mint keys used on two Solana chains, for the Solana operation's
\* report does not tell them apart (DeployLinkTokenChangeset.Apply).
RecordedTokens ==
    \A r \in refs : SharedMint(r.addr) \/ [ch |-> r.ch, type |-> r.type, addr |-> r.addr] \in tokens

\* Within a bundle the same payment is made twice only when the earlier run did
\* not see its transaction confirmed and that transaction was mined before the
\* retry read its nonce: a retry while it is pending replaces it (TransferNativeOp).
PaidTwiceOnlyIfLost ==
    \A c \in EVMChains : \A m, n \in DOMAIN mined[c] :
       LET p == mined[c][m] r == mined[c][n]
       IN  m < n /\ p.to = r.to /\ p.amount = r.amount /\ p.bundle = r.bundle
             => p.run \in lost /\ r.seen >= m

----------------------------------------------------------------------------
(* The inductive invariant behind RecordedTokens *)

TokenAt(c, type, a) == [ch |-> c, type |-> type, addr |-> a] \in tokens
InputTokens == UNION {TokensOf(i) : i \in LinkInputs}
NamesToken(r) == SharedMint(r.addr) \/ TokenAt(r.ch, r.type, r.addr)

\* The tokens to deploy are of the run's input, and what the run has put out names
\* tokens as what is recorded does (saveAddressRef).
RunNames ==
    /\ tkTodo # {} => tkPc = "link"
    /\ tkTodo \subseteq InputTokens
    /\ \A r \in tkOut : NamesToken(r)

\* A report of a link operation was made for a token that exists since: on Solana
\* under its mint key (DeployByOperation).
LinkReport(r, j) ==
    r.k = linkTokenKey(j) /\ TokenAt(j.ch, j.type, r.out) /\ (OnSolana(j) => r.out = j.mint)
LinkReports ==
    \A r \in tkReports : (\E p \in Payments : r.k = TransferNativeOpsInput(p)) \/ (\E j \in InputTokens : LinkReport(r, j))

LinkInv == RecordedTokens /\ RunNames /\ LinkReports

----------------------------------------------------------------------------
(* The inductive invariant behind PaidTwiceOnlyIfLost *)

Paying == tkPc \in {"nonce", "send", "confirm"}
InFlight == {t \in mempool \cup {tx} : t \in mempool \/ tkPc \in {"send", "confirm"}}
OnChain == UNION {{mined[c][n] : n \in DOMAIN mined[c]} : c \in EVMChains}
SamePayment(t, u) == t.ch = u.ch /\ t.to = u.to /\ t.amount = u.amount /\ t.bundle = u.bundle

\* A chain has mined its transactions in the order of their nonces, and the nonce
\* was read when all before it were mined (NonceAt).
ChainWhole ==
    /\ DOMAIN mined = EVMChains
    /\ \A c \in EVMChains :
          /\ mined[c] \in Seq({mined[c][n] : n \in DOMAIN mined[c]})
          /\ \A n \in DOMAIN mined[c] :
                mined[c][n].nonce = n - 1 /\ mined[c][n].seen = n - 1 /\ mined[c][n].ch = c
FlightWhole ==
    \A t \in InFlight :
       t.ch \in EVMChains /\ t.nonce \in Nat /\ t.seen = t.nonce /\ t.nonce <= Len(mined[t.ch])

\* A run that pays has found no report of its payment, and its transaction is the
\* payment's (TransferNative, ReadNonce).
PayingWhole ==
    /\ tkBundles \in Nat
    /\ Paying => tkReq \in Payments /\ ~TkReusable(TransferNativeOpsInput(tkReq))
    /\ tkPc \in {"send", "confirm"} =>
          tx.ch = tkReq.ch /\ tx.to = tkReq.to /\ tx.amount = tkReq.amount /\ tx.bundle = tkBundles

\* Of what was sent, the run has lost sight or reported it in the bundle, unless it
\* still waits for it, or the bundle is over (Confirm, ConfirmFails).
Settled(t) ==
    \/ t.run \in lost
    \/ t.bundle \in 0..(tkBundles - 1)
    \/ t.bundle = tkBundles /\ \E p \in Payments :
          p.ch = t.ch /\ p.to = t.to /\ p.amount = t.amount /\ TkReusable(TransferNativeOpsInput(p))
    \/ tkPc = "confirm" /\ t = tx /\ t.bundle = tkBundles
AllSettled == \A t \in mempool \cup OnChain : Settled(t)

\* A transaction that was mined before one of the same payment and bundle read its
\* nonce was lost sight of.
LostBefore ==
    \A t \in OnChain, u \in InFlight : SamePayment(t, u) /\ t.nonce < u.nonce => t.run \in lost

NativeInv == ChainWhole /\ FlightWhole /\ PayingWhole /\ AllSettled /\ LostBefore /\ PaidTwiceOnlyIfLost
=============================================================================
