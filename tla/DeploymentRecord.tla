-------------------------- MODULE DeploymentRecord --------------------------
(***************************************************************************)
(* What a deploy changeset promises, whatever the chain family:            *)
(* mcms/changesets/deploy/doc.go asks every family's sequence to write the *)
(* addresses it deployed into the datastore.  Contracts are created one at *)
(* a time on a chain; a successful Apply records refs in one step, and a   *)
(* ref it changes points at a contract of that chain, type and qualifier.  *)
(* Refs may be deleted; a contract, once created, stays.                   *)
(***************************************************************************)
CONSTANTS
    Keys,    \* the address ref keys <<chain, type, qualifier>>
    Addrs,   \* contract addresses, unique per chain only
    NoAddr   \* the key has no ref

VARIABLES
    created, \* [Keys -> SUBSET Addrs]: the contracts on the chains
    refs     \* [Keys -> Addrs \cup {NoAddr}]: the datastore

recordVars == <<created, refs>>

\* Some changeset operation creates a contract at an address its chain has not used.
Create(k, a) ==
    /\ \A j \in Keys : j[1] = k[1] => a \notin created[j]
    /\ created' = [created EXCEPT ![k] = @ \cup {a}]
    /\ UNCHANGED refs

Record ==
    /\ UNCHANGED created
    /\ refs' \in [Keys -> Addrs \cup {NoAddr}]
    /\ \A k \in Keys : refs'[k] # refs[k] => refs'[k] \in created[k]

Delete(k) ==
    /\ UNCHANGED created
    /\ refs' = [refs EXCEPT ![k] = NoAddr]

RecordInit ==
    /\ created = [k \in Keys |-> {}]
    /\ refs = [k \in Keys |-> NoAddr]

RecordNext ==
    \/ Record
    \/ \E k \in Keys : Delete(k)
    \/ \E k \in Keys, a \in Addrs : Create(k, a)

RecordSpec == RecordInit /\ [][RecordNext]_recordVars
=============================================================================
