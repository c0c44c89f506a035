---------------------------- MODULE ProofLemmas ----------------------------
(***************************************************************************)
(* Facts the proofs share: about the models' "first of" choices and about  *)
(* lists that grow, change in one place or are used up from the front.     *)
(***************************************************************************)
EXTENDS Naturals, Integers, Sequences, WellFoundedInduction, TLAPS

\* Every non-empty set of naturals has a least element: Apply's next chain, the
\* next missing contract and the first usable salt attempt are well defined.
LEMMA LeastNat ==
    ASSUME NEW T, T \subseteq Nat, T # {}
    PROVE  \E x \in T : \A y \in T : x <= y
<1> DEFINE R == OpToRel(<, Nat)
<1>1. R = {ss \in Nat \X Nat : ss[1] < ss[2]}
  BY DEF OpToRel
<1>2. IsWellFoundedOn(R, Nat)
  BY NatLessThanWellFounded
<1> HIDE DEF R
<1>3. PICK x \in T : \A y \in T : ~(<<y, x>> \in R)
  BY <1>2, WFMin
<1>4. ASSUME NEW y \in T PROVE x <= y
  <2>1. x \in Nat /\ y \in Nat
    OBVIOUS
  <2>2. y < x => <<y, x>> \in R
    BY <1>1, <2>1
  <2>3. QED
    BY <1>3, <2>1, <2>2
<1>5. QED
  BY <1>4

----------------------------------------------------------------------------
(* Sequences that hold their own elements *)

IsList(s) == s \in Seq({s[n] : n \in DOMAIN s})

\* The ids of a list are 1 to its length.
LEMMA ListIds ==
    ASSUME NEW s, IsList(s)
    PROVE  DOMAIN s = 1..Len(s) /\ Len(s) \in Nat /\ DOMAIN s \subseteq Nat
BY DEF IsList

\* A sequence of anything is a list of its own elements.
LEMMA ListOf ==
    ASSUME NEW T, NEW s \in Seq(T)
    PROVE  IsList(s)
<1> DEFINE S == {s[n] : n \in DOMAIN s}
<1>1. DOMAIN s = 1..Len(s) /\ Len(s) \in Nat /\ s = [n \in 1..Len(s) |-> s[n]]
  OBVIOUS
<1>2. \A n \in 1..Len(s) : s[n] \in S
  BY <1>1
<1> HIDE DEF S
<1>3. s \in [1..Len(s) -> S]
  BY <1>1, <1>2
<1>4. s \in Seq(S)
  BY <1>1, <1>3
<1>5. QED
  BY <1>4 DEF IsList, S

\* The lists of the services grow by one at the end and keep what they had.
LEMMA AppendWhole ==
    ASSUME NEW s, IsList(s), NEW e, NEW t, t = Append(s, e)
    PROVE  /\ IsList(t)
           /\ DOMAIN t = 1..(Len(s) + 1)
           /\ \A n \in DOMAIN s : t[n] = s[n]
           /\ t[Len(s) + 1] = e
<1> DEFINE T == {s[n] : n \in DOMAIN s} \cup {e}
<1>1. s \in Seq(T) /\ e \in T
  BY DEF IsList
<1> HIDE DEF T
<1>2. /\ t \in Seq(T) /\ Len(t) = Len(s) + 1 /\ Len(s) \in Nat
      /\ \A n \in 1..Len(s) : t[n] = s[n]
      /\ t[Len(s) + 1] = e
  BY <1>1
<1>3. DOMAIN s = 1..Len(s) /\ DOMAIN t = 1..(Len(s) + 1)
  BY <1>1, <1>2
<1>4. QED
  BY <1>2, <1>3, ListOf

\* A change of one element leaves a list a list of the same length.
LEMMA ExceptWhole ==
    ASSUME NEW s, IsList(s), NEW k, NEW v, NEW t, t = [s EXCEPT ![k] = v]
    PROVE  /\ IsList(t)
           /\ DOMAIN t = DOMAIN s
           /\ \A n \in DOMAIN s : t[n] = IF n = k THEN v ELSE s[n]
<1> DEFINE T == {s[n] : n \in DOMAIN s} \cup {v}
<1>1. DOMAIN s = 1..Len(s) /\ Len(s) \in Nat /\ \A n \in DOMAIN s : s[n] \in T
  BY ListIds
<1>2. v \in T
  OBVIOUS
<1> HIDE DEF T
<1>3. /\ DOMAIN t = DOMAIN s
      /\ \A n \in DOMAIN s : t[n] = IF n = k THEN v ELSE s[n]
  OBVIOUS
<1>4. t \in [1..Len(s) -> T]
  BY <1>1, <1>2
<1>5. t \in Seq(T)
  BY <1>1, <1>4
<1>6. QED
  BY <1>3, <1>5, ListOf

\* A list whose first element is taken away is what is left of the sequence R
\* that it is the end of (the payments of a chain, the role grants of a set).
LEMMA SuffixTail ==
    ASSUME NEW N \in Nat, NEW R, NEW q, Len(q) \in 0..N, q # <<>>,
           q = [n \in 1..Len(q) |-> R[n + N - Len(q)]]
    PROVE  /\ Len(q) \in 1..N
           /\ Head(q) = R[N + 1 - Len(q)]
           /\ Len(Tail(q)) = Len(q) - 1
           /\ Tail(q) = [n \in 1..(Len(q) - 1) |-> R[n + N - (Len(q) - 1)]]
<1>1. PICK L : L = Len(q)
  OBVIOUS
<1>2. L \in 0..N /\ q = [n \in 1..L |-> R[n + N - L]]
  BY <1>1
<1> DEFINE S == {q[n] : n \in 1..L}
<1>3. q \in Seq(S)
  <2>1. \A n \in 1..L : q[n] \in S
    OBVIOUS
  <2>2. L \in Nat /\ DOMAIN q = 1..L
    BY <1>2
  <2> HIDE DEF S
  <2>3. q \in [1..L -> S]
    BY <1>2, <2>1, <2>2
  <2>4. QED
    BY <2>2, <2>3
<1> HIDE DEF S
<1>4. L # 0
  BY <1>1, <1>3
<1>5. Head(q) = q[1] /\ Len(Tail(q)) = L - 1 /\ Tail(q) = [n \in 1..(L - 1) |-> q[n + 1]]
  BY <1>1, <1>2, <1>3, <1>4
<1>6. q[1] = R[N + 1 - L] /\ \A n \in 1..(L - 1) : q[n + 1] = R[n + N - (L - 1)]
  <2>1. \A n \in 1..L : q[n] = R[n + N - L]
    BY <1>2
  <2>2. ASSUME NEW n \in 1..(L - 1) PROVE n + 1 \in 1..L /\ (n + 1) + N - L = n + N - (L - 1)
    BY <1>2, <1>4
  <2>3. 1 \in 1..L /\ 1 + N - L = N + 1 - L
    BY <1>2, <1>4
  <2>4. QED
    BY <2>1, <2>2, <2>3
<1>7. Tail(q) = [n \in 1..(L - 1) |-> R[n + N - (L - 1)]]
  BY <1>5, <1>6
<1>8. L \in 1..N /\ Head(q) = R[N + 1 - L] /\ Len(Tail(q)) = L - 1
  BY <1>2, <1>4, <1>5, <1>6
<1>9. QED
  BY <1>1, <1>7, <1>8

=============================================================================
