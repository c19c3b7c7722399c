----------------------------- MODULE ListLemmas -----------------------------
(***************************************************************************)
(* Lemmas about sequences and sets of indices that the proofs about the    *)
(* tables and queues of several components need.                           *)
(***************************************************************************)
EXTENDS Integers, Sequences, FiniteSets, SequenceTheorems, FiniteSetTheorems,
        WellFoundedInduction, TLAPS

\* A non-empty set of naturals has a least element.
LEMMA Least ==
  ASSUME NEW T \in SUBSET Nat, T # {}
  PROVE  \E m \in T : \A n \in T : m <= n
<1> DEFINE R == {ss \in Nat \X Nat : ss[1] < ss[2]}
<1>1. IsWellFoundedOn(R, Nat)
  BY NatLessThanWellFounded, Zenon DEF OpToRel
<1>2. PICK m \in T : \A n \in T : <<n, m>> \notin R
  <2> HIDE DEF R
  <2> QED BY <1>1, WFMin
<1>3. \A n \in T : ~(n < m)
  BY <1>2
<1> QED BY <1>3

\* Replacing an element of a sequence, if there is one, keeps its type.
LEMMA SeqReplace ==
  ASSUME NEW S, NEW s \in Seq(S), NEW e \in S, NEW i
  PROVE  [s EXCEPT ![i] = e] \in Seq(S)
<1>1. PICK n \in Nat : s \in [1 .. n -> S]
  BY SeqDef
<1>2. [s EXCEPT ![i] = e] \in [1 .. n -> S]
  BY <1>1
<1> QED BY <1>2, SeqDef

\* The elements of what is left of a sequence.
LEMMA TailElems ==
  ASSUME NEW S, NEW s \in Seq(S), s # <<>>
  PROVE  /\ Tail(s) \in Seq(S)
         /\ \A i \in DOMAIN Tail(s) : i + 1 \in DOMAIN s /\ Tail(s)[i] = s[i + 1]
         /\ \A i \in DOMAIN s : i # 1 => i - 1 \in DOMAIN Tail(s)
         /\ DOMAIN s \subseteq Nat /\ DOMAIN Tail(s) \subseteq Nat
         /\ 1 \in DOMAIN s /\ Head(s) = s[1]
         /\ \A i \in DOMAIN Tail(s) : 1 < i + 1
OBVIOUS

\* And of a longer one.
LEMMA AppendElems ==
  ASSUME NEW S, NEW s \in Seq(S), NEW e
  PROVE  /\ \A i \in DOMAIN s : i \in DOMAIN Append(s, e) /\ Append(s, e)[i] = s[i]
         /\ Len(s) + 1 \in DOMAIN Append(s, e) /\ Append(s, e)[Len(s) + 1] = e
         /\ \A i \in DOMAIN Append(s, e) : i \in DOMAIN s \/ i = Len(s) + 1
         /\ \A i \in DOMAIN s : i \in Nat /\ i < Len(s) + 1
         /\ DOMAIN Append(s, e) \subseteq Nat /\ Len(s) \in Nat
<1>1. s \in Seq(S \cup {e})
  BY SeqMonotonic
<1> QED BY <1>1

\* Two events at once are one after the other.
LEMMA AppendTwo ==
  ASSUME NEW S, NEW s \in Seq(S), NEW e \in S, NEW f \in S
  PROVE  s \o <<e, f>> = Append(Append(s, e), f)
OBVIOUS

\* An element before the others.
LEMMA ConsElems ==
  ASSUME NEW S, NEW s \in Seq(S), NEW e \in S
  PROVE  /\ <<e>> \o s \in Seq(S)
         /\ 1 \in DOMAIN (<<e>> \o s) /\ (<<e>> \o s)[1] = e
         /\ \A i \in DOMAIN s : /\ i \in Nat /\ 1 <= i
                                /\ i + 1 \in DOMAIN (<<e>> \o s)
                                /\ (<<e>> \o s)[i + 1] = s[i]
         /\ \A i \in DOMAIN (<<e>> \o s) : i = 1 \/ i - 1 \in DOMAIN s
         /\ \A i \in DOMAIN (<<e>> \o s) : i \in Nat
OBVIOUS
=============================================================================
