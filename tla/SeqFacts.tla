------------------------------ MODULE SeqFacts ------------------------------
(***************************************************************************)
(* Facts about sequences that do not name the set their elements are in.    *)
(***************************************************************************)
EXTENDS Integers, Sequences, SequenceTheorems, TLAPS

\* A sequence seen as a function on 1..Len(s).
IsSeq(s) == Len(s) \in Nat /\ s = [i \in 1..Len(s) |-> s[i]]

\* What appending does to a sequence of anything.
LEMMA AppendFacts ==
    ASSUME NEW s, NEW e, IsSeq(s)
    PROVE  /\ IsSeq(Append(s, e))
           /\ Len(Append(s, e)) = Len(s) + 1
           /\ \A i \in 1..Len(s) : Append(s, e)[i] = s[i]
           /\ Append(s, e)[Len(s) + 1] = e
<1> DEFINE S == {s[i] : i \in 1..Len(s)} \cup {e}
<1>1. s \in Seq(S)
  BY DEF IsSeq
<1>2. e \in S
  OBVIOUS
<1> HIDE DEF S
<1>3. Append(s, e) \in Seq(S)
  BY <1>1, <1>2
<1>4. Len(Append(s, e)) = Len(s) + 1
  BY <1>1, <1>2
<1>5. \A i \in 1..Len(s) : Append(s, e)[i] = s[i]
  BY <1>1, <1>2
<1>6. Append(s, e)[Len(s) + 1] = e
  BY <1>1, <1>2
<1>7. IsSeq(Append(s, e))
  <2> DEFINE t == Append(s, e)
  <2>1. Len(t) \in Nat /\ t \in [1..Len(t) -> S]
    BY <1>3, LenProperties
  <2>2. t = [i \in 1..Len(t) |-> t[i]]
    BY <2>1, Zenon
  <2> QED  BY <2>1, <2>2 DEF IsSeq
<1> QED  BY <1>4, <1>5, <1>6, <1>7

\* A function on 1..k is a sequence of length k.
LEMMA FunctionIsSeq ==
    ASSUME NEW k \in Nat, NEW t, t = [i \in 1..k |-> t[i]]
    PROVE  IsSeq(t) /\ Len(t) = k
<1> DEFINE S == {t[i] : i \in 1..k}
<1>1. t \in [1..k -> S]
  OBVIOUS
<1>2. t \in Seq(S) /\ Len(t) = k
  BY <1>1
<1> QED  BY <1>2 DEF IsSeq

\* A function with the domain of a sequence is a sequence of that length.
LEMMA SameDomain ==
    ASSUME NEW s, IsSeq(s), NEW t, t = [i \in 1..Len(s) |-> t[i]]
    PROVE  IsSeq(t) /\ Len(t) = Len(s)
  BY FunctionIsSeq DEF IsSeq
=============================================================================
