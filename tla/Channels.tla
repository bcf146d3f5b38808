------------------------------ MODULE Channels ------------------------------
(***************************************************************************)
(* A Go channel as a sequence: what is left when its first element has     *)
(* been received, and what is in it when one has been sent.                *)
(***************************************************************************)
EXTENDS Integers, Sequences, TLAPS, SequenceTheorems

(* Receiving takes the first element and keeps the others in order.        *)
LEMMA Received ==
  ASSUME NEW S, NEW q \in Seq(S), q # <<>>
  PROVE  /\ \A i \in DOMAIN Tail(q) : i + 1 \in DOMAIN q /\ Tail(q)[i] = q[i + 1]
         /\ \A i \in DOMAIN q : i # 1 => i - 1 \in DOMAIN Tail(q) /\ Tail(q)[i - 1] = q[i]
         /\ Head(q) = q[1] /\ 1 \in DOMAIN q
<1>1. /\ Tail(q) \in Seq(S) /\ Len(Tail(q)) = Len(q) - 1 /\ Len(q) \in Nat
      /\ \A i \in 1..Len(Tail(q)) : Tail(q)[i] = q[i + 1]
  BY HeadTailProperties
<1>2. DOMAIN q = 1..Len(q) /\ DOMAIN Tail(q) = 1..Len(Tail(q))
  BY <1>1
<1>3. Len(q) # 0
  BY EmptySeq
<1>. QED
  BY <1>1, <1>2, <1>3

(* Sending keeps what is there and adds the element.                       *)
LEMMA Sending ==
  ASSUME NEW S, NEW q \in Seq(S), NEW u
  PROVE  /\ \A i \in DOMAIN q : i \in DOMAIN Append(q, u) /\ Append(q, u)[i] = q[i]
         /\ \A i \in DOMAIN Append(q, u) :
              (i \in DOMAIN q /\ Append(q, u)[i] = q[i]) \/ Append(q, u)[i] = u
         /\ \E i \in DOMAIN Append(q, u) : Append(q, u)[i] = u
<1>1. /\ Len(q) \in Nat /\ DOMAIN q = 1..Len(q)
      /\ DOMAIN Append(q, u) = 1..(Len(q) + 1)
      /\ Append(q, u)[Len(q) + 1] = u
      /\ \A i \in 1..Len(q) : Append(q, u)[i] = q[i]
  OBVIOUS
<1>. QED
  BY <1>1

(* The element sent is the last.                                           *)
LEMMA SentLast ==
  ASSUME NEW S, NEW q \in Seq(S), NEW u
  PROVE  \E n \in Nat :
           /\ DOMAIN Append(q, u) = DOMAIN q \union {n} /\ Append(q, u)[n] = u
           /\ \A i \in DOMAIN q : i \in Nat /\ i < n /\ Append(q, u)[i] = q[i]
<1>1. /\ Len(q) \in Nat /\ DOMAIN q = 1..Len(q)
      /\ DOMAIN Append(q, u) = 1..(Len(q) + 1)
      /\ Append(q, u)[Len(q) + 1] = u
      /\ \A i \in 1..Len(q) : Append(q, u)[i] = q[i]
  OBVIOUS
<1>2. 1..(Len(q) + 1) = 1..Len(q) \union {Len(q) + 1}
  BY <1>1
<1>. QED
  BY <1>1, <1>2
=============================================================================
