----------------------------- MODULE QueueProofs -----------------------------
(***************************************************************************)
(* What the queues of the system (the two directions of a connection, the  *)
(* channel of unsolicited responses) hold after something was put at their *)
(* end or taken from their front.                                          *)
(***************************************************************************)
EXTENDS Integers, Sequences, SequenceTheorems, TLAPS

\* What is put at the end follows all that was there.
LEMMA QueueAppend ==
    ASSUME NEW S, NEW q \in Seq(S), NEW e \in S
    PROVE  /\ Append(q, e) \in Seq(S)
           /\ Append(q, e) # << >>
           /\ Len(q) \in Nat /\ Len(Append(q, e)) = Len(q) + 1
           /\ \A i \in DOMAIN q : i \in DOMAIN Append(q, e) /\ Append(q, e)[i] = q[i]
           /\ \A i \in DOMAIN Append(q, e) :
                  \/ i \in DOMAIN q /\ Append(q, e)[i] = q[i]
                  \/ i = Len(q) + 1 /\ Append(q, e)[i] = e
           /\ Len(q) + 1 \in DOMAIN Append(q, e)
           /\ Len(q) + 1 \notin DOMAIN q
           /\ Append(q, e)[Len(q) + 1] = e
<1>1. Len(q) \in Nat /\ DOMAIN q = 1 .. Len(q)
    BY LenProperties
<1>2. /\ Append(q, e) \in Seq(S)
      /\ Append(q, e) # << >>
      /\ Len(Append(q, e)) = Len(q) + 1
      /\ \A i \in 1 .. Len(q) : Append(q, e)[i] = q[i]
      /\ Append(q, e)[Len(q) + 1] = e
    BY AppendProperties
<1>3. DOMAIN Append(q, e) = 1 .. Len(q) + 1
    BY <1>2, LenProperties
<1> QED  BY <1>1, <1>2, <1>3

\* Taking the first element leaves the others, each one place nearer.
LEMMA QueueTail ==
    ASSUME NEW S, NEW q \in Seq(S), q # << >>
    PROVE  /\ Tail(q) \in Seq(S)
           /\ Head(q) \in S
           /\ Len(q) \in Nat \ {0} /\ Len(Tail(q)) = Len(q) - 1
           /\ 1 \in DOMAIN q /\ Head(q) = q[1]
           /\ \A i \in DOMAIN Tail(q) :
                  /\ i \in Nat \ {0}
                  /\ i + 1 \in DOMAIN q
                  /\ Tail(q)[i] = q[i + 1]
           /\ \A i \in DOMAIN q :
                  /\ i \in Nat \ {0}
                  /\ i # 1 => i - 1 \in DOMAIN Tail(q) /\ Tail(q)[i - 1] = q[i]
<1>1. Len(q) \in Nat \ {0} /\ DOMAIN q = 1 .. Len(q)
    BY LenProperties, EmptySeq
<1>2. /\ Head(q) \in S
      /\ Tail(q) \in Seq(S)
      /\ Len(Tail(q)) = Len(q) - 1
      /\ \A i \in 1 .. Len(Tail(q)) : Tail(q)[i] = q[i + 1]
    BY HeadTailProperties
<1>3. DOMAIN Tail(q) = 1 .. Len(q) - 1
    BY <1>2, LenProperties
<1>4. Head(q) = q[1]
    BY <1>1
<1>5. \A i \in 1 .. Len(q) - 1 : Tail(q)[i] = q[i + 1]
    BY <1>2
<1>6. \A i \in DOMAIN Tail(q) :
          i \in Nat \ {0} /\ i + 1 \in DOMAIN q /\ Tail(q)[i] = q[i + 1]
    BY <1>1, <1>3, <1>5
<1>7. \A i \in DOMAIN q :
          /\ i \in Nat \ {0}
          /\ i # 1 => i - 1 \in DOMAIN Tail(q) /\ Tail(q)[i - 1] = q[i]
    <2> TAKE i \in DOMAIN q
    <2>1. i \in Nat \ {0}
        BY <1>1
    <2>2. ASSUME i # 1 PROVE i - 1 \in 1 .. Len(q) - 1 /\ (i - 1) + 1 = i
        BY <1>1, <2>1, <2>2
    <2> QED  BY <1>3, <1>5, <2>1, <2>2
<1> QED  BY <1>1, <1>2, <1>4, <1>6, <1>7

\* Queues of one and of two.
LEMMA QueueOfTwo ==
    ASSUME NEW a, NEW b
    PROVE  /\ Append(<<a>>, b) = <<a, b>>
           /\ Head(<<a, b>>) = a /\ Tail(<<a, b>>) = <<b>>
           /\ Head(<<a>>) = a /\ Tail(<<a>>) = << >>
<1> DEFINE S == {a, b}
<1>1. <<a>> \in Seq(S) /\ Len(<<a>>) = 1 /\ <<a>>[1] = a /\ <<a>> # << >>
    OBVIOUS
<1>2. <<b>> \in Seq(S) /\ Len(<<b>>) = 1 /\ <<b>>[1] = b
    OBVIOUS
<1>3. /\ <<a, b>> \in Seq(S) /\ Len(<<a, b>>) = 2
      /\ <<a, b>>[1] = a /\ <<a, b>>[2] = b /\ <<a, b>> # << >>
    OBVIOUS
<1>4. b \in S
    OBVIOUS
<1> HIDE DEF S
<1>5. Append(<<a>>, b) = <<a, b>>
    <2> DEFINE q == Append(<<a>>, b)
    <2>1. q \in Seq(S) /\ Len(q) = Len(<<a>>) + 1
          /\ (\A i \in 1 .. Len(<<a>>) : q[i] = <<a>>[i]) /\ q[Len(<<a>>) + 1] = b
        BY <1>1, <1>4, AppendProperties
    <2> HIDE DEF q
    <2>2. Len(q) = 2 /\ q[1] = a /\ q[2] = b
        BY <1>1, <2>1
    <2>3. \A i \in 1 .. Len(q) : q[i] = <<a, b>>[i]
        BY <1>3, <2>2
    <2>4. q = <<a, b>>
        BY <1>3, <2>1, <2>2, <2>3, SeqEqual
    <2> QED  BY <2>4 DEF q
<1>6. Head(<<a, b>>) = a /\ Head(<<a>>) = a
    OBVIOUS
<1>7. Tail(<<a, b>>) = <<b>>
    <2> DEFINE q == Tail(<<a, b>>)
    <2>1. q \in Seq(S) /\ Len(q) = Len(<<a, b>>) - 1
          /\ \A i \in 1 .. Len(q) : q[i] = <<a, b>>[i + 1]
        BY <1>3, HeadTailProperties
    <2> HIDE DEF q
    <2>2. Len(q) = 1 /\ q[1] = b
        BY <1>3, <2>1
    <2>3. \A i \in 1 .. Len(q) : q[i] = <<b>>[i]
        BY <1>2, <2>2
    <2>4. q = <<b>>
        BY <1>2, <2>1, <2>2, <2>3, SeqEqual
    <2> QED  BY <2>4 DEF q
<1>8. Tail(<<a>>) = << >>
    <2>1. Tail(<<a>>) \in Seq(S) /\ Len(Tail(<<a>>)) = Len(<<a>>) - 1
        BY <1>1, HeadTailProperties
    <2>2. Len(Tail(<<a>>)) = 0
        BY <1>1, <2>1
    <2> QED  BY <2>1, <2>2, EmptySeq
<1> QED  BY <1>5, <1>6, <1>7, <1>8
=============================================================================
