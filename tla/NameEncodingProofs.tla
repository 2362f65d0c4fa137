-------------------------- MODULE NameEncodingProofs --------------------------
(***************************************************************************)
(* Proofs about NameEncoding for names of any length: the encodings that   *)
(* the properties compare with are given by recursion, so that the first   *)
(* part shows that these equations have a solution.                        *)
(***************************************************************************)
EXTENDS NameEncoding, SequenceTheorems, NaturalsInduction, WellFoundedInduction, TLAPS

-----------------------------------------------------------------------------
(* Recursion over sequences *)

LEMMA Least ==
  ASSUME NEW S \in SUBSET Nat, S # {}
  PROVE  \E n \in S : \A m \in S : n <= m
PROOF
  <1>1. PICK n \in S : \A m \in S : ~(<<m, n>> \in OpToRel(<, Nat))
    BY WFMin, NatLessThanWellFounded
  <1>2. \A m \in S : ~(m < n)
    BY <1>1 DEF OpToRel
  <1>3. QED
    BY <1>2

LEMMA Shortest ==
  ASSUME NEW S, NEW B \in SUBSET Seq(S), B # {}
  PROVE  \E s \in B : \A t \in B : Len(s) <= Len(t)
PROOF
  <1>1. \A s \in B : Len(s) \in Nat
    BY LenProperties
  <1>2. {Len(s) : s \in B} \in SUBSET Nat /\ {Len(s) : s \in B} # {}
    BY <1>1
  <1>3. PICK n \in {Len(s) : s \in B} : \A m \in {Len(s) : s \in B} : n <= m
    BY <1>2, Least
  <1>4. QED
    BY <1>3

Short(S, n) == {s \in Seq(S) : Len(s) < n}

\* The function g reads the sequences that are shorter than n.
Reads(S, T, head, tail, g, n) ==
    /\ g \in [Short(S, n) -> Seq(T)]
    /\ \A s \in Short(S, n) : g[s] = IF s = <<>> THEN <<>> ELSE head[s] \o g[tail[s]]

LEMMA ReadsExist ==
  ASSUME NEW S, NEW T, NEW head \in [Seq(S) -> Seq(T)], NEW tail \in [Seq(S) -> Seq(S)],
         \A s \in Seq(S) : s # <<>> => Len(tail[s]) < Len(s)
  PROVE  \A n \in Nat : \E g : Reads(S, T, head, tail, g, n)
PROOF
  <1> DEFINE B == {n \in Nat : ~ \E g : Reads(S, T, head, tail, g, n)}
  <1>1. SUFFICES ASSUME B # {} PROVE FALSE
    OBVIOUS
  <1>2. PICK n \in B : \A m \in B : n <= m
    BY <1>1, Least
  <1>3. n # 0
    <2>1. \A s \in Seq(S) : ~(Len(s) < 0)
      BY LenProperties
    <2>2. Short(S, 0) = {}
      BY <2>1 DEF Short
    <2>3. Reads(S, T, head, tail, [s \in {} |-> <<>>], 0)
      BY <2>2 DEF Reads
    <2>4. QED
      BY <2>3
  <1>4. n \in Nat /\ n - 1 \in Nat /\ n - 1 \notin B
    <2>1. n \in Nat
      OBVIOUS
    <2>2. n - 1 \in Nat /\ ~(n <= n - 1)
      BY <1>3, <2>1
    <2>3. QED
      BY <1>2, <2>1, <2>2
  <1>5. PICK h : Reads(S, T, head, tail, h, n - 1)
    BY <1>4
  <1> DEFINE g == [s \in Short(S, n) |-> IF s = <<>> THEN <<>> ELSE head[s] \o h[tail[s]]]
  <1>6. \A s \in Short(S, n) : s # <<>> => tail[s] \in Short(S, n - 1) /\ tail[s] \in Short(S, n)
    <2>1. SUFFICES ASSUME NEW s \in Short(S, n), s # <<>>
                   PROVE tail[s] \in Short(S, n - 1) /\ tail[s] \in Short(S, n)
      OBVIOUS
    <2>2. s \in Seq(S) /\ Len(s) \in Nat /\ Len(s) < n
      BY LenProperties DEF Short
    <2>3. tail[s] \in Seq(S) /\ Len(tail[s]) \in Nat /\ Len(tail[s]) < Len(s)
      BY <2>1, <2>2, LenProperties
    <2>4. QED
      BY <1>4, <2>2, <2>3 DEF Short
  <1>7. g \in [Short(S, n) -> Seq(T)]
    <2>1. ASSUME NEW s \in Short(S, n), s # <<>>
          PROVE  head[s] \o h[tail[s]] \in Seq(T)
      <3>1. head[s] \in Seq(T) /\ h[tail[s]] \in Seq(T)
        BY <1>5, <1>6, <2>1 DEF Reads, Short
      <3>2. QED
        BY <3>1, ConcatProperties
    <2>2. <<>> \in Seq(T)
      BY EmptySeq
    <2>3. QED
      BY <2>1, <2>2
  <1>8. ASSUME NEW s \in Short(S, n), s # <<>>
        PROVE  g[tail[s]] = h[tail[s]]
    BY <1>5, <1>6, <1>8 DEF Reads
  <1>9. Reads(S, T, head, tail, g, n)
    BY <1>7, <1>8 DEF Reads
  <1>10. QED
    BY <1>2, <1>9

\* A reading of all sequences: what the front gives, and the reading of the rest
Reading(S, head, tail, f) ==
    f = [s \in Seq(S) |-> IF s = <<>> THEN <<>> ELSE head[s] \o f[tail[s]]]

\* An equation by which a sequence is read from its front has a solution.
LEMMA ReadingExists ==
  ASSUME NEW S, NEW T, NEW head \in [Seq(S) -> Seq(T)], NEW tail \in [Seq(S) -> Seq(S)],
         \A s \in Seq(S) : s # <<>> => Len(tail[s]) < Len(s)
  PROVE  \E f : Reading(S, head, tail, f)
PROOF
  <1> DEFINE G == [n \in Nat |-> CHOOSE g : Reads(S, T, head, tail, g, n)]
             f == [s \in Seq(S) |-> G[Len(s) + 1][s]]
  <1>1. \A n \in Nat : Reads(S, T, head, tail, G[n], n)
    BY ReadsExist
  <1> HIDE DEF G
  <1>2. \A n, m \in Nat : n <= m => \A s \in Short(S, n) : G[n][s] = G[m][s]
    <2> SUFFICES ASSUME NEW n \in Nat, NEW m \in Nat, n <= m
                 PROVE  \A s \in Short(S, n) : G[n][s] = G[m][s]
      OBVIOUS
    <2> DEFINE g == G[n]
               h == G[m]
    <2>0. Reads(S, T, head, tail, g, n) /\ Reads(S, T, head, tail, h, m)
      BY <1>1
    <2> HIDE DEF g, h
    <2> DEFINE B == {s \in Short(S, n) : g[s] # h[s]}
    <2>1. SUFFICES ASSUME B # {} PROVE FALSE
      BY DEF g, h
    <2>2. B \in SUBSET Seq(S)
      BY DEF Short
    <2>3. PICK s \in B : \A t \in B : Len(s) <= Len(t)
      BY <2>1, <2>2, Shortest
    <2>4. s \in Seq(S) /\ Len(s) \in Nat /\ Len(s) < n /\ g[s] # h[s]
      BY <2>3, LenProperties DEF Short
    <2>5. s \in Short(S, n) /\ s \in Short(S, m)
      BY <2>4 DEF Short
    <2>6. g[s] = (IF s = <<>> THEN <<>> ELSE head[s] \o g[tail[s]])
      BY <2>0, <2>5 DEF Reads
    <2>7. h[s] = (IF s = <<>> THEN <<>> ELSE head[s] \o h[tail[s]])
      BY <2>0, <2>5 DEF Reads
    <2>8. s # <<>>
      BY <2>4, <2>6, <2>7
    <2>9. tail[s] \in Seq(S) /\ Len(tail[s]) \in Nat /\ Len(tail[s]) < Len(s)
      BY <2>4, <2>8, LenProperties
    <2>10. tail[s] \in Short(S, n) /\ tail[s] \notin B
      BY <2>3, <2>4, <2>9 DEF Short
    <2>11. QED
      BY <2>4, <2>6, <2>7, <2>8, <2>10
  <1>3. ASSUME NEW s \in Seq(S)
        PROVE  f[s] = IF s = <<>> THEN <<>> ELSE head[s] \o f[tail[s]]
    <2>1. Len(s) \in Nat /\ Len(s) + 1 \in Nat /\ s \in Short(S, Len(s) + 1)
      BY LenProperties DEF Short
    <2>2. G[Len(s) + 1][s] = IF s = <<>> THEN <<>> ELSE head[s] \o G[Len(s) + 1][tail[s]]
      BY <1>1, <2>1 DEF Reads
    <2>3. CASE s = <<>>
      BY <2>2, <2>3
    <2>4. CASE s # <<>>
      <3>1. tail[s] \in Seq(S) /\ Len(tail[s]) \in Nat /\ Len(tail[s]) < Len(s)
        BY <2>4, LenProperties
      <3> DEFINE k == Len(tail[s]) + 1
                 m == Len(s) + 1
      <3>2. k \in Nat /\ m \in Nat /\ k <= m /\ tail[s] \in Short(S, k)
        BY <2>1, <3>1 DEF Short
      <3> HIDE DEF k, m
      <3>3. \A t \in Short(S, k) : G[k][t] = G[m][t]
        BY <1>2, <3>2
      <3>4. QED
        BY <2>2, <2>4, <3>1, <3>2, <3>3 DEF k, m
    <2>5. QED
      BY <2>3, <2>4
  <1>4. f = [s \in Seq(S) |-> IF s = <<>> THEN <<>> ELSE head[s] \o f[tail[s]]]
    BY <1>3
  <1>5. QED
    BY <1>4 DEF Reading

\* And its values are sequences of the runes that are read.
LEMMA ReadingType ==
  ASSUME NEW S, NEW T, NEW head \in [Seq(S) -> Seq(T)], NEW tail \in [Seq(S) -> Seq(S)],
         \A s \in Seq(S) : s # <<>> => Len(tail[s]) < Len(s),
         NEW f, Reading(S, head, tail, f)
  PROVE  f \in [Seq(S) -> Seq(T)]
PROOF
  <1> DEFINE B == {s \in Seq(S) : f[s] \notin Seq(T)}
  <1>1. SUFFICES ASSUME B # {} PROVE FALSE
    BY DEF Reading
  <1>2. PICK s \in B : \A t \in B : Len(s) <= Len(t)
    BY <1>1, Shortest
  <1>3. f[s] = IF s = <<>> THEN <<>> ELSE head[s] \o f[tail[s]]
    BY DEF Reading
  <1>4. s # <<>>
    BY <1>3, EmptySeq
  <1>5. tail[s] \in Seq(S) /\ Len(tail[s]) \in Nat /\ Len(tail[s]) < Len(s) /\ Len(s) \in Nat
    BY <1>4, LenProperties
  <1>6. f[tail[s]] \in Seq(T)
    BY <1>2, <1>5
  <1>7. head[s] \o f[tail[s]] \in Seq(T)
    BY <1>6, ConcatProperties
  <1>8. QED
    BY <1>3, <1>4, <1>7

-----------------------------------------------------------------------------
(* The encodings *)

\* The front of a non-empty sequence and what follows it
LEMMA Front ==
  ASSUME NEW S, NEW s \in Seq(S), s # <<>>
  PROVE  /\ Head(s) \in S /\ Tail(s) \in Seq(S) /\ Len(s) \in Nat /\ Len(s) >= 1
         /\ Len(Tail(s)) \in Nat /\ Len(Tail(s)) < Len(s)
         /\ Len(s) > 1 => /\ s[2] \in S /\ Tail(Tail(s)) \in Seq(S)
                          /\ Len(Tail(Tail(s))) < Len(s)
PROOF
  <1>1. /\ Head(s) \in S /\ Tail(s) \in Seq(S) /\ Len(Tail(s)) = Len(s) - 1
        /\ Len(s) \in Nat /\ Len(s) # 0 /\ Len(Tail(s)) \in Nat
    BY HeadTailProperties, LenProperties, EmptySeq
  <1>2. ASSUME Len(s) > 1
        PROVE  /\ s[2] \in S /\ Tail(Tail(s)) \in Seq(S)
               /\ Len(Tail(Tail(s))) < Len(s)
    <2>1. 2 \in 1..Len(s) /\ Len(Tail(s)) # 0
      BY <1>1, <1>2
    <2>2. s[2] \in S
      BY <2>1, ElementOfSeq
    <2>3. Tail(s) # <<>>
      BY <2>1, EmptySeq
    <2>4. Tail(Tail(s)) \in Seq(S) /\ Len(Tail(Tail(s))) = Len(Tail(s)) - 1
      BY <1>1, <2>3, HeadTailProperties
    <2>5. QED
      BY <1>1, <2>2, <2>4
  <1>3. QED
    BY <1>1, <1>2

LEMMA Single ==
  ASSUME NEW S, NEW c \in S
  PROVE  <<c>> \in Seq(S)
PROOF
  OBVIOUS

LEMMA DecodeLocalDef ==
  /\ DecodeLocal \in [Seq(Rune) -> Seq(Decoded)]
  /\ DecodeLocal = [n \in Seq(Rune) |->
        IF n = <<>> THEN <<>>
        ELSE IF Head(n) = "null" THEN <<"zero">> \o DecodeLocal[Tail(n)]
        ELSE IF Head(n) = "quote" /\ Len(n) > 1 /\ n[2] \in {"quote", "null"}
             THEN <<n[2]>> \o DecodeLocal[Tail(Tail(n))]
        ELSE <<Head(n)>> \o DecodeLocal[Tail(n)]]
PROOF
  <1> DEFINE pair(n) == Head(n) = "quote" /\ Len(n) > 1 /\ n[2] \in {"quote", "null"}
             head == [n \in Seq(Rune) |->
                        IF n = <<>> THEN <<>>
                        ELSE IF Head(n) = "null" THEN <<"zero">>
                        ELSE IF pair(n) THEN <<n[2]>> ELSE <<Head(n)>>]
             tail == [n \in Seq(Rune) |->
                        IF n = <<>> THEN <<>>
                        ELSE IF Head(n) = "null" THEN Tail(n)
                        ELSE IF pair(n) THEN Tail(Tail(n)) ELSE Tail(n)]
  <1>1. head \in [Seq(Rune) -> Seq(Decoded)]
    <2>1. ASSUME NEW n \in Seq(Rune), n # <<>>
          PROVE  Head(n) \in Decoded /\ (Len(n) > 1 => n[2] \in Decoded)
      BY <2>1, Front DEF Decoded
    <2>2. "zero" \in Decoded /\ <<>> \in Seq(Decoded)
      BY EmptySeq DEF Decoded
    <2>3. QED
      BY <2>1, <2>2, Single
  <1>2. /\ tail \in [Seq(Rune) -> Seq(Rune)]
        /\ \A n \in Seq(Rune) : n # <<>> => Len(tail[n]) < Len(n)
    BY Front, EmptySeq
  <1>3. ASSUME NEW f
        PROVE  /\ [n \in Seq(Rune) |-> IF n = <<>> THEN <<>> ELSE head[n] \o f[tail[n]]]
                    = [n \in Seq(Rune) |->
                        IF n = <<>> THEN <<>>
                        ELSE IF Head(n) = "null" THEN <<"zero">> \o f[Tail(n)]
                        ELSE IF pair(n) THEN <<n[2]>> \o f[Tail(Tail(n))]
                        ELSE <<Head(n)>> \o f[Tail(n)]]
    OBVIOUS
  <1> HIDE DEF head, tail
  <1>4. PICK f : Reading(Rune, head, tail, f)
    BY <1>1, <1>2, ReadingExists
  <1>5. f = [n \in Seq(Rune) |->
                        IF n = <<>> THEN <<>>
                        ELSE IF Head(n) = "null" THEN <<"zero">> \o f[Tail(n)]
                        ELSE IF pair(n) THEN <<n[2]>> \o f[Tail(Tail(n))]
                        ELSE <<Head(n)>> \o f[Tail(n)]]
    BY <1>3, <1>4 DEF Reading
  <1>6. DecodeLocal = [n \in Seq(Rune) |->
                        IF n = <<>> THEN <<>>
                        ELSE IF Head(n) = "null" THEN <<"zero">> \o DecodeLocal[Tail(n)]
                        ELSE IF pair(n) THEN <<n[2]>> \o DecodeLocal[Tail(Tail(n))]
                        ELSE <<Head(n)>> \o DecodeLocal[Tail(n)]]
    BY <1>5 DEF DecodeLocal
  <1>7. Reading(Rune, head, tail, DecodeLocal)
    BY <1>3, <1>6 DEF Reading
  <1>8. DecodeLocal \in [Seq(Rune) -> Seq(Decoded)]
    BY <1>1, <1>2, <1>7, ReadingType
  <1>9. QED
    BY <1>6, <1>8

LEMMA WrittenType ==
  ASSUME NEW c \in Decoded
  PROVE  Written(c) \in Seq(Rune)
PROOF
  <1>1. \A b \in {"null", "picture", "quote"} : <<b>> \in Seq(Rune) /\ <<"quote", b>> \in Seq(Rune)
    BY DEF Rune
  <1>2. \A b \in Rune : <<b>> \in Seq(Rune)
    OBVIOUS
  <1>3. QED
    BY <1>1, <1>2 DEF Written, Decoded

LEMMA EncodeStandardDef ==
  /\ EncodeStandard \in [Seq(Decoded) -> Seq(Rune)]
  /\ EncodeStandard = [d \in Seq(Decoded) |->
        IF d = <<>> THEN <<>> ELSE Written(Head(d)) \o EncodeStandard[Tail(d)]]
PROOF
  <1> DEFINE head == [d \in Seq(Decoded) |-> IF d = <<>> THEN <<>> ELSE Written(Head(d))]
             tail == [d \in Seq(Decoded) |-> IF d = <<>> THEN <<>> ELSE Tail(d)]
  <1>1. head \in [Seq(Decoded) -> Seq(Rune)]
    BY WrittenType, Front, EmptySeq
  <1>2. /\ tail \in [Seq(Decoded) -> Seq(Decoded)]
        /\ \A d \in Seq(Decoded) : d # <<>> => Len(tail[d]) < Len(d)
    BY Front, EmptySeq
  <1>3. ASSUME NEW f
        PROVE  [d \in Seq(Decoded) |-> IF d = <<>> THEN <<>> ELSE head[d] \o f[tail[d]]]
                = [d \in Seq(Decoded) |->
                    IF d = <<>> THEN <<>> ELSE Written(Head(d)) \o f[Tail(d)]]
    OBVIOUS
  <1> HIDE DEF head, tail
  <1>4. PICK f : Reading(Decoded, head, tail, f)
    BY <1>1, <1>2, ReadingExists
  <1>5. f = [d \in Seq(Decoded) |->
                    IF d = <<>> THEN <<>> ELSE Written(Head(d)) \o f[Tail(d)]]
    BY <1>3, <1>4 DEF Reading
  <1>6. EncodeStandard = [d \in Seq(Decoded) |->
          IF d = <<>> THEN <<>> ELSE Written(Head(d)) \o EncodeStandard[Tail(d)]]
    BY <1>5 DEF EncodeStandard
  <1>7. Reading(Decoded, head, tail, EncodeStandard)
    BY <1>3, <1>6 DEF Reading
  <1>8. EncodeStandard \in [Seq(Decoded) -> Seq(Rune)]
    BY <1>1, <1>2, <1>7, ReadingType
  <1>9. QED
    BY <1>6, <1>8

LEMMA DecodeStandardDef ==
  DecodeStandard = [n \in Seq(Rune) |->
        IF n = <<>> THEN <<>>
        ELSE IF Head(n) = "quote" /\ Len(n) > 1
             THEN <<n[2]>> \o DecodeStandard[Tail(Tail(n))]
        ELSE <<Plain(Head(n))>> \o DecodeStandard[Tail(n)]]
PROOF
  <1> DEFINE pair(n) == Head(n) = "quote" /\ Len(n) > 1
             head == [n \in Seq(Rune) |->
                        IF n = <<>> THEN <<>>
                        ELSE IF pair(n) THEN <<n[2]>> ELSE <<Plain(Head(n))>>]
             tail == [n \in Seq(Rune) |->
                        IF n = <<>> THEN <<>>
                        ELSE IF pair(n) THEN Tail(Tail(n)) ELSE Tail(n)]
  <1>1. head \in [Seq(Rune) -> Seq(Decoded)]
    <2>1. \A c \in Rune : Plain(c) \in Decoded
      BY DEF Plain, Decoded, Rune
    <2>2. ASSUME NEW n \in Seq(Rune), n # <<>>
          PROVE  Plain(Head(n)) \in Decoded /\ (Len(n) > 1 => n[2] \in Decoded)
      BY <2>1, <2>2, Front DEF Decoded
    <2>3. <<>> \in Seq(Decoded)
      BY EmptySeq
    <2>4. QED
      BY <2>2, <2>3, Single
  <1>2. /\ tail \in [Seq(Rune) -> Seq(Rune)]
        /\ \A n \in Seq(Rune) : n # <<>> => Len(tail[n]) < Len(n)
    BY Front, EmptySeq
  <1>3. ASSUME NEW f
        PROVE  [n \in Seq(Rune) |-> IF n = <<>> THEN <<>> ELSE head[n] \o f[tail[n]]]
                = [n \in Seq(Rune) |->
                    IF n = <<>> THEN <<>>
                    ELSE IF pair(n) THEN <<n[2]>> \o f[Tail(Tail(n))]
                    ELSE <<Plain(Head(n))>> \o f[Tail(n)]]
    OBVIOUS
  <1> HIDE DEF head, tail
  <1>4. PICK f : Reading(Rune, head, tail, f)
    BY <1>1, <1>2, ReadingExists
  <1>5. f = [n \in Seq(Rune) |->
                    IF n = <<>> THEN <<>>
                    ELSE IF pair(n) THEN <<n[2]>> \o f[Tail(Tail(n))]
                    ELSE <<Plain(Head(n))>> \o f[Tail(n)]]
    BY <1>3, <1>4 DEF Reading
  <1>6. QED
    BY <1>5 DEF DecodeStandard

LEMMA Cons ==
  ASSUME NEW S, NEW c \in S, NEW r \in Seq(S)
  PROVE  /\ <<c>> \o r \in Seq(S) /\ <<c>> \o r # <<>>
         /\ Head(<<c>> \o r) = c /\ Tail(<<c>> \o r) = r
         /\ Len(<<c>> \o r) = Len(r) + 1
PROOF
  <1>1. <<c>> \in Seq(S) /\ Len(<<c>>) = 1 /\ <<c>>[1] = c
    OBVIOUS
  <1> DEFINE s == <<c>> \o r
  <1>2. /\ s \in Seq(S) /\ Len(s) = 1 + Len(r) /\ Len(r) \in Nat
        /\ \A i \in 1 .. 1 + Len(r) : s[i] = IF i <= 1 THEN <<c>>[i] ELSE r[i - 1]
    BY <1>1, ConcatProperties, LenProperties
  <1>3. Len(s) # 0
    BY <1>2
  <1>4. s # <<>>
    BY <1>3, EmptySeq
  <1> HIDE DEF s
  <1>5. /\ Tail(s) \in Seq(S) /\ Len(Tail(s)) = Len(r)
        /\ \A i \in 1 .. Len(Tail(s)) : Tail(s)[i] = s[i + 1]
    BY <1>2, <1>4, HeadTailProperties
  <1>6. \A i \in 1 .. Len(r) : Tail(s)[i] = r[i]
    BY <1>2, <1>5
  <1>7. Tail(s) = r
    BY <1>5, <1>6, SeqEqual
  <1>8. Head(s) = c
    BY <1>1, <1>2
  <1>9. QED
    BY <1>2, <1>4, <1>7, <1>8 DEF s

LEMMA Regroup ==
  ASSUME NEW S, NEW a \in Seq(S), NEW b \in Seq(S), NEW c \in Seq(S)
  PROVE  a \o (b \o c) = (a \o b) \o c
PROOF
  BY ConcatAssociative

LEMMA Cons2 ==
  ASSUME NEW S, NEW b \in S, NEW c \in S, NEW r \in Seq(S)
  PROVE  /\ <<b>> \o (<<c>> \o r) \in Seq(S) /\ <<b>> \o (<<c>> \o r) # <<>>
         /\ Head(<<b>> \o (<<c>> \o r)) = b
         /\ Tail(<<b>> \o (<<c>> \o r)) = <<c>> \o r
         /\ Tail(Tail(<<b>> \o (<<c>> \o r))) = r
         /\ Len(<<b>> \o (<<c>> \o r)) > 1
         /\ (<<b>> \o (<<c>> \o r))[2] = c
PROOF
  <1> DEFINE t == <<c>> \o r
             s == <<b>> \o t
  <1>1. t \in Seq(S) /\ Head(t) = c /\ Tail(t) = r /\ Len(t) = Len(r) + 1 /\ t # <<>>
        /\ Len(r) \in Nat
    BY Cons, LenProperties
  <1> HIDE DEF t
  <1>2. s \in Seq(S) /\ s # <<>> /\ Head(s) = b /\ Tail(s) = t /\ Len(s) = Len(t) + 1
    BY <1>1, Cons
  <1> HIDE DEF s
  <1>3. Tail(s)[1] = s[2]
    <2>1. 1 \in 1 .. Len(Tail(s))
      BY <1>1, <1>2
    <2>2. QED
      BY <1>2, <2>1, HeadTailProperties
  <1>4. t[1] = c
    BY <1>1
  <1>5. Tail(Tail(s)) = r /\ Len(s) > 1
    BY <1>1, <1>2
  <1>6. s[2] = c
    BY <1>2, <1>3, <1>4
  <1>7. /\ s \in Seq(S) /\ s # <<>>
        /\ Head(s) = b /\ Tail(s) = t /\ Tail(Tail(s)) = r
        /\ Len(s) > 1 /\ s[2] = c
    BY <1>2, <1>5, <1>6, Zenon
  <1>8. QED
    BY <1>7, Zenon DEF s, t

\* A sequence that is not empty is its head and its tail.
LEMMA Split ==
  ASSUME NEW S, NEW s \in Seq(S), s # <<>>
  PROVE  s = <<Head(s)>> \o Tail(s)
PROOF
  <1>1. Head(s) \in S /\ Tail(s) \in Seq(S) /\ Len(s) \in Nat /\ Len(Tail(s)) = Len(s) - 1
        /\ \A i \in 1 .. Len(Tail(s)) : Tail(s)[i] = s[i + 1]
    BY HeadTailProperties, LenProperties
  <1> DEFINE t == <<Head(s)>> \o Tail(s)
  <1>2. /\ t \in Seq(S) /\ t # <<>> /\ Head(t) = Head(s) /\ Tail(t) = Tail(s)
        /\ Len(t) = Len(Tail(s)) + 1
    BY <1>1, Cons
  <1> HIDE DEF t
  <1>3. \A i \in 1 .. Len(Tail(t)) : Tail(t)[i] = t[i + 1]
    BY <1>2, HeadTailProperties
  <1>4. ASSUME NEW i \in 1 .. Len(s)
        PROVE  s[i] = t[i]
    <2>1. CASE i = 1
      BY <1>2, <2>1
    <2>2. CASE i # 1
      <3>1. i - 1 \in 1 .. Len(Tail(s)) /\ (i - 1) + 1 = i
        BY <1>1, <2>2
      <3>2. QED
        BY <1>1, <1>2, <1>3, <3>1
    <2>3. QED
      BY <2>1, <2>2
  <1>5. Len(s) = Len(t)
    BY <1>1, <1>2
  <1>6. s = t
    BY <1>2, <1>4, <1>5, SeqEqual
  <1>7. QED
    BY <1>6 DEF t

LEMMA DecodeLocalClauses ==
  ASSUME NEW r \in Seq(Rune)
  PROVE  /\ DecodeLocal[<<>>] = <<>>
         /\ DecodeLocal[r] \in Seq(Decoded)
         /\ DecodeLocal[<<"null">> \o r] = <<"zero">> \o DecodeLocal[r]
         /\ \A c \in {"quote", "null"} :
                DecodeLocal[<<"quote">> \o (<<c>> \o r)] = <<c>> \o DecodeLocal[r]
         /\ \A c \in Rune \ {"quote", "null"} :
                /\ DecodeLocal[<<c>> \o r] = <<c>> \o DecodeLocal[r]
                /\ DecodeLocal[<<"quote">> \o (<<c>> \o r)]
                        = <<"quote">> \o DecodeLocal[<<c>> \o r]
         /\ DecodeLocal[<<"quote">>] = <<"quote">>
PROOF
  <1>0. /\ "quote" \in Rune /\ "null" \in Rune /\ <<>> \in Seq(Rune) /\ <<"quote">> \in Seq(Rune)
        /\ <<"quote">> \in Seq(Decoded)
    BY EmptySeq DEF Rune, Decoded
  <1>1. ASSUME NEW n \in Seq(Rune)
        PROVE  DecodeLocal[n] =
                 IF n = <<>> THEN <<>>
                 ELSE IF Head(n) = "null" THEN <<"zero">> \o DecodeLocal[Tail(n)]
                 ELSE IF Head(n) = "quote" /\ Len(n) > 1 /\ n[2] \in {"quote", "null"}
                      THEN <<n[2]>> \o DecodeLocal[Tail(Tail(n))]
                 ELSE <<Head(n)>> \o DecodeLocal[Tail(n)]
    BY DecodeLocalDef
  <1>2. DecodeLocal[<<>>] = <<>> /\ DecodeLocal[r] \in Seq(Decoded)
    BY <1>0, <1>1, DecodeLocalDef
  <1>3. DecodeLocal[<<"null">> \o r] = <<"zero">> \o DecodeLocal[r]
    <2> DEFINE n == <<"null">> \o r
    <2>1. n \in Seq(Rune) /\ n # <<>> /\ Head(n) = "null" /\ Tail(n) = r
      BY <1>0, Cons
    <2> HIDE DEF n
    <2>2. DecodeLocal[n] = <<"zero">> \o DecodeLocal[r]
      BY <1>1, <2>1
    <2>3. QED
      BY <2>2 DEF n
  <1>4. ASSUME NEW c \in {"quote", "null"}
        PROVE  DecodeLocal[<<"quote">> \o (<<c>> \o r)] = <<c>> \o DecodeLocal[r]
    <2> DEFINE n == <<"quote">> \o (<<c>> \o r)
    <2>1. /\ n \in Seq(Rune) /\ n # <<>> /\ Head(n) = "quote" /\ Tail(Tail(n)) = r
          /\ Len(n) > 1 /\ n[2] = c
      BY <1>0, Cons2
    <2> HIDE DEF n
    <2>2. DecodeLocal[n] = <<c>> \o DecodeLocal[r]
      BY <1>1, <2>1
    <2>3. QED
      BY <2>2 DEF n
  <1>5. ASSUME NEW c \in Rune \ {"quote", "null"}
        PROVE  DecodeLocal[<<c>> \o r] = <<c>> \o DecodeLocal[r]
    <2> DEFINE n == <<c>> \o r
    <2>1. n \in Seq(Rune) /\ n # <<>> /\ Head(n) = c /\ Tail(n) = r
      BY Cons
    <2> HIDE DEF n
    <2>2. DecodeLocal[n] = <<c>> \o DecodeLocal[r]
      BY <1>1, <2>1
    <2>3. QED
      BY <2>2 DEF n
  <1>6. ASSUME NEW c \in Rune \ {"quote", "null"}
        PROVE  DecodeLocal[<<"quote">> \o (<<c>> \o r)]
                  = <<"quote">> \o DecodeLocal[<<c>> \o r]
    <2> DEFINE n == <<"quote">> \o (<<c>> \o r)
    <2>1. /\ n \in Seq(Rune) /\ n # <<>> /\ Head(n) = "quote" /\ Tail(n) = <<c>> \o r
          /\ n[2] = c
      BY <1>0, Cons2
    <2> HIDE DEF n
    <2>2. DecodeLocal[n] = <<"quote">> \o DecodeLocal[<<c>> \o r]
      BY <1>1, <2>1
    <2>3. QED
      BY <2>2 DEF n
  <1>7. DecodeLocal[<<"quote">>] = <<"quote">>
    <2> DEFINE n == <<"quote">>
    <2>1. /\ n \in Seq(Rune) /\ n # <<>> /\ Head(n) = "quote" /\ Tail(n) = <<>>
          /\ ~(Len(n) > 1)
      BY <1>0
    <2> HIDE DEF n
    <2>2. DecodeLocal[n] = <<"quote">> \o DecodeLocal[<<>>]
      BY <1>1, <2>1
    <2>3. QED
      BY <1>0, <1>2, <2>2, ConcatEmptySeq DEF n
  <1>8. QED
    BY <1>2, <1>3, <1>4, <1>5, <1>6, <1>7

LEMMA EncodeStandardClauses ==
  ASSUME NEW d \in Seq(Decoded), NEW c \in Decoded
  PROVE  /\ EncodeStandard[<<>>] = <<>>
         /\ EncodeStandard[d] \in Seq(Rune)
         /\ EncodeStandard[<<c>> \o d] = Written(c) \o EncodeStandard[d]
PROOF
  <1>1. \A s \in Seq(Decoded) : EncodeStandard[s] =
          IF s = <<>> THEN <<>> ELSE Written(Head(s)) \o EncodeStandard[Tail(s)]
    BY EncodeStandardDef
  <1>2. EncodeStandard[<<>>] = <<>> /\ EncodeStandard[d] \in Seq(Rune)
    BY <1>1, EncodeStandardDef, EmptySeq
  <1> DEFINE s == <<c>> \o d
  <1>3. s \in Seq(Decoded) /\ s # <<>> /\ Head(s) = c /\ Tail(s) = d
    BY Cons
  <1> HIDE DEF s
  <1>4. EncodeStandard[s] = Written(c) \o EncodeStandard[d]
    BY <1>1, <1>3
  <1>5. QED
    BY <1>2, <1>4 DEF s

-----------------------------------------------------------------------------
(* The name under which rclone lists a file *)

Listed(n) == EncodeStandard[DecodeLocal[n]]

LEMMA ListedClauses ==
  ASSUME NEW r \in Seq(Rune)
  PROVE  /\ Listed(<<>>) = <<>>
         /\ Listed(r) \in Seq(Rune)
         /\ Listed(<<"null">> \o r) = <<"null">> \o Listed(r)
         /\ Listed(<<"quote">> \o (<<"null">> \o r)) = <<"quote", "null">> \o Listed(r)
         /\ Listed(<<"quote">> \o (<<"quote">> \o r)) = <<"quote", "quote">> \o Listed(r)
         /\ \A c \in Rune \ {"quote", "null"} :
                /\ Listed(<<c>> \o r) = Spell(c) \o Listed(r)
                /\ Listed(<<"quote">> \o (<<c>> \o r))
                        = <<"quote", "quote">> \o Listed(<<c>> \o r)
         /\ Listed(<<"quote">>) = <<"quote", "quote">>
PROOF
  <1>1. /\ "zero" \in Decoded /\ "quote" \in Decoded /\ "null" \in Decoded
        /\ Rune \subseteq Decoded /\ <<>> \in Seq(Decoded) /\ "quote" \in Rune
        /\ <<"quote", "quote">> \in Seq(Rune)
    BY EmptySeq DEF Rune, Decoded
  <1>2. /\ Written("zero") = <<"null">> /\ Written("quote") = <<"quote", "quote">>
        /\ Written("null") = <<"quote", "null">>
        /\ \A c \in Rune \ {"quote", "null"} : Written(c) = Spell(c)
    BY DEF Written, Spell, Rune
  <1>3. Listed(<<>>) = <<>> /\ Listed(r) \in Seq(Rune)
    BY <1>1, DecodeLocalClauses, EncodeStandardClauses DEF Listed
  <1> DEFINE d == DecodeLocal[r]
  <1>4. d \in Seq(Decoded)
    BY DecodeLocalClauses
  <1>5. \A c \in Decoded : EncodeStandard[<<c>> \o d] = Written(c) \o EncodeStandard[d]
    BY <1>4, EncodeStandardClauses
  <1>6. Listed(<<"null">> \o r) = <<"null">> \o Listed(r)
    <2>1. DecodeLocal[<<"null">> \o r] = <<"zero">> \o d
      BY DecodeLocalClauses
    <2>2. QED
      BY <1>1, <1>2, <1>5, <2>1 DEF Listed
  <1>7. Listed(<<"quote">> \o (<<"null">> \o r)) = <<"quote", "null">> \o Listed(r)
    <2>1. DecodeLocal[<<"quote">> \o (<<"null">> \o r)] = <<"null">> \o d
      BY DecodeLocalClauses
    <2>2. QED
      BY <1>1, <1>2, <1>5, <2>1 DEF Listed
  <1>8. Listed(<<"quote">> \o (<<"quote">> \o r)) = <<"quote", "quote">> \o Listed(r)
    <2>1. DecodeLocal[<<"quote">> \o (<<"quote">> \o r)] = <<"quote">> \o d
      BY DecodeLocalClauses
    <2>2. QED
      BY <1>1, <1>2, <1>5, <2>1 DEF Listed
  <1>9. ASSUME NEW c \in Rune \ {"quote", "null"}
        PROVE  Listed(<<c>> \o r) = Spell(c) \o Listed(r)
    <2>1. DecodeLocal[<<c>> \o r] = <<c>> \o d
      BY DecodeLocalClauses
    <2>2. QED
      BY <1>1, <1>2, <1>5, <2>1 DEF Listed
  <1>10. ASSUME NEW c \in Rune \ {"quote", "null"}
        PROVE  Listed(<<"quote">> \o (<<c>> \o r)) = <<"quote", "quote">> \o Listed(<<c>> \o r)
    <2>1. <<c>> \o r \in Seq(Rune)
      BY Cons
    <2>2. DecodeLocal[<<c>> \o r] \in Seq(Decoded)
      BY <2>1, DecodeLocalClauses
    <2>3. DecodeLocal[<<"quote">> \o (<<c>> \o r)] = <<"quote">> \o DecodeLocal[<<c>> \o r]
      BY DecodeLocalClauses
    <2>4. QED
      BY <1>1, <1>2, <2>2, <2>3, EncodeStandardClauses DEF Listed
  <1>11. Listed(<<"quote">>) = <<"quote", "quote">>
    <2>1. DecodeLocal[<<"quote">>] = <<"quote">> \o <<>>
      BY <1>1, DecodeLocalClauses, ConcatEmptySeq, Single
    <2>2. EncodeStandard[<<"quote">> \o <<>>] = <<"quote", "quote">> \o <<>>
      BY <1>1, <1>2, EncodeStandardClauses
    <2>3. QED
      BY <1>1, <2>1, <2>2, ConcatEmptySeq DEF Listed
  <1>12. QED
    BY <1>3, <1>6, <1>7, <1>8, <1>9, <1>10, <1>11

LEMMA QuotesFacts ==
  /\ Quotes(0) = <<>>
  /\ Quotes(1) = <<"quote">>
  /\ Quotes(2) = <<"quote", "quote">>
  /\ \A n \in Nat : Quotes(n) \in Seq(Rune) /\ Len(Quotes(n)) = n
PROOF
  <1>1. ASSUME NEW n \in Nat
        PROVE  Quotes(n) \in Seq(Rune) /\ Len(Quotes(n)) = n
    BY DEF Quotes, Rune
  <1>2. Quotes(0) = <<>>
    BY <1>1, EmptySeq
  <1>3. Quotes(1) = <<"quote">> /\ Quotes(2) = <<"quote", "quote">>
    BY DEF Quotes
  <1>4. QED
    BY <1>1, <1>2, <1>3

LEMMA PairIs ==
  ASSUME NEW b \in Rune, NEW c \in Rune
  PROVE  <<b>> \o <<c>> = <<b, c>>
PROOF
  <1> DEFINE s == <<b>> \o <<c>>
             t == <<b, c>>
  <1>1. /\ <<b>> \in Seq(Rune) /\ <<c>> \in Seq(Rune) /\ t \in Seq(Rune) /\ Len(t) = 2
        /\ Len(<<b>>) = 1 /\ Len(<<c>>) = 1
    OBVIOUS
  <1>2. /\ s \in Seq(Rune) /\ Len(s) = 2
        /\ \A i \in 1 .. 2 : s[i] = IF i <= 1 THEN <<b>>[i] ELSE <<c>>[i - 1]
    BY <1>1, ConcatProperties
  <1> HIDE DEF s
  <1>3. s[1] = b /\ s[2] = c
    BY <1>2
  <1>4. \A i \in 1 .. Len(s) : s[i] = t[i]
    BY <1>2, <1>3
  <1>5. s = t
    BY <1>1, <1>2, <1>4, SeqEqual
  <1>6. QED
    BY <1>5 DEF s

LEMMA QuotesAdd ==
  ASSUME NEW m \in Nat, NEW n \in Nat
  PROVE  Quotes(m) \o Quotes(n) = Quotes(m + n)
PROOF
  <1>1. /\ Quotes(m) \in Seq(Rune) /\ Quotes(n) \in Seq(Rune) /\ Quotes(m + n) \in Seq(Rune)
        /\ Len(Quotes(m)) = m /\ Len(Quotes(n)) = n /\ Len(Quotes(m + n)) = m + n
    BY QuotesFacts
  <1>2. /\ Quotes(m) \o Quotes(n) \in Seq(Rune) /\ Len(Quotes(m) \o Quotes(n)) = m + n
        /\ \A i \in 1 .. m + n : (Quotes(m) \o Quotes(n))[i]
                = IF i <= m THEN Quotes(m)[i] ELSE Quotes(n)[i - m]
    BY <1>1, ConcatProperties
  <1>3. \A i \in 1 .. m + n : (Quotes(m) \o Quotes(n))[i] = "quote"
    <2>1. ASSUME NEW i \in 1 .. m + n
          PROVE  (Quotes(m) \o Quotes(n))[i] = "quote"
      <3>1. i <= m => Quotes(m)[i] = "quote"
        BY DEF Quotes
      <3>2. ~(i <= m) => Quotes(n)[i - m] = "quote"
        BY DEF Quotes
      <3>3. QED
        BY <1>2, <3>1, <3>2
    <2>2. QED
      BY <2>1
  <1>4. \A i \in 1 .. m + n : Quotes(m + n)[i] = "quote"
    BY DEF Quotes
  <1>5. QED
    BY <1>1, <1>2, <1>3, <1>4, SeqEqual

\* Quotation marks in pairs are listed as they are.
LEMMA ListedPair ==
  ASSUME NEW q \in Nat, q >= 2, NEW r \in Seq(Rune)
  PROVE  Listed(Quotes(q) \o r) = Quotes(2) \o Listed(Quotes(q - 2) \o r)
PROOF
  <1>1. /\ q - 2 \in Nat /\ 1 + (1 + (q - 2)) = q /\ 1 + (q - 2) \in Nat
    OBVIOUS
  <1> DEFINE u == Quotes(q - 2)
  <1>2. /\ u \in Seq(Rune) /\ <<"quote">> \in Seq(Rune) /\ u \o r \in Seq(Rune)
        /\ <<"quote">> \o u \in Seq(Rune) /\ Quotes(2) = <<"quote", "quote">>
        /\ Quotes(1) = <<"quote">>
    BY <1>1, QuotesFacts, ConcatProperties DEF Rune
  <1>3. Quotes(q) = <<"quote">> \o (<<"quote">> \o u)
    BY <1>1, <1>2, QuotesAdd
  <1> HIDE DEF u
  <1>4. (<<"quote">> \o (<<"quote">> \o u)) \o r = <<"quote">> \o (<<"quote">> \o (u \o r))
    <2> DEFINE a == <<"quote">>
               b == a \o u
    <2>1. a \in Seq(Rune) /\ b \in Seq(Rune) /\ u \in Seq(Rune)
      BY <1>2
    <2> HIDE DEF a
    <2>2. a \o (u \o r) = b \o r
      BY <2>1, Regroup
    <2> HIDE DEF b
    <2>3. a \o (b \o r) = (a \o b) \o r
      BY <2>1, Regroup
    <2>4. (a \o b) \o r = a \o (a \o (u \o r))
      BY <2>2, <2>3, Zenon
    <2>5. QED
      BY <2>4, Zenon DEF a, b
  <1>5. Listed(<<"quote">> \o (<<"quote">> \o (u \o r))) = <<"quote", "quote">> \o Listed(u \o r)
    BY <1>2, ListedClauses
  <1>6. QED
    BY <1>2, <1>3, <1>4, <1>5 DEF u

LEMMA SpellType ==
  ASSUME NEW c \in Rune
  PROVE  Spell(c) \in Seq(Rune)
PROOF
  <1>1. <<"picture">> \in Seq(Rune) /\ <<"quote", "picture">> \in Seq(Rune) /\ <<c>> \in Seq(Rune)
    BY DEF Rune
  <1>2. QED
    BY <1>1 DEF Spell

\* What is listed for a rune that follows q quotation marks
LEMMA ListedQuotes ==
  ASSUME NEW c \in Rune \ {"quote"}, NEW r \in Seq(Rune)
  PROVE  \A q \in Nat : Listed(Quotes(q) \o (<<c>> \o r))
                            = Quotes(Even(q, c)) \o (Spell(c) \o Listed(r))
PROOF
  <1> DEFINE t == <<c>> \o r
             l == Spell(c) \o Listed(r)
             B == {q \in Nat : Listed(Quotes(q) \o t) # Quotes(Even(q, c)) \o l}
  <1>0. t \in Seq(Rune) /\ Listed(r) \in Seq(Rune) /\ Spell(c) \in Seq(Rune) /\ l \in Seq(Rune)
    BY SpellType, Cons, ListedClauses, ConcatProperties
  <1>1. SUFFICES ASSUME B # {} PROVE FALSE
    OBVIOUS
  <1>2. PICK q \in B : \A p \in B : q <= p
    BY <1>1, Least
  <1>3. q \in Nat /\ Listed(Quotes(q) \o t) # Quotes(Even(q, c)) \o l
    OBVIOUS
  <1>4. Listed(t) = l
    BY ListedClauses DEF Spell
  <1>5. CASE q = 0
    <2>1. Quotes(0) \o t = t /\ Quotes(0) \o l = l
      BY <1>0, QuotesFacts, ConcatEmptySeq
    <2>2. Even(0, c) = 0
      BY DEF Even
    <2>3. QED
      BY <1>3, <1>4, <1>5, <2>1, <2>2
  <1>6. CASE q = 1
    <2>1. CASE c = "null"
      <3>1. Listed(Quotes(1) \o t) = <<"quote", "null">> \o Listed(r)
        BY <2>1, ListedClauses, QuotesFacts
      <3>2. Even(1, c) = 1 /\ Spell(c) = <<"null">>
        BY <2>1 DEF Even, Spell
      <3>3. /\ <<"quote">> \o <<"null">> = <<"quote", "null">>
            /\ <<"quote">> \in Seq(Rune) /\ <<"null">> \in Seq(Rune)
        BY PairIs DEF Rune
      <3>4. <<"quote">> \o (<<"null">> \o Listed(r)) = (<<"quote">> \o <<"null">>) \o Listed(r)
        <4> DEFINE a == <<"quote">>
                   b == <<"null">>
                   d == Listed(r)
        <4>1. a \in Seq(Rune) /\ b \in Seq(Rune) /\ d \in Seq(Rune)
          BY <1>0, <3>3
        <4> HIDE DEF a, b, d, t, l, B
        <4>2. a \o (b \o d) = (a \o b) \o d
          BY <4>1, Regroup
        <4>3. QED
          BY <4>2, Zenon DEF a, b, d
      <3>5. Quotes(1) \o l = <<"quote", "null">> \o Listed(r)
        BY <3>2, <3>3, <3>4, QuotesFacts
      <3>6. QED
        BY <1>3, <1>6, <3>1, <3>2, <3>5
    <2>2. CASE c # "null"
      <3>1. Listed(Quotes(1) \o t) = <<"quote", "quote">> \o Listed(t)
        <4>1. Listed(<<"quote">> \o t) = <<"quote", "quote">> \o Listed(t)
          BY <2>2, ListedClauses
        <4>2. QED
          BY <4>1, QuotesFacts
      <3>2. Even(1, c) = 2
        BY <2>2 DEF Even
      <3>3. QED
        BY <1>3, <1>4, <1>6, <3>1, <3>2, QuotesFacts
    <2>3. QED
      BY <2>1, <2>2
  <1>7. CASE q >= 2
    <2>1. q - 2 \in Nat /\ ~(q <= q - 2)
      BY <1>3, <1>7
    <2>2. q - 2 \notin B
      BY <1>2, <2>1
    <2>3. Listed(Quotes(q - 2) \o t) = Quotes(Even(q - 2, c)) \o l
      BY <2>1, <2>2
    <2>4. Even(q - 2, c) \in Nat /\ 2 + Even(q - 2, c) = Even(q, c)
      BY <1>3, <2>1 DEF Even
    <2>5. Listed(Quotes(q) \o t) = Quotes(2) \o Listed(Quotes(q - 2) \o t)
      BY <1>0, <1>3, <1>7, ListedPair
    <2> HIDE DEF t, l, B
    <2>6. Quotes(2) \o (Quotes(Even(q - 2, c)) \o l) = (Quotes(2) \o Quotes(Even(q - 2, c))) \o l
      <3>1. Quotes(2) \in Seq(Rune) /\ Quotes(Even(q - 2, c)) \in Seq(Rune)
        BY <2>4, QuotesFacts
      <3>2. l \in Seq(Rune)
        BY <1>0
      <3> DEFINE x == Quotes(2)
                 y == Quotes(Even(q - 2, c))
      <3>3. x \in Seq(Rune) /\ y \in Seq(Rune)
        BY <3>1
      <3> HIDE <1>0
      <3> HIDE DEF x, y
      <3>4. x \o (y \o l) = (x \o y) \o l
        BY <3>2, <3>3, Regroup
      <3>5. QED
        BY <3>4, Zenon DEF x, y
    <2>7. Quotes(2) \o Quotes(Even(q - 2, c)) = Quotes(Even(q, c))
      BY <2>4, QuotesAdd
    <2>8. QED
      BY <1>3, <2>3, <2>5, <2>6, <2>7
  <1>8. QED
    BY <1>3, <1>5, <1>6, <1>7

\* Quotation marks at the end of a name are listed in pairs.
LEMMA ListedEnd ==
  \A q \in Nat : Listed(Quotes(q)) = Quotes(q + (q % 2))
PROOF
  <1> DEFINE B == {q \in Nat : Listed(Quotes(q)) # Quotes(q + (q % 2))}
  <1>1. SUFFICES ASSUME B # {} PROVE FALSE
    OBVIOUS
  <1>2. PICK q \in B : \A p \in B : q <= p
    BY <1>1, Least
  <1>3. q \in Nat /\ Listed(Quotes(q)) # Quotes(q + (q % 2))
    OBVIOUS
  <1>4. <<>> \in Seq(Rune)
    BY EmptySeq
  <1>5. q # 0
    BY <1>3, <1>4, ListedClauses, QuotesFacts
  <1>6. q # 1
    <2>1. Listed(Quotes(1)) = Quotes(2)
      BY <1>4, ListedClauses, QuotesFacts
    <2>2. 1 + (1 % 2) = 2
      OBVIOUS
    <2>3. QED
      BY <1>3, <2>1, <2>2
  <1>7. q - 2 \in Nat /\ ~(q <= q - 2) /\ q >= 2
    BY <1>3, <1>5, <1>6
  <1>8. Listed(Quotes(q - 2)) = Quotes((q - 2) + ((q - 2) % 2))
    BY <1>2, <1>7
  <1>9. Listed(Quotes(q) \o <<>>) = Quotes(2) \o Listed(Quotes(q - 2) \o <<>>)
    BY <1>4, <1>3, <1>7, ListedPair
  <1>10. Quotes(q) \o <<>> = Quotes(q) /\ Quotes(q - 2) \o <<>> = Quotes(q - 2)
    BY <1>3, <1>7, QuotesFacts, ConcatEmptySeq
  <1>11. /\ (q - 2) + ((q - 2) % 2) \in Nat
         /\ 2 + ((q - 2) + ((q - 2) % 2)) = q + (q % 2)
    BY <1>3, <1>7
  <1>12. Quotes(2) \o Quotes((q - 2) + ((q - 2) % 2)) = Quotes(q + (q % 2))
    BY <1>11, QuotesAdd
  <1>13. QED
    BY <1>3, <1>8, <1>9, <1>10, <1>12

-----------------------------------------------------------------------------
(* Reading a Standard name back *)

LEMMA DecodeWritten ==
  ASSUME NEW c \in Decoded, NEW s \in Seq(Rune)
  PROVE  DecodeStandard[Written(c) \o s] = <<c>> \o DecodeStandard[s]
PROOF
  <1>1. ASSUME NEW n \in Seq(Rune)
        PROVE  DecodeStandard[n] =
                 IF n = <<>> THEN <<>>
                 ELSE IF Head(n) = "quote" /\ Len(n) > 1
                      THEN <<n[2]>> \o DecodeStandard[Tail(Tail(n))]
                 ELSE <<Plain(Head(n))>> \o DecodeStandard[Tail(n)]
    BY DecodeStandardDef
  <1>2. CASE c \in {"quote", "null", "picture"}
    <2>1. c \in Rune /\ "quote" \in Rune /\ <<c>> \in Seq(Rune) /\ <<"quote">> \in Seq(Rune)
      BY <1>2 DEF Rune
    <2>2. Written(c) = <<"quote">> \o <<c>>
      BY <1>2, <2>1, PairIs DEF Written
    <2>3. (<<"quote">> \o <<c>>) \o s = <<"quote">> \o (<<c>> \o s)
      <3> DEFINE a == <<"quote">>
                 b == <<c>>
      <3>1. a \in Seq(Rune) /\ b \in Seq(Rune)
        BY <2>1
      <3> HIDE DEF a, b
      <3>2. a \o (b \o s) = (a \o b) \o s
        BY <3>1, Regroup
      <3>3. QED
        BY <3>2, Zenon DEF a, b
    <2> DEFINE n == <<"quote">> \o (<<c>> \o s)
    <2>4. /\ n \in Seq(Rune) /\ n # <<>> /\ Head(n) = "quote" /\ Tail(Tail(n)) = s
          /\ Len(n) > 1 /\ n[2] = c
      BY <2>1, Cons2
    <2> HIDE DEF n
    <2>5. DecodeStandard[n] = <<c>> \o DecodeStandard[s]
      BY <1>1, <2>4
    <2>6. QED
      BY <2>2, <2>3, <2>5 DEF n
  <1>3. CASE c \notin {"quote", "null", "picture"}
    <2>1. PICK b \in Rune \ {"quote"} : Written(c) = <<b>> /\ Plain(b) = c
      BY <1>3 DEF Written, Plain, Rune, Decoded
    <2> DEFINE n == <<b>> \o s
    <2>2. n \in Seq(Rune) /\ n # <<>> /\ Head(n) = b /\ Tail(n) = s
      BY <2>1, Cons
    <2> HIDE DEF n
    <2>3. DecodeStandard[n] = <<c>> \o DecodeStandard[s]
      BY <1>1, <2>1, <2>2
    <2>4. QED
      BY <2>1, <2>3 DEF n
  <1>4. QED
    BY <1>2, <1>3

\* What Standard encodes is read back as it was.
LEMMA RoundTrip ==
  \A d \in Seq(Decoded) : DecodeStandard[EncodeStandard[d]] = d
PROOF
  <1> DEFINE B == {d \in Seq(Decoded) : DecodeStandard[EncodeStandard[d]] # d}
  <1>1. SUFFICES ASSUME B # {} PROVE FALSE
    OBVIOUS
  <1>2. PICK d \in B : \A e \in B : Len(d) <= Len(e)
    BY <1>1, Shortest
  <1>3. d \in Seq(Decoded) /\ DecodeStandard[EncodeStandard[d]] # d
    OBVIOUS
  <1>4. d # <<>>
    <2>1. EncodeStandard[<<>>] = <<>>
      BY <1>3, EncodeStandardClauses DEF Decoded
    <2>2. DecodeStandard[<<>>] = <<>>
      BY DecodeStandardDef, EmptySeq
    <2>3. QED
      BY <1>3, <2>1, <2>2
  <1> DEFINE c == Head(d)
             t == Tail(d)
  <1>5. /\ c \in Decoded /\ t \in Seq(Decoded) /\ d = <<c>> \o t
        /\ Len(t) \in Nat /\ Len(d) \in Nat /\ Len(t) < Len(d)
    BY <1>3, <1>4, Front, Split
  <1> HIDE DEF c, t
  <1>6. t \notin B
    BY <1>2, <1>5
  <1>7. DecodeStandard[EncodeStandard[t]] = t
    BY <1>5, <1>6
  <1>8. EncodeStandard[d] = Written(c) \o EncodeStandard[t] /\ EncodeStandard[t] \in Seq(Rune)
    BY <1>5, EncodeStandardClauses
  <1>9. DecodeStandard[EncodeStandard[d]] = <<c>> \o DecodeStandard[EncodeStandard[t]]
    BY <1>5, <1>8, DecodeWritten
  <1>10. QED
    BY <1>3, <1>5, <1>7, <1>9

-----------------------------------------------------------------------------
(* The loop of standardLocalPath *)

TypeInv ==
    /\ name \in Seq(Rune) /\ rest \in Seq(Rune) /\ encoded \in Seq(Rune)
    /\ quotes \in Nat
    /\ done \in BOOLEAN

\* What is spelled so far and the listing of what is left, the quotation marks
\* that are only counted included, is the listing of the name.
Progress ==
    name \notin DotNames =>
        IF done THEN encoded = Listed(name)
        ELSE encoded \o Listed(Quotes(quotes) \o rest) = Listed(name)

Inv == TypeInv /\ Progress

LEMMA InitInv ==
  ASSUME Init
  PROVE  Inv
PROOF
  <1>1. name \in Seq(Rune)
    <2>1. PICK n \in 1 .. MaxLen : name \in [1 .. n -> Rune]
      BY DEF Init
    <2>2. n \in Nat
      BY NameAssumption
    <2>3. QED
      BY <2>1, <2>2, SeqDef
  <1>2. TypeInv
    BY <1>1, EmptySeq DEF Init, TypeInv
  <1>3. Quotes(0) \o name = name /\ Listed(name) \in Seq(Rune)
    BY <1>1, QuotesFacts, ConcatEmptySeq, ListedClauses
  <1>4. <<>> \o Listed(name) = Listed(name)
    BY <1>3, ConcatEmptySeq
  <1>5. Progress
    BY <1>3, <1>4 DEF Init, Progress
  <1>6. QED
    BY <1>2, <1>5 DEF Inv

LEMMA EvenType ==
  ASSUME NEW q \in Nat, NEW c
  PROVE  Even(q, c) \in Nat
PROOF
  BY DEF Even

LEMMA ReadInv ==
  ASSUME Inv, Read
  PROVE  Inv'
PROOF
  <1> DEFINE c == Head(rest)
             t == Tail(rest)
  <1>1. /\ c \in Rune /\ t \in Seq(Rune) /\ rest = <<c>> \o t
        /\ encoded \in Seq(Rune) /\ quotes \in Nat /\ name \in Seq(Rune)
    BY Front, Split DEF Inv, TypeInv, Read
  <1>2. /\ rest' = t /\ name' = name /\ done' = done /\ done = FALSE
        /\ name \notin DotNames
    BY DEF Read, Inv, TypeInv
  <1>3. encoded \o Listed(Quotes(quotes) \o (<<c>> \o t)) = Listed(name)
    BY <1>1, <1>2 DEF Inv, Progress
  <1>4. CASE c = "quote"
    <2>1. quotes' = quotes + 1 /\ encoded' = encoded
      BY <1>4 DEF Read
    <2> HIDE DEF c, t
    <2>2. Quotes(quotes) \o (<<c>> \o t) = (Quotes(quotes) \o <<c>>) \o t
      <3> DEFINE a == Quotes(quotes)
                 b == <<c>>
      <3>1. a \in Seq(Rune) /\ b \in Seq(Rune) /\ t \in Seq(Rune)
        BY <1>1, QuotesFacts, Single
      <3> HIDE DEF a, b
      <3>2. a \o (b \o t) = (a \o b) \o t
        BY <3>1, Regroup
      <3>3. QED
        BY <3>2 DEF a, b
    <2>3. Quotes(quotes) \o <<c>> = Quotes(quotes + 1)
      BY <1>1, <1>4, QuotesFacts, QuotesAdd
    <2>4. Progress'
      BY <1>2, <1>3, <2>1, <2>2, <2>3 DEF Progress
    <2>5. quotes' \in Nat /\ done' \in BOOLEAN
      <3>1. quotes \in Nat
        BY <1>1
      <3>2. quotes + 1 \in Nat
        BY <3>1
      <3>3. QED
        BY <1>2, <2>1, <3>2
    <2>6. TypeInv'
      BY <1>1, <1>2, <2>1, <2>5 DEF TypeInv
    <2>7. QED
      BY <2>4, <2>6 DEF Inv
  <1>5. CASE c # "quote"
    <2> DEFINE u == Quotes(Even(quotes, c))
               v == Spell(c)
    <2>1. quotes' = 0 /\ encoded' = encoded \o u \o v
      BY <1>5 DEF Read
    <2>2. u \in Seq(Rune) /\ v \in Seq(Rune) /\ Listed(t) \in Seq(Rune)
      BY <1>1, EvenType, QuotesFacts, SpellType, ListedClauses
    <2>3. Listed(Quotes(quotes) \o (<<c>> \o t)) = u \o (v \o Listed(t))
      BY <1>1, <1>5, ListedQuotes
    <2> HIDE DEF c, t, u, v
    <2>4. encoded \o u \in Seq(Rune) /\ (encoded \o u) \o v \in Seq(Rune)
          /\ v \o Listed(t) \in Seq(Rune)
      BY <1>1, <2>2, ConcatProperties
    <2>5. ((encoded \o u) \o v) \o Listed(t) = (encoded \o u) \o (v \o Listed(t))
      <3> DEFINE a == encoded \o u
                 b == Listed(t)
      <3>1. a \in Seq(Rune) /\ b \in Seq(Rune)
        BY <2>2, <2>4
      <3> HIDE DEF a, b
      <3>2. v \in Seq(Rune)
        BY <2>2
      <3>3. a \o (v \o b) = (a \o v) \o b
        BY <3>1, <3>2, Regroup
      <3>4. QED
        BY <3>3, Zenon DEF a, b
    <2>6. (encoded \o u) \o (v \o Listed(t)) = encoded \o (u \o (v \o Listed(t)))
      <3> DEFINE w == v \o Listed(t)
      <3>1. w \in Seq(Rune)
        BY <2>4
      <3> HIDE DEF w
      <3>2. (encoded \o u) \o w = encoded \o (u \o w)
        <4>1. encoded \in Seq(Rune) /\ u \in Seq(Rune)
          BY <1>1, <2>2
        <4>2. QED
          BY <3>1, <4>1, Regroup
      <3>3. QED
        BY <3>2 DEF w
    <2>7. Quotes(0) \o t = t
      BY <1>1, QuotesFacts, ConcatEmptySeq
    <2>8. Progress'
      BY <1>2, <1>3, <2>1, <2>3, <2>5, <2>6, <2>7 DEF Progress
    <2>9. TypeInv'
      BY <1>1, <1>2, <2>1, <2>4 DEF TypeInv
    <2>10. QED
      BY <2>8, <2>9 DEF Inv
  <1>6. QED
    BY <1>4, <1>5

LEMMA FinishInv ==
  ASSUME Inv, Finish
  PROVE  Inv'
PROOF
  <1>1. /\ rest = <<>> /\ done = FALSE /\ done' = TRUE /\ rest' = rest /\ name' = name
        /\ quotes' = quotes /\ encoded' = encoded \o Quotes(quotes + (quotes % 2))
        /\ encoded \in Seq(Rune) /\ quotes \in Nat /\ name \in Seq(Rune)
    BY DEF Inv, TypeInv, Finish
  <1>2. Quotes(quotes) \o <<>> = Quotes(quotes)
    BY <1>1, QuotesFacts, ConcatEmptySeq
  <1>3. Listed(Quotes(quotes) \o rest) = Quotes(quotes + (quotes % 2))
    BY <1>1, <1>2, ListedEnd
  <1>4. Progress'
    BY <1>1, <1>3 DEF Inv, Progress
  <1>5. quotes + (quotes % 2) \in Nat
    BY <1>1
  <1>6. encoded' \in Seq(Rune)
    BY <1>1, <1>5, QuotesFacts, ConcatProperties
  <1>7. TypeInv'
    BY <1>1, <1>6, EmptySeq DEF TypeInv
  <1>8. QED
    BY <1>4, <1>7 DEF Inv

LEMMA NextInv ==
  ASSUME Inv, [Next]_vars
  PROVE  Inv'
PROOF
  <1>1. CASE Keep
    BY <1>1 DEF Inv, TypeInv, Progress, Keep
  <1>2. CASE Read
    BY <1>2, ReadInv
  <1>3. CASE Finish
    BY <1>3, FinishInv
  <1>4. CASE UNCHANGED vars
    BY <1>4 DEF Inv, TypeInv, Progress, vars
  <1>5. QED
    BY <1>1, <1>2, <1>3, <1>4 DEF Next

LEMMA Invariance == Spec => []Inv
PROOF
  BY InitInv, NextInv, PTL DEF Spec

\* A name of any length is spelled in the filter as rclone lists it.  The loop
\* of standardLocalPath counts quotation marks and decides about them only at
\* the next other rune, so that the invariant compares what is spelled with the
\* listing of the marks that are counted and of what is left to read.
THEOREM SpecSpelledAsListed == Spec => []SpelledAsListed
PROOF
  <1>1. Inv => SpelledAsListed
    BY DEF Inv, Progress, SpelledAsListed, Listed
  <1>2. QED
    BY <1>1, Invariance, PTL

\* The filter that standardLocalPath writes gives back the decoded name, for
\* names of any length: Standard, read back, is the identity.
THEOREM SpecSpellingIsFaithful == Spec => []SpellingIsFaithful
PROOF
  <1>1. Inv => SpellingIsFaithful
    <2>1. SUFFICES ASSUME Inv, done, name \notin DotNames
                   PROVE  DecodeStandard[encoded] = DecodeLocal[name]
      BY DEF SpellingIsFaithful
    <2>2. encoded = EncodeStandard[DecodeLocal[name]]
      BY <2>1 DEF Inv, Progress, Listed
    <2>3. DecodeLocal[name] \in Seq(Decoded)
      BY <2>1, DecodeLocalClauses DEF Inv, TypeInv
    <2>4. QED
      BY <2>2, <2>3, RoundTrip
  <1>2. QED
    BY <1>1, Invariance, PTL

=============================================================================
