------------------------- MODULE LineProtocol_proofs -------------------------
(***************************************************************************)
(* Proofs about LineProtocol, for texts of any length and content: the     *)
(* chains of replacements escape each character once, the reader takes an  *)
(* escaped text back to the text, goes from place to place of a line and   *)
(* ends it with its point, and the body is its lines. The recursions over  *)
(* sequences are reasoned about with a shortest counterexample.            *)
(***************************************************************************)
EXTENDS LineProtocol, SequenceTheorems, WellFoundedInduction, TLAPS

FieldKeys == {FieldOrder[i] : i \in DOMAIN FieldOrder}
TagKeys == {TagOrder[i] : i \in DOMAIN TagOrder}

(* The characters of a text. The literals are strings too, which the       *)
(* provers do not know.                                                    *)
Char ==
  STRING \cup {Backslash, Quote, NewLine, ",", "=", " ", "i", "u", "true", "false",
               "bme680", "device_status"}
         \cup TagKeys \cup FieldKeys

Text == Seq(Char)

LEMMA SingleType == \A c \in Char : <<c>> \in Text
BY DEF Text

LEMMA TextAssociative == \A a, b, c \in Text : (a \o b) \o c = a \o (b \o c)
BY ConcatAssociative DEF Text

LEMMA TextConcat == \A a, b \in Text : a \o b \in Text
BY ConcatProperties DEF Text

(* Concatenation as an operator of which only what is stated is known.     *)
Cat(x, y) == x \o y

LEMMA CatAssociative ==
  ASSUME NEW S, NEW x \in Seq(S), NEW y \in Seq(S), NEW z \in Seq(S)
  PROVE  Cat(Cat(x, y), z) = Cat(x, Cat(y, z))
BY ConcatAssociative DEF Cat

LEMMA LeastExists ==
  ASSUME NEW S, S \subseteq Nat, S # {}
  PROVE  \E x \in S : \A y \in S : x <= y
<1> DEFINE R == OpToRel(<, Nat)
<1>1. PICK x \in S : \A y \in S : ~(<<y, x>> \in R)
  <2> HIDE DEF R
  <2> QED
    BY NatLessThanWellFounded, WFMin DEF R
<1>2. ASSUME NEW y \in S PROVE x <= y
  <2>1. x \in Nat /\ y \in Nat
    OBVIOUS
  <2>2. ~(y < x)
    BY <1>1, <2>1 DEF OpToRel
  <2> QED
    BY <2>1, <2>2
<1> QED
  BY <1>2

(* f is what FlattenSeq folds: the concatenation of each prefix of ss. *)
FlatPrefixes(f, ss) ==
  f = [i \in 1..Len(ss) |-> IF i = 1 THEN ss[i] ELSE f[i - 1] \o ss[i]]

LEMMA PrefixesExist ==
  ASSUME NEW S, NEW ss \in Seq(S)
  PROVE  \E f : FlatPrefixes(f, ss)
<1> DEFINE P(n) == \E f : f = [i \in 1..n |-> IF i = 1 THEN ss[i] ELSE f[i - 1] \o ss[i]]
           Bad == {n \in Nat : ~P(n)}
<1>1. SUFFICES Bad = {}
  <2>1. Len(ss) \in Nat
    OBVIOUS
  <2> QED
    BY <2>1 DEF FlatPrefixes
<1>2. SUFFICES ASSUME Bad # {} PROVE FALSE
  OBVIOUS
<1>3. PICK n \in Bad : \A m \in Bad : n <= m
  <2>1. Bad \subseteq Nat
    OBVIOUS
  <2> HIDE DEF Bad
  <2> QED
    BY <1>2, <2>1, LeastExists
<1>4. n \in Nat /\ ~P(n)
  OBVIOUS
<1>5. CASE n = 0
  <2> DEFINE f == [i \in 1..0 |-> ss[1]]
  <2>1. f = [i \in 1..0 |-> IF i = 1 THEN ss[i] ELSE f[i - 1] \o ss[i]]
    OBVIOUS
  <2> HIDE DEF f
  <2> QED
    BY <1>4, <1>5, <2>1
<1>6. CASE n > 0
  <2>1. n - 1 \in Nat /\ n - 1 \notin Bad
    <3>1. n - 1 \in Nat /\ ~(n <= n - 1)
      BY <1>4, <1>6
    <3> HIDE DEF Bad
    <3> QED
      BY <1>3, <3>1
  <2>2. P(n - 1)
    BY <2>1
  <2>3. PICK g : g = [i \in 1..(n - 1) |-> IF i = 1 THEN ss[i] ELSE g[i - 1] \o ss[i]]
    BY <2>2
  <2> DEFINE f == [i \in 1..n |-> IF i < n THEN g[i] ELSE IF n = 1 THEN ss[1] ELSE g[n - 1] \o ss[n]]
  <2>4. ASSUME NEW i \in 1..n
        PROVE  f[i] = IF i = 1 THEN ss[i] ELSE f[i - 1] \o ss[i]
    <3>1. CASE i < n
      <4>1. f[i] = g[i]
        BY <3>1
      <4>2. g[i] = IF i = 1 THEN ss[i] ELSE g[i - 1] \o ss[i]
        <5>1. i \in 1..(n - 1)
          BY <3>1, <1>4
        <5> QED
          BY <2>3, <5>1
      <4>3. i # 1 => f[i - 1] = g[i - 1]
        BY <3>1, <1>4
      <4> QED
        BY <4>1, <4>2, <4>3
    <3>2. CASE i = n
      <4>1. f[i] = IF n = 1 THEN ss[1] ELSE g[n - 1] \o ss[n]
        BY <3>2
      <4>2. i # 1 => f[i - 1] = g[i - 1]
        BY <3>2, <1>4
      <4> QED
        BY <4>1, <4>2, <3>2
    <3> QED
      BY <3>1, <3>2, <1>4
  <2>5. f = [i \in 1..n |-> f[i]]
    OBVIOUS
  <2> HIDE DEF f
  <2>6. f = [i \in 1..n |-> IF i = 1 THEN ss[i] ELSE f[i - 1] \o ss[i]]
    BY <2>4, <2>5
  <2> QED
    BY <2>6, <1>4
<1> QED
  BY <1>4, <1>5, <1>6

LEMMA FlattenIsPrefix ==
  ASSUME NEW S, NEW ss \in Seq(S), Len(ss) > 0
  PROVE  \E f : FlatPrefixes(f, ss) /\ FlattenSeq(ss) = f[Len(ss)]
<1> DEFINE f == CHOOSE f : f = [i \in 1..Len(ss) |-> IF i = 1 THEN ss[i] ELSE f[i - 1] \o ss[i]]
<1>1. FlatPrefixes(f, ss)
  BY PrefixesExist DEF FlatPrefixes
<1>2. FlattenSeq(ss) = f[Len(ss)]
  BY DEF FlattenSeq
<1> QED
  BY <1>1, <1>2

LEMMA PrefixesAgree ==
  ASSUME NEW S, NEW ss \in Seq(S), NEW tt \in Seq(S), NEW f, NEW g,
         FlatPrefixes(f, ss), FlatPrefixes(g, tt), Len(ss) <= Len(tt),
         \A i \in 1..Len(ss) : ss[i] = tt[i]
  PROVE  \A i \in 1..Len(ss) : f[i] = g[i]
<1> DEFINE Bad == {i \in 1..Len(ss) : f[i] # g[i]}
<1>1. SUFFICES ASSUME Bad # {} PROVE FALSE
  OBVIOUS
<1>2. PICK i \in Bad : \A j \in Bad : i <= j
  <2>1. Bad \subseteq Nat
    OBVIOUS
  <2> HIDE DEF Bad
  <2> QED
    BY <1>1, <2>1, LeastExists
<1>3. i \in 1..Len(ss) /\ i \in 1..Len(tt) /\ f[i] # g[i] /\ ss[i] = tt[i]
  OBVIOUS
<1>4. /\ f[i] = IF i = 1 THEN ss[i] ELSE f[i - 1] \o ss[i]
      /\ g[i] = IF i = 1 THEN tt[i] ELSE g[i - 1] \o tt[i]
  BY <1>3 DEF FlatPrefixes
<1>5. CASE i = 1
  BY <1>3, <1>4, <1>5
<1>6. CASE i # 1
  <2>1. i - 1 \in 1..Len(ss) /\ ~(i <= i - 1)
    BY <1>3, <1>6
  <2>2. i - 1 \notin Bad
    <3> HIDE DEF Bad
    <3> QED
      BY <1>2, <2>1
  <2>3. f[i - 1] = g[i - 1]
    BY <2>1, <2>2
  <2> QED
    BY <1>3, <1>4, <1>6, <2>3
<1> QED
  BY <1>5, <1>6

(* FlattenSeq of an empty sequence, and of one with an element more.       *)
LEMMA FlattenEmpty == FlattenSeq(<<>>) = <<>>
BY DEF FlattenSeq

LEMMA FlattenAppend ==
  ASSUME NEW S, NEW ss \in Seq(Seq(S)), NEW s \in Seq(S)
  PROVE  FlattenSeq(Append(ss, s)) = FlattenSeq(ss) \o s
<1> DEFINE tt == Append(ss, s)
           n == Len(ss)
<1>1. /\ tt \in Seq(Seq(S)) /\ Len(tt) = n + 1 /\ n \in Nat
      /\ tt[n + 1] = s /\ \A i \in 1..n : ss[i] = tt[i]
  OBVIOUS
<1> HIDE DEF tt, n
<1>2. PICK g : FlatPrefixes(g, tt) /\ FlattenSeq(tt) = g[n + 1]
  <2>1. tt \in Seq(Seq(S)) /\ Len(tt) > 0 /\ Len(tt) = n + 1
    BY <1>1
  <2>2. \E g : FlatPrefixes(g, tt) /\ FlattenSeq(tt) = g[Len(tt)]
    BY <2>1, FlattenIsPrefix, Zenon
  <2> QED
    BY <2>1, <2>2
<1>3. g[n + 1] = IF n + 1 = 1 THEN s ELSE g[n] \o s
  <2>1. n + 1 \in 1..Len(tt) /\ (n + 1) - 1 = n
    BY <1>1
  <2>2. g[n + 1] = IF n + 1 = 1 THEN tt[n + 1] ELSE g[(n + 1) - 1] \o tt[n + 1]
    BY <1>2, <2>1 DEF FlatPrefixes
  <2> QED
    BY <1>1, <2>1, <2>2
<1>4. CASE n = 0
  <2>1. ss = <<>>
    BY <1>4 DEF n
  <2>2. FlattenSeq(ss) = <<>>
    BY <2>1, FlattenEmpty
  <2>3. <<>> \o s = s
    BY ConcatEmptySeq
  <2> QED
    BY <1>2, <1>3, <1>4, <2>2, <2>3 DEF tt
<1>5. CASE n > 0
  <2>1. PICK f : FlatPrefixes(f, ss) /\ FlattenSeq(ss) = f[n]
    BY <1>5, FlattenIsPrefix DEF n
  <2>2. \A i \in 1..n : f[i] = g[i]
    <3>1. Len(ss) <= Len(tt) /\ \A i \in 1..Len(ss) : ss[i] = tt[i]
      BY <1>1 DEF n
    <3>2. \A i \in 1..Len(ss) : f[i] = g[i]
      BY <1>1, <1>2, <2>1, <3>1, PrefixesAgree
    <3> QED
      BY <3>2 DEF n
  <2>3. f[n] = g[n] /\ n + 1 # 1
    BY <1>1, <1>5, <2>2
  <2> QED
    BY <1>2, <1>3, <2>1, <2>3 DEF tt
<1> QED
  BY <1>1, <1>4, <1>5

(* What holds of the empty sequence, and of a sequence with an element     *)
(* more when it holds of the sequence, has no shortest counterexample.     *)
LEMMA ShortestExists ==
  ASSUME NEW S, NEW B, B \subseteq Seq(S), B # {}
  PROVE  \E s \in B : \A t \in B : Len(s) <= Len(t)
<1> DEFINE L == {Len(s) : s \in B}
<1>1. L \subseteq Nat /\ L # {}
  <2>1. \A s \in B : Len(s) \in Nat
    BY EmptySeq, LenProperties
  <2> QED
    BY <2>1
<1>2. PICK x \in L : \A y \in L : x <= y
  <2> HIDE DEF L
  <2> QED
    BY <1>1, LeastExists
<1> QED
  BY <1>2

LEMMA FlattenType ==
  ASSUME NEW S, NEW ss \in Seq(Seq(S))
  PROVE  FlattenSeq(ss) \in Seq(S)
<1> DEFINE Bad == {tt \in Seq(Seq(S)) : FlattenSeq(tt) \notin Seq(S)}
<1>1. SUFFICES ASSUME Bad # {} PROVE FALSE
  OBVIOUS
<1>2. PICK tt \in Bad : \A uu \in Bad : Len(tt) <= Len(uu)
  <2>1. Bad \subseteq Seq(Seq(S))
    OBVIOUS
  <2> HIDE DEF Bad
  <2> QED
    BY <1>1, <2>1, ShortestExists
<1>3. tt \in Seq(Seq(S)) /\ FlattenSeq(tt) \notin Seq(S)
  OBVIOUS
<1>4. tt # <<>>
  BY <1>3, FlattenEmpty, EmptySeq
<1>5. PICK uu \in Seq(Seq(S)), s \in Seq(S) : tt = Append(uu, s)
  BY <1>3, <1>4, SequenceEmptyOrAppend
<1>6. Len(tt) = Len(uu) + 1 /\ Len(uu) \in Nat
  BY <1>5
<1>7. FlattenSeq(uu) \in Seq(S)
  <2>1. ~(Len(tt) <= Len(uu))
    BY <1>6
  <2>2. uu \notin Bad
    <3> HIDE DEF Bad
    <3> QED
      BY <1>2, <2>1
  <2> QED
    BY <2>2
<1>8. FlattenSeq(tt) = FlattenSeq(uu) \o s
  BY <1>5, FlattenAppend
<1> QED
  BY <1>3, <1>7, <1>8, ConcatProperties

LEMMA FlattenConcat ==
  ASSUME NEW S, NEW ss \in Seq(Seq(S)), NEW tt \in Seq(Seq(S))
  PROVE  FlattenSeq(ss \o tt) = FlattenSeq(ss) \o FlattenSeq(tt)
<1> DEFINE Bad == {uu \in Seq(Seq(S)) :
                     FlattenSeq(ss \o uu) # FlattenSeq(ss) \o FlattenSeq(uu)}
<1>1. SUFFICES ASSUME Bad # {} PROVE FALSE
  OBVIOUS
<1>2. PICK uu \in Bad : \A vv \in Bad : Len(uu) <= Len(vv)
  <2>1. Bad \subseteq Seq(Seq(S))
    OBVIOUS
  <2> HIDE DEF Bad
  <2> QED
    BY <1>1, <2>1, ShortestExists
<1>3. uu \in Seq(Seq(S)) /\ FlattenSeq(ss \o uu) # FlattenSeq(ss) \o FlattenSeq(uu)
  OBVIOUS
<1>4. FlattenSeq(ss) \in Seq(S)
  BY FlattenType
<1>5. uu # <<>>
  <2>1. ss \o <<>> = ss /\ FlattenSeq(ss) \o <<>> = FlattenSeq(ss)
    BY <1>4, ConcatEmptySeq
  <2> QED
    BY <1>3, <2>1, FlattenEmpty
<1>6. PICK vv \in Seq(Seq(S)), s \in Seq(S) : uu = Append(vv, s)
  BY <1>3, <1>5, SequenceEmptyOrAppend
<1>7. Len(uu) = Len(vv) + 1 /\ Len(vv) \in Nat
  BY <1>6
<1>8. FlattenSeq(ss \o vv) = FlattenSeq(ss) \o FlattenSeq(vv)
  <2>1. ~(Len(uu) <= Len(vv))
    BY <1>7
  <2>2. vv \notin Bad
    <3> HIDE DEF Bad
    <3> QED
      BY <1>2, <2>1
  <2> QED
    BY <2>2
<1>9. ss \o uu = Append(ss \o vv, s) /\ ss \o vv \in Seq(Seq(S))
  <2>1. <<s>> \in Seq(Seq(S)) /\ ss \o vv \in Seq(Seq(S))
    BY ConcatProperties
  <2>2. uu = vv \o <<s>> /\ Append(ss \o vv, s) = (ss \o vv) \o <<s>>
    BY <1>6, <2>1, AppendIsConcat
  <2>3. (ss \o vv) \o <<s>> = ss \o (vv \o <<s>>)
    <3> DEFINE one == <<s>>
    <3>1. one \in Seq(Seq(S))
      BY <2>1
    <3> HIDE DEF one
    <3>2. Cat(Cat(ss, vv), one) = Cat(ss, Cat(vv, one))
      BY <3>1, CatAssociative
    <3> QED
      BY <3>2 DEF one, Cat
  <2> QED
    BY <2>1, <2>2, <2>3
<1>10. FlattenSeq(ss \o uu) = (FlattenSeq(ss) \o FlattenSeq(vv)) \o s
  <2> DEFINE both == ss \o vv
  <2>1. both \in Seq(Seq(S)) /\ ss \o uu = Append(both, s)
    BY <1>9
  <2> HIDE DEF both
  <2>2. FlattenSeq(Append(both, s)) = FlattenSeq(both) \o s
    BY <1>6, <2>1, FlattenAppend
  <2> QED
    BY <1>8, <2>1, <2>2 DEF both
<1>11. FlattenSeq(uu) = FlattenSeq(vv) \o s
  BY <1>6, FlattenAppend
<1>12. FlattenSeq(vv) \in Seq(S)
  BY FlattenType
<1>13. (FlattenSeq(ss) \o FlattenSeq(vv)) \o s = FlattenSeq(ss) \o (FlattenSeq(vv) \o s)
  <2> DEFINE a == FlattenSeq(ss)
             b == FlattenSeq(vv)
  <2>1. a \in Seq(S) /\ b \in Seq(S) /\ s \in Seq(S)
    BY <1>4, <1>6, <1>12
  <2> HIDE DEF a, b
  <2>2. Cat(Cat(a, b), s) = Cat(a, Cat(b, s))
    BY <2>1, CatAssociative
  <2> QED
    BY <2>2 DEF a, b, Cat
<1> QED
  BY <1>3, <1>10, <1>11, <1>13

LEMMA FlattenSingle ==
  ASSUME NEW S, NEW s \in Seq(S)
  PROVE  FlattenSeq(<<s>>) = s
<1>1. <<s>> = Append(<<>>, s) /\ <<>> \in Seq(Seq(S))
  OBVIOUS
<1>2. <<>> \o s = s
  BY ConcatEmptySeq
<1> QED
  BY <1>1, <1>2, FlattenAppend, FlattenEmpty

(* The flattening of what is left of a sequence from an index on.          *)
LEMMA FlattenFrom ==
  ASSUME NEW S, NEW ss \in Seq(Seq(S)), NEW j \in 1..Len(ss)
  PROVE  FlattenSeq(SubSeq(ss, j, Len(ss))) =
           ss[j] \o FlattenSeq(SubSeq(ss, j + 1, Len(ss)))
<1>1. SubSeq(ss, j, Len(ss)) = <<ss[j]>> \o SubSeq(ss, j + 1, Len(ss))
  BY SubSeqRecursiveFirst
<1>2. ss[j] \in Seq(S) /\ <<ss[j]>> \in Seq(Seq(S))
  OBVIOUS
<1>3. SubSeq(ss, j + 1, Len(ss)) \in Seq(Seq(S))
  OBVIOUS
<1>4. FlattenSeq(<<ss[j]>>) = ss[j]
  BY <1>2, FlattenSingle
<1> QED
  BY <1>1, <1>2, <1>3, <1>4, FlattenConcat

LEMMA FlattenPastLast ==
  ASSUME NEW ss, Len(ss) \in Nat
  PROVE  FlattenSeq(SubSeq(ss, Len(ss) + 1, Len(ss))) = <<>>
<1>1. Len(ss) + 1 \in Int /\ Len(ss) \in Int /\ Len(ss) < Len(ss) + 1
  OBVIOUS
<1>2. SubSeq(ss, Len(ss) + 1, Len(ss)) = <<>>
  BY <1>1, SubSeqEmpty
<1> QED
  BY <1>2, FlattenEmpty

LEMMA FlattenSkip ==
  ASSUME NEW S, NEW ss \in Seq(Seq(S)), NEW j \in 1..(Len(ss) + 1),
         NEW k \in j..(Len(ss) + 1), \A i \in j..(k - 1) : ss[i] = <<>>
  PROVE  FlattenSeq(SubSeq(ss, j, Len(ss))) = FlattenSeq(SubSeq(ss, k, Len(ss)))
<1> DEFINE F(i) == FlattenSeq(SubSeq(ss, i, Len(ss)))
           Bad == {i \in j..k : F(i) # F(j)}
<1>1. SUFFICES ASSUME Bad # {} PROVE FALSE
  <2>1. k \in j..k
    OBVIOUS
  <2>2. Bad = {} => F(k) = F(j)
    BY <2>1
  <2> QED
    BY <2>2
<1>2. PICK i \in Bad : \A m \in Bad : i <= m
  <2>1. Bad \subseteq Nat
    OBVIOUS
  <2> HIDE DEF Bad
  <2> QED
    BY <1>1, <2>1, LeastExists
<1>3. i \in j..k /\ F(i) # F(j)
  OBVIOUS
<1>4. i # j
  BY <1>3
<1>5. i - 1 \in j..k /\ i - 1 \in j..(k - 1) /\ i - 1 \in 1..Len(ss) /\ ~(i <= i - 1)
  BY <1>3, <1>4
<1>6. F(i - 1) = F(j)
  <2>1. i - 1 \notin Bad
    <3> HIDE DEF Bad
    <3> QED
      BY <1>2, <1>5
  <2> HIDE DEF F
  <2> QED
    BY <1>5, <2>1
<1>7. F(i - 1) = F(i)
  <2>1. FlattenSeq(SubSeq(ss, i - 1, Len(ss))) =
          ss[i - 1] \o FlattenSeq(SubSeq(ss, (i - 1) + 1, Len(ss)))
    BY <1>5, FlattenFrom
  <2>2. ss[i - 1] = <<>> /\ (i - 1) + 1 = i
    BY <1>5
  <2>3. FlattenSeq(SubSeq(ss, i, Len(ss))) \in Seq(S)
    <3>1. SubSeq(ss, i, Len(ss)) \in Seq(Seq(S))
      BY <1>3
    <3> QED
      BY <3>1, FlattenType
  <2> QED
    BY <2>1, <2>2, <2>3, ConcatEmptySeq
<1> QED
  BY <1>3, <1>6, <1>7

-----------------------------------------------------------------------------
(* The escapes: each character of a set after a backslash, once.           *)

EscapedChar(c, set) == IF c \in set THEN <<Backslash, c>> ELSE <<c>>

Escaped(text, set) == FlattenSeq([i \in DOMAIN text |-> EscapedChar(text[i], set)])

LEMMA CharsAreStrings == Backslash \in Char /\ Quote \in Char /\ NewLine \in Char
BY DEF Char

LEMMA EscapedPieces ==
  ASSUME NEW text \in Text, NEW set
  PROVE  [i \in DOMAIN text |-> EscapedChar(text[i], set)] \in Seq(Text)
<1>1. Len(text) \in Nat /\ DOMAIN text = 1..Len(text)
  BY DEF Text
<1>2. \A i \in DOMAIN text : EscapedChar(text[i], set) \in Text
  <2>1. ASSUME NEW i \in DOMAIN text PROVE EscapedChar(text[i], set) \in Text
    <3>1. text[i] \in Char
      BY <2>1 DEF Text
    <3> QED
      BY <3>1, CharsAreStrings DEF EscapedChar, Text
  <2> QED
    BY <2>1
<1> QED
  BY <1>1, <1>2

LEMMA EscapedType ==
  ASSUME NEW text \in Text, NEW set
  PROVE  Escaped(text, set) \in Text
BY EscapedPieces, FlattenType DEF Escaped, Text

LEMMA EscapedEmpty ==
  ASSUME NEW set PROVE Escaped(<<>>, set) = <<>>
<1>1. [i \in DOMAIN <<>> |-> EscapedChar(<<>>[i], set)] = <<>>
  OBVIOUS
<1> QED
  BY <1>1, FlattenEmpty DEF Escaped

LEMMA EscapedSingle ==
  ASSUME NEW c \in Char, NEW set
  PROVE  Escaped(<<c>>, set) = EscapedChar(c, set)
<1>1. [i \in DOMAIN <<c>> |-> EscapedChar(<<c>>[i], set)] = <<EscapedChar(c, set)>>
  <2> DEFINE e == EscapedChar(c, set)
  <2>1. \A i \in DOMAIN <<c>> : EscapedChar(<<c>>[i], set) = e
    OBVIOUS
  <2> HIDE DEF e
  <2>2. [i \in DOMAIN <<c>> |-> e] = <<e>>
    OBVIOUS
  <2> QED
    BY <2>1, <2>2
<1>2. EscapedChar(c, set) \in Seq(Char)
  BY CharsAreStrings DEF EscapedChar
<1> QED
  BY <1>1, <1>2, FlattenSingle DEF Escaped

LEMMA EscapedConcat ==
  ASSUME NEW s \in Text, NEW t \in Text, NEW set
  PROVE  Escaped(s \o t, set) = Escaped(s, set) \o Escaped(t, set)
<1> DEFINE E(u) == [i \in DOMAIN u |-> EscapedChar(u[i], set)]
<1>1. E(s) \in Seq(Text) /\ E(t) \in Seq(Text) /\ E(s \o t) \in Seq(Text)
  <2>1. s \o t \in Text
    BY DEF Text
  <2> QED
    BY <2>1, EscapedPieces
<1>2. E(s \o t) = E(s) \o E(t)
  <2>1. /\ Len(s) \in Nat /\ DOMAIN s = 1..Len(s)
        /\ Len(t) \in Nat /\ DOMAIN t = 1..Len(t)
        /\ DOMAIN (s \o t) = 1..(Len(s) + Len(t))
        /\ \A i \in 1..(Len(s) + Len(t)) :
             (s \o t)[i] = IF i <= Len(s) THEN s[i] ELSE t[i - Len(s)]
    BY DEF Text
  <2>2. Len(E(s)) = Len(s) /\ Len(E(t)) = Len(t) /\ Len(E(s \o t)) = Len(s) + Len(t)
    BY <2>1
  <2>3. E(s) \o E(t) \in Seq(Text) /\ Len(E(s) \o E(t)) = Len(s) + Len(t)
    <3> HIDE DEF E
    <3>1. E(s) \o E(t) \in Seq(Text)
      BY <1>1, ConcatProperties
    <3>2. Len(E(s) \o E(t)) = Len(E(s)) + Len(E(t))
      BY <1>1, ConcatProperties
    <3> QED
      BY <2>2, <3>1, <3>2
  <2>4. ASSUME NEW i \in 1..(Len(s) + Len(t))
        PROVE  E(s \o t)[i] = (E(s) \o E(t))[i]
    <3>1. E(s \o t)[i] = EscapedChar((s \o t)[i], set)
      BY <2>1
    <3>2. (E(s) \o E(t))[i] = IF i <= Len(s) THEN E(s)[i] ELSE E(t)[i - Len(s)]
      <4> HIDE DEF E
      <4>1. i \in 1..(Len(E(s)) + Len(E(t)))
        BY <2>2
      <4> QED
        BY <1>1, <2>2, <4>1, ConcatProperties
    <3>3. CASE i <= Len(s)
      <4>1. i \in DOMAIN s
        BY <2>1, <3>3
      <4>2. E(s)[i] = EscapedChar(s[i], set)
        BY <4>1
      <4> QED
        BY <2>1, <3>1, <3>2, <3>3, <4>2
    <3>4. CASE ~(i <= Len(s))
      <4>1. i - Len(s) \in DOMAIN t
        BY <2>1, <3>4
      <4>2. E(t)[i - Len(s)] = EscapedChar(t[i - Len(s)], set)
        BY <4>1
      <4> QED
        BY <2>1, <3>1, <3>2, <3>4, <4>2
    <3> QED
      BY <3>3, <3>4
  <2> HIDE DEF E
  <2> QED
    BY <1>1, <2>2, <2>3, <2>4, SeqEqual
<1>3. FlattenSeq(E(s) \o E(t)) = FlattenSeq(E(s)) \o FlattenSeq(E(t))
  <2> HIDE DEF E
  <2> QED
    BY <1>1, FlattenConcat DEF Text
<1> QED
  BY <1>2, <1>3 DEF Escaped

LEMMA EscapedPair ==
  ASSUME NEW c \in Char, NEW d \in Char, NEW set
  PROVE  Escaped(<<c>> \o <<d>>, set) = Escaped(<<c>>, set) \o Escaped(<<d>>, set)
<1> DEFINE a == <<c>>
           b == <<d>>
<1>1. a \in Text /\ b \in Text
  BY DEF Text
<1> HIDE DEF a, b
<1>2. Escaped(a \o b, set) = Escaped(a, set) \o Escaped(b, set)
  BY <1>1, EscapedConcat
<1> QED
  BY <1>2 DEF a, b

(* A further replacement leaves alone what has been escaped: the backslash *)
(* was the first, and the character is none of the others.                 *)
LEMMA EscapedUnion ==
  ASSUME NEW text \in Text, NEW set, Backslash \in set, NEW c \in Char, c \notin set
  PROVE  Escaped(Escaped(text, set), {c}) = Escaped(text, set \cup {c})
<1> DEFINE Bad == {t \in Text : Escaped(Escaped(t, set), {c}) # Escaped(t, set \cup {c})}
<1>1. SUFFICES ASSUME Bad # {} PROVE FALSE
  OBVIOUS
<1>2. PICK t \in Bad : \A u \in Bad : Len(t) <= Len(u)
  <2>1. Bad \subseteq Seq(Char)
    BY DEF Text
  <2> HIDE DEF Bad
  <2> QED
    BY <1>1, <2>1, ShortestExists
<1>3. t \in Text /\ Escaped(Escaped(t, set), {c}) # Escaped(t, set \cup {c})
  OBVIOUS
<1>4. t # <<>>
  BY <1>3, EscapedEmpty
<1>5. PICK u \in Text, d \in Char : t = Append(u, d)
  BY <1>3, <1>4, SequenceEmptyOrAppend DEF Text
<1>6. Len(t) = Len(u) + 1 /\ Len(u) \in Nat /\ <<d>> \in Text /\ t = u \o <<d>>
  BY <1>5 DEF Text
<1>7. Escaped(Escaped(u, set), {c}) = Escaped(u, set \cup {c})
  <2>1. ~(Len(t) <= Len(u))
    BY <1>6
  <2>2. u \notin Bad
    <3> HIDE DEF Bad
    <3> QED
      BY <1>2, <2>1
  <2> QED
    BY <2>2
<1>8. Escaped(EscapedChar(d, set), {c}) = EscapedChar(d, set \cup {c})
  <2>1. CASE d \in set
    <3>1. EscapedChar(d, set) = <<Backslash>> \o <<d>> /\ EscapedChar(d, set \cup {c}) = <<Backslash>> \o <<d>>
      BY <2>1 DEF EscapedChar
    <3>2. d # c /\ Backslash # c
      BY <2>1
    <3>3. Escaped(<<Backslash>>, {c}) = <<Backslash>> /\ Escaped(<<d>>, {c}) = <<d>>
      BY <3>2, EscapedSingle, CharsAreStrings DEF EscapedChar
    <3>4. Escaped(<<Backslash>> \o <<d>>, {c}) = Escaped(<<Backslash>>, {c}) \o Escaped(<<d>>, {c})
      <4>1. Backslash \in Char /\ d \in Char
        BY CharsAreStrings
      <4> HIDE DEF Bad
      <4> QED
        BY <4>1, EscapedPair
    <3> QED
      BY <3>1, <3>3, <3>4
  <2>2. CASE d \notin set
    <3>1. EscapedChar(d, set) = <<d>>
      BY <2>2 DEF EscapedChar
    <3>2. EscapedChar(d, set \cup {c}) = EscapedChar(d, {c})
      BY <2>2 DEF EscapedChar
    <3> QED
      BY <3>1, <3>2, EscapedSingle
  <2> QED
    BY <2>1, <2>2
<1>9. ASSUME NEW any PROVE Escaped(t, any) = Escaped(u, any) \o EscapedChar(d, any)
  <2>1. Escaped(u \o <<d>>, any) = Escaped(u, any) \o Escaped(<<d>>, any)
    BY <1>6, EscapedConcat
  <2>2. Escaped(<<d>>, any) = EscapedChar(d, any)
    BY EscapedSingle
  <2> QED
    BY <1>6, <2>1, <2>2
<1>10. Escaped(Escaped(t, set), {c}) =
         Escaped(Escaped(u, set), {c}) \o Escaped(EscapedChar(d, set), {c})
  <2>1. Escaped(u, set) \in Text
    BY EscapedType
  <2>2. EscapedChar(d, set) \in Text
    BY CharsAreStrings DEF EscapedChar, Text
  <2>3. Escaped(Escaped(u, set) \o EscapedChar(d, set), {c}) =
          Escaped(Escaped(u, set), {c}) \o Escaped(EscapedChar(d, set), {c})
    <3> DEFINE a == Escaped(u, set)
               b == EscapedChar(d, set)
               one == {c}
    <3>1. a \in Text /\ b \in Text
      BY <2>1, <2>2
    <3> HIDE DEF a, b, one, Bad
    <3>2. Escaped(a \o b, one) = Escaped(a, one) \o Escaped(b, one)
      BY <3>1, EscapedConcat
    <3> QED
      BY <3>2 DEF a, b, one
  <2> QED
    BY <1>9, <2>3
<1> QED
  BY <1>3, <1>7, <1>8, <1>9, <1>10

LEMMA ReplaceEscapes ==
  ASSUME NEW text, NEW c
  PROVE  Replace(text, c) = Escaped(text, {c})
<1>1. \A i \in DOMAIN text :
        (IF text[i] = c THEN <<Backslash, c>> ELSE <<text[i]>>) = EscapedChar(text[i], {c})
  BY DEF EscapedChar
<1>2. [i \in DOMAIN text |-> IF text[i] = c THEN <<Backslash, c>> ELSE <<text[i]>>] =
      [i \in DOMAIN text |-> EscapedChar(text[i], {c})]
  BY <1>1
<1> QED
  BY <1>2 DEF Replace, Escaped

LEMMA SpecialsDiffer ==
  /\ Backslash # "," /\ Backslash # "=" /\ Backslash # " " /\ Backslash # Quote
  /\ Backslash # NewLine /\ Quote # NewLine /\ Quote # "," /\ Quote # "=" /\ Quote # " "
  /\ NewLine # "," /\ NewLine # "=" /\ NewLine # " "
  /\ "," # "=" /\ "," # " " /\ "=" # " "
BY DEF Backslash, Quote, NewLine

TagSpecials == {Backslash, ",", "=", " "}
StringSpecials == {Backslash, Quote}

(* For every text: the chain of replacements of esc_tag_key escapes each    *)
(* backslash, comma, equals sign and blank of it once, and nothing else.   *)
THEOREM EscTagKeyEscapes ==
  ASSUME NEW text \in Text
  PROVE  EscTagKey(text) = Escaped(text, TagSpecials)
<1> DEFINE A == {Backslash}
           B == A \cup {","}
           C == B \cup {"="}
           D == C \cup {" "}
<1>1. /\ Backslash \in A /\ "," \notin A
      /\ Backslash \in B /\ "=" \notin B
      /\ Backslash \in C /\ " " \notin C /\ D = TagSpecials
  BY SpecialsDiffer DEF TagSpecials
<1>2. "," \in Char /\ "=" \in Char /\ " " \in Char
  BY DEF Char
<1>3. Replace(text, Backslash) = Escaped(text, A)
  BY ReplaceEscapes
<1> HIDE DEF A
<1>4. Replace(Replace(text, Backslash), ",") = Escaped(text, B)
  <2>1. Escaped(Escaped(text, A), {","}) = Escaped(text, A \cup {","})
    BY <1>1, <1>2, EscapedUnion
  <2> QED
    BY <1>3, <2>1, ReplaceEscapes
<1> HIDE DEF B
<1>5. Replace(Replace(Replace(text, Backslash), ","), "=") = Escaped(text, C)
  <2>1. Escaped(Escaped(text, B), {"="}) = Escaped(text, B \cup {"="})
    BY <1>1, <1>2, EscapedUnion
  <2> QED
    BY <1>4, <2>1, ReplaceEscapes
<1> HIDE DEF C
<1>6. Replace(Replace(Replace(Replace(text, Backslash), ","), "="), " ") = Escaped(text, D)
  <2>1. Escaped(Escaped(text, C), {" "}) = Escaped(text, C \cup {" "})
    BY <1>1, <1>2, EscapedUnion
  <2> QED
    BY <1>5, <2>1, ReplaceEscapes
<1> QED
  BY <1>1, <1>6 DEF EscTagKey

(* The same of esc_string_field, for backslashes and quotes.               *)
THEOREM EscStringFieldEscapes ==
  ASSUME NEW text \in Text
  PROVE  EscStringField(text) = Escaped(text, StringSpecials)
<1> DEFINE A == {Backslash}
<1>1. Backslash \in A /\ Quote \notin A /\ A \cup {Quote} = StringSpecials
  BY SpecialsDiffer DEF StringSpecials
<1>2. Replace(text, Backslash) = Escaped(text, A)
  BY ReplaceEscapes
<1> HIDE DEF A
<1>3. Replace(Replace(text, Backslash), Quote) = Escaped(text, A \cup {Quote})
  <2>1. Escaped(Escaped(text, A), {Quote}) = Escaped(text, A \cup {Quote})
    BY <1>1, EscapedUnion, CharsAreStrings
  <2> QED
    BY <1>2, <2>1, ReplaceEscapes
<1> QED
  BY <1>1, <1>3 DEF EscStringField

(* A token is written as it is. *)
LEMMA PlainIsItself ==
  ASSUME NEW c \in Char, c \notin TagSpecials
  PROVE  EscTagKey(<<c>>) = <<c>> /\ EscMeasurement(<<c>>) = <<c>>
<1>1. <<c>> \in Text
  BY DEF Text
<1>2. c # Backslash /\ c # "," /\ c # " "
  BY DEF TagSpecials
<1>3. \A d : c # d => Replace(<<c>>, d) = <<c>>
  BY ReplaceEscapes, EscapedSingle DEF EscapedChar
<1>4. EscTagKey(<<c>>) = <<c>>
  BY <1>1, EscTagKeyEscapes, EscapedSingle DEF EscapedChar
<1>5. EscMeasurement(<<c>>) = <<c>>
  BY <1>2, <1>3 DEF EscMeasurement
<1> QED
  BY <1>4, <1>5

(* What is left to read of an escaped text. *)
Rest(text, n) == SubSeq(text, n + 1, Len(text))

LEMMA EscapedRest ==
  ASSUME NEW text \in Text, NEW set, NEW n \in 0..(Len(text) - 1)
  PROVE  /\ text[n + 1] \in Char /\ Rest(text, n + 1) \in Text
         /\ Escaped(Rest(text, n), set) =
              EscapedChar(text[n + 1], set) \o Escaped(Rest(text, n + 1), set)
<1>1. n + 1 \in 1..Len(text) /\ text[n + 1] \in Char
  BY DEF Text
<1>2. Rest(text, n) = <<text[n + 1]>> \o Rest(text, n + 1)
  BY <1>1, SubSeqRecursiveFirst DEF Rest, Text
<1>3. <<text[n + 1]>> \in Text /\ Rest(text, n + 1) \in Text
  BY <1>1 DEF Text, Rest
<1>4. Escaped(<<text[n + 1]>> \o Rest(text, n + 1), set) =
        Escaped(<<text[n + 1]>>, set) \o Escaped(Rest(text, n + 1), set)
  <2> DEFINE a == <<text[n + 1]>>
             b == Rest(text, n + 1)
  <2>1. a \in Text /\ b \in Text
    BY <1>3
  <2> HIDE DEF a, b
  <2>2. Escaped(a \o b, set) = Escaped(a, set) \o Escaped(b, set)
    BY <2>1, EscapedConcat
  <2> QED
    BY <2>2 DEF a, b
<1>5. Escaped(<<text[n + 1]>>, set) = EscapedChar(text[n + 1], set)
  BY <1>1, EscapedSingle
<1> QED
  BY <1>1, <1>2, <1>3, <1>4, <1>5

LEMMA RestOfAll ==
  ASSUME NEW text \in Text
  PROVE  Rest(text, 0) = text /\ Rest(text, Len(text)) = <<>>
<1>1. Len(text) \in Nat
  BY DEF Text
<1>2. SubSeq(text, 0 + 1, Len(text)) = text
  BY SubSeqFull DEF Text
<1>3. SubSeq(text, Len(text) + 1, Len(text)) = <<>>
  BY <1>1, SubSeqEmpty
<1> QED
  BY <1>2, <1>3 DEF Rest

-----------------------------------------------------------------------------
(* Reading a text back. *)

IsReader(r) ==
  /\ r = [at |-> r.at, escape |-> r.escape, key |-> r.key, text |-> r.text,
          point |-> r.point, points |-> r.points]
  /\ r.escape \in BOOLEAN

(* The reader has the first n characters of the text, and perhaps the      *)
(* backslash of the next one; unread are the others, and then the rest.    *)
Quoted(r, w, text, set, rest) ==
  \E n \in 0..Len(text) :
    /\ r.text = SubSeq(text, 1, n)
    /\ \/ ~r.escape /\ w = Escaped(Rest(text, n), set) \o rest
       \/ /\ r.escape /\ n < Len(text) /\ text[n + 1] \in set
          /\ w = <<text[n + 1]>> \o (Escaped(Rest(text, n + 1), set) \o rest)

(* The reader stays in the part that it is in. *)
SamePart(r1, r) ==
  IsReader(r1) /\ r1.at = r.at /\ r1.key = r.key /\ r1.point = r.point /\ r1.points = r.points

LEMMA ConsRead ==
  ASSUME NEW S, NEW c \in S, NEW s \in Seq(S)
  PROVE  /\ <<c>> \o s \in Seq(S) /\ Len(<<c>> \o s) = Len(s) + 1 /\ <<c>> \o s # <<>>
         /\ Head(<<c>> \o s) = c /\ Tail(<<c>> \o s) = s
<1>1. <<c>> \in Seq(S) /\ Len(<<c>>) = 1 /\ Len(s) \in Nat
  OBVIOUS
<1>2. /\ <<c>> \o s \in Seq(S) /\ Len(<<c>> \o s) = Len(s) + 1
      /\ \A i \in 1..(Len(s) + 1) : (<<c>> \o s)[i] = IF i <= 1 THEN <<c>>[i] ELSE s[i - 1]
  BY <1>1, ConcatProperties
<1> DEFINE t == <<c>> \o s
<1>3. t \in Seq(S) /\ Len(t) = Len(s) + 1 /\ t # <<>> /\ t[1] = c
  BY <1>1, <1>2
<1>4. \A i \in 1..Len(s) : t[i + 1] = s[i]
  BY <1>1, <1>2
<1> HIDE DEF t
<1>5. Head(t) = c
  BY <1>3
<1>6. Tail(t) = s
  <2>1. /\ Tail(t) \in Seq(S) /\ Len(Tail(t)) = Len(s)
        /\ \A i \in 1..Len(Tail(t)) : Tail(t)[i] = t[i + 1]
    BY <1>1, <1>3, HeadTailProperties
  <2> QED
    BY <1>4, <2>1, SeqEqual
<1> QED
  BY <1>3, <1>5, <1>6 DEF t

LEMMA Meanings ==
  /\ MeaningAt("measurement") = {",", " ", Backslash}
  /\ MeaningAt("tag_key") = TagSpecials /\ MeaningAt("tag_value") = TagSpecials
  /\ MeaningAt("field_key") = TagSpecials
  /\ MeaningAt("string") = StringSpecials
  /\ MeaningAt("field_value") = {",", " "} /\ MeaningAt("string_end") = {",", " "}
  /\ MeaningAt("timestamp") = {}
BY DEF MeaningAt, TagSpecials, StringSpecials

LEMMA QuotedStep ==
  ASSUME NEW r, NEW w, NEW text \in Text, NEW rest \in Text, NEW set,
         IsReader(r), r.at \in {"tag_value", "string"}, set = MeaningAt(r.at),
         r.at = "tag_value" => \A i \in DOMAIN text : text[i] # NewLine,
         Quoted(r, w, text, set, rest)
  PROVE  \/ ~r.escape /\ r.text = text /\ w = rest
         \/ /\ w \in Text /\ w # <<>>
            /\ SamePart(ReadChar(r, Head(w)), r)
            /\ Quoted(ReadChar(r, Head(w)), Tail(w), text, set, rest)
<1> DEFINE r1 == ReadChar(r, Head(w))
<1>1. PICK n \in 0..Len(text) :
        /\ r.text = SubSeq(text, 1, n)
        /\ \/ ~r.escape /\ w = Escaped(Rest(text, n), set) \o rest
           \/ /\ r.escape /\ n < Len(text) /\ text[n + 1] \in set
              /\ w = <<text[n + 1]>> \o (Escaped(Rest(text, n + 1), set) \o rest)
  BY DEF Quoted
<1>2. Len(text) \in Nat /\ n \in Nat
  BY DEF Text
<1>3. CASE n = Len(text)
  <2>1. ~r.escape /\ w = Escaped(Rest(text, n), set) \o rest
    BY <1>1, <1>2, <1>3
  <2>2. SubSeq(text, 1, n) = text
    BY <1>3, SubSeqFull DEF Text
  <2>3. Rest(text, n) = <<>>
    BY <1>3, RestOfAll
  <2>4. Escaped(<<>>, set) \o rest = rest
    BY EscapedEmpty, ConcatEmptySeq DEF Text
  <2> QED
    BY <1>1, <2>1, <2>2, <2>3, <2>4
<1>4. CASE n < Len(text)
  <2> DEFINE c == text[n + 1]
             t == Escaped(Rest(text, n + 1), set) \o rest
  <2>1. n \in 0..(Len(text) - 1) /\ n + 1 \in 0..Len(text) /\ n + 1 \in DOMAIN text
    BY <1>2, <1>4 DEF Text
  <2>2. c \in Char /\ Rest(text, n + 1) \in Text
    BY <2>1, EscapedRest
  <2>3. t \in Text
    BY <2>2, EscapedType, ConcatProperties DEF Text
  <2>4. SubSeq(text, 1, n + 1) = SubSeq(text, 1, n) \o <<c>>
        /\ SubSeq(text, 1, n + 1) = Append(SubSeq(text, 1, n), c)
    <3>1. 1 \in 1..Len(text) /\ n + 1 \in 1..Len(text) /\ (n + 1) - 1 = n
      BY <1>2, <1>4
    <3>2. SubSeq(text, 1, n + 1) = SubSeq(text, 1, (n + 1) - 1) \o <<text[n + 1]>>
      BY <3>1, SubSeqRecursiveSecond DEF Text
    <3>3. SubSeq(text, 1, n) \in Seq(Char)
      BY <1>2, <1>4 DEF Text
    <3> QED
      BY <2>2, <3>1, <3>2, <3>3, AppendIsConcat
  <2>5. r.at = "tag_value" => c # NewLine
    BY <2>1
  <2>6. Backslash \in MeaningAt(r.at)
    BY Meanings DEF TagSpecials, StringSpecials
  <2> HIDE DEF c, t
  <2>7. CASE r.escape
    <3>1. c \in set /\ w = <<c>> \o t
      BY <1>1, <2>7 DEF c, t
    <3>2. w \in Text /\ w # <<>> /\ Head(w) = c /\ Tail(w) = t
      BY <2>2, <2>3, <3>1, ConsRead DEF Text
    <3>3. r1 = [r EXCEPT !.escape = FALSE, !.text = r.text \o <<c>>]
      BY <2>7, <3>1, <3>2 DEF ReadChar
    <3> HIDE DEF r1
    <3>4. SamePart(r1, r) /\ ~r1.escape /\ r1.text = r.text \o <<c>>
      BY <3>3 DEF SamePart, IsReader
    <3>5. r1.text = SubSeq(text, 1, n + 1)
      BY <1>1, <2>4, <3>4
    <3>6. Quoted(r1, Tail(w), text, set, rest)
      BY <2>1, <3>2, <3>4, <3>5 DEF Quoted, t
    <3> QED
      BY <3>2, <3>4, <3>6 DEF r1
  <2>8. CASE ~r.escape
    <3>1. w = (EscapedChar(c, set) \o Escaped(Rest(text, n + 1), set)) \o rest
      BY <1>1, <2>1, <2>8, EscapedRest DEF c
    <3>2. EscapedChar(c, set) \in Text
      BY <2>2, CharsAreStrings DEF EscapedChar, Text
    <3>3. w = EscapedChar(c, set) \o t
      <4> DEFINE a == EscapedChar(c, set)
                 b == Escaped(Rest(text, n + 1), set)
      <4>1. a \in Text /\ b \in Text
        BY <2>2, <3>2, EscapedType
      <4> HIDE DEF a, b
      <4>2. (a \o b) \o rest = a \o (b \o rest)
        BY <4>1, TextAssociative
      <4> QED
        BY <3>1, <4>2 DEF a, b, t
    <3>4. CASE c \in set
      <4>1. EscapedChar(c, set) = <<Backslash>> \o <<c>>
        BY <3>4 DEF EscapedChar
      <4>2. <<Backslash>> \in Seq(Char) /\ <<c>> \in Seq(Char) /\ t \in Seq(Char)
        BY <2>2, <2>3, CharsAreStrings DEF Text
      <4>3. w = <<Backslash>> \o (<<c>> \o t)
        BY <3>3, <4>1, <4>2, ConcatAssociative
      <4>4. <<c>> \o t \in Seq(Char)
        BY <4>2, ConcatProperties
      <4>5. w \in Text /\ w # <<>> /\ Head(w) = Backslash /\ Tail(w) = <<c>> \o t
        BY <4>3, <4>4, CharsAreStrings, ConsRead DEF Text
      <4>6. r1 = [r EXCEPT !.escape = TRUE]
        BY <2>6, <2>8, <4>5, SpecialsDiffer DEF ReadChar
      <4> HIDE DEF r1
      <4>7. SamePart(r1, r) /\ r1.escape /\ r1.text = r.text
        BY <4>6 DEF SamePart, IsReader
      <4>8. Quoted(r1, Tail(w), text, set, rest)
        BY <1>1, <1>4, <3>4, <4>5, <4>7 DEF Quoted, c, t
      <4> QED
        BY <4>5, <4>7, <4>8 DEF r1
    <3>5. CASE c \notin set
      <4>1. w = <<c>> \o t
        BY <3>3, <3>5 DEF EscapedChar
      <4>2. w \in Text /\ w # <<>> /\ Head(w) = c /\ Tail(w) = t
        BY <2>2, <2>3, <4>1, ConsRead DEF Text
      <4>3. c # Backslash /\ c \notin MeaningAt(r.at) /\ ~(c = NewLine /\ r.at # "string")
        BY <2>5, <2>6, <3>5
      <4>4. r1 = [r EXCEPT !.text = Append(r.text, c)]
        BY <2>8, <4>2, <4>3 DEF ReadChar
      <4> HIDE DEF r1
      <4>5. SamePart(r1, r) /\ ~r1.escape /\ r1.text = Append(r.text, c)
        BY <2>8, <4>4 DEF SamePart, IsReader
      <4>6. r1.text = SubSeq(text, 1, n + 1)
        BY <1>1, <2>4, <4>5
      <4>7. Quoted(r1, Tail(w), text, set, rest)
        BY <2>1, <4>2, <4>5, <4>6 DEF Quoted, t
      <4> QED
        BY <4>2, <4>5, <4>7 DEF r1
    <3> QED
      BY <3>4, <3>5
  <2> QED
    BY <2>7, <2>8
<1> QED
  BY <1>2, <1>3, <1>4

-----------------------------------------------------------------------------
(* Points, and how far one has been read.                                  *)

Marks == {Backslash, Quote, NewLine, ",", "=", " "}

IsToken(c) == c \in Char /\ c \notin Marks \cup {"i", "u", "true", "false"}

IsValue(v) ==
  \/ \E text \in Text : v = Str(text)
  \/ \E kind \in {"Int", "UInt", "Float"}, c \in Char :
       IsToken(c) /\ v = [kind |-> kind, text |-> <<c>>]
  \/ \E b \in BOOLEAN : v = Bool(b)

IsTag(text) == text \in Text /\ text # <<>> /\ \A i \in DOMAIN text : text[i] # NewLine

IsPoint(p) ==
  /\ p = [measurement |-> p.measurement, tags |-> p.tags, fields |-> p.fields,
          timestamp |-> p.timestamp]
  /\ p.measurement \in {<<"bme680">>, <<"device_status">>}
  /\ p.tags = [k \in DOMAIN p.tags |-> p.tags[k]]
  /\ DOMAIN p.tags \subseteq TagKeys
  /\ \A k \in DOMAIN p.tags : IsTag(p.tags[k])
  /\ p.fields = [k \in DOMAIN p.fields |-> p.fields[k]]
  /\ DOMAIN p.fields \subseteq FieldKeys /\ DOMAIN p.fields # {}
  /\ \A k \in DOMAIN p.fields : IsValue(p.fields[k])
  /\ p.timestamp = <<>> \/ \E c \in Char : IsToken(c) /\ p.timestamp = <<c>>

(* The keys are none of the characters with a meaning. *)
LEMMA TagKeysArePlain ==
  Len(TagOrder) = 3 /\ DOMAIN TagOrder = 1..3
  /\ \A i \in DOMAIN TagOrder : TagOrder[i] \in Char /\ TagOrder[i] \notin Marks
<1>1. Len(TagOrder) = 3 /\ DOMAIN TagOrder = 1..3
  BY DEF TagOrder
<1>2. ASSUME NEW i \in 1..3 PROVE TagOrder[i] \notin Marks
  <2>1. TagOrder[i] \in {"device_class", "device_id", "room"}
    BY DEF TagOrder
  <2>2. ASSUME NEW k \in {"device_class", "device_id", "room"} PROVE k \notin Marks
    BY DEF Marks, Backslash, Quote, NewLine
  <2> QED
    BY <2>1, <2>2
<1>3. \A i \in DOMAIN TagOrder : TagOrder[i] \in Char
  BY DEF Char, TagKeys
<1> QED
  BY <1>1, <1>2, <1>3

LEMMA FieldKeysArePlain ==
  Len(FieldOrder) = 25 /\ DOMAIN FieldOrder = 1..25
  /\ \A i \in DOMAIN FieldOrder : FieldOrder[i] \in Char /\ FieldOrder[i] \notin Marks
<1>1. Len(FieldOrder) = 25 /\ DOMAIN FieldOrder = 1..25
  BY DEF FieldOrder
<1>2. ASSUME NEW i \in 1..25 PROVE FieldOrder[i] \notin Marks
  <2> DEFINE names == {"boot_id", "dew_point_c", "dropped_total", "firmware_version", "free_mem",
    "gas_ohm", "heat_index_c", "iaq_score", "iaq_text", "ip_address",
    "mqtt_connects_total", "pressure_hpa", "queued", "rel_hum_perc", "replayed",
    "reset_reason", "rssi", "samples_failed_total", "sensor_read_failures_total",
    "seq", "ssid", "temp_c", "time_valid", "uptime", "warmed_up"}
  <2>1. FieldOrder[i] \in names
    BY DEF FieldOrder
  <2>2. ASSUME NEW k \in names PROVE k \notin Marks
    BY DEF Marks, Backslash, Quote, NewLine
  <2> QED
    BY <2>1, <2>2
<1>3. \A i \in DOMAIN FieldOrder : FieldOrder[i] \in Char
  BY DEF Char, FieldKeys
<1> QED
  BY <1>1, <1>2, <1>3

UpTo(f, order, j) == [k \in {order[i] : i \in 1..j} \cap DOMAIN f |-> f[k]]

LEMMA UpToNone == ASSUME NEW f, NEW order PROVE UpTo(f, order, 0) = None
BY DEF UpTo, None

LEMMA UpToSkip ==
  ASSUME NEW f, NEW order, NEW j \in Nat, NEW k \in Nat, j <= k,
         \A i \in (j + 1)..k : order[i] \notin DOMAIN f
  PROVE  UpTo(f, order, j) = UpTo(f, order, k)
<1>1. {order[i] : i \in 1..j} \cap DOMAIN f = {order[i] : i \in 1..k} \cap DOMAIN f
  <2>1. 1..j \subseteq 1..k
    OBVIOUS
  <2>2. \A i \in 1..k : i \in 1..j \/ i \in (j + 1)..k
    OBVIOUS
  <2> QED
    BY <2>1, <2>2
<1> QED
  BY <1>1 DEF UpTo

LEMMA UpToNext ==
  ASSUME NEW f, NEW order, NEW j \in Nat \ {0}, order[j] \in DOMAIN f
  PROVE  Only(order[j], f[order[j]]) ++ UpTo(f, order, j - 1) = UpTo(f, order, j)
<1> DEFINE g == Only(order[j], f[order[j]])
           h == UpTo(f, order, j - 1)
<1>1. /\ DOMAIN g = {order[j]} /\ DOMAIN h = {order[i] : i \in 1..(j - 1)} \cap DOMAIN f
      /\ \A k \in DOMAIN g : g[k] = f[k]
      /\ \A k \in DOMAIN h : h[k] = f[k]
  BY DEF Only, UpTo
<1> HIDE DEF g, h
<1>2. DOMAIN g \cup DOMAIN h = {order[i] : i \in 1..j} \cap DOMAIN f
  <2>1. \A i : i \in 1..j <=> i = j \/ i \in 1..(j - 1)
    OBVIOUS
  <2> QED
    BY <1>1, <2>1
<1>3. \A k \in DOMAIN g \cup DOMAIN h : (IF k \in DOMAIN g THEN g[k] ELSE h[k]) = f[k]
  BY <1>1
<1>4. g ++ h = [k \in DOMAIN g \cup DOMAIN h |-> f[k]]
  BY <1>3 DEF ++
<1>5. g ++ h = UpTo(f, order, j)
  BY <1>2, <1>4 DEF UpTo
<1> QED
  BY <1>5 DEF g, h

LEMMA UpToAll ==
  ASSUME NEW f, NEW order, NEW n, DOMAIN f \subseteq {order[i] : i \in 1..n},
         f = [k \in DOMAIN f |-> f[k]]
  PROVE  UpTo(f, order, n) = f
<1>1. {order[i] : i \in 1..n} \cap DOMAIN f = DOMAIN f
  OBVIOUS
<1> QED
  BY <1>1 DEF UpTo

(* The point with its first j tags and first k fields. *)
So(p, j, k) ==
  [measurement |-> p.measurement, tags |-> UpTo(p.tags, TagOrder, j),
   fields |-> UpTo(p.fields, FieldOrder, k), timestamp |-> <<>>]

LEMMA SoAll ==
  ASSUME NEW p, IsPoint(p)
  PROVE  [So(p, 3, 25) EXCEPT !.timestamp = p.timestamp] = p
<1>1. UpTo(p.tags, TagOrder, 3) = p.tags
  BY TagKeysArePlain, UpToAll DEF IsPoint, TagKeys
<1>2. UpTo(p.fields, FieldOrder, 25) = p.fields
  BY FieldKeysArePlain, UpToAll DEF IsPoint, FieldKeys
<1> QED
  BY <1>1, <1>2 DEF So, IsPoint

-----------------------------------------------------------------------------
(* What is left to read of a line. *)

TimestampPart(p) == (IF p.timestamp = <<>> THEN <<>> ELSE <<" ">> \o p.timestamp) \o <<NewLine>>

AfterField(p, k) == FlattenSeq(SubSeq(FieldParts(p), k + 1, 25)) \o TimestampPart(p)

AfterTag(p, j) == FlattenSeq(SubSeq(TagParts(p), j + 1, 3)) \o AfterField(p, 0)

LEMMA TagPartsType ==
  ASSUME NEW p, IsPoint(p)
  PROVE  /\ TagParts(p) \in Seq(Text) /\ Len(TagParts(p)) = 3
         /\ \A j \in 1..3 : TagOrder[j] \notin DOMAIN p.tags => TagParts(p)[j] = <<>>
         /\ \A j \in 1..3 : TagOrder[j] \in DOMAIN p.tags =>
              TagParts(p)[j] = <<",">> \o ((<<TagOrder[j]>> \o <<"=">>)
                                          \o Escaped(p.tags[TagOrder[j]], TagSpecials))
<1>1. ASSUME NEW j \in 1..3, TagOrder[j] \in DOMAIN p.tags
      PROVE  /\ TagParts(p)[j] = <<",">> \o ((<<TagOrder[j]>> \o <<"=">>)
                                          \o Escaped(p.tags[TagOrder[j]], TagSpecials))
             /\ TagParts(p)[j] \in Text
  <2> DEFINE k == TagOrder[j]
  <2>1. k \in Char /\ k \notin TagSpecials
    BY TagKeysArePlain DEF TagSpecials, Marks
  <2>2. p.tags[k] \in Text
    BY <1>1 DEF IsPoint, IsTag
  <2>3. EscTagKey(<<k>>) = <<k>>
    BY <2>1, PlainIsItself
  <2>4. EscTagValue(p.tags[k]) = Escaped(p.tags[k], TagSpecials)
    BY <2>2, EscTagKeyEscapes DEF EscTagValue
  <2>5. TagParts(p)[j] = <<",">> \o Pair(k, EscTagValue(p.tags[k]))
    BY <1>1, TagKeysArePlain DEF TagParts
  <2>6. TagParts(p)[j] = <<",">> \o ((<<k>> \o <<"=">>) \o Escaped(p.tags[k], TagSpecials))
    BY <2>3, <2>4, <2>5 DEF Pair
  <2>7. <<",">> \in Text /\ <<k>> \in Text /\ <<"=">> \in Text
    <3>1. "," \in Char /\ "=" \in Char
      BY DEF Char
    <3>2. \A c \in Char : <<c>> \in Text
      BY DEF Text
    <3> QED
      BY <2>1, <3>1, <3>2
  <2>8. Escaped(p.tags[k], TagSpecials) \in Text
    BY <2>2, EscapedType
  <2>9. (<<k>> \o <<"=">>) \o Escaped(p.tags[k], TagSpecials) \in Text
    <3>1. <<k>> \o <<"=">> \in Text
      BY <2>7, ConcatProperties DEF Text
    <3> QED
      BY <2>8, <3>1, ConcatProperties DEF Text
  <2>10. TagParts(p)[j] \in Text
    BY <2>6, <2>7, <2>9, ConcatProperties DEF Text
  <2> QED
    BY <2>6, <2>10
<1>2. ASSUME NEW j \in 1..3, TagOrder[j] \notin DOMAIN p.tags
      PROVE  TagParts(p)[j] = <<>> /\ TagParts(p)[j] \in Text
  <2>1. TagParts(p)[j] = <<>>
    BY <1>2, TagKeysArePlain DEF TagParts
  <2> QED
    BY <2>1 DEF Text
<1>3. TagParts(p) = [j \in 1..3 |-> TagParts(p)[j]]
  BY TagKeysArePlain DEF TagParts
<1>4. \A j \in 1..3 : TagParts(p)[j] \in Text
  BY <1>1, <1>2
<1>5. TagParts(p) \in Seq(Text) /\ Len(TagParts(p)) = 3
  BY <1>3, <1>4
<1> QED
  BY <1>1, <1>2, <1>5

LEMMA TwoCharacters ==
  ASSUME NEW c \in Char, NEW d \in Char
  PROVE  <<c>> \o <<d>> = <<c, d>> /\ Last(<<c, d>>) = d /\ Front(<<c, d>>) = <<c>>
<1>1. <<c>> \in Seq(Char) /\ <<d>> \in Seq(Char) /\ <<c, d>> \in Seq(Char)
  OBVIOUS
<1>2. <<c>> \o <<d>> = <<c, d>>
  <2>1. /\ <<c>> \o <<d>> \in Seq(Char) /\ Len(<<c>> \o <<d>>) = 1 + 1
        /\ \A i \in 1..(1 + 1) : (<<c>> \o <<d>>)[i] = IF i <= 1 THEN <<c>>[i] ELSE <<d>>[i - 1]
    BY <1>1, ConcatProperties
  <2> DEFINE s == <<c>> \o <<d>>
             t == <<c, d>>
  <2>2. s \in Seq(Char) /\ Len(s) = 2 /\ s[1] = c /\ s[2] = d
    BY <2>1
  <2>3. t \in Seq(Char) /\ Len(t) = 2 /\ t[1] = c /\ t[2] = d
    BY <1>1
  <2> HIDE DEF s, t
  <2>4. \A i \in 1..2 : s[i] = t[i]
    BY <2>2, <2>3
  <2>5. s = t
    BY <2>2, <2>3, <2>4, SeqEqual
  <2> QED
    BY <2>5 DEF s, t
<1>3. Last(<<c, d>>) = d
  BY DEF Last
<1>4. SubSeq(<<c, d>>, 1, 1) = <<c>>
  <2>1. /\ SubSeq(<<c, d>>, 1, 1) \in Seq(Char) /\ Len(SubSeq(<<c, d>>, 1, 1)) = 1
        /\ SubSeq(<<c, d>>, 1, 1)[1] = c
    <3>1. \A i \in 1..1 : <<c, d>>[i] \in Char
      OBVIOUS
    <3>2. /\ SubSeq(<<c, d>>, 1, 1) \in Seq(Char)
          /\ Len(SubSeq(<<c, d>>, 1, 1)) = IF 1 <= 1 THEN 1 - 1 + 1 ELSE 0
          /\ \A i \in 1..(1 - 1 + 1) : SubSeq(<<c, d>>, 1, 1)[i] = <<c, d>>[1 + i - 1]
      BY <3>1, SubSeqProperties
    <3> QED
      BY <3>2
  <2> DEFINE s == SubSeq(<<c, d>>, 1, 1)
             t == <<c>>
  <2>2. t \in Seq(Char) /\ Len(t) = 1 /\ t[1] = c
    OBVIOUS
  <2>3. s \in Seq(Char) /\ Len(s) = 1 /\ s[1] = c
    BY <2>1
  <2> HIDE DEF s, t
  <2>4. \A i \in 1..1 : s[i] = t[i]
    BY <2>2, <2>3
  <2>5. s = t
    BY <2>2, <2>3, <2>4, SeqEqual
  <2> QED
    BY <2>5 DEF s, t
<1>5. Front(<<c, d>>) = SubSeq(<<c, d>>, 1, 1)
  BY DEF Front
<1> QED
  BY <1>2, <1>3, <1>4, <1>5

(* A value that is not a string is written without quotes, and its last    *)
(* character tells its kind.                                               *)
LEMMA ValueIsWritten ==
  ASSUME NEW v, IsValue(v)
  PROVE  /\ FormatFieldValue(v) \in Text
         /\ \/ \E text \in Text :
                 /\ v = Str(text)
                 /\ FormatFieldValue(v) =
                      <<Quote>> \o (Escaped(text, StringSpecials) \o <<Quote>>)
            \/ /\ Len(FormatFieldValue(v)) > 0
               /\ \A i \in DOMAIN FormatFieldValue(v) : FormatFieldValue(v)[i] \notin Marks
               /\ Unquoted(FormatFieldValue(v)) = v
<1>1. "i" \in Char /\ "u" \in Char /\ "true" \in Char /\ "false" \in Char
  BY DEF Char
<1>2. /\ "i" \notin Marks /\ "u" \notin Marks /\ "true" \notin Marks /\ "false" \notin Marks
      /\ "i" # "u" /\ "true" # "false" /\ "i" # "true" /\ "i" # "false" /\ "u" # "true"
      /\ "u" # "false"
  BY DEF Marks, Backslash, Quote, NewLine
<1>3. CASE \E text \in Text : v = Str(text)
  <2>1. PICK text \in Text : v = Str(text)
    BY <1>3
  <2>2. FormatFieldValue(v) = <<Quote>> \o EscStringField(text) \o <<Quote>>
    BY <2>1 DEF FormatFieldValue, Str
  <2>3. EscStringField(text) = Escaped(text, StringSpecials)
    BY EscStringFieldEscapes
  <2>4. <<Quote>> \in Seq(Char) /\ Escaped(text, StringSpecials) \in Seq(Char)
    BY CharsAreStrings, EscapedType DEF Text
  <2>5. FormatFieldValue(v) = <<Quote>> \o (Escaped(text, StringSpecials) \o <<Quote>>)
    BY <2>2, <2>3, <2>4, ConcatAssociative
  <2>6. Escaped(text, StringSpecials) \o <<Quote>> \in Seq(Char)
    BY <2>4, ConcatProperties
  <2>7. FormatFieldValue(v) \in Text
    BY <2>4, <2>5, <2>6, ConcatProperties DEF Text
  <2> QED
    BY <2>1, <2>5, <2>7
<1>4. CASE \E kind \in {"Int", "UInt", "Float"}, c \in Char :
             IsToken(c) /\ v = [kind |-> kind, text |-> <<c>>]
  <2>1. PICK kind \in {"Int", "UInt", "Float"}, c \in Char :
               IsToken(c) /\ v = [kind |-> kind, text |-> <<c>>]
    BY <1>4
  <2>2. c \notin Marks /\ c # "i" /\ c # "u" /\ c # "true" /\ c # "false"
    BY <2>1 DEF IsToken
  <2>3. CASE kind = "Float"
    <3>1. FormatFieldValue(v) = <<c>>
      BY <2>1, <2>3 DEF FormatFieldValue
    <3>2. Unquoted(<<c>>) = v
      BY <2>1, <2>2, <2>3 DEF Unquoted, Last
    <3> QED
      BY <2>2, <3>1, <3>2 DEF Text
  <2>4. CASE kind = "Int"
    <3>1. FormatFieldValue(v) = <<c, "i">>
      <4>1. v.kind = "Int" /\ v.text = <<c>>
        BY <2>1, <2>4
      <4>2. FormatFieldValue(v) = <<c>> \o <<"i">>
        BY <4>1 DEF FormatFieldValue
      <4> QED
        BY <1>1, <4>2, TwoCharacters
    <3>2. Unquoted(<<c, "i">>) = v
      <4>1. Last(<<c, "i">>) = "i" /\ Front(<<c, "i">>) = <<c>>
        BY <1>1, TwoCharacters
      <4>3. <<c, "i">> \notin {<<"true">>, <<"false">>}
        OBVIOUS
      <4> QED
        BY <2>1, <2>4, <4>1, <4>3 DEF Unquoted
    <3>3. <<c, "i">> \in Text /\ \A i \in DOMAIN <<c, "i">> : <<c, "i">>[i] \notin Marks
      BY <1>1, <1>2, <2>2 DEF Text
    <3> QED
      BY <3>1, <3>2, <3>3
  <2>5. CASE kind = "UInt"
    <3>1. FormatFieldValue(v) = <<c, "u">>
      <4>1. v.kind = "UInt" /\ v.text = <<c>>
        BY <2>1, <2>5
      <4>2. FormatFieldValue(v) = <<c>> \o <<"u">>
        BY <4>1 DEF FormatFieldValue
      <4> QED
        BY <1>1, <4>2, TwoCharacters
    <3>2. Unquoted(<<c, "u">>) = v
      <4>1. Last(<<c, "u">>) = "u" /\ Front(<<c, "u">>) = <<c>>
        BY <1>1, TwoCharacters
      <4>3. <<c, "u">> \notin {<<"true">>, <<"false">>}
        OBVIOUS
      <4> QED
        BY <1>2, <2>1, <2>5, <4>1, <4>3 DEF Unquoted
    <3>3. <<c, "u">> \in Text /\ \A i \in DOMAIN <<c, "u">> : <<c, "u">>[i] \notin Marks
      BY <1>1, <1>2, <2>2 DEF Text
    <3> QED
      BY <3>1, <3>2, <3>3
  <2> QED
    BY <2>3, <2>4, <2>5
<1>5. CASE \E b \in BOOLEAN : v = Bool(b)
  <2>1. PICK c \in {"true", "false"} : v = [kind |-> "Bool", text |-> <<c>>]
    BY <1>5 DEF Bool
  <2>2. FormatFieldValue(v) = <<c>>
    BY <2>1 DEF FormatFieldValue
  <2>3. Unquoted(<<c>>) = v
    <3>1. Unquoted(<<c>>) = [kind |-> "Bool", text |-> <<c>>]
      <4>1. <<c>> \in {<<"true">>, <<"false">>}
        OBVIOUS
      <4>2. Last(<<c>>) = c /\ c # "i" /\ c # "u"
        BY <1>2 DEF Last
      <4> QED
        BY <4>1, <4>2 DEF Unquoted
    <3> QED
      BY <2>1, <3>1
  <2>4. c \in Char /\ c \notin Marks
    BY <1>1, <1>2
  <2> QED
    BY <2>2, <2>3, <2>4 DEF Text
<1> QED
  BY <1>3, <1>4, <1>5 DEF IsValue

LEMMA FieldPartsType ==
  ASSUME NEW p, IsPoint(p)
  PROVE  /\ FieldParts(p) \in Seq(Text) /\ Len(FieldParts(p)) = 25
         /\ \A j \in 1..25 : FieldOrder[j] \notin DOMAIN p.fields => FieldParts(p)[j] = <<>>
         /\ \A j \in 1..25 : FieldOrder[j] \in DOMAIN p.fields =>
              FieldParts(p)[j] =
                <<IF \A i \in 1..(j - 1) : FieldOrder[i] \notin DOMAIN p.fields THEN " " ELSE ",">>
                \o ((<<FieldOrder[j]>> \o <<"=">>) \o FormatFieldValue(p.fields[FieldOrder[j]]))
<1>1. ASSUME NEW j \in 1..25, FieldOrder[j] \in DOMAIN p.fields
      PROVE  /\ FieldParts(p)[j] =
                  <<IF \A i \in 1..(j - 1) : FieldOrder[i] \notin DOMAIN p.fields THEN " " ELSE ",">>
                  \o ((<<FieldOrder[j]>> \o <<"=">>) \o FormatFieldValue(p.fields[FieldOrder[j]]))
             /\ FieldParts(p)[j] \in Text
  <2> DEFINE k == FieldOrder[j]
             v == p.fields[k]
             sep == IF \A i \in 1..(j - 1) : FieldOrder[i] \notin DOMAIN p.fields THEN " " ELSE ","
  <2>1. k \in Char /\ k \notin TagSpecials
    BY FieldKeysArePlain DEF TagSpecials, Marks
  <2>2. FormatFieldValue(v) \in Text
    BY <1>1, ValueIsWritten DEF IsPoint
  <2>3. EscFieldKey(<<k>>) = <<k>> /\ EscTagKey(<<k>>) = <<k>>
    BY <2>1, PlainIsItself DEF EscFieldKey
  <2>4. FieldParts(p)[j] = <<sep>> \o Pair(k, FormatFieldValue(v))
    BY <1>1, FieldKeysArePlain DEF FieldParts
  <2>5. FieldParts(p)[j] = <<sep>> \o ((<<k>> \o <<"=">>) \o FormatFieldValue(v))
    BY <2>3, <2>4 DEF Pair
  <2>6. <<sep>> \in Text /\ <<k>> \in Text /\ <<"=">> \in Text
    <3>1. sep \in Char /\ "=" \in Char
      BY DEF Char
    <3>2. \A c \in Char : <<c>> \in Text
      BY DEF Text
    <3> QED
      BY <2>1, <3>1, <3>2
  <2>7. (<<k>> \o <<"=">>) \o FormatFieldValue(v) \in Text
    <3>1. <<k>> \o <<"=">> \in Text
      BY <2>6, ConcatProperties DEF Text
    <3> QED
      BY <2>2, <3>1, ConcatProperties DEF Text
  <2>8. FieldParts(p)[j] \in Text
    <3>1. <<sep>> \o ((<<k>> \o <<"=">>) \o FormatFieldValue(v)) \in Text
      BY <2>6, <2>7, TextConcat
    <3> QED
      BY <2>5, <3>1
  <2> QED
    BY <2>5, <2>8
<1>2. ASSUME NEW j \in 1..25, FieldOrder[j] \notin DOMAIN p.fields
      PROVE  FieldParts(p)[j] = <<>> /\ FieldParts(p)[j] \in Text
  <2>1. FieldParts(p)[j] = <<>>
    BY <1>2, FieldKeysArePlain DEF FieldParts
  <2> QED
    BY <2>1 DEF Text
<1>3. FieldParts(p) = [j \in 1..25 |-> FieldParts(p)[j]]
  BY FieldKeysArePlain DEF FieldParts
<1>4. \A j \in 1..25 : FieldParts(p)[j] \in Text
  BY <1>1, <1>2
<1>5. FieldParts(p) \in Seq(Text) /\ Len(FieldParts(p)) = 25
  BY <1>3, <1>4
<1> QED
  BY <1>1, <1>2, <1>5

LEMMA RestTypes ==
  ASSUME NEW p, IsPoint(p)
  PROVE  /\ TimestampPart(p) \in Text
         /\ \A k \in 0..25 : AfterField(p, k) \in Text
         /\ \A j \in 0..3 : AfterTag(p, j) \in Text
<1>1. TimestampPart(p) \in Text
  <2>1. <<NewLine>> \in Seq(Char) /\ <<" ">> \in Seq(Char)
    BY CharsAreStrings DEF Char
  <2>2. p.timestamp \in Seq(Char)
    <3>1. CASE p.timestamp = <<>>
      BY <3>1, EmptySeq
    <3>2. CASE \E c \in Char : IsToken(c) /\ p.timestamp = <<c>>
      <4>1. PICK c \in Char : p.timestamp = <<c>>
        BY <3>2
      <4> QED
        BY <4>1
    <3> QED
      BY <3>1, <3>2 DEF IsPoint
  <2>3. (IF p.timestamp = <<>> THEN <<>> ELSE <<" ">> \o p.timestamp) \in Seq(Char)
    BY <2>1, <2>2, ConcatProperties
  <2> QED
    BY <2>1, <2>3, ConcatProperties DEF TimestampPart, Text
<1>2. ASSUME NEW k \in 0..25 PROVE AfterField(p, k) \in Text
  <2>1. SubSeq(FieldParts(p), k + 1, 25) \in Seq(Seq(Char))
    <3> DEFINE parts == FieldParts(p)
    <3>1. parts \in Seq(Text) /\ Len(parts) = 25
      BY FieldPartsType
    <3> HIDE DEF parts
    <3>2. ASSUME NEW i \in (k + 1)..25 PROVE parts[i] \in Text
      <4>1. i \in 1..Len(parts)
        BY <3>1
      <4> QED
        BY <3>1, <4>1, ElementOfSeq
    <3>3. SubSeq(parts, k + 1, 25) \in Seq(Text)
      BY <3>2, SubSeqProperties
    <3> QED
      BY <3>3 DEF parts, Text
  <2>2. FlattenSeq(SubSeq(FieldParts(p), k + 1, 25)) \in Seq(Char)
    BY <2>1, FlattenType
  <2> QED
    BY <1>1, <2>2, ConcatProperties DEF AfterField, Text
<1>3. ASSUME NEW j \in 0..3 PROVE AfterTag(p, j) \in Text
  <2>1. SubSeq(TagParts(p), j + 1, 3) \in Seq(Seq(Char))
    <3> DEFINE parts == TagParts(p)
    <3>1. parts \in Seq(Text) /\ Len(parts) = 3
      BY TagPartsType
    <3> HIDE DEF parts
    <3>2. ASSUME NEW i \in (j + 1)..3 PROVE parts[i] \in Text
      <4>1. i \in 1..Len(parts)
        BY <3>1
      <4> QED
        BY <3>1, <4>1, ElementOfSeq
    <3>3. SubSeq(parts, j + 1, 3) \in Seq(Text)
      BY <3>2, SubSeqProperties
    <3> QED
      BY <3>3 DEF parts, Text
  <2>2. FlattenSeq(SubSeq(TagParts(p), j + 1, 3)) \in Seq(Char)
    BY <2>1, FlattenType
  <2> QED
    BY <1>2, <2>2, ConcatProperties DEF AfterTag, Text
<1> QED
  BY <1>1, <1>2, <1>3

(* What follows a tag, or the measurement: the next tag that the point     *)
(* has, or the fields.                                                     *)
TagText(p, k) ==
  <<TagOrder[k]>> \o (<<"=">> \o (Escaped(p.tags[TagOrder[k]], TagSpecials) \o AfterTag(p, k)))

FieldText(p, k) ==
  <<FieldOrder[k]>> \o
    (<<"=">> \o (FormatFieldValue(p.fields[FieldOrder[k]]) \o AfterField(p, k)))

LEMMA NextPresent ==
  ASSUME NEW order, NEW D, NEW j \in Nat, NEW n \in Nat
  PROVE  \/ \E k \in (j + 1)..n : /\ order[k] \in D
                               /\ \A i \in (j + 1)..(k - 1) : order[i] \notin D
         \/ \A i \in (j + 1)..n : order[i] \notin D
<1> DEFINE S == {k \in (j + 1)..n : order[k] \in D}
<1>1. SUFFICES ASSUME S # {}
               PROVE  \E k \in (j + 1)..n : /\ order[k] \in D
                               /\ \A i \in (j + 1)..(k - 1) : order[i] \notin D
  OBVIOUS
<1>2. PICK k \in S : \A i \in S : k <= i
  <2>1. S \subseteq Nat
    OBVIOUS
  <2> HIDE DEF S
  <2> QED
    BY <1>1, <2>1, LeastExists
<1>3. k \in (j + 1)..n /\ order[k] \in D
  OBVIOUS
<1>4. ASSUME NEW i \in (j + 1)..(k - 1) PROVE order[i] \notin D
  <2>1. i \in (j + 1)..n /\ ~(k <= i)
    BY <1>3
  <2>2. i \notin S
    <3> HIDE DEF S
    <3> QED
      BY <1>2, <2>1
  <2> QED
    BY <2>1, <2>2
<1> QED
  BY <1>3, <1>4

LEMMA CatFacts ==
  /\ \A x, y, z \in Text : Cat(Cat(x, y), z) = Cat(x, Cat(y, z))
  /\ \A x, y \in Text : Cat(x, y) \in Text
BY TextAssociative, TextConcat DEF Cat

LEMMA ConcatFour ==
  ASSUME NEW a \in Text, NEW b \in Text, NEW c \in Text, NEW d \in Text, NEW e \in Text
  PROVE  Cat(Cat(a, Cat(Cat(b, c), d)), e) = Cat(a, Cat(b, Cat(c, Cat(d, e))))
<1>1. Cat(Cat(Cat(b, c), d), e) = Cat(b, Cat(c, Cat(d, e)))
  BY CatFacts
<1>2. Cat(Cat(a, Cat(Cat(b, c), d)), e) = Cat(a, Cat(Cat(Cat(b, c), d), e))
  BY CatFacts
<1> QED
  BY <1>1, <1>2

(* Of parts in an order, of which those of absent keys are empty, either   *)
(* the part of the next key that is there follows, or none.                *)
Follows(order, f, n, parts, tail, j) ==
  \/ \E k \in (j + 1)..n :
       /\ order[k] \in DOMAIN f
       /\ \A i \in (j + 1)..(k - 1) : order[i] \notin DOMAIN f
       /\ UpTo(f, order, j) = UpTo(f, order, k - 1)
       /\ FlattenSeq(SubSeq(parts, j + 1, n)) \o tail =
            parts[k] \o (FlattenSeq(SubSeq(parts, k + 1, n)) \o tail)
  \/ /\ \A i \in (j + 1)..n : order[i] \notin DOMAIN f
     /\ UpTo(f, order, j) = UpTo(f, order, n)
     /\ FlattenSeq(SubSeq(parts, j + 1, n)) \o tail = tail

LEMMA NextPart ==
  ASSUME NEW order, NEW f, NEW n \in Nat, NEW parts \in Seq(Text), Len(parts) = n,
         \A i \in 1..n : order[i] \notin DOMAIN f => parts[i] = <<>>,
         NEW tail \in Text, NEW j \in 0..n
  PROVE  Follows(order, f, n, parts, tail, j)
<1> DEFINE D == DOMAIN f
<1>0. parts \in Seq(Seq(Char)) /\ tail \in Seq(Char)
  BY DEF Text
<1>1. CASE \E k \in (j + 1)..n : /\ order[k] \in D
                               /\ \A i \in (j + 1)..(k - 1) : order[i] \notin D
  <2>1. PICK k \in (j + 1)..n : /\ order[k] \in D
                               /\ \A i \in (j + 1)..(k - 1) : order[i] \notin D
    BY <1>1
  <2>2. k \in 1..n /\ j <= k - 1 /\ k - 1 \in Nat /\ j + 1 \in 1..(Len(parts) + 1)
        /\ k \in (j + 1)..(Len(parts) + 1) /\ k \in 1..Len(parts)
    OBVIOUS
  <2>3. UpTo(f, order, j) = UpTo(f, order, k - 1)
    BY <2>1, <2>2, UpToSkip
  <2>4. ASSUME NEW i \in (j + 1)..(k - 1) PROVE parts[i] = <<>>
    <3>1. i \in 1..n
      BY <2>2
    <3> QED
      BY <2>1, <3>1
  <2>5. FlattenSeq(SubSeq(parts, j + 1, n)) = FlattenSeq(SubSeq(parts, k, n))
    BY <1>0, <2>2, <2>4, FlattenSkip
  <2>6. FlattenSeq(SubSeq(parts, k, n)) = parts[k] \o FlattenSeq(SubSeq(parts, k + 1, n))
    BY <1>0, <2>2, FlattenFrom
  <2>7. FlattenSeq(SubSeq(parts, k + 1, n)) \in Seq(Char) /\ parts[k] \in Seq(Char)
    <3>1. SubSeq(parts, k + 1, n) \in Seq(Seq(Char))
      BY <1>0, <2>2
    <3> QED
      BY <1>0, <2>2, <3>1, FlattenType, ElementOfSeq
  <2> DEFINE left == FlattenSeq(SubSeq(parts, k + 1, n))
             part == parts[k]
  <2>8. FlattenSeq(SubSeq(parts, j + 1, n)) = part \o left
    BY <2>5, <2>6
  <2>9. left \in Text /\ part \in Text
    BY <2>7 DEF Text
  <2> HIDE DEF left, part
  <2>10. FlattenSeq(SubSeq(parts, j + 1, n)) \o tail = part \o (left \o tail)
    <3>1. (part \o left) \o tail = part \o (left \o tail)
      BY <2>9, TextAssociative
    <3> QED
      BY <2>8, <3>1
  <2> QED
    BY <2>1, <2>3, <2>10 DEF Follows, left, part
<1>2. CASE \A i \in (j + 1)..n : order[i] \notin D
  <2>1. UpTo(f, order, j) = UpTo(f, order, n)
    BY <1>2, UpToSkip
  <2>2. ASSUME NEW i \in (j + 1)..((n + 1) - 1) PROVE parts[i] = <<>>
    <3>1. i \in 1..n /\ i \in (j + 1)..n
      OBVIOUS
    <3> QED
      BY <1>2, <3>1
  <2>3. j + 1 \in 1..(Len(parts) + 1) /\ n + 1 \in (j + 1)..(Len(parts) + 1)
    OBVIOUS
  <2>4. FlattenSeq(SubSeq(parts, j + 1, n)) = FlattenSeq(SubSeq(parts, n + 1, n))
    BY <1>0, <2>2, <2>3, FlattenSkip
  <2>5. FlattenSeq(SubSeq(parts, n + 1, n)) = <<>>
    <3>1. FlattenSeq(SubSeq(parts, Len(parts) + 1, Len(parts))) = <<>>
      <4>1. Len(parts) \in Nat
        OBVIOUS
      <4> QED
        BY <4>1, FlattenPastLast
    <3> QED
      BY <3>1
  <2> QED
    BY <1>0, <1>2, <2>1, <2>4, <2>5, ConcatEmptySeq DEF Follows
<1>3. j \in Nat
  OBVIOUS
<1> QED
  BY <1>1, <1>2, <1>3, NextPresent

(* The part of a key and what follows it, with the mark in front.          *)
LEMMA PartText ==
  ASSUME NEW mark \in Char, NEW key \in Char, NEW value \in Text, NEW tail \in Text
  PROVE  Cat(Cat(<<mark>>, Cat(Cat(<<key>>, <<"=">>), value)), tail) =
           Cat(<<mark>>, Cat(<<key>>, Cat(<<"=">>, Cat(value, tail))))
<1> DEFINE a == <<mark>>
           b == <<key>>
           c == <<"=">>
<1>1. a \in Text /\ b \in Text /\ c \in Text
  <2>1. "=" \in Char
    BY DEF Char
  <2> QED
    BY <2>1, SingleType
<1> HIDE DEF a, b, c
<1>2. Cat(Cat(a, Cat(Cat(b, c), value)), tail) = Cat(a, Cat(b, Cat(c, Cat(value, tail))))
  BY <1>1, ConcatFour
<1> QED
  BY <1>2 DEF a, b, c

LEMMA PartTypes ==
  ASSUME NEW key \in Char, NEW value \in Text, NEW tail \in Text
  PROVE  /\ value \o tail \in Text /\ <<"=">> \o (value \o tail) \in Text
         /\ <<key>> \o (<<"=">> \o (value \o tail)) \in Text
<1> DEFINE b == <<key>>
           c == <<"=">>
<1>1. b \in Text /\ c \in Text
  <2>1. "=" \in Char
    BY DEF Char
  <2> QED
    BY <2>1, SingleType
<1> HIDE DEF b, c
<1>2. /\ Cat(value, tail) \in Text /\ Cat(c, Cat(value, tail)) \in Text
      /\ Cat(b, Cat(c, Cat(value, tail))) \in Text
  BY <1>1, CatFacts
<1> QED
  BY <1>2 DEF b, c, Cat

LEMMA TagDelimiter ==
  ASSUME NEW p, IsPoint(p), NEW j \in 0..3
  PROVE  \/ \E k \in (j + 1)..3 :
              /\ TagOrder[k] \in DOMAIN p.tags
              /\ UpTo(p.tags, TagOrder, j) = UpTo(p.tags, TagOrder, k - 1)
              /\ AfterTag(p, j) = <<",">> \o TagText(p, k)
         \/ /\ UpTo(p.tags, TagOrder, j) = UpTo(p.tags, TagOrder, 3)
            /\ AfterTag(p, j) = AfterField(p, 0)
<1> DEFINE parts == TagParts(p)
           tail == AfterField(p, 0)
<1>1. parts \in Seq(Text) /\ Len(parts) = 3 /\ tail \in Text
  <2>1. 0 \in 0..25
    OBVIOUS
  <2> QED
    BY <2>1, TagPartsType, RestTypes
<1>2. \A i \in 1..3 : TagOrder[i] \notin DOMAIN p.tags => parts[i] = <<>>
  BY TagPartsType
<1>3. \A i \in 0..3 : AfterTag(p, i) = FlattenSeq(SubSeq(parts, i + 1, 3)) \o tail
  BY DEF AfterTag
<1>4. \A i \in 1..3 : TagOrder[i] \in DOMAIN p.tags =>
        parts[i] = <<",">> \o ((<<TagOrder[i]>> \o <<"=">>)
                                 \o Escaped(p.tags[TagOrder[i]], TagSpecials))
  BY TagPartsType
<1> HIDE DEF parts, tail
<1>5. CASE \E k \in (j + 1)..3 :
             /\ TagOrder[k] \in DOMAIN p.tags
             /\ UpTo(p.tags, TagOrder, j) = UpTo(p.tags, TagOrder, k - 1)
             /\ AfterTag(p, j) = parts[k] \o AfterTag(p, k)
  <2>1. PICK k \in (j + 1)..3 :
             /\ TagOrder[k] \in DOMAIN p.tags
             /\ UpTo(p.tags, TagOrder, j) = UpTo(p.tags, TagOrder, k - 1)
             /\ AfterTag(p, j) = parts[k] \o AfterTag(p, k)
    BY <1>5
  <2> DEFINE key == TagOrder[k]
             value == Escaped(p.tags[key], TagSpecials)
             after == AfterTag(p, k)
  <2>2. k \in 1..3 /\ k \in 0..3
    OBVIOUS
  <2>3. key \in Char /\ "," \in Char
    BY <2>2, TagKeysArePlain DEF Char
  <2>4. value \in Text
    <3>1. p.tags[key] \in Text
      BY <2>1 DEF IsPoint, IsTag
    <3> QED
      BY <3>1, EscapedType
  <2>5. after \in Text
    BY <2>2, RestTypes
  <2>6. parts[k] = <<",">> \o ((<<key>> \o <<"=">>) \o value)
    BY <1>4, <2>1, <2>2
  <2>7. AfterTag(p, j) = parts[k] \o after
    BY <2>1
  <2>8. TagText(p, k) = <<key>> \o (<<"=">> \o (value \o after))
    BY DEF TagText
  <2> HIDE DEF key, value, after
  <2>9. Cat(Cat(<<",">>, Cat(Cat(<<key>>, <<"=">>), value)), after) =
          Cat(<<",">>, Cat(<<key>>, Cat(<<"=">>, Cat(value, after))))
    <3> DEFINE mark == ","
    <3>1. mark \in Char
      BY <2>3
    <3> HIDE DEF mark
    <3>2. Cat(Cat(<<mark>>, Cat(Cat(<<key>>, <<"=">>), value)), after) =
            Cat(<<mark>>, Cat(<<key>>, Cat(<<"=">>, Cat(value, after))))
      BY <2>3, <2>4, <2>5, <3>1, PartText
    <3> QED
      BY <3>2 DEF mark
  <2>10. AfterTag(p, j) = <<",">> \o TagText(p, k)
    BY <2>6, <2>7, <2>8, <2>9 DEF Cat
  <2> QED
    BY <2>1, <2>10
<1>6. Follows(TagOrder, p.tags, 3, parts, tail, j)
  BY <1>1, <1>2, NextPart
<1>7. \A k \in (j + 1)..3 : k \in 0..3
  OBVIOUS
<1> QED
  BY <1>3, <1>5, <1>6, <1>7 DEF Follows, tail

LEMMA FieldDelimiter ==
  ASSUME NEW p, IsPoint(p), NEW j \in 0..25, j # 0 => FieldOrder[j] \in DOMAIN p.fields
  PROVE  \/ \E k \in (j + 1)..25 :
              /\ FieldOrder[k] \in DOMAIN p.fields
              /\ UpTo(p.fields, FieldOrder, j) = UpTo(p.fields, FieldOrder, k - 1)
              /\ AfterField(p, j) = <<IF j = 0 THEN " " ELSE ",">> \o FieldText(p, k)
         \/ /\ j # 0
            /\ UpTo(p.fields, FieldOrder, j) = UpTo(p.fields, FieldOrder, 25)
            /\ AfterField(p, j) = TimestampPart(p)
<1> DEFINE parts == FieldParts(p)
           tail == TimestampPart(p)
           mark == IF j = 0 THEN " " ELSE ","
<1>1. parts \in Seq(Text) /\ Len(parts) = 25 /\ tail \in Text
  <2>1. 0 \in 0..25
    OBVIOUS
  <2> QED
    BY <2>1, FieldPartsType, RestTypes
<1>2. \A i \in 1..25 : FieldOrder[i] \notin DOMAIN p.fields => parts[i] = <<>>
  BY FieldPartsType
<1>3. \A i \in 0..25 : AfterField(p, i) = FlattenSeq(SubSeq(parts, i + 1, 25)) \o tail
  BY DEF AfterField
<1>4. \A i \in 1..25 : FieldOrder[i] \in DOMAIN p.fields =>
        parts[i] =
          <<IF \A m \in 1..(i - 1) : FieldOrder[m] \notin DOMAIN p.fields THEN " " ELSE ",">>
          \o ((<<FieldOrder[i]>> \o <<"=">>) \o FormatFieldValue(p.fields[FieldOrder[i]]))
  BY FieldPartsType
<1> HIDE DEF parts, tail
<1>5. CASE \E k \in (j + 1)..25 :
             /\ FieldOrder[k] \in DOMAIN p.fields
             /\ \A i \in (j + 1)..(k - 1) : FieldOrder[i] \notin DOMAIN p.fields
             /\ UpTo(p.fields, FieldOrder, j) = UpTo(p.fields, FieldOrder, k - 1)
             /\ AfterField(p, j) = parts[k] \o AfterField(p, k)
  <2>1. PICK k \in (j + 1)..25 :
             /\ FieldOrder[k] \in DOMAIN p.fields
             /\ \A i \in (j + 1)..(k - 1) : FieldOrder[i] \notin DOMAIN p.fields
             /\ UpTo(p.fields, FieldOrder, j) = UpTo(p.fields, FieldOrder, k - 1)
             /\ AfterField(p, j) = parts[k] \o AfterField(p, k)
    BY <1>5
  <2> DEFINE key == FieldOrder[k]
             value == FormatFieldValue(p.fields[key])
             after == AfterField(p, k)
  <2>2. k \in 1..25 /\ k \in 0..25
    OBVIOUS
  <2>3. key \in Char /\ mark \in Char
    BY <2>2, FieldKeysArePlain DEF Char
  <2>4. value \in Text
    BY <2>1, ValueIsWritten DEF IsPoint
  <2>5. after \in Text
    BY <2>2, RestTypes
  <2>6. (IF \A m \in 1..(k - 1) : FieldOrder[m] \notin DOMAIN p.fields THEN " " ELSE ",") = mark
    <3>1. CASE j = 0
      BY <2>1, <3>1
    <3>2. CASE j # 0
      <4>1. j \in 1..(k - 1)
        BY <3>2
      <4> QED
        BY <3>2, <4>1
    <3> QED
      BY <3>1, <3>2
  <2> HIDE DEF mark
  <2>7. parts[k] = <<mark>> \o ((<<key>> \o <<"=">>) \o value)
    BY <1>4, <2>1, <2>2, <2>6
  <2>8. AfterField(p, j) = parts[k] \o after
    BY <2>1
  <2>9. FieldText(p, k) = <<key>> \o (<<"=">> \o (value \o after))
    BY DEF FieldText
  <2> HIDE DEF key, value, after
  <2>10. Cat(Cat(<<mark>>, Cat(Cat(<<key>>, <<"=">>), value)), after) =
           Cat(<<mark>>, Cat(<<key>>, Cat(<<"=">>, Cat(value, after))))
    BY <2>3, <2>4, <2>5, PartText
  <2>11. AfterField(p, j) = <<mark>> \o FieldText(p, k)
    BY <2>7, <2>8, <2>9, <2>10 DEF Cat
  <2> QED
    BY <2>1, <2>11 DEF mark
<1>6. Follows(FieldOrder, p.fields, 25, parts, tail, j)
  BY <1>1, <1>2, NextPart
<1>7. \A k \in (j + 1)..25 : k \in 0..25
  OBVIOUS
<1>8. j = 0 => ~ \A i \in (j + 1)..25 : FieldOrder[i] \notin DOMAIN p.fields
  <2>1. PICK key \in DOMAIN p.fields : TRUE
    BY DEF IsPoint
  <2>2. key \in FieldKeys
    BY <2>1 DEF IsPoint
  <2>3. PICK i \in DOMAIN FieldOrder : FieldOrder[i] = key
    BY <2>2 DEF FieldKeys
  <2>4. i \in 1..25
    BY <2>3, FieldKeysArePlain
  <2>5. FieldOrder[i] \in DOMAIN p.fields
    BY <2>1, <2>3
  <2> QED
    BY <2>4, <2>5
<1> QED
  BY <1>3, <1>5, <1>6, <1>7, <1>8 DEF Follows, tail

LEMMA TagTextType ==
  ASSUME NEW p, IsPoint(p), NEW k \in 1..3, TagOrder[k] \in DOMAIN p.tags
  PROVE  /\ TagOrder[k] \in Char /\ TagText(p, k) \in Text
         /\ <<"=">> \o (Escaped(p.tags[TagOrder[k]], TagSpecials) \o AfterTag(p, k)) \in Text
         /\ Escaped(p.tags[TagOrder[k]], TagSpecials) \o AfterTag(p, k) \in Text
<1>1. TagOrder[k] \in Char
  BY TagKeysArePlain
<1>2. Escaped(p.tags[TagOrder[k]], TagSpecials) \in Text
  <2>1. p.tags[TagOrder[k]] \in Text
    BY DEF IsPoint, IsTag
  <2> QED
    BY <2>1, EscapedType
<1>3. AfterTag(p, k) \in Text
  <2>1. k \in 0..3
    OBVIOUS
  <2> QED
    BY <2>1, RestTypes
<1> QED
  BY <1>1, <1>2, <1>3, PartTypes DEF TagText

LEMMA FieldTextType ==
  ASSUME NEW p, IsPoint(p), NEW k \in 1..25, FieldOrder[k] \in DOMAIN p.fields
  PROVE  /\ FieldOrder[k] \in Char /\ FieldText(p, k) \in Text
         /\ <<"=">> \o (FormatFieldValue(p.fields[FieldOrder[k]]) \o AfterField(p, k)) \in Text
         /\ FormatFieldValue(p.fields[FieldOrder[k]]) \o AfterField(p, k) \in Text
<1>1. FieldOrder[k] \in Char
  BY FieldKeysArePlain
<1>2. FormatFieldValue(p.fields[FieldOrder[k]]) \in Text
  BY ValueIsWritten DEF IsPoint
<1>3. AfterField(p, k) \in Text
  <2>1. k \in 0..25
    OBVIOUS
  <2> QED
    BY <2>1, RestTypes
<1> QED
  BY <1>1, <1>2, <1>3, PartTypes DEF FieldText

(* A line with its end. *)
LEMMA LineText ==
  ASSUME NEW p, IsPoint(p)
  PROVE  /\ WriteLineProtocol(p) \in Text
         /\ WriteLineProtocol(p) \o <<NewLine>> = p.measurement \o AfterTag(p, 0)
         /\ Len(WriteLineProtocol(p)) > 0
<1> DEFINE m == p.measurement
           t == FlattenSeq(TagParts(p))
           f == FlattenSeq(FieldParts(p))
           s == IF p.timestamp = <<>> THEN <<>> ELSE <<" ">> \o p.timestamp
           e == <<NewLine>>
<1>1. EscMeasurement(p.measurement) = m /\ m \in Text /\ Len(m) = 1
  <2>1. PICK c \in {"bme680", "device_status"} : m = <<c>>
    BY DEF IsPoint
  <2>2. c \in Char /\ c \notin TagSpecials
    BY DEF Char, TagSpecials, Backslash
  <2>3. EscMeasurement(<<c>>) = <<c>>
    BY <2>2, PlainIsItself
  <2> QED
    BY <2>1, <2>2, <2>3 DEF Text
<1>2. t \in Text /\ f \in Text
  BY TagPartsType, FieldPartsType, FlattenType DEF Text
<1>3. e \in Text
  BY CharsAreStrings DEF Text
<1>4. s \in Text
  <2>1. " " \in Char
    BY DEF Char
  <2>2. CASE p.timestamp = <<>>
    BY <2>2 DEF Text
  <2>3. CASE \E c \in Char : IsToken(c) /\ p.timestamp = <<c>>
    <3>1. PICK c \in Char : p.timestamp = <<c>>
      BY <2>3
    <3>2. s = <<" ">> \o <<c>>
      BY <3>1
    <3>3. <<" ">> \in Text /\ <<c>> \in Text
      BY <2>1, SingleType
    <3> QED
      BY <3>2, <3>3, TextConcat
  <2> QED
    BY <2>2, <2>3 DEF IsPoint
<1>5. WriteLineProtocol(p) = ((m \o t) \o f) \o s
  BY <1>1 DEF WriteLineProtocol
<1>6. TimestampPart(p) = s \o e
  BY DEF TimestampPart
<1>7. AfterField(p, 0) = f \o (s \o e) /\ AfterTag(p, 0) = t \o (f \o (s \o e))
  <2>1. SubSeq(FieldParts(p), 0 + 1, 25) = FieldParts(p) /\ SubSeq(TagParts(p), 0 + 1, 3) = TagParts(p)
    <3>1. SubSeq(FieldParts(p), 1, Len(FieldParts(p))) = FieldParts(p)
      BY FieldPartsType, SubSeqFull
    <3>2. SubSeq(TagParts(p), 1, Len(TagParts(p))) = TagParts(p)
      BY TagPartsType, SubSeqFull
    <3>3. Len(FieldParts(p)) = 25 /\ Len(TagParts(p)) = 3
      BY FieldPartsType, TagPartsType
    <3>4. 0 + 1 = 1
      OBVIOUS
    <3> QED
      BY <3>1, <3>2, <3>3, <3>4
  <2> QED
    BY <1>6, <2>1 DEF AfterField, AfterTag
<1> HIDE DEF m, t, f, s, e
<1>8. /\ Cat(Cat(Cat(m, t), f), s) \in Text
      /\ Cat(Cat(Cat(Cat(m, t), f), s), e) = Cat(m, Cat(t, Cat(f, Cat(s, e))))
  <2>1. Cat(Cat(m, t), f) \in Text /\ Cat(m, t) \in Text /\ Cat(s, e) \in Text
    BY <1>1, <1>2, <1>3, <1>4, CatFacts
  <2>2. Cat(Cat(Cat(Cat(m, t), f), s), e) = Cat(Cat(Cat(m, t), f), Cat(s, e))
    BY <1>3, <1>4, <2>1, CatFacts
  <2>3. Cat(Cat(Cat(m, t), f), Cat(s, e)) = Cat(Cat(m, t), Cat(f, Cat(s, e)))
    BY <1>2, <2>1, CatFacts
  <2>4. Cat(Cat(m, t), Cat(f, Cat(s, e))) = Cat(m, Cat(t, Cat(f, Cat(s, e))))
    BY <1>1, <1>2, <2>1, CatFacts
  <2>5. Cat(Cat(Cat(m, t), f), s) \in Text
    BY <1>4, <2>1, CatFacts
  <2> QED
    BY <2>2, <2>3, <2>4, <2>5
<1>9. Len(WriteLineProtocol(p)) > 0
  <2>1. m \o t \in Text /\ (m \o t) \o f \in Text
    BY <1>1, <1>2, TextConcat
  <2>2. Len(t) \in Nat /\ Len(f) \in Nat /\ Len(s) \in Nat
    BY <1>2, <1>4, LenProperties DEF Text
  <2>5. Len(m \o t) = 1 + Len(t)
    <3>1. Len(m \o t) = Len(m) + Len(t)
      <4>1. m \in Seq(Char) /\ t \in Seq(Char)
        BY <1>1, <1>2 DEF Text
      <4> QED
        BY <4>1, ConcatProperties, Zenon
    <3> QED
      BY <1>1, <3>1
  <2>3. Len((m \o t) \o f) = Len(m \o t) + Len(f)
    BY <1>2, <2>1, ConcatProperties DEF Text
  <2>4. Len(((m \o t) \o f) \o s) = Len((m \o t) \o f) + Len(s)
    BY <1>4, <2>1, ConcatProperties DEF Text
  <2> QED
    BY <1>5, <2>2, <2>3, <2>4, <2>5
<1> QED
  BY <1>5, <1>7, <1>8, <1>9 DEF Cat, m, e

-----------------------------------------------------------------------------
(* Where the reader can be in the line of a point, with what is left of    *)
(* the line.                                                               *)

AtMeasurement(r, w, p) ==
  /\ r.at = "measurement" /\ ~r.escape /\ r.point = NoPoint
  /\ \/ r.text = <<>> /\ w = p.measurement \o AfterTag(p, 0)
     \/ r.text = p.measurement /\ w = AfterTag(p, 0)

AtTagKey(r, w, p, k) ==
  /\ r.at = "tag_key" /\ ~r.escape /\ r.point = So(p, k - 1, 0)
  /\ TagOrder[k] \in DOMAIN p.tags
  /\ \/ r.text = <<>> /\ w = TagText(p, k)
     \/ /\ r.text = <<TagOrder[k]>>
        /\ w = <<"=">> \o (Escaped(p.tags[TagOrder[k]], TagSpecials) \o AfterTag(p, k))

AtTagValue(r, w, p, k) ==
  /\ r.at = "tag_value" /\ r.key = <<TagOrder[k]>> /\ r.point = So(p, k - 1, 0)
  /\ TagOrder[k] \in DOMAIN p.tags
  /\ Quoted(r, w, p.tags[TagOrder[k]], TagSpecials, AfterTag(p, k))

AtFieldKey(r, w, p, k) ==
  /\ r.at = "field_key" /\ ~r.escape /\ r.point = So(p, 3, k - 1)
  /\ FieldOrder[k] \in DOMAIN p.fields
  /\ \/ r.text = <<>> /\ w = FieldText(p, k)
     \/ /\ r.text = <<FieldOrder[k]>>
        /\ w = <<"=">> \o (FormatFieldValue(p.fields[FieldOrder[k]]) \o AfterField(p, k))

IsBare(v) ==
  /\ FormatFieldValue(v) \in Text /\ Len(FormatFieldValue(v)) > 0
  /\ \A i \in DOMAIN FormatFieldValue(v) : FormatFieldValue(v)[i] \notin Marks
  /\ Unquoted(FormatFieldValue(v)) = v

AtFieldValue(r, w, p, k) ==
  /\ r.at = "field_value" /\ ~r.escape /\ r.key = <<FieldOrder[k]>> /\ r.point = So(p, 3, k - 1)
  /\ FieldOrder[k] \in DOMAIN p.fields
  /\ LET v == p.fields[FieldOrder[k]] IN
     \/ /\ \E text \in Text :
             /\ v = Str(text)
             /\ FormatFieldValue(v) = <<Quote>> \o (Escaped(text, StringSpecials) \o <<Quote>>)
        /\ r.text = <<>> /\ w = FormatFieldValue(v) \o AfterField(p, k)
     \/ /\ IsBare(v)
        /\ \E n \in 0..Len(FormatFieldValue(v)) :
             /\ r.text = SubSeq(FormatFieldValue(v), 1, n)
             /\ w = Rest(FormatFieldValue(v), n) \o AfterField(p, k)

AtString(r, w, p, k) ==
  /\ r.at = "string" /\ r.key = <<FieldOrder[k]>> /\ r.point = So(p, 3, k - 1)
  /\ FieldOrder[k] \in DOMAIN p.fields
  /\ \E text \in Text : /\ p.fields[FieldOrder[k]] = Str(text)
                       /\ Quoted(r, w, text, StringSpecials, <<Quote>> \o AfterField(p, k))

AtStringEnd(r, w, p, k) ==
  /\ r.at = "string_end" /\ ~r.escape /\ r.point = So(p, 3, k) /\ r.text = <<>>
  /\ FieldOrder[k] \in DOMAIN p.fields
  /\ w = AfterField(p, k)

AtTimestamp(r, w, p) ==
  /\ r.at = "timestamp" /\ ~r.escape /\ r.point = So(p, 3, 25) /\ p.timestamp # <<>>
  /\ \/ r.text = <<>> /\ w = p.timestamp \o <<NewLine>>
     \/ r.text = p.timestamp /\ w = <<NewLine>>

InLine(r, w, p) ==
  /\ IsReader(r)
  /\ \/ AtMeasurement(r, w, p)
     \/ \E k \in 1..3 : AtTagKey(r, w, p, k) \/ AtTagValue(r, w, p, k)
     \/ \E k \in 1..25 : \/ AtFieldKey(r, w, p, k) \/ AtFieldValue(r, w, p, k)
                        \/ AtString(r, w, p, k) \/ AtStringEnd(r, w, p, k)
     \/ AtTimestamp(r, w, p)

(* What reading a character leads to: further in the line, or to its end   *)
(* with the point.                                                         *)
Advances(r, w, p) ==
  /\ w \in Text /\ w # <<>>
  /\ \/ InLine(ReadChar(r, Head(w)), Tail(w), p) /\ ReadChar(r, Head(w)).points = r.points
     \/ Tail(w) = <<>> /\ ReadChar(r, Head(w)) = [Beginning EXCEPT !.points = Append(r.points, p)]

LEMMA ReadPlain ==
  ASSUME NEW r, NEW c, IsReader(r), ~r.escape, c # NewLine, c \notin MeaningAt(r.at),
         r.at # "field_value" \/ c # Quote \/ r.text # <<>>
  PROVE  /\ SamePart(ReadChar(r, c), r) /\ ~ReadChar(r, c).escape
         /\ ReadChar(r, c).text = Append(r.text, c)
<1>1. ReadChar(r, c) = [r EXCEPT !.text = Append(r.text, c)]
  BY DEF ReadChar
<1> DEFINE r1 == ReadChar(r, c)
<1> HIDE DEF r1
<1>2. SamePart(r1, r) /\ ~r1.escape /\ r1.text = Append(r.text, c)
  BY <1>1 DEF SamePart, IsReader, r1
<1> QED
  BY <1>2 DEF r1

LEMMA ReadDelimiter ==
  ASSUME NEW r, NEW c, IsReader(r), ~r.escape, c # NewLine, c # Backslash, c \in MeaningAt(r.at),
         r.at # "field_value" \/ c # Quote, r.text # <<>> \/ r.at \in {"string", "string_end"}
  PROVE  /\ IsReader(ReadChar(r, c)) /\ ~ReadChar(r, c).escape
         /\ ReadChar(r, c).at = After(r.at, c) /\ ReadChar(r, c).text = <<>>
         /\ ReadChar(r, c).point = Closed(r) /\ ReadChar(r, c).points = r.points
         /\ c = "=" => ReadChar(r, c).key = r.text
<1> DEFINE r1 == ReadChar(r, c)
<1>1. r1 = Leave(r, c)
  BY DEF ReadChar
<1>2. r1 = [r EXCEPT !.at = After(r.at, c), !.point = Closed(r), !.text = <<>>,
                     !.key = IF c = "=" THEN r.text ELSE r.key]
  BY <1>1 DEF Leave
<1> HIDE DEF r1
<1>3. /\ IsReader(r1) /\ ~r1.escape /\ r1.at = After(r.at, c) /\ r1.text = <<>>
      /\ r1.point = Closed(r) /\ r1.points = r.points /\ (c = "=" => r1.key = r.text)
  BY <1>2 DEF IsReader
<1> QED
  BY <1>3 DEF r1

LEMMA ReadEnd ==
  ASSUME NEW r, ~r.escape, r.at \in {"field_value", "string_end", "timestamp"}
  PROVE  ReadChar(r, NewLine) = [Beginning EXCEPT !.points = Append(r.points, Closed(r))]
<1>1. NewLine \notin MeaningAt(r.at) /\ NewLine # Backslash /\ NewLine # Quote
  BY Meanings, SpecialsDiffer
<1>2. ReadChar(r, NewLine) = EndOfLine(r)
  BY <1>1 DEF ReadChar
<1> QED
  BY <1>2 DEF EndOfLine

LEMMA TextRead ==
  ASSUME NEW c, c \in Char, NEW t \in Text, NEW w, w = <<c>> \o t
  PROVE  w \in Text /\ w # <<>> /\ Head(w) = c /\ Tail(w) = t
<1>1. /\ <<c>> \o t \in Seq(Char) /\ <<c>> \o t # <<>>
      /\ Head(<<c>> \o t) = c /\ Tail(<<c>> \o t) = t
  BY ConsRead DEF Text
<1> DEFINE u == <<c>> \o t
<1> HIDE DEF u
<1>2. u \in Seq(Char) /\ u # <<>> /\ Head(u) = c /\ Tail(u) = t
  BY <1>1 DEF u
<1>3. w = u
  BY DEF u
<1> QED
  BY <1>2, <1>3 DEF Text

LEMMA Delimiters ==
  /\ After("measurement", ",") = "tag_key" /\ After("tag_value", ",") = "tag_key"
  /\ After("measurement", " ") = "field_key" /\ After("tag_value", " ") = "field_key"
  /\ After("tag_key", "=") = "tag_value" /\ After("field_key", "=") = "field_value"
  /\ After("string", Quote) = "string_end"
  /\ After("field_value", ",") = "field_key" /\ After("string_end", ",") = "field_key"
  /\ After("field_value", " ") = "timestamp" /\ After("string_end", " ") = "timestamp"
BY SpecialsDiffer DEF After

(* The measurement or a tag ends. *)
LEMMA AfterTagStep ==
  ASSUME NEW p, IsPoint(p), NEW r, IsReader(r), ~r.escape, NEW j \in 0..3,
         r.at = IF j = 0 THEN "measurement" ELSE "tag_value", r.text # <<>>,
         Closed(r) = So(p, j, 0), NEW w, w = AfterTag(p, j)
  PROVE  Advances(r, w, p)
<1>1. "," \in Char /\ " " \in Char
  BY DEF Char
<1>2. /\ "," \in MeaningAt(r.at) /\ " " \in MeaningAt(r.at)
      /\ "," # NewLine /\ "," # Backslash /\ "," # Quote /\ "," # "="
      /\ " " # NewLine /\ " " # Backslash /\ " " # Quote /\ " " # "="
  BY Meanings, SpecialsDiffer DEF TagSpecials
<1>3. After(r.at, ",") = "tag_key" /\ After(r.at, " ") = "field_key"
  BY Delimiters
<1>4. CASE \E k \in (j + 1)..3 :
              /\ TagOrder[k] \in DOMAIN p.tags
              /\ UpTo(p.tags, TagOrder, j) = UpTo(p.tags, TagOrder, k - 1)
              /\ AfterTag(p, j) = <<",">> \o TagText(p, k)
  <2>1. PICK k \in (j + 1)..3 :
              /\ TagOrder[k] \in DOMAIN p.tags
              /\ UpTo(p.tags, TagOrder, j) = UpTo(p.tags, TagOrder, k - 1)
              /\ AfterTag(p, j) = <<",">> \o TagText(p, k)
    BY <1>4
  <2>2. k \in 1..3 /\ k \in 0..3
    OBVIOUS
  <2>3. TagText(p, k) \in Text
    BY <2>1, <2>2, TagTextType
  <2>4. w \in Text /\ w # <<>> /\ Head(w) = "," /\ Tail(w) = TagText(p, k)
    <3> DEFINE c == ","
               t == TagText(p, k)
    <3>1. c \in Char /\ w = <<c>> \o t
      BY <1>1, <2>1
    <3>2. t \in Text
      BY <2>3
    <3> HIDE DEF c, t
    <3>3. w \in Text /\ w # <<>> /\ Head(w) = c /\ Tail(w) = t
      BY <3>1, <3>2, TextRead
    <3> QED
      BY <3>3 DEF c, t
  <2> DEFINE r1 == ReadChar(r, ",")
  <2>5. /\ IsReader(r1) /\ ~r1.escape /\ r1.at = "tag_key" /\ r1.text = <<>>
        /\ r1.point = So(p, j, 0) /\ r1.points = r.points
    BY <1>2, <1>3, ReadDelimiter
  <2>6. So(p, j, 0) = So(p, k - 1, 0)
    BY <2>1 DEF So
  <2> HIDE DEF r1
  <2>7. AtTagKey(r1, TagText(p, k), p, k)
    BY <2>1, <2>5, <2>6 DEF AtTagKey
  <2> QED
    BY <2>2, <2>4, <2>5, <2>7 DEF Advances, InLine, r1
<1>5. CASE /\ UpTo(p.tags, TagOrder, j) = UpTo(p.tags, TagOrder, 3)
           /\ AfterTag(p, j) = AfterField(p, 0)
  <2>1. PICK k \in (0 + 1)..25 :
              /\ FieldOrder[k] \in DOMAIN p.fields
              /\ UpTo(p.fields, FieldOrder, 0) = UpTo(p.fields, FieldOrder, k - 1)
              /\ AfterField(p, 0) = <<IF 0 = 0 THEN " " ELSE ",">> \o FieldText(p, k)
    <3>1. 0 \in 0..25
      OBVIOUS
    <3> QED
      BY <3>1, FieldDelimiter
  <2>2. k \in 1..25 /\ k \in 0..25
    OBVIOUS
  <2>3. FieldText(p, k) \in Text
    BY <2>1, <2>2, FieldTextType
  <2>4. w \in Text /\ w # <<>> /\ Head(w) = " " /\ Tail(w) = FieldText(p, k)
    <3> DEFINE c == " "
               t == FieldText(p, k)
    <3>1. c \in Char /\ w = <<c>> \o t
      BY <1>1, <1>5, <2>1
    <3>2. t \in Text
      BY <2>3
    <3> HIDE DEF c, t
    <3>3. w \in Text /\ w # <<>> /\ Head(w) = c /\ Tail(w) = t
      BY <3>1, <3>2, TextRead
    <3> QED
      BY <3>3 DEF c, t
  <2> DEFINE r1 == ReadChar(r, " ")
  <2>5. /\ IsReader(r1) /\ ~r1.escape /\ r1.at = "field_key" /\ r1.text = <<>>
        /\ r1.point = So(p, j, 0) /\ r1.points = r.points
    BY <1>2, <1>3, ReadDelimiter
  <2>6. So(p, j, 0) = So(p, 3, k - 1)
    BY <1>5, <2>1 DEF So
  <2> HIDE DEF r1
  <2>7. AtFieldKey(r1, FieldText(p, k), p, k)
    BY <2>1, <2>5, <2>6 DEF AtFieldKey
  <2> QED
    BY <2>2, <2>4, <2>5, <2>7 DEF Advances, InLine, r1
<1> QED
  BY <1>4, <1>5, TagDelimiter

LEMMA AdvancesTo ==
  ASSUME NEW r, NEW p, NEW c, c \in Char, NEW t \in Text, NEW w, w = <<c>> \o t,
         InLine(ReadChar(r, c), t, p), ReadChar(r, c).points = r.points
  PROVE  Advances(r, w, p)
<1>1. w \in Text /\ w # <<>> /\ Head(w) = c /\ Tail(w) = t
  BY TextRead
<1> QED
  BY <1>1 DEF Advances

LEMMA AdvancesToEnd ==
  ASSUME NEW r, NEW p, NEW w, w = <<NewLine>>, ~r.escape,
         r.at \in {"field_value", "string_end", "timestamp"}, Closed(r) = p
  PROVE  Advances(r, w, p)
<1> DEFINE c == NewLine
<1>1. c \in Char
  BY CharsAreStrings
<1>2. ReadChar(r, c) = [Beginning EXCEPT !.points = Append(r.points, p)]
  BY ReadEnd
<1> HIDE DEF c
<1>3. <<c>> \in Text /\ <<c>> # <<>> /\ Head(<<c>>) = c /\ Tail(<<c>>) = <<>>
  BY <1>1 DEF Text
<1>4. w = <<c>>
  BY DEF c
<1>5. w \in Text /\ w # <<>> /\ Head(w) = c /\ Tail(w) = <<>>
  BY <1>3, <1>4
<1> QED
  BY <1>2, <1>5 DEF Advances

(* A field ends. *)
LEMMA AfterFieldStep ==
  ASSUME NEW p, IsPoint(p), NEW r, IsReader(r), ~r.escape, NEW j \in 1..25,
         r.at \in {"field_value", "string_end"}, r.at = "field_value" => r.text # <<>>,
         FieldOrder[j] \in DOMAIN p.fields,
         Closed(r) = So(p, 3, j), NEW w, w = AfterField(p, j)
  PROVE  Advances(r, w, p)
<1>1. "," \in Char /\ " " \in Char
  BY DEF Char
<1>2. /\ "," \in MeaningAt(r.at) /\ " " \in MeaningAt(r.at)
      /\ "," # NewLine /\ "," # Backslash /\ "," # Quote /\ "," # "="
      /\ " " # NewLine /\ " " # Backslash /\ " " # Quote /\ " " # "="
  BY Meanings, SpecialsDiffer
<1>3. After(r.at, ",") = "field_key" /\ After(r.at, " ") = "timestamp"
  BY Delimiters
<1>4. CASE \E k \in (j + 1)..25 :
              /\ FieldOrder[k] \in DOMAIN p.fields
              /\ UpTo(p.fields, FieldOrder, j) = UpTo(p.fields, FieldOrder, k - 1)
              /\ AfterField(p, j) = <<IF j = 0 THEN " " ELSE ",">> \o FieldText(p, k)
  <2>1. PICK k \in (j + 1)..25 :
              /\ FieldOrder[k] \in DOMAIN p.fields
              /\ UpTo(p.fields, FieldOrder, j) = UpTo(p.fields, FieldOrder, k - 1)
              /\ AfterField(p, j) = <<IF j = 0 THEN " " ELSE ",">> \o FieldText(p, k)
    BY <1>4
  <2>2. k \in 1..25
    OBVIOUS
  <2>3. FieldText(p, k) \in Text
    BY <2>1, <2>2, FieldTextType
  <2> DEFINE r1 == ReadChar(r, ",")
  <2>4. /\ IsReader(r1) /\ ~r1.escape /\ r1.at = "field_key" /\ r1.text = <<>>
        /\ r1.point = So(p, 3, j) /\ r1.points = r.points
    BY <1>2, <1>3, ReadDelimiter
  <2>5. So(p, 3, j) = So(p, 3, k - 1)
    BY <2>1 DEF So
  <2> HIDE DEF r1
  <2>6. AtFieldKey(r1, FieldText(p, k), p, k)
    BY <2>1, <2>4, <2>5 DEF AtFieldKey
  <2>7. InLine(r1, FieldText(p, k), p)
    BY <2>2, <2>4, <2>6 DEF InLine
  <2>8. w = <<",">> \o FieldText(p, k)
    <3>1. (IF j = 0 THEN " " ELSE ",") = ","
      OBVIOUS
    <3> QED
      BY <2>1, <3>1
  <2> QED
    BY <1>1, <2>3, <2>4, <2>7, <2>8, AdvancesTo DEF r1
<1>5. CASE /\ UpTo(p.fields, FieldOrder, j) = UpTo(p.fields, FieldOrder, 25)
           /\ AfterField(p, j) = TimestampPart(p)
  <2>1. Closed(r) = So(p, 3, 25)
    BY <1>5 DEF So
  <2>2. CASE p.timestamp = <<>>
    <3>1. w = <<NewLine>>
      <4>1. <<>> \o <<NewLine>> = <<NewLine>>
        BY ConcatEmptySeq, CharsAreStrings
      <4> QED
        BY <1>5, <2>2, <4>1 DEF TimestampPart
    <3>2. Closed(r) = p
      <4>1. [So(p, 3, 25) EXCEPT !.timestamp = p.timestamp] = p
        BY SoAll
      <4>2. [So(p, 3, 25) EXCEPT !.timestamp = <<>>] = So(p, 3, 25)
        BY DEF So
      <4> QED
        BY <2>1, <2>2, <4>1, <4>2
    <3> QED
      BY <3>1, <3>2, AdvancesToEnd
  <2>3. CASE \E d \in Char : IsToken(d) /\ p.timestamp = <<d>>
    <3>1. PICK d \in Char : p.timestamp = <<d>>
      BY <2>3
    <3> DEFINE r1 == ReadChar(r, " ")
               t == p.timestamp \o <<NewLine>>
    <3>2. p.timestamp \in Text /\ p.timestamp # <<>> /\ <<NewLine>> \in Text
      BY <3>1, SingleType, CharsAreStrings
    <3>3. t \in Text
      BY <3>2, TextConcat
    <3>4. /\ IsReader(r1) /\ ~r1.escape /\ r1.at = "timestamp" /\ r1.text = <<>>
          /\ r1.point = So(p, 3, 25) /\ r1.points = r.points
      BY <1>2, <1>3, <2>1, ReadDelimiter
    <3> HIDE DEF r1
    <3>5. AtTimestamp(r1, t, p)
      BY <3>2, <3>4 DEF AtTimestamp
    <3>6. InLine(r1, t, p)
      BY <3>4, <3>5 DEF InLine
    <3>7. w = <<" ">> \o t
      <4> DEFINE a == <<" ">>
                 e == <<NewLine>>
      <4>1. a \in Text /\ e \in Text
        BY <1>1, <3>2, SingleType
      <4>2. w = (a \o p.timestamp) \o e
        BY <1>5, <3>2 DEF TimestampPart
      <4> HIDE DEF a, e
      <4>3. w = a \o (p.timestamp \o e)
        BY <3>2, <4>1, <4>2, TextAssociative
      <4> QED
        BY <4>3 DEF a, e
    <3> HIDE DEF t
    <3> QED
      BY <1>1, <3>3, <3>4, <3>6, <3>7, AdvancesTo DEF r1
  <2> QED
    BY <2>2, <2>3 DEF IsPoint
<1>6. j \in 0..25 /\ j # 0
  OBVIOUS
<1> QED
  BY <1>4, <1>5, <1>6, FieldDelimiter

-----------------------------------------------------------------------------
(* Each place in a line leads to the next, or to the end of the line.      *)

LEMMA MeasurementStep ==
  ASSUME NEW p, IsPoint(p), NEW r, IsReader(r), NEW w, AtMeasurement(r, w, p)
  PROVE  Advances(r, w, p)
<1>1. PICK c \in {"bme680", "device_status"} : p.measurement = <<c>>
  BY DEF IsPoint
<1>2. /\ c \in Char /\ c \notin MeaningAt("measurement") /\ c # NewLine
  <2>1. c # NewLine /\ c # Backslash
    BY DEF NewLine, Backslash
  <2> QED
    BY <2>1, Meanings DEF Char
<1>3. r.at = "measurement" /\ ~r.escape /\ r.point = NoPoint
  BY DEF AtMeasurement
<1>4. CASE r.text = <<>> /\ w = p.measurement \o AfterTag(p, 0)
  <2> DEFINE r1 == ReadChar(r, c)
             t == AfterTag(p, 0)
  <2>1. SamePart(r1, r) /\ ~r1.escape /\ r1.text = Append(r.text, c)
    BY <1>2, <1>3, ReadPlain
  <2>2. r1.text = p.measurement
    BY <1>1, <1>4, <2>1
  <2>3. t \in Text
    BY RestTypes
  <2> HIDE DEF r1
  <2>4. AtMeasurement(r1, t, p)
    BY <1>3, <2>1, <2>2 DEF AtMeasurement, SamePart
  <2>5. InLine(r1, t, p) /\ r1.points = r.points
    BY <2>1, <2>4 DEF InLine, SamePart
  <2>6. w = <<c>> \o t
    BY <1>1, <1>4
  <2> HIDE DEF t
  <2> QED
    BY <1>2, <2>3, <2>5, <2>6, AdvancesTo DEF r1
<1>5. CASE r.text = p.measurement /\ w = AfterTag(p, 0)
  <2>1. Closed(r) = So(p, 0, 0)
    <3>1. Closed(r) = [NoPoint EXCEPT !.measurement = p.measurement]
      BY <1>3, <1>5 DEF Closed
    <3>2. UpTo(p.tags, TagOrder, 0) = None /\ UpTo(p.fields, FieldOrder, 0) = None
      BY UpToNone
    <3> QED
      BY <3>1, <3>2 DEF NoPoint, So
  <2>2. r.text # <<>>
    BY <1>1, <1>5
  <2>3. 0 \in 0..3 /\ r.at = IF 0 = 0 THEN "measurement" ELSE "tag_value"
    BY <1>3
  <2> QED
    BY <1>3, <1>5, <2>1, <2>2, <2>3, AfterTagStep
<1> QED
  BY <1>4, <1>5 DEF AtMeasurement

(* A text with all of it to come. *)
LEMMA QuotedStart ==
  ASSUME NEW r, ~r.escape, r.text = <<>>, NEW text \in Text, NEW set, NEW rest, NEW w,
         w = Escaped(text, set) \o rest
  PROVE  Quoted(r, w, text, set, rest)
<1>1. 0 \in 0..Len(text) /\ Rest(text, 0) = text
  BY RestOfAll DEF Text
<1>2. SubSeq(text, 1, 0) = <<>>
  BY SubSeqEmpty
<1> QED
  BY <1>1, <1>2 DEF Quoted

LEMMA TagKeyStep ==
  ASSUME NEW p, IsPoint(p), NEW r, IsReader(r), NEW w, NEW k \in 1..3, AtTagKey(r, w, p, k)
  PROVE  Advances(r, w, p)
<1> DEFINE key == TagOrder[k]
           text == p.tags[key]
           t == Escaped(text, TagSpecials) \o AfterTag(p, k)
<1>1. key \in DOMAIN p.tags /\ r.at = "tag_key" /\ ~r.escape /\ r.point = So(p, k - 1, 0)
  BY DEF AtTagKey
<1>2. key \in Char /\ key \notin Marks
  BY TagKeysArePlain
<1>3. <<"=">> \o t \in Text /\ t \in Text
  BY <1>1, TagTextType
<1>4. CASE r.text = <<>> /\ w = TagText(p, k)
  <2> DEFINE r1 == ReadChar(r, key)
             u == <<"=">> \o t
  <2>1. key # NewLine /\ key \notin MeaningAt(r.at)
    BY <1>1, <1>2, Meanings DEF Marks, TagSpecials
  <2>2. SamePart(r1, r) /\ ~r1.escape /\ r1.text = Append(r.text, key)
    BY <1>1, <2>1, ReadPlain
  <2>3. r1.text = <<key>>
    BY <1>4, <2>2
  <2> HIDE DEF r1
  <2>4. AtTagKey(r1, u, p, k)
    BY <1>1, <2>2, <2>3 DEF AtTagKey, SamePart
  <2>5. InLine(r1, u, p) /\ r1.points = r.points
    BY <2>2, <2>4 DEF InLine, SamePart
  <2>6. w = <<key>> \o u
    BY <1>4 DEF TagText
  <2>7. u \in Text
    BY <1>3
  <2> HIDE DEF key, u
  <2> QED
    BY <1>2, <2>5, <2>6, <2>7, AdvancesTo DEF r1
<1>5. CASE r.text = <<key>> /\ w = <<"=">> \o t
  <2> DEFINE r1 == ReadChar(r, "=")
  <2>1. /\ "=" \in Char /\ "=" \in MeaningAt(r.at) /\ "=" # NewLine /\ "=" # Backslash
        /\ After(r.at, "=") = "tag_value"
    BY <1>1, Meanings, SpecialsDiffer, Delimiters DEF Char, TagSpecials
  <2>2. r.text # <<>>
    BY <1>5
  <2>3. /\ IsReader(r1) /\ ~r1.escape /\ r1.at = "tag_value" /\ r1.text = <<>>
        /\ r1.point = Closed(r) /\ r1.points = r.points /\ r1.key = r.text
    BY <1>1, <2>1, <2>2, ReadDelimiter
  <2>4. Closed(r) = r.point
    BY <1>1 DEF Closed
  <2> HIDE DEF r1
  <2>5. Quoted(r1, t, text, TagSpecials, AfterTag(p, k))
    <3>1. text \in Text
      BY <1>1 DEF IsPoint, IsTag
    <3> QED
      BY <2>3, <3>1, QuotedStart
  <2>6. AtTagValue(r1, t, p, k)
    BY <1>1, <1>5, <2>3, <2>4, <2>5 DEF AtTagValue
  <2>7. InLine(r1, t, p)
    BY <2>3, <2>6 DEF InLine
  <2> HIDE DEF t
  <2> QED
    BY <1>3, <1>5, <2>1, <2>3, <2>7, AdvancesTo DEF r1
<1> QED
  BY <1>4, <1>5 DEF AtTagKey

LEMMA TagValueStep ==
  ASSUME NEW p, IsPoint(p), NEW r, IsReader(r), NEW w, NEW k \in 1..3, AtTagValue(r, w, p, k)
  PROVE  Advances(r, w, p)
<1> DEFINE key == TagOrder[k]
           text == p.tags[key]
           rest == AfterTag(p, k)
           r1 == ReadChar(r, Head(w))
<1>1. key \in DOMAIN p.tags /\ r.at = "tag_value" /\ r.key = <<key>> /\ r.point = So(p, k - 1, 0)
      /\ Quoted(r, w, text, TagSpecials, rest)
  BY DEF AtTagValue
<1>2. text \in Text /\ text # <<>> /\ \A i \in DOMAIN text : text[i] # NewLine
  BY <1>1 DEF IsPoint, IsTag
<1>3. rest \in Text
  BY RestTypes
<1>4. \/ ~r.escape /\ r.text = text /\ w = rest
      \/ w \in Text /\ w # <<>> /\ SamePart(r1, r) /\ Quoted(r1, Tail(w), text, TagSpecials, rest)
  <2> HIDE DEF text, rest
  <2> QED
    BY <1>1, <1>2, <1>3, Meanings, QuotedStep
<1>5. CASE ~r.escape /\ r.text = text /\ w = rest
  <2>1. Only(key, text) ++ UpTo(p.tags, TagOrder, k - 1) = UpTo(p.tags, TagOrder, k)
    BY <1>1, UpToNext
  <2>2. Closed(r) = [r.point EXCEPT !.tags = Only(key, text) ++ r.point.tags]
    BY <1>1, <1>5 DEF Closed
  <2>3. Closed(r) = So(p, k, 0)
    BY <1>1, <2>1, <2>2 DEF So
  <2>4. k \in 0..3 /\ k # 0
    OBVIOUS
  <2>5. r.at = IF k = 0 THEN "measurement" ELSE "tag_value"
    BY <1>1, <2>4
  <2>6. r.text # <<>>
    BY <1>2, <1>5
  <2> QED
    BY <1>5, <2>3, <2>4, <2>5, <2>6, AfterTagStep
<1>6. CASE w \in Text /\ w # <<>> /\ SamePart(r1, r) /\ Quoted(r1, Tail(w), text, TagSpecials, rest)
  <2> HIDE DEF r1
  <2>1. AtTagValue(r1, Tail(w), p, k)
    BY <1>1, <1>6 DEF AtTagValue, SamePart
  <2>2. InLine(r1, Tail(w), p) /\ r1.points = r.points
    BY <1>6, <2>1 DEF InLine, SamePart
  <2> QED
    BY <1>6, <2>2 DEF Advances, r1
<1> QED
  BY <1>4, <1>5, <1>6

LEMMA TimestampStep ==
  ASSUME NEW p, IsPoint(p), NEW r, IsReader(r), NEW w, AtTimestamp(r, w, p)
  PROVE  Advances(r, w, p)
<1>1. r.at = "timestamp" /\ ~r.escape /\ r.point = So(p, 3, 25) /\ p.timestamp # <<>>
  BY DEF AtTimestamp
<1>2. PICK c \in Char : IsToken(c) /\ p.timestamp = <<c>>
  BY <1>1 DEF IsPoint
<1>3. CASE r.text = <<>> /\ w = p.timestamp \o <<NewLine>>
  <2> DEFINE r1 == ReadChar(r, c)
             t == <<NewLine>>
  <2>1. c # NewLine /\ c \notin MeaningAt(r.at)
    BY <1>1, <1>2, Meanings DEF IsToken, Marks
  <2>2. SamePart(r1, r) /\ ~r1.escape /\ r1.text = Append(r.text, c)
    BY <1>1, <2>1, ReadPlain
  <2>3. r1.text = p.timestamp
    BY <1>2, <1>3, <2>2
  <2> HIDE DEF r1
  <2>4. AtTimestamp(r1, t, p)
    BY <1>1, <2>2, <2>3 DEF AtTimestamp, SamePart
  <2>5. InLine(r1, t, p) /\ r1.points = r.points
    BY <2>2, <2>4 DEF InLine, SamePart
  <2>6. w = <<c>> \o t /\ t \in Text
    BY <1>2, <1>3, CharsAreStrings, SingleType
  <2> HIDE DEF t
  <2> QED
    BY <2>5, <2>6, AdvancesTo DEF r1
<1>4. CASE r.text = p.timestamp /\ w = <<NewLine>>
  <2>1. Closed(r) = [So(p, 3, 25) EXCEPT !.timestamp = p.timestamp]
    BY <1>1, <1>4 DEF Closed
  <2>2. Closed(r) = p
    BY <2>1, SoAll
  <2> QED
    BY <1>1, <1>4, <2>2, AdvancesToEnd
<1> QED
  BY <1>3, <1>4 DEF AtTimestamp

LEMMA FieldKeyStep ==
  ASSUME NEW p, IsPoint(p), NEW r, IsReader(r), NEW w, NEW k \in 1..25, AtFieldKey(r, w, p, k)
  PROVE  Advances(r, w, p)
<1> DEFINE key == FieldOrder[k]
           v == p.fields[key]
           t == FormatFieldValue(v) \o AfterField(p, k)
<1>1. key \in DOMAIN p.fields /\ r.at = "field_key" /\ ~r.escape /\ r.point = So(p, 3, k - 1)
  BY DEF AtFieldKey
<1>2. key \in Char /\ key \notin Marks
  BY FieldKeysArePlain
<1>3. <<"=">> \o t \in Text /\ t \in Text
  BY <1>1, FieldTextType
<1>4. CASE r.text = <<>> /\ w = FieldText(p, k)
  <2> DEFINE r1 == ReadChar(r, key)
             u == <<"=">> \o t
  <2>1. key # NewLine /\ key \notin MeaningAt(r.at)
    BY <1>1, <1>2, Meanings DEF Marks, TagSpecials
  <2>2. SamePart(r1, r) /\ ~r1.escape /\ r1.text = Append(r.text, key)
    BY <1>1, <2>1, ReadPlain
  <2>3. r1.text = <<key>>
    BY <1>4, <2>2
  <2> HIDE DEF r1
  <2>4. AtFieldKey(r1, u, p, k)
    BY <1>1, <2>2, <2>3 DEF AtFieldKey, SamePart
  <2>5. InLine(r1, u, p) /\ r1.points = r.points
    BY <2>2, <2>4 DEF InLine, SamePart
  <2>6. w = <<key>> \o u
    BY <1>4 DEF FieldText
  <2>7. u \in Text
    BY <1>3
  <2> HIDE DEF key, u
  <2> QED
    BY <1>2, <2>5, <2>6, <2>7, AdvancesTo DEF r1
<1>5. CASE r.text = <<key>> /\ w = <<"=">> \o t
  <2> DEFINE r1 == ReadChar(r, "=")
  <2>1. /\ "=" \in Char /\ "=" \in MeaningAt(r.at) /\ "=" # NewLine /\ "=" # Backslash
        /\ After(r.at, "=") = "field_value"
    BY <1>1, Meanings, SpecialsDiffer, Delimiters DEF Char, TagSpecials
  <2>2. r.text # <<>>
    BY <1>5
  <2>3. /\ IsReader(r1) /\ ~r1.escape /\ r1.at = "field_value" /\ r1.text = <<>>
        /\ r1.point = Closed(r) /\ r1.points = r.points /\ r1.key = r.text
    BY <1>1, <2>1, <2>2, ReadDelimiter
  <2>4. Closed(r) = r.point
    BY <1>1 DEF Closed
  <2> HIDE DEF r1
  <2>5. \/ /\ \E text \in Text :
               /\ v = Str(text)
               /\ FormatFieldValue(v) = <<Quote>> \o (Escaped(text, StringSpecials) \o <<Quote>>)
           /\ r1.text = <<>> /\ t = FormatFieldValue(v) \o AfterField(p, k)
        \/ /\ IsBare(v)
           /\ \E n \in 0..Len(FormatFieldValue(v)) :
                /\ r1.text = SubSeq(FormatFieldValue(v), 1, n)
                /\ t = Rest(FormatFieldValue(v), n) \o AfterField(p, k)
    <3> DEFINE f == FormatFieldValue(v)
    <3>1. IsValue(v)
      BY <1>1 DEF IsPoint
    <3>2. f \in Text
      BY <3>1, ValueIsWritten
    <3>3. CASE \E text \in Text :
               /\ v = Str(text)
               /\ f = <<Quote>> \o (Escaped(text, StringSpecials) \o <<Quote>>)
      BY <2>3, <3>3
    <3>4. CASE IsBare(v)
      <4> HIDE DEF f
      <4>1. 0 \in 0..Len(f) /\ Rest(f, 0) = f
        BY <3>2, RestOfAll DEF Text
      <4>2. SubSeq(f, 1, 0) = <<>>
        BY SubSeqEmpty
      <4>3. t = Rest(f, 0) \o AfterField(p, k)
        BY <4>1 DEF f
      <4>4. r1.text = SubSeq(f, 1, 0)
        BY <2>3, <4>2
      <4> HIDE DEF t
      <4>5. \E n \in 0..Len(f) : r1.text = SubSeq(f, 1, n) /\ t = Rest(f, n) \o AfterField(p, k)
        BY <4>1, <4>3, <4>4
      <4> QED
        BY <3>4, <4>5 DEF f
    <3> QED
      BY <3>1, <3>2, <3>3, <3>4, ValueIsWritten DEF IsBare
  <2>6. AtFieldValue(r1, t, p, k)
    <3>1. r1.at = "field_value" /\ ~r1.escape /\ r1.key = <<key>> /\ r1.point = So(p, 3, k - 1)
      BY <1>1, <1>5, <2>3, <2>4
    <3> HIDE DEF t
    <3> QED
      BY <1>1, <2>5, <3>1 DEF AtFieldValue
  <2>7. InLine(r1, t, p)
    BY <2>3, <2>6 DEF InLine
  <2> HIDE DEF t
  <2> QED
    BY <1>3, <1>5, <2>1, <2>3, <2>7, AdvancesTo DEF r1
<1> QED
  BY <1>4, <1>5 DEF AtFieldKey

LEMMA FieldValueStep ==
  ASSUME NEW p, IsPoint(p), NEW r, IsReader(r), NEW w, NEW k \in 1..25, AtFieldValue(r, w, p, k)
  PROVE  Advances(r, w, p)
<1> DEFINE key == FieldOrder[k]
           v == p.fields[key]
           f == FormatFieldValue(v)
           rest == AfterField(p, k)
<1>1. /\ key \in DOMAIN p.fields /\ r.at = "field_value" /\ ~r.escape /\ r.key = <<key>>
      /\ r.point = So(p, 3, k - 1)
  BY DEF AtFieldValue
<1>2. rest \in Text
  BY RestTypes
<1>3. CASE /\ \E text \in Text : v = Str(text)
                 /\ f = <<Quote>> \o (Escaped(text, StringSpecials) \o <<Quote>>)
           /\ r.text = <<>> /\ w = f \o rest
  <2>1. PICK text \in Text : v = Str(text)
                 /\ f = <<Quote>> \o (Escaped(text, StringSpecials) \o <<Quote>>)
    BY <1>3
  <2> DEFINE q == <<Quote>>
             e == Escaped(text, StringSpecials)
             t == e \o (q \o rest)
             r1 == ReadChar(r, Quote)
  <2>2. q \in Text /\ e \in Text
    BY EscapedType, CharsAreStrings, SingleType
  <2>3. w = (q \o (e \o q)) \o rest
    BY <1>3, <2>1
  <2>4. w = q \o t /\ t \in Text
    <3> HIDE DEF q, e, rest
    <3>1. Cat(Cat(q, Cat(e, q)), rest) = Cat(q, Cat(Cat(e, q), rest))
      BY <1>2, <2>2, CatFacts
    <3>2. Cat(Cat(e, q), rest) = Cat(e, Cat(q, rest)) /\ Cat(e, Cat(q, rest)) \in Text
      BY <1>2, <2>2, CatFacts
    <3> QED
      BY <2>3, <3>1, <3>2 DEF Cat
  <2>5. r1 = [r EXCEPT !.at = "string"]
    BY <1>1, <1>3, Meanings, SpecialsDiffer DEF ReadChar
  <2> HIDE DEF r1
  <2>6. /\ IsReader(r1) /\ ~r1.escape /\ r1.at = "string" /\ r1.text = <<>>
        /\ r1.point = r.point /\ r1.points = r.points /\ r1.key = r.key
    BY <1>1, <1>3, <2>5 DEF IsReader
  <2>7. Quoted(r1, t, text, StringSpecials, q \o rest)
    BY <2>6, QuotedStart
  <2>8. AtString(r1, t, p, k)
    <3> HIDE DEF t
    <3> QED
      BY <1>1, <2>1, <2>6, <2>7 DEF AtString
  <2>9. InLine(r1, t, p)
    BY <2>6, <2>8 DEF InLine
  <2> HIDE DEF t
  <2> QED
    BY <2>4, <2>6, <2>9, AdvancesTo, CharsAreStrings DEF r1, q
<1>4. CASE /\ IsBare(v)
           /\ \E n \in 0..Len(f) : r.text = SubSeq(f, 1, n) /\ w = Rest(f, n) \o rest
  <2>1. PICK n \in 0..Len(f) : r.text = SubSeq(f, 1, n) /\ w = Rest(f, n) \o rest
    BY <1>4
  <2>2. /\ f \in Text /\ Len(f) \in Nat /\ Len(f) > 0 /\ DOMAIN f = 1..Len(f)
        /\ (\A i \in DOMAIN f : f[i] \notin Marks) /\ Unquoted(f) = v
    BY <1>4 DEF IsBare, Text
  <2>3. n \in Nat
    BY <2>2
  <2>4. CASE n < Len(f)
    <3> DEFINE c == f[n + 1]
               t == Rest(f, n + 1) \o rest
               r1 == ReadChar(r, c)
    <3>1. n + 1 \in 1..Len(f) /\ n + 1 \in 0..Len(f)
      BY <2>2, <2>3, <2>4
    <3>2. c \in Char /\ c \notin Marks
      BY <2>2, <3>1, ElementOfSeq DEF Text
    <3>3. Rest(f, n + 1) \in Text
      BY <2>2, <2>3 DEF Rest, Text
    <3>4. t \in Text
      BY <1>2, <3>3, TextConcat
    <3>5. w = <<c>> \o t
      <4>1. Rest(f, n) = <<c>> \o Rest(f, n + 1)
        <5>1. SubSeq(f, n + 1, Len(f)) = <<f[n + 1]>> \o SubSeq(f, (n + 1) + 1, Len(f))
          <6>1. f \in Seq(Char) /\ n + 1 \in 1..Len(f)
            BY <2>2, <3>1 DEF Text
          <6> HIDE DEF f
          <6> QED
            BY <6>1, SubSeqRecursiveFirst
        <5> QED
          BY <5>1 DEF Rest
      <4>2. <<c>> \in Text
        BY <3>2, SingleType
      <4>3. (<<c>> \o Rest(f, n + 1)) \o rest = <<c>> \o (Rest(f, n + 1) \o rest)
        BY <1>2, <3>3, <4>2, TextAssociative
      <4> QED
        BY <2>1, <4>1, <4>3
    <3>6. c # NewLine /\ c \notin MeaningAt(r.at) /\ c # Quote
      BY <1>1, <3>2, Meanings DEF Marks
    <3>7. SamePart(r1, r) /\ ~r1.escape /\ r1.text = Append(r.text, c)
      BY <1>1, <3>6, ReadPlain
    <3>8. Append(SubSeq(f, 1, n), c) = SubSeq(f, 1, n + 1)
      <4>1. 1 \in 1..Len(f) /\ (n + 1) - 1 = n
        BY <2>2, <2>3
      <4>2. SubSeq(f, 1, n + 1) = SubSeq(f, 1, (n + 1) - 1) \o <<f[n + 1]>>
        BY <2>2, <3>1, <4>1, SubSeqRecursiveSecond DEF Text
      <4>3. SubSeq(f, 1, n) \in Seq(Char)
        BY <2>2, <2>3 DEF Text
      <4> QED
        BY <3>2, <4>1, <4>2, <4>3, AppendIsConcat
    <3>9. r1.text = SubSeq(f, 1, n + 1)
      BY <2>1, <3>7, <3>8
    <3> HIDE DEF r1
    <3>10. \E m \in 0..Len(f) : r1.text = SubSeq(f, 1, m) /\ t = Rest(f, m) \o rest
      <4> HIDE DEF f
      <4> QED
        BY <3>1, <3>9
    <3>11. AtFieldValue(r1, t, p, k)
      <4>1. r1.at = "field_value" /\ ~r1.escape /\ r1.key = <<key>> /\ r1.point = So(p, 3, k - 1)
        BY <1>1, <3>7 DEF SamePart
      <4> HIDE DEF t
      <4> QED
        BY <1>1, <1>4, <3>10, <4>1 DEF AtFieldValue
    <3>12. InLine(r1, t, p) /\ r1.points = r.points
      BY <3>7, <3>11 DEF InLine, SamePart
    <3> HIDE DEF c, t
    <3> QED
      BY <3>2, <3>4, <3>5, <3>12, AdvancesTo DEF r1
  <2>5. CASE n = Len(f)
    <3>1. r.text = f
      BY <2>1, <2>2, <2>5, SubSeqFull DEF Text
    <3>2. w = rest
      <4>1. Rest(f, n) = <<>>
        BY <2>2, <2>5, RestOfAll
      <4> QED
        BY <1>2, <2>1, <4>1, ConcatEmptySeq DEF Text
    <3>3. Closed(r) = [r.point EXCEPT !.fields = Only(key, v) ++ r.point.fields]
      <4>1. Unquoted(r.text) = v
        BY <2>2, <3>1
      <4>2. r.key[1] = key
        BY <1>1
      <4> QED
        BY <1>1, <4>1, <4>2 DEF Closed
    <3>4. Only(key, v) ++ UpTo(p.fields, FieldOrder, k - 1) = UpTo(p.fields, FieldOrder, k)
      BY <1>1, UpToNext
    <3>5. Closed(r) = So(p, 3, k)
      BY <1>1, <3>3, <3>4 DEF So
    <3>6. r.text # <<>>
      BY <2>2, <3>1
    <3> QED
      BY <1>1, <3>2, <3>5, <3>6, AfterFieldStep
  <2> QED
    BY <2>2, <2>3, <2>4, <2>5
<1> QED
  BY <1>3, <1>4 DEF AtFieldValue

LEMMA StringStep ==
  ASSUME NEW p, IsPoint(p), NEW r, IsReader(r), NEW w, NEW k \in 1..25, AtString(r, w, p, k)
  PROVE  Advances(r, w, p)
<1> DEFINE key == FieldOrder[k]
           after == AfterField(p, k)
           rest == <<Quote>> \o after
           r1 == ReadChar(r, Head(w))
<1>1. key \in DOMAIN p.fields /\ r.at = "string" /\ r.key = <<key>> /\ r.point = So(p, 3, k - 1)
  BY DEF AtString
<1>2. PICK text \in Text : p.fields[key] = Str(text) /\ Quoted(r, w, text, StringSpecials, rest)
  BY DEF AtString
<1>3. after \in Text
  BY RestTypes
<1>4. rest \in Text
  BY <1>3, SingleType, TextConcat, CharsAreStrings
<1>5. \/ ~r.escape /\ r.text = text /\ w = rest
      \/ w \in Text /\ w # <<>> /\ SamePart(r1, r) /\ Quoted(r1, Tail(w), text, StringSpecials, rest)
  <2> HIDE DEF rest
  <2> QED
    BY <1>1, <1>2, <1>4, Meanings, QuotedStep
<1>6. CASE ~r.escape /\ r.text = text /\ w = rest
  <2> DEFINE r2 == ReadChar(r, Quote)
  <2>1. /\ Quote \in MeaningAt(r.at) /\ Quote # NewLine /\ Quote # Backslash
        /\ After(r.at, Quote) = "string_end"
    BY <1>1, Meanings, SpecialsDiffer, Delimiters DEF StringSpecials
  <2>2. /\ IsReader(r2) /\ ~r2.escape /\ r2.at = "string_end" /\ r2.text = <<>>
        /\ r2.point = Closed(r) /\ r2.points = r.points
    BY <1>1, <1>6, <2>1, ReadDelimiter
  <2>3. Closed(r) = [r.point EXCEPT !.fields = Only(key, p.fields[key]) ++ r.point.fields]
    <3>1. r.key[1] = key
      BY <1>1
    <3> QED
      BY <1>1, <1>2, <1>6, <3>1 DEF Closed
  <2>4. Only(key, p.fields[key]) ++ UpTo(p.fields, FieldOrder, k - 1) = UpTo(p.fields, FieldOrder, k)
    BY <1>1, UpToNext
  <2>5. Closed(r) = So(p, 3, k)
    BY <1>1, <2>3, <2>4 DEF So
  <2> HIDE DEF r2
  <2>6. AtStringEnd(r2, after, p, k)
    BY <1>1, <2>2, <2>5 DEF AtStringEnd
  <2>7. InLine(r2, after, p)
    BY <2>2, <2>6 DEF InLine
  <2> HIDE DEF after
  <2> QED
    BY <1>3, <1>6, <2>2, <2>7, AdvancesTo, CharsAreStrings DEF r2
<1>7. CASE w \in Text /\ w # <<>> /\ SamePart(r1, r) /\ Quoted(r1, Tail(w), text, StringSpecials, rest)
  <2> HIDE DEF r1
  <2>1. AtString(r1, Tail(w), p, k)
    BY <1>1, <1>2, <1>7 DEF AtString, SamePart
  <2>2. InLine(r1, Tail(w), p) /\ r1.points = r.points
    BY <1>7, <2>1 DEF InLine, SamePart
  <2> QED
    BY <1>7, <2>2 DEF Advances, r1
<1> QED
  BY <1>5, <1>6, <1>7

LEMMA StringEndStep ==
  ASSUME NEW p, IsPoint(p), NEW r, IsReader(r), NEW w, NEW k \in 1..25, AtStringEnd(r, w, p, k)
  PROVE  Advances(r, w, p)
<1>1. Closed(r) = So(p, 3, k)
  BY DEF AtStringEnd, Closed
<1> QED
  BY <1>1, AfterFieldStep DEF AtStringEnd

(* For every point of the mapping: from any place in its line the next     *)
(* character leads on in the line, or ends it with exactly that point;     *)
(* no text ends a tag, a field or the line early.                          *)
THEOREM LineStep ==
  ASSUME NEW p, IsPoint(p), NEW r, NEW w, InLine(r, w, p)
  PROVE  Advances(r, w, p)
<1>1. IsReader(r)
  BY DEF InLine
<1>2. CASE AtMeasurement(r, w, p)
  BY <1>1, <1>2, MeasurementStep
<1>3. CASE \E k \in 1..3 : AtTagKey(r, w, p, k) \/ AtTagValue(r, w, p, k)
  BY <1>1, <1>3, TagKeyStep, TagValueStep
<1>4. CASE \E k \in 1..25 : \/ AtFieldKey(r, w, p, k) \/ AtFieldValue(r, w, p, k)
                            \/ AtString(r, w, p, k) \/ AtStringEnd(r, w, p, k)
  BY <1>1, <1>4, FieldKeyStep, FieldValueStep, StringStep, StringEndStep
<1>5. CASE AtTimestamp(r, w, p)
  BY <1>1, <1>5, TimestampStep
<1> QED
  BY <1>2, <1>3, <1>4, <1>5 DEF InLine

-----------------------------------------------------------------------------
(* The body: the lines of the batch, each with its end.                    *)

Ended(lines) == [i \in 1..Len(lines) |-> lines[i] \o <<NewLine>>]

Bodies(f, lines) ==
  f = [n \in 0..Len(lines) |->
         IF n = 0 THEN <<>>
         ELSE (IF f[n - 1] = <<>> THEN <<>> ELSE Append(f[n - 1], NewLine)) \o lines[n]]

LEMMA BodiesExist ==
  ASSUME NEW S, NEW lines \in Seq(S)
  PROVE  \E f : Bodies(f, lines)
<1> DEFINE Joined(b, n) == (IF b = <<>> THEN <<>> ELSE Append(b, NewLine)) \o lines[n]
           P(m) == \E f : f = [n \in 0..m |-> IF n = 0 THEN <<>> ELSE Joined(f[n - 1], n)]
           Bad == {m \in Nat : ~P(m)}
<1>1. SUFFICES Bad = {}
  <2>1. Len(lines) \in Nat
    OBVIOUS
  <2> QED
    BY <2>1 DEF Bodies
<1>2. SUFFICES ASSUME Bad # {} PROVE FALSE
  OBVIOUS
<1>3. PICK m \in Bad : \A i \in Bad : m <= i
  <2>1. Bad \subseteq Nat
    OBVIOUS
  <2> HIDE DEF Bad
  <2> QED
    BY <1>2, <2>1, LeastExists
<1>4. m \in Nat /\ ~P(m)
  OBVIOUS
<1> HIDE DEF Joined
<1>5. CASE m = 0
  <2> DEFINE f == [n \in 0..0 |-> <<>>]
  <2>1. f = [n \in 0..0 |-> IF n = 0 THEN <<>> ELSE Joined(f[n - 1], n)]
    OBVIOUS
  <2> HIDE DEF f
  <2> QED
    BY <1>4, <1>5, <2>1
<1>6. CASE m > 0
  <2>1. m - 1 \in Nat /\ m - 1 \notin Bad
    <3>1. m - 1 \in Nat /\ ~(m <= m - 1)
      BY <1>4, <1>6
    <3> HIDE DEF Bad
    <3> QED
      BY <1>3, <3>1
  <2>2. P(m - 1)
    BY <2>1
  <2>3. PICK g : g = [n \in 0..(m - 1) |-> IF n = 0 THEN <<>> ELSE Joined(g[n - 1], n)]
    BY <2>2
  <2> DEFINE f == [n \in 0..m |-> IF n < m THEN g[n] ELSE Joined(g[m - 1], m)]
  <2>4. ASSUME NEW n \in 0..m
        PROVE  f[n] = IF n = 0 THEN <<>> ELSE Joined(f[n - 1], n)
    <3>1. CASE n < m
      <4>1. f[n] = g[n]
        BY <3>1
      <4>2. g[n] = IF n = 0 THEN <<>> ELSE Joined(g[n - 1], n)
        <5>1. n \in 0..(m - 1)
          BY <3>1, <1>4
        <5> QED
          BY <2>3, <5>1
      <4>3. n # 0 => f[n - 1] = g[n - 1]
        BY <3>1, <1>4
      <4> QED
        BY <4>1, <4>2, <4>3
    <3>2. CASE n = m
      <4>1. f[n] = Joined(g[m - 1], m)
        BY <3>2
      <4>2. f[n - 1] = g[n - 1] /\ n # 0
        BY <3>2, <1>4, <1>6
      <4> QED
        BY <4>1, <4>2, <3>2
    <3> QED
      BY <3>1, <3>2, <1>4
  <2>5. f = [n \in 0..m |-> f[n]]
    OBVIOUS
  <2> HIDE DEF f
  <2>6. f = [n \in 0..m |-> IF n = 0 THEN <<>> ELSE Joined(f[n - 1], n)]
    BY <2>4, <2>5
  <2> QED
    BY <2>6, <1>4
<1> QED
  BY <1>4, <1>5, <1>6

LEMMA EndedType ==
  ASSUME NEW lines \in Seq(Text)
  PROVE  /\ Ended(lines) \in Seq(Text) /\ Len(Ended(lines)) = Len(lines)
         /\ \A i \in 1..Len(lines) : Ended(lines)[i] = lines[i] \o <<NewLine>>
<1>1. ASSUME NEW i \in 1..Len(lines) PROVE lines[i] \o <<NewLine>> \in Text
  <2>1. lines[i] \in Text
    BY ElementOfSeq
  <2> QED
    BY <2>1, CharsAreStrings, SingleType, TextConcat
<1>2. Len(lines) \in Nat
  OBVIOUS
<1> QED
  BY <1>1, <1>2 DEF Ended

(* No line is empty: between two lines there is the end of the first.      *)
LEMMA BodyIsLines ==
  ASSUME NEW lines \in Seq(Text), Len(lines) > 0,
         \A i \in 1..Len(lines) : Len(lines[i]) > 0
  PROVE  Append(BuildBody(lines), NewLine) = FlattenSeq(Ended(lines))
<1> DEFINE N == Len(lines)
           e == <<NewLine>>
           f == CHOOSE g : Bodies(g, lines)
           ended == Ended(lines)
           Good(n) == /\ f[n] \in Text /\ Len(f[n]) > 0
                      /\ f[n] \o e = FlattenSeq(SubSeq(ended, 1, n))
           Bad == {n \in 1..N : ~Good(n)}
<1>1. Bodies(f, lines)
  BY BodiesExist
<1>2. BuildBody(lines) = f[N]
  BY DEF BuildBody, Bodies
<1>3. N \in Nat /\ N > 0 /\ NewLine \in Char /\ e \in Text
  BY CharsAreStrings, SingleType
<1>4. ended \in Seq(Text) /\ ended \in Seq(Seq(Char)) /\ Len(ended) = N
      /\ \A i \in 1..N : ended[i] = lines[i] \o e
  BY EndedType DEF Text
<1>5. \A i \in 1..N : lines[i] \in Text /\ Len(lines[i]) > 0
  BY ElementOfSeq
<1> HIDE DEF f
<1>6. f[0] = <<>>
  <2>1. 0 \in 0..Len(lines)
    BY <1>3
  <2> QED
    BY <1>1, <2>1 DEF Bodies
<1>7. \A n \in 1..N :
        f[n] = (IF f[n - 1] = <<>> THEN <<>> ELSE Append(f[n - 1], NewLine)) \o lines[n]
  <2>1. \A n \in 1..N : n \in 0..Len(lines) /\ n # 0
    BY <1>3
  <2> QED
    BY <1>1, <2>1 DEF Bodies
<1> HIDE DEF ended, N, e
<1>8. Bad = {}
  <2>1. SUFFICES ASSUME Bad # {} PROVE FALSE
    OBVIOUS
  <2>2. PICK n \in Bad : \A i \in Bad : n <= i
    <3>1. Bad \subseteq Nat
      BY <1>3
    <3> HIDE DEF Bad
    <3> QED
      BY <2>1, <3>1, LeastExists
  <2>3. n \in 1..N /\ ~Good(n)
    OBVIOUS
  <2>4. lines[n] \in Text /\ Len(lines[n]) > 0
    BY <1>5, <2>3
  <2>5. CASE n = 1
    <3>1. f[n] = lines[n]
      <4>1. <<>> \o lines[n] = lines[n]
        BY <2>4, ConcatEmptySeq DEF Text
      <4>2. n - 1 = 0
        BY <2>5
      <4>3. f[n] = (IF f[n - 1] = <<>> THEN <<>> ELSE Append(f[n - 1], NewLine)) \o lines[n]
        BY <1>7, <2>3
      <4>4. f[n] = <<>> \o lines[n]
        BY <1>6, <4>2, <4>3
      <4> QED
        BY <4>1, <4>4
    <3>2. SubSeq(ended, 1, 1) = <<ended[1]>>
      <4>1. 1 \in 1..Len(ended)
        BY <1>3, <1>4
      <4>2. SubSeq(ended, 1, 1) = <<ended[1]>> \o SubSeq(ended, 1 + 1, 1)
        BY <1>4, <4>1, SubSeqRecursiveFirst
      <4>3. SubSeq(ended, 1 + 1, 1) = <<>>
        BY SubSeqEmpty
      <4>4. <<ended[1]>> \in Seq(Text)
        BY <1>4, <4>1
      <4> QED
        BY <4>2, <4>3, <4>4, ConcatEmptySeq
    <3>3. FlattenSeq(<<ended[1]>>) = ended[1]
      <4>1. ended[1] \in Seq(Char)
        BY <1>3, <1>4
      <4> QED
        BY <4>1, FlattenSingle
    <3>4. ended[1] = lines[n] \o e
      BY <1>4, <2>3, <2>5
    <3> QED
      BY <2>3, <2>4, <2>5, <3>1, <3>2, <3>3, <3>4
  <2>6. CASE n # 1
    <3> DEFINE b == f[n - 1]
               l == lines[n]
    <3>1. n - 1 \in 1..N /\ ~(n <= n - 1) /\ n \in 1..Len(ended) /\ 1 \in 1..Len(ended)
      BY <1>3, <1>4, <2>3, <2>6
    <3>2. Good(n - 1)
      <4>1. n - 1 \notin Bad
        <5> HIDE DEF Bad
        <5> QED
          BY <2>2, <3>1
      <4> QED
        BY <3>1, <4>1
    <3>3. b \in Text /\ Len(b) > 0 /\ b # <<>> /\ b \o e = FlattenSeq(SubSeq(ended, 1, n - 1))
      BY <3>2
    <3>4. f[n] = Append(b, NewLine) \o l
      BY <1>7, <2>3, <3>3
    <3>5. Append(b, NewLine) = b \o e
      BY <1>3, <3>3, AppendIsConcat DEF Text, e
    <3>6. f[n] = (b \o e) \o l
      BY <3>4, <3>5
    <3>7. SubSeq(ended, 1, n) = SubSeq(ended, 1, n - 1) \o <<ended[n]>>
      BY <1>4, <3>1, SubSeqRecursiveSecond
    <3>8. SubSeq(ended, 1, n - 1) \in Seq(Seq(Char)) /\ ended[n] \in Seq(Char)
      <4>1. ended[n] \in Seq(Char)
        BY <1>4, <3>1, ElementOfSeq
      <4>2. \A i \in 1..(n - 1) : ended[i] \in Seq(Char)
        <5>1. \A i \in 1..(n - 1) : i \in 1..Len(ended)
          BY <3>1
        <5> QED
          BY <1>4, <5>1, ElementOfSeq
      <4>3. SubSeq(ended, 1, n - 1) \in Seq(Seq(Char))
        BY <4>2, SubSeqProperties
      <4> QED
        BY <4>1, <4>3
    <3>9. FlattenSeq(SubSeq(ended, 1, n)) = FlattenSeq(SubSeq(ended, 1, n - 1)) \o ended[n]
      <4> DEFINE front == SubSeq(ended, 1, n - 1)
      <4>1. front \in Seq(Seq(Char)) /\ <<ended[n]>> \in Seq(Seq(Char))
        BY <3>8
      <4> HIDE DEF front
      <4>2. FlattenSeq(front \o <<ended[n]>>) = FlattenSeq(front) \o FlattenSeq(<<ended[n]>>)
        BY <4>1, FlattenConcat
      <4>3. FlattenSeq(<<ended[n]>>) = ended[n]
        BY <3>8, FlattenSingle
      <4> QED
        BY <3>7, <4>2, <4>3 DEF front
    <3>10. ended[n] = l \o e
      BY <1>4, <2>3
    <3>11. l \in Text
      BY <2>4
    <3> HIDE DEF b, l
    <3>12. Cat(Cat(Cat(b, e), l), e) = Cat(Cat(b, e), Cat(l, e))
      <4>1. Cat(b, e) \in Text
        BY <1>3, <3>3, CatFacts
      <4> QED
        BY <1>3, <3>11, <4>1, CatFacts
    <3>13. f[n] \o e = FlattenSeq(SubSeq(ended, 1, n))
      BY <3>3, <3>6, <3>9, <3>10, <3>12 DEF Cat
    <3>14. f[n] \in Text /\ Len(f[n]) > 0
      <4>1. b \o e \in Text
        BY <1>3, <3>3, TextConcat
      <4>2. (b \o e) \o l \in Text
        BY <3>11, <4>1, TextConcat
      <4>3. Len((b \o e) \o l) = Len(b \o e) + Len(l) /\ Len(b \o e) = Len(b) + Len(e)
        BY <1>3, <3>3, <3>11, <4>1, ConcatProperties DEF Text
      <4>4. Len(b) \in Nat /\ Len(e) \in Nat /\ Len(l) \in Nat
        BY <1>3, <3>3, <3>11, LenProperties DEF Text
      <4> QED
        BY <3>3, <3>6, <4>2, <4>3, <4>4
    <3> QED
      BY <2>3, <3>13, <3>14
  <2> QED
    BY <2>5, <2>6
<1>9. Good(N)
  BY <1>3, <1>8
<1>10. SubSeq(ended, 1, N) = ended
  BY <1>4, SubSeqFull
<1>11. Append(f[N], NewLine) = f[N] \o e
  BY <1>3, <1>9, AppendIsConcat DEF Text, e
<1> QED
  BY <1>2, <1>9, <1>10, <1>11 DEF ended

-----------------------------------------------------------------------------
(* The points of messages. *)

LEMMA TrimType ==
  ASSUME NEW S, NEW text \in Seq(S)
  PROVE  Trim(text) \in Seq(S)
<1> DEFINE ink == {i \in DOMAIN text : text[i] \notin {" ", NewLine}}
<1>1. Len(text) \in Nat /\ ink \subseteq 1..Len(text)
  <2>1. Len(text) \in Nat /\ DOMAIN text = 1..Len(text)
    BY LenProperties
  <2>2. ink \subseteq DOMAIN text
    OBVIOUS
  <2> HIDE DEF ink
  <2> QED
    BY <2>1, <2>2
<1>0. Trim(text) = IF ink = {} THEN <<>> ELSE SubSeq(text, Min(ink), Max(ink))
  BY DEF Trim
<1> HIDE DEF ink
<1>2. CASE ink = {}
  BY <1>0, <1>2, EmptySeq
<1>3. CASE ink # {}
  <2>1. \E x \in ink : \A y \in ink : x <= y
    <3>1. ink \subseteq Nat
      BY <1>1
    <3> QED
      BY <1>3, <3>1, LeastExists
  <2>2. \E x \in ink : \A y \in ink : x >= y
    <3> DEFINE B == {Len(text) - i : i \in ink}
    <3>1. B \subseteq Nat /\ B # {}
      <4>1. \A i \in ink : Len(text) - i \in Nat
        BY <1>1
      <4> QED
        BY <1>3, <4>1
    <3>2. PICK b \in B : \A d \in B : b <= d
      <4> HIDE DEF B
      <4> QED
        BY <3>1, LeastExists
    <3>3. PICK x \in ink : b = Len(text) - x
      OBVIOUS
    <3>4. ASSUME NEW y \in ink PROVE x >= y
      <4>1. Len(text) - x <= Len(text) - y
        BY <3>2, <3>3
      <4> QED
        BY <1>1, <4>1
    <3> QED
      BY <3>4
  <2>3. Min(ink) \in ink /\ Max(ink) \in ink
    BY <2>1, <2>2 DEF Min, Max
  <2>4. \A i \in Min(ink)..Max(ink) : text[i] \in S
    <3>1. Min(ink) \in 1..Len(text) /\ Max(ink) \in 1..Len(text)
      BY <1>1, <2>3
    <3>2. \A i \in Min(ink)..Max(ink) : i \in 1..Len(text)
      BY <3>1
    <3> QED
      BY <3>2, ElementOfSeq
  <2>5. Min(ink) \in Int /\ Max(ink) \in Int
    <3>1. \A i \in ink : i \in Int
      BY <1>1
    <3> QED
      BY <2>3, <3>1
  <2>6. SubSeq(text, Min(ink), Max(ink)) \in Seq(S)
    BY <2>4, <2>5, SubSeqProperties
  <2>7. Trim(text) = SubSeq(text, Min(ink), Max(ink))
    BY <1>0, <1>3
  <2> QED
    BY <2>6, <2>7
<1> QED
  BY <1>2, <1>3

(* The stages keep a message what a raw schema accepts. *)
LEMMA CanonicalIsMessage ==
  ASSUME NEW msg, IsMessage(msg)
  PROVE  IsMessage(Canonical(msg))
<1> DEFINE m == Canonical(msg)
           texts == [k \in DOMAIN msg.texts |->
                       IF k = "reset_reason" THEN msg.texts[k] ELSE Trim(msg.texts[k])]
<1>1. m = [msg EXCEPT !.texts = texts]
  BY DEF Canonical
<1>2. \A k \in DOMAIN texts : texts[k] \in Seq(STRING)
  BY TrimType DEF IsMessage
<1>3. DOMAIN texts = DOMAIN msg.texts
  OBVIOUS
<1> HIDE DEF m, texts
<1>4. DOMAIN m = DOMAIN msg /\ m.texts = texts /\ m.type = msg.type /\ m.counts = msg.counts
      /\ m.time_valid = msg.time_valid /\ m.time_ms = msg.time_ms
  BY <1>1 DEF IsMessage
<1>5. msg.type = "SENSOR" =>
        /\ m.data = msg.data /\ m.iaq_score = msg.iaq_score /\ m.iaq_text = msg.iaq_text
        /\ m.warmed_up = msg.warmed_up /\ m.replayed = msg.replayed
  BY <1>1 DEF IsMessage
<1>6. IsMessage(m)
  BY <1>2, <1>3, <1>4, <1>5 DEF IsMessage
<1> QED
  BY <1>6 DEF m

(* Fields by their keys, to which the points add. *)
IsFields(f) ==
  /\ f = [k \in DOMAIN f |-> f[k]]
  /\ DOMAIN f \subseteq FieldKeys
  /\ \A k \in DOMAIN f : IsValue(f[k])

LEMMA NumberIsToken ==
  ASSUME NEW n, IsNumber(n)
  PROVE  ToString(n) \in Char /\ IsToken(ToString(n))
BY DEF IsNumber, IsToken, Char, Marks

LEMMA NumberIsValue ==
  ASSUME NEW kind \in {"Int", "UInt", "Float"}, NEW n, IsNumber(n)
  PROVE  IsValue(Number(kind, n))
<1> DEFINE c == ToString(n)
<1>1. c \in Char /\ IsToken(c)
  BY NumberIsToken
<1>2. Number(kind, n) = [kind |-> kind, text |-> <<c>>]
  BY DEF Number
<1> HIDE DEF c
<1> QED
  BY <1>1, <1>2 DEF IsValue

LEMMA StringIsText == \A text \in Seq(STRING) : text \in Text
<1>1. ASSUME NEW text \in Seq(STRING) PROVE text \in Text
  <2>1. \A i \in 1..Len(text) : text[i] \in Char
    <3>1. \A i \in 1..Len(text) : text[i] \in STRING
      BY ElementOfSeq
    <3> QED
      BY <3>1 DEF Char
  <2>2. Len(text) \in Nat /\ text = [i \in 1..Len(text) |-> text[i]]
    OBVIOUS
  <2> QED
    BY <2>1, <2>2 DEF Text
<1> QED
  BY <1>1

LEMMA FieldsAdd ==
  ASSUME NEW f, NEW g, IsFields(f), IsFields(g)
  PROVE  IsFields(f ++ g) /\ DOMAIN (f ++ g) = DOMAIN f \cup DOMAIN g
<1> DEFINE h == f ++ g
<1>1. h = [k \in DOMAIN f \cup DOMAIN g |-> IF k \in DOMAIN f THEN f[k] ELSE g[k]]
  BY DEF ++
<1> HIDE DEF h
<1>2. DOMAIN h = DOMAIN f \cup DOMAIN g
      /\ \A k \in DOMAIN h : h[k] = IF k \in DOMAIN f THEN f[k] ELSE g[k]
  BY <1>1
<1>3. h = [k \in DOMAIN h |-> h[k]]
  BY <1>1
<1>4. IsFields(h)
  BY <1>2, <1>3 DEF IsFields
<1> QED
  BY <1>2, <1>4 DEF h

LEMMA FieldsNone == IsFields(None)
BY DEF IsFields, None

LEMMA FieldsOnly ==
  ASSUME NEW key \in FieldKeys, NEW value, IsValue(value)
  PROVE  IsFields(Only(key, value)) /\ DOMAIN Only(key, value) = {key}
BY DEF IsFields, Only

LEMMA FieldsNumbers ==
  ASSUME NEW kind \in {"Int", "UInt", "Float"}, NEW ns, DOMAIN ns \subseteq FieldKeys,
         \A k \in DOMAIN ns : IsNumber(ns[k])
  PROVE  IsFields(Numbers(kind, ns))
<1> DEFINE f == Numbers(kind, ns)
<1>1. f = [k \in DOMAIN ns |-> Number(kind, ns[k])]
  BY DEF Numbers
<1> HIDE DEF f
<1>2. DOMAIN f = DOMAIN ns /\ f = [k \in DOMAIN f |-> f[k]]
      /\ \A k \in DOMAIN f : f[k] = Number(kind, ns[k])
  BY <1>1
<1>3. \A k \in DOMAIN f : IsValue(f[k])
  BY <1>2, NumberIsValue
<1>4. IsFields(f)
  BY <1>2, <1>3 DEF IsFields
<1> QED
  BY <1>4 DEF f

LEMMA KeysOfFields ==
  /\ DataKeys \subseteq FieldKeys /\ CountKeys \subseteq FieldKeys
  /\ {"firmware_version", "time_valid", "iaq_score", "iaq_text", "warmed_up", "replayed",
      "ip_address", "ssid", "reset_reason"} \subseteq FieldKeys
<1>1. \A i \in 1..25 : FieldOrder[i] \in FieldKeys
  BY FieldKeysArePlain DEF FieldKeys
<1>2. /\ FieldOrder[1] \in FieldKeys /\ FieldOrder[2] \in FieldKeys /\ FieldOrder[3] \in FieldKeys
      /\ FieldOrder[4] \in FieldKeys /\ FieldOrder[5] \in FieldKeys /\ FieldOrder[6] \in FieldKeys
      /\ FieldOrder[7] \in FieldKeys /\ FieldOrder[8] \in FieldKeys /\ FieldOrder[9] \in FieldKeys
      /\ FieldOrder[10] \in FieldKeys /\ FieldOrder[11] \in FieldKeys /\ FieldOrder[12] \in FieldKeys
      /\ FieldOrder[13] \in FieldKeys /\ FieldOrder[14] \in FieldKeys /\ FieldOrder[15] \in FieldKeys
      /\ FieldOrder[16] \in FieldKeys /\ FieldOrder[17] \in FieldKeys /\ FieldOrder[18] \in FieldKeys
      /\ FieldOrder[19] \in FieldKeys /\ FieldOrder[20] \in FieldKeys /\ FieldOrder[21] \in FieldKeys
      /\ FieldOrder[22] \in FieldKeys /\ FieldOrder[23] \in FieldKeys /\ FieldOrder[24] \in FieldKeys
      /\ FieldOrder[25] \in FieldKeys
  BY <1>1
<1>3. /\ FieldOrder[1] = "boot_id" /\ FieldOrder[2] = "dew_point_c"
      /\ FieldOrder[3] = "dropped_total" /\ FieldOrder[4] = "firmware_version"
      /\ FieldOrder[5] = "free_mem" /\ FieldOrder[6] = "gas_ohm"
      /\ FieldOrder[7] = "heat_index_c" /\ FieldOrder[8] = "iaq_score"
      /\ FieldOrder[9] = "iaq_text" /\ FieldOrder[10] = "ip_address"
      /\ FieldOrder[11] = "mqtt_connects_total" /\ FieldOrder[12] = "pressure_hpa"
      /\ FieldOrder[13] = "queued" /\ FieldOrder[14] = "rel_hum_perc"
      /\ FieldOrder[15] = "replayed" /\ FieldOrder[16] = "reset_reason"
      /\ FieldOrder[17] = "rssi" /\ FieldOrder[18] = "samples_failed_total"
      /\ FieldOrder[19] = "sensor_read_failures_total" /\ FieldOrder[20] = "seq"
      /\ FieldOrder[21] = "ssid" /\ FieldOrder[22] = "temp_c" /\ FieldOrder[23] = "time_valid"
      /\ FieldOrder[24] = "uptime" /\ FieldOrder[25] = "warmed_up"
  BY DEF FieldOrder
<1> HIDE DEF FieldKeys
<1>4. DataKeys \subseteq FieldKeys
  BY <1>2, <1>3 DEF DataKeys
<1>5. CountKeys \subseteq FieldKeys
  BY <1>2, <1>3 DEF CountKeys
<1> QED
  BY <1>2, <1>3, <1>4, <1>5

(* No tag of a message has a line break within it. *)
NoLineBreakIn(msg) ==
  \A k \in DOMAIN msg.texts \cap {"device_id", "device_class", "room"} :
    \A i \in DOMAIN msg.texts[k] : msg.texts[k][i] # NewLine

LEMMA TagsAreTags ==
  ASSUME NEW m, IsMessage(m), Accepted(m), NoLineBreakIn(m)
  PROVE  /\ TagsOf(m) = [k \in DOMAIN TagsOf(m) |-> TagsOf(m)[k]]
         /\ DOMAIN TagsOf(m) \subseteq TagKeys
         /\ \A k \in DOMAIN TagsOf(m) : IsTag(TagsOf(m)[k])
<1> DEFINE f == TagsOf(m)
           D == DOMAIN m.texts \cap {"device_id", "device_class", "room"}
<1>1. f = [k \in D |-> m.texts[k]]
  BY DEF TagsOf
<1>2. D \subseteq TagKeys
  <2>1. \A i \in 1..3 : TagOrder[i] \in TagKeys
    BY TagKeysArePlain DEF TagKeys
  <2>2. TagOrder[1] = "device_class" /\ TagOrder[2] = "device_id" /\ TagOrder[3] = "room"
    BY DEF TagOrder
  <2>3. TagOrder[1] \in TagKeys /\ TagOrder[2] \in TagKeys /\ TagOrder[3] \in TagKeys
    BY <2>1
  <2> QED
    BY <2>2, <2>3
<1>3. ASSUME NEW k \in D PROVE IsTag(m.texts[k])
  <2>1. m.texts[k] \in Text
    BY StringIsText DEF IsMessage
  <2>2. m.texts[k] # <<>>
    BY DEF Accepted
  <2>3. \A i \in DOMAIN m.texts[k] : m.texts[k][i] # NewLine
    BY DEF NoLineBreakIn
  <2> QED
    BY <2>1, <2>2, <2>3 DEF IsTag
<1> HIDE DEF f, D
<1>4. DOMAIN f = D /\ f = [k \in DOMAIN f |-> f[k]] /\ \A k \in DOMAIN f : f[k] = m.texts[k]
  BY <1>1
<1>5. DOMAIN f \subseteq TagKeys /\ \A k \in DOMAIN f : IsTag(f[k])
  BY <1>2, <1>3, <1>4
<1> QED
  BY <1>4, <1>5 DEF f

LEMMA TimestampIsToken ==
  ASSUME NEW m, IsMessage(m)
  PROVE  TimestampOf(m) = <<>> \/ \E c \in Char : IsToken(c) /\ TimestampOf(m) = <<c>>
<1>1. ToString(m.time_ms) \in Char /\ IsToken(ToString(m.time_ms))
  BY NumberIsToken DEF IsMessage
<1> QED
  BY <1>1 DEF TimestampOf

LEMMA StrIsValue == \A text \in Seq(STRING) : IsValue(Str(text))
BY StringIsText DEF IsValue

LEMMA BoolIsValue == \A b \in BOOLEAN : IsValue(Bool(b))
BY DEF IsValue

LEMMA SensorIsPoint ==
  ASSUME NEW m, IsMessage(m), Accepted(m), NoLineBreakIn(m), m.type = "SENSOR"
  PROVE  IsPoint(SensorToPoint(m))
<1> DEFINE a == Only("firmware_version", Str(m.texts.fw_version))
           b == Only("time_valid", Bool(m.time_valid))
           c == Numbers("Float", m.data)
           d1 == Only("iaq_score", Number("Float", m.iaq_score))
           d2 == Only("iaq_text", Str(m.iaq_text))
           d == IF m.warmed_up = {FALSE} THEN None ELSE d1 ++ d2
           e == Numbers("UInt", m.counts)
           g == IF m.warmed_up = {} THEN None ELSE Only("warmed_up", Bool(TRUE \in m.warmed_up))
           h == IF m.replayed THEN Only("replayed", Bool(TRUE)) ELSE None
           fields == a ++ b ++ c ++ d ++ e ++ g ++ h
           p == SensorToPoint(m)
<1>1. p = [measurement |-> <<"bme680">>, tags |-> TagsOf(m), fields |-> fields,
           timestamp |-> TimestampOf(m)]
  BY DEF SensorToPoint
<1>2. IsFields(a) /\ DOMAIN a = {"firmware_version"}
  <2>1. IsValue(Str(m.texts.fw_version))
    BY StrIsValue DEF IsMessage
  <2> QED
    BY <2>1, KeysOfFields, FieldsOnly
<1>3. IsFields(b)
  <2>1. IsValue(Bool(m.time_valid))
    BY BoolIsValue DEF IsMessage
  <2> QED
    BY <2>1, KeysOfFields, FieldsOnly
<1>4. IsFields(c)
  <2>1. DOMAIN m.data \subseteq FieldKeys /\ \A k \in DOMAIN m.data : IsNumber(m.data[k])
    BY KeysOfFields DEF IsMessage
  <2> QED
    BY <2>1, FieldsNumbers
<1>5. IsFields(d)
  <2>1. IsFields(d1)
    <3>1. IsValue(Number("Float", m.iaq_score))
      BY NumberIsValue DEF IsMessage
    <3> QED
      BY <3>1, KeysOfFields, FieldsOnly
  <2>2. IsFields(d2)
    <3>1. IsValue(Str(m.iaq_text))
      BY StrIsValue DEF IsMessage
    <3> QED
      BY <3>1, KeysOfFields, FieldsOnly
  <2> HIDE DEF d1, d2
  <2>3. IsFields(d1 ++ d2)
    BY <2>1, <2>2, FieldsAdd
  <2> QED
    BY <2>3, FieldsNone
<1>6. IsFields(e)
  <2>1. DOMAIN m.counts \subseteq FieldKeys /\ \A k \in DOMAIN m.counts : IsNumber(m.counts[k])
    BY KeysOfFields DEF IsMessage
  <2> QED
    BY <2>1, FieldsNumbers
<1>7. IsFields(g)
  <2>1. IsValue(Bool(TRUE \in m.warmed_up))
    <3>1. (TRUE \in m.warmed_up) \in BOOLEAN
      OBVIOUS
    <3> QED
      BY <3>1, BoolIsValue, Zenon
  <2>2. IsFields(Only("warmed_up", Bool(TRUE \in m.warmed_up)))
    BY <2>1, KeysOfFields, FieldsOnly
  <2> QED
    BY <2>2, FieldsNone
<1>8. IsFields(h)
  <2>1. IsFields(Only("replayed", Bool(TRUE)))
    BY BoolIsValue, KeysOfFields, FieldsOnly
  <2> QED
    BY <2>1, FieldsNone
<1> HIDE DEF a, b, c, d, e, g, h
<1>9. IsFields(fields) /\ "firmware_version" \in DOMAIN fields
  <2>1. IsFields(a ++ b) /\ "firmware_version" \in DOMAIN (a ++ b)
    BY <1>2, <1>3, FieldsAdd
  <2>2. IsFields(a ++ b ++ c) /\ "firmware_version" \in DOMAIN (a ++ b ++ c)
    BY <1>4, <2>1, FieldsAdd
  <2>3. IsFields(a ++ b ++ c ++ d) /\ "firmware_version" \in DOMAIN (a ++ b ++ c ++ d)
    BY <1>5, <2>2, FieldsAdd
  <2>4. IsFields(a ++ b ++ c ++ d ++ e) /\ "firmware_version" \in DOMAIN (a ++ b ++ c ++ d ++ e)
    BY <1>6, <2>3, FieldsAdd
  <2>5. IsFields(a ++ b ++ c ++ d ++ e ++ g)
        /\ "firmware_version" \in DOMAIN (a ++ b ++ c ++ d ++ e ++ g)
    BY <1>7, <2>4, FieldsAdd
  <2> QED
    BY <1>8, <2>5, FieldsAdd
<1> HIDE DEF fields, p
<1>10. IsPoint(p)
  BY <1>1, <1>9, TagsAreTags, TimestampIsToken DEF IsPoint, IsFields
<1> QED
  BY <1>10 DEF p

LEMMA StatusIsPoint ==
  ASSUME NEW m, IsMessage(m), Accepted(m), NoLineBreakIn(m), m.type = "STATUS"
  PROVE  IsPoint(StatusToPoint(m))
<1> DEFINE a == Only("firmware_version", Str(m.texts.fw_version))
           b == Only("ip_address", Str(m.texts.ip))
           c == Only("time_valid", Bool(m.time_valid))
           d == Only("ssid", Str(m.texts.ssid))
           e == Numbers("Int", m.counts)
           g == IF "reset_reason" \in DOMAIN m.texts
                THEN Only("reset_reason", Str(m.texts.reset_reason)) ELSE None
           fields == a ++ b ++ c ++ d ++ e ++ g
           p == StatusToPoint(m)
<1>1. p = [measurement |-> <<"device_status">>, tags |-> TagsOf(m), fields |-> fields,
           timestamp |-> TimestampOf(m)]
  BY DEF StatusToPoint
<1>2. IsFields(a) /\ DOMAIN a = {"firmware_version"}
  <2>1. IsValue(Str(m.texts.fw_version))
    BY StrIsValue DEF IsMessage
  <2> QED
    BY <2>1, KeysOfFields, FieldsOnly
<1>3. IsFields(b)
  <2>1. IsValue(Str(m.texts.ip))
    BY StrIsValue DEF IsMessage
  <2> QED
    BY <2>1, KeysOfFields, FieldsOnly
<1>4. IsFields(c)
  <2>1. IsValue(Bool(m.time_valid))
    BY BoolIsValue DEF IsMessage
  <2> QED
    BY <2>1, KeysOfFields, FieldsOnly
<1>5. IsFields(d)
  <2>1. IsValue(Str(m.texts.ssid))
    BY StrIsValue DEF IsMessage
  <2> QED
    BY <2>1, KeysOfFields, FieldsOnly
<1>6. IsFields(e)
  <2>1. DOMAIN m.counts \subseteq FieldKeys /\ \A k \in DOMAIN m.counts : IsNumber(m.counts[k])
    BY KeysOfFields DEF IsMessage
  <2> QED
    BY <2>1, FieldsNumbers
<1>7. IsFields(g)
  <2>1. CASE "reset_reason" \in DOMAIN m.texts
    <3>1. IsValue(Str(m.texts.reset_reason))
      BY <2>1, StrIsValue DEF IsMessage
    <3>2. IsFields(Only("reset_reason", Str(m.texts.reset_reason)))
      BY <3>1, KeysOfFields, FieldsOnly
    <3> QED
      BY <2>1, <3>2
  <2>2. CASE "reset_reason" \notin DOMAIN m.texts
    BY <2>2, FieldsNone
  <2> QED
    BY <2>1, <2>2
<1> HIDE DEF a, b, c, d, e, g
<1>8. IsFields(fields) /\ "firmware_version" \in DOMAIN fields
  <2>1. IsFields(a ++ b) /\ "firmware_version" \in DOMAIN (a ++ b)
    BY <1>2, <1>3, FieldsAdd
  <2>2. IsFields(a ++ b ++ c) /\ "firmware_version" \in DOMAIN (a ++ b ++ c)
    BY <1>4, <2>1, FieldsAdd
  <2>3. IsFields(a ++ b ++ c ++ d) /\ "firmware_version" \in DOMAIN (a ++ b ++ c ++ d)
    BY <1>5, <2>2, FieldsAdd
  <2>4. IsFields(a ++ b ++ c ++ d ++ e) /\ "firmware_version" \in DOMAIN (a ++ b ++ c ++ d ++ e)
    BY <1>6, <2>3, FieldsAdd
  <2> QED
    BY <1>7, <2>4, FieldsAdd
<1> HIDE DEF fields, p
<1>9. IsPoint(p)
  BY <1>1, <1>8, TagsAreTags, TimestampIsToken DEF IsPoint, IsFields
<1> QED
  BY <1>9 DEF p

LEMMA MessageIsPoint ==
  ASSUME NEW m, IsMessage(m), Accepted(m), NoLineBreakIn(m)
  PROVE  IsPoint(Point(m))
<1>1. CASE m.type = "SENSOR"
  BY <1>1, SensorIsPoint DEF Point
<1>2. CASE m.type = "STATUS"
  BY <1>2, StatusIsPoint DEF Point
<1> QED
  BY <1>1, <1>2 DEF IsMessage

-----------------------------------------------------------------------------
(* The invariant: the reader is at a place in the line of some message,    *)
(* and has the points of the messages before it.                           *)

(* A line break within a tag goes out as it is and ends the line there; at *)
(* the ends of a text it is trimmed. Nothing in the service refuses it.    *)
NoLineBreakInTags == \A msg \in Messages : NoLineBreakIn(Canonical(msg))

Handleable == {Canonical(msg) : msg \in {m \in Messages : Accepted(Canonical(m))}}

Lines(msgs) == [i \in DOMAIN msgs |-> WriteLineProtocol(Point(msgs[i]))]

Left(lines, i) == FlattenSeq(SubSeq(Ended(lines), i, Len(lines)))

PointsOf(msgs, i) == [j \in 1..i |-> Point(msgs[j])]

Reading(msgs, lines, text, r) ==
  \E i \in 1..Len(msgs) : \E w :
    /\ text = w \o Left(lines, i + 1)
    /\ InLine(r, w, Point(msgs[i]))
    /\ r.points = PointsOf(msgs, i - 1)

ReadInv ==
  /\ handled \in Seq(Handleable)
  /\ batch = Lines(handled)
  /\ \/ ~Posted
     \/ Reading(handled, batch, unread, reader)
     \/ /\ unread = <<>>
        /\ reader = [Beginning EXCEPT !.points = PointsOf(handled, Len(handled))]

LEMMA HandledArePoints ==
  ASSUME NoLineBreakInTags, NEW msgs \in Seq(Handleable), NEW i \in 1..Len(msgs)
  PROVE  IsPoint(Point(msgs[i]))
<1>1. msgs[i] \in Handleable
  BY ElementOfSeq
<1>2. PICK msg \in Messages : msgs[i] = Canonical(msg) /\ Accepted(Canonical(msg))
  BY <1>1 DEF Handleable
<1>3. IsMessage(Canonical(msg))
  BY LineAssumption, CanonicalIsMessage
<1>4. NoLineBreakIn(Canonical(msg))
  BY DEF NoLineBreakInTags
<1> QED
  BY <1>2, <1>3, <1>4, MessageIsPoint

LEMMA LinesType ==
  ASSUME NoLineBreakInTags, NEW msgs \in Seq(Handleable)
  PROVE  /\ Lines(msgs) \in Seq(Text) /\ Len(Lines(msgs)) = Len(msgs)
         /\ \A i \in 1..Len(msgs) : /\ Lines(msgs)[i] = WriteLineProtocol(Point(msgs[i]))
                                   /\ Len(Lines(msgs)[i]) > 0
<1>1. Len(msgs) \in Nat /\ DOMAIN msgs = 1..Len(msgs)
  BY LenProperties
<1> DEFINE L(i) == WriteLineProtocol(Point(msgs[i]))
<1>2. \A i \in 1..Len(msgs) : L(i) \in Text /\ Len(L(i)) > 0
  BY HandledArePoints, LineText
<1>3. Lines(msgs) = [i \in 1..Len(msgs) |-> L(i)]
  BY <1>1 DEF Lines
<1> HIDE DEF L
<1>4. Lines(msgs) \in Seq(Text) /\ Len(Lines(msgs)) = Len(msgs)
      /\ \A i \in 1..Len(msgs) : Lines(msgs)[i] = L(i)
  BY <1>1, <1>2, <1>3
<1> QED
  BY <1>2, <1>4 DEF L

(* The reader at the beginning of a line. *)
LEMMA LineStart ==
  ASSUME NEW p, IsPoint(p), NEW ps, NEW r, r = [Beginning EXCEPT !.points = ps],
         NEW w, w = WriteLineProtocol(p) \o <<NewLine>>
  PROVE  InLine(r, w, p) /\ r.points = ps
<1>1. IsReader(r) /\ r.at = "measurement" /\ ~r.escape /\ r.point = NoPoint /\ r.text = <<>>
      /\ r.points = ps
  BY DEF Beginning, IsReader
<1>2. w = p.measurement \o AfterTag(p, 0)
  BY LineText
<1>3. AtMeasurement(r, w, p)
  BY <1>1, <1>2 DEF AtMeasurement
<1> QED
  BY <1>1, <1>3 DEF InLine

LEMMA LeftType ==
  ASSUME NEW lines \in Seq(Text), NEW i \in 1..(Len(lines) + 1)
  PROVE  Left(lines, i) \in Text
<1> DEFINE ended == Ended(lines)
<1>1. ended \in Seq(Text) /\ Len(ended) = Len(lines)
  BY EndedType
<1> HIDE DEF ended
<1>2. ASSUME NEW j \in i..Len(lines) PROVE ended[j] \in Seq(Char)
  <2>1. j \in 1..Len(ended)
    BY <1>1
  <2> QED
    BY <1>1, <2>1, ElementOfSeq DEF Text
<1>3. SubSeq(ended, i, Len(lines)) \in Seq(Seq(Char))
  BY <1>2, SubSeqProperties
<1>4. FlattenSeq(SubSeq(ended, i, Len(lines))) \in Seq(Char)
  BY <1>3, FlattenType
<1> QED
  BY <1>4 DEF Left, ended, Text

LEMMA LeftNext ==
  ASSUME NEW lines \in Seq(Text), NEW i \in 1..Len(lines)
  PROVE  Left(lines, i) = (lines[i] \o <<NewLine>>) \o Left(lines, i + 1)
<1> DEFINE ended == Ended(lines)
<1>1. ended \in Seq(Seq(Char)) /\ Len(ended) = Len(lines) /\ ended[i] = lines[i] \o <<NewLine>>
  BY EndedType DEF Text
<1> HIDE DEF ended
<1>2. i \in 1..Len(ended)
  BY <1>1
<1>3. FlattenSeq(SubSeq(ended, i, Len(ended))) =
        ended[i] \o FlattenSeq(SubSeq(ended, i + 1, Len(ended)))
  BY <1>1, <1>2, FlattenFrom
<1> QED
  BY <1>1, <1>3 DEF Left, ended

(* A line begins. *)
LEMMA ReadingStarts ==
  ASSUME NoLineBreakInTags, NEW msgs \in Seq(Handleable), NEW i \in 1..Len(msgs),
         NEW r, r = [Beginning EXCEPT !.points = PointsOf(msgs, i - 1)],
         NEW text, text = Left(Lines(msgs), i)
  PROVE  Reading(msgs, Lines(msgs), text, r)
<1> DEFINE p == Point(msgs[i])
           lines == Lines(msgs)
           w == WriteLineProtocol(p) \o <<NewLine>>
<1>1. IsPoint(p)
  BY HandledArePoints
<1>2. lines \in Seq(Text) /\ Len(lines) = Len(msgs) /\ lines[i] = WriteLineProtocol(p)
  BY LinesType
<1>3. InLine(r, w, p) /\ r.points = PointsOf(msgs, i - 1)
  <2> HIDE DEF p
  <2> QED
    BY <1>1, LineStart
<1>4. text = w \o Left(lines, i + 1)
  <2>1. i \in 1..Len(lines)
    BY <1>2
  <2>2. Left(lines, i) = (lines[i] \o <<NewLine>>) \o Left(lines, i + 1)
    <3> HIDE DEF lines
    <3> QED
      BY <1>2, <2>1, LeftNext
  <2> QED
    BY <1>2, <2>2
<1> HIDE DEF lines, w
<1> QED
  BY <1>3, <1>4 DEF Reading, lines

LEMMA InitReadInv == Init => ReadInv
<1> SUFFICES ASSUME Init PROVE ReadInv
  OBVIOUS
<1>1. handled \in Seq(Handleable)
  BY EmptySeq DEF Init
<1>2. Lines(handled) = <<>>
  BY DEF Init, Lines
<1> QED
  BY <1>1, <1>2 DEF Init, ReadInv, Posted

LEMMA PersistReadInv ==
  ASSUME ReadInv, NEW msg \in Messages, Persist(msg)
  PROVE  ReadInv'
<1> DEFINE m == Canonical(msg)
<1>1. m \in Handleable
  BY DEF Persist, Handleable
<1>2. handled' = Append(handled, m) /\ batch' = Append(batch, WriteLineProtocol(Point(m)))
      /\ handled \in Seq(Handleable) /\ batch = Lines(handled)
  BY DEF Persist, ReadInv
<1> HIDE DEF m
<1>3. handled' \in Seq(Handleable)
  BY <1>1, <1>2
<1>4. batch' = Lines(handled')
  <2> DEFINE n == Len(handled)
             L(x) == WriteLineProtocol(Point(x))
  <2>1. n \in Nat /\ DOMAIN handled = 1..n /\ DOMAIN handled' = 1..(n + 1)
        /\ handled'[n + 1] = m /\ \A i \in 1..n : handled'[i] = handled[i]
    BY <1>1, <1>2
  <2>2. batch = [i \in 1..n |-> L(handled[i])] /\ batch' = Append(batch, L(m))
    BY <1>2, <2>1 DEF Lines
  <2>3. Lines(handled') = [i \in 1..(n + 1) |-> L(handled'[i])]
    BY <2>1 DEF Lines
  <2> HIDE DEF L, n
  <2>4. Len(batch) = n
    BY <2>1, <2>2
  <2>5. batch' = [i \in 1..(n + 1) |-> IF i = n + 1 THEN L(m) ELSE batch[i]]
    BY <2>1, <2>2, <2>4
  <2>6. \A i \in 1..(n + 1) : (IF i = n + 1 THEN L(m) ELSE batch[i]) = L(handled'[i])
    <3>1. ASSUME NEW i \in 1..(n + 1)
          PROVE  (IF i = n + 1 THEN L(m) ELSE batch[i]) = L(handled'[i])
      <4>1. CASE i = n + 1
        BY <2>1, <4>1
      <4>2. CASE i # n + 1
        <5>1. i \in 1..n
          BY <2>1, <4>2
        <5> QED
          BY <2>1, <2>2, <4>2, <5>1
      <4> QED
        BY <4>1, <4>2
    <3> QED
      BY <3>1
  <2> QED
    BY <2>3, <2>5, <2>6
<1>5. ~Posted'
  BY DEF Persist, Posted
<1> QED
  BY <1>3, <1>4, <1>5 DEF ReadInv

LEMMA WriteReadInv ==
  ASSUME NoLineBreakInTags, ReadInv, Write
  PROVE  ReadInv'
<1>1. /\ handled' = handled /\ batch' = batch /\ reader' = reader /\ reader = Beginning
      /\ unread' = Append(BuildBody(batch), NewLine) /\ batch # <<>>
  BY DEF Write, Posted
<1>2. handled \in Seq(Handleable) /\ batch = Lines(handled)
  BY DEF ReadInv
<1>3. /\ batch \in Seq(Text) /\ Len(batch) = Len(handled)
      /\ \A i \in 1..Len(batch) : Len(batch[i]) > 0
  BY <1>2, LinesType
<1>4. Len(batch) > 0
  BY <1>1, <1>3
<1>5. unread' = FlattenSeq(Ended(batch))
  BY <1>1, <1>3, <1>4, BodyIsLines
<1>6. unread' = Left(batch, 1)
  <2>1. Ended(batch) \in Seq(Text) /\ Len(Ended(batch)) = Len(batch)
    BY <1>3, EndedType
  <2>2. SubSeq(Ended(batch), 1, Len(batch)) = Ended(batch)
    BY <2>1, SubSeqFull
  <2> QED
    BY <1>5, <2>2 DEF Left
<1>7. reader = [Beginning EXCEPT !.points = PointsOf(handled, 1 - 1)]
  <2>1. PointsOf(handled, 1 - 1) = <<>>
    BY DEF PointsOf
  <2> QED
    <3>1. [Beginning EXCEPT !.points = <<>>] = Beginning
      <4> DEFINE b == Beginning
      <4>1. IsReader(b) /\ b.points = <<>>
        BY DEF Beginning, IsReader
      <4> HIDE DEF b
      <4>2. [b EXCEPT !.points = b.points] = b
        BY <4>1 DEF IsReader
      <4> QED
        BY <4>1, <4>2 DEF b
    <3> QED
      BY <1>1, <2>1, <3>1
<1>8. 1 \in 1..Len(handled)
  BY <1>3, <1>4
<1>9. Reading(handled, batch, unread', reader)
  BY <1>2, <1>6, <1>7, <1>8, ReadingStarts
<1> QED
  BY <1>1, <1>2, <1>9 DEF ReadInv

LEMMA ReadReadInv ==
  ASSUME NoLineBreakInTags, ReadInv, Read
  PROVE  ReadInv'
<1>1. /\ handled' = handled /\ batch' = batch /\ unread # <<>>
      /\ reader' = ReadChar(reader, Head(unread)) /\ unread' = Tail(unread)
  BY DEF Read
<1>2. handled \in Seq(Handleable) /\ batch = Lines(handled)
  BY DEF ReadInv
<1>3. batch \in Seq(Text) /\ Len(batch) = Len(handled)
  BY <1>2, LinesType
<1>4. Reading(handled, batch, unread, reader)
  BY <1>1 DEF ReadInv, Posted
<1>5a. PICK i \in 1..Len(handled) :
         \E w : /\ unread = w \o Left(batch, i + 1)
                /\ InLine(reader, w, Point(handled[i]))
                /\ reader.points = PointsOf(handled, i - 1)
  BY <1>4 DEF Reading
<1>5. PICK w : /\ unread = w \o Left(batch, i + 1)
               /\ InLine(reader, w, Point(handled[i]))
               /\ reader.points = PointsOf(handled, i - 1)
  BY <1>5a
<1> DEFINE p == Point(handled[i])
           left == Left(batch, i + 1)
<1>6. IsPoint(p)
  BY <1>2, HandledArePoints
<1>7. left \in Text
  <2>1. i + 1 \in 1..(Len(batch) + 1)
    BY <1>3
  <2> QED
    BY <1>3, <2>1, LeftType
<1> HIDE DEF p, left
<1>8. Advances(reader, w, p)
  BY <1>5, <1>6, LineStep DEF p
<1>9. w \in Text /\ w # <<>>
  BY <1>8 DEF Advances
<1>10. Head(unread) = Head(w) /\ Tail(unread) = Tail(w) \o left
  <2> DEFINE c == Head(w)
             t == Tail(w)
  <2>1. c \in Char /\ t \in Text /\ w = <<c>> \o t
    BY <1>9 DEF Text
  <2> HIDE DEF c, t
  <2>2. unread = <<c>> \o (t \o left)
    <3>1. <<c>> \in Text
      BY <2>1, SingleType
    <3>2. (<<c>> \o t) \o left = <<c>> \o (t \o left)
      BY <1>7, <2>1, <3>1, TextAssociative
    <3> QED
      BY <1>5, <2>1, <3>2 DEF left
  <2>3. t \o left \in Text
    BY <1>7, <2>1, TextConcat
  <2>4. Head(unread) = c /\ Tail(unread) = t \o left
    BY <2>1, <2>2, <2>3, TextRead
  <2> QED
    BY <2>4 DEF c, t
<1>11. CASE InLine(ReadChar(reader, Head(w)), Tail(w), p)
            /\ ReadChar(reader, Head(w)).points = reader.points
  <2>1. Reading(handled, batch, unread', reader')
    BY <1>1, <1>5, <1>10, <1>11 DEF Reading, p, left
  <2> QED
    BY <1>1, <1>2, <2>1 DEF ReadInv
<1>12. CASE Tail(w) = <<>> /\ ReadChar(reader, Head(w)) =
              [Beginning EXCEPT !.points = Append(reader.points, p)]
  <2>1. unread' = left
    BY <1>1, <1>7, <1>10, <1>12, ConcatEmptySeq DEF Text
  <2>2. Append(PointsOf(handled, i - 1), p) = PointsOf(handled, i)
    <3> DEFINE P(j) == Point(handled[j])
    <3>1. PointsOf(handled, i - 1) = [j \in 1..(i - 1) |-> P(j)]
          /\ PointsOf(handled, i) = [j \in 1..i |-> P(j)] /\ p = P(i)
      BY DEF PointsOf, p
    <3> HIDE DEF P
    <3>2. i \in Nat /\ i > 0
      OBVIOUS
    <3> QED
      BY <3>1, <3>2
  <2>3. reader' = [Beginning EXCEPT !.points = PointsOf(handled, i)]
    BY <1>1, <1>5, <1>10, <1>12, <2>2
  <2>4. CASE i = Len(handled)
    <3>1. left = <<>>
      <4>1. Len(Ended(batch)) = Len(batch) /\ Len(batch) \in Nat
        BY <1>3, EndedType
      <4>2. FlattenSeq(SubSeq(Ended(batch), Len(Ended(batch)) + 1, Len(Ended(batch)))) = <<>>
        BY <4>1, FlattenPastLast
      <4> QED
        BY <1>3, <2>4, <4>1, <4>2 DEF Left, left
    <3> QED
      BY <1>1, <1>2, <2>1, <2>3, <2>4, <3>1 DEF ReadInv
  <2>5. CASE i # Len(handled)
    <3>1. i + 1 \in 1..Len(handled) /\ (i + 1) - 1 = i
      BY <1>2, <2>5
    <3>2. Reading(handled, batch, unread', reader')
      BY <1>2, <2>1, <2>3, <3>1, ReadingStarts DEF left
    <3> QED
      BY <1>1, <1>2, <3>2 DEF ReadInv
  <2> QED
    BY <2>4, <2>5
<1> QED
  BY <1>8, <1>11, <1>12 DEF Advances

LEMMA NextReadInv ==
  ASSUME NoLineBreakInTags, ReadInv, [Next]_vars
  PROVE  ReadInv'
<1>1. CASE \E msg \in Messages : Persist(msg)
  BY <1>1, PersistReadInv
<1>2. CASE Write
  BY <1>2, WriteReadInv
<1>3. CASE Read
  BY <1>3, ReadReadInv
<1>4. CASE UNCHANGED vars
  BY <1>4 DEF vars, ReadInv, Posted
<1> QED
  BY <1>1, <1>2, <1>3, <1>4 DEF Next

LEMMA ReadInvImplies ==
  ASSUME NoLineBreakInTags, ReadInv
  PROVE  BodyReadsBack
<1>1. SUFFICES ASSUME Posted, unread = <<>>
               PROVE  reader.points = [i \in DOMAIN handled |-> Point(handled[i])]
  BY DEF BodyReadsBack
<1>2. handled \in Seq(Handleable) /\ batch = Lines(handled)
  BY DEF ReadInv
<1>3. ~Reading(handled, batch, unread, reader)
  <2>1. SUFFICES ASSUME NEW i \in 1..Len(handled), NEW w,
                        unread = w \o Left(batch, i + 1),
                        InLine(reader, w, Point(handled[i]))
                 PROVE  FALSE
    BY DEF Reading
  <2>2. batch \in Seq(Text) /\ Len(batch) = Len(handled)
    BY <1>2, LinesType
  <2>3. Left(batch, i + 1) \in Text
    <3>1. i + 1 \in 1..(Len(batch) + 1)
      BY <2>2
    <3> QED
      BY <2>2, <3>1, LeftType
  <2>4. w \in Text /\ w # <<>>
    BY <1>2, <2>1, HandledArePoints, LineStep DEF Advances
  <2>5. Len(w \o Left(batch, i + 1)) = Len(w) + Len(Left(batch, i + 1))
        /\ Len(w) > 0 /\ Len(Left(batch, i + 1)) >= 0
    BY <2>3, <2>4 DEF Text
  <2>6. Len(unread) = 0
    BY <1>1
  <2> QED
    BY <2>1, <2>5, <2>6
<1>4. reader = [Beginning EXCEPT !.points = PointsOf(handled, Len(handled))]
  BY <1>1, <1>3 DEF ReadInv
<1>5. reader.points = PointsOf(handled, Len(handled))
  BY <1>4 DEF Beginning
<1>6. DOMAIN handled = 1..Len(handled)
  BY <1>2
<1> QED
  BY <1>5, <1>6 DEF PointsOf

(* For every set of messages of which no tag has a line break within it,   *)
(* every size of a batch, and texts of any length and content: each        *)
(* message of a batch comes out of the database's reading of the body as   *)
(* its point. point.rs renders and escapes it, and build_body joins the    *)
(* lines (BodyReadsBack).                                                  *)
THEOREM BodyReadsBackAlways ==
  ASSUME NoLineBreakInTags
  PROVE  Spec => []BodyReadsBack
<1>1. Init => ReadInv
  BY InitReadInv
<1>2. ReadInv /\ [Next]_vars => ReadInv'
  BY NextReadInv
<1>3. ReadInv => BodyReadsBack
  BY ReadInvImplies
<1> QED
  BY <1>1, <1>2, <1>3, PTL DEF Spec

(* Without a line break within a tag, the database also has of each        *)
(* message the tags that the message has, and one point of each: the line  *)
(* break is the only character that the escapes of tags do not keep        *)
(* (TagsAreEscaped).                                                       *)
THEOREM TagsAreEscapedWithoutLineBreaks ==
  ASSUME NoLineBreakInTags
  PROVE  Spec => []TagsAreEscaped
<1>1. Init => ReadInv
  BY InitReadInv
<1>2. ReadInv /\ [Next]_vars => ReadInv'
  BY NextReadInv
<1>3. ReadInv => TagsAreEscaped
  <2>1. SUFFICES ASSUME ReadInv, Posted, unread = <<>>
                 PROVE  /\ Len(reader.points) = Len(handled)
                        /\ \A i \in DOMAIN handled : reader.points[i].tags = TagsOf(handled[i])
    BY DEF TagsAreEscaped
  <2>2. reader.points = [i \in DOMAIN handled |-> Point(handled[i])]
    BY <2>1, ReadInvImplies DEF BodyReadsBack
  <2>3. Len(handled) \in Nat /\ DOMAIN handled = 1..Len(handled)
    BY <2>1, LenProperties DEF ReadInv
  <2>4. \A m : Point(m).tags = TagsOf(m)
    BY DEF Point, SensorToPoint, StatusToPoint
  <2>5. Len(reader.points) = Len(handled)
    BY <2>2, <2>3
  <2>6. \A i \in DOMAIN handled : reader.points[i] = Point(handled[i])
    BY <2>2
  <2> QED
    BY <2>4, <2>5, <2>6
<1> QED
  BY <1>1, <1>2, <1>3, PTL DEF Spec
=============================================================================
