--------------------------- MODULE CliParserProofs ---------------------------
(***************************************************************************)
(* Lines of any length, over any symbols: the tokens are the words, and    *)
(* only the words decide what the command is.                              *)
(***************************************************************************)
EXTENDS CliParserCheck, FiniteSetTheorems, SequenceTheorems, TLAPS

\* What a line, or a line typed plainly, consists of.
Symbol == First \cup Later \cup {Space}

----------------------------------------------------------------------------
\* Numbers.  That < is well founded on Nat says that every set of natural
\* numbers has a least element; a set takes the place of a predicate.
LEMMA LeastNatural ==
  ASSUME NEW S \in SUBSET Nat, S # {}
  PROVE  \E m \in S : \A n \in S : m <= n
<1>1. \E m \in S : \A n \in S : <<n, m>> \notin OpToRel(<, Nat)
  BY NatLessThanWellFounded, WFMin
<1>2. \A n, m \in Nat : n < m => <<n, m>> \in OpToRel(<, Nat)
  BY DEF OpToRel
<1>3. \A n, m \in Nat : m <= n \/ n < m
  OBVIOUS
<1> QED
  BY <1>1, <1>2, <1>3

LEMMA SetInduction ==
  ASSUME NEW S, 0 \in S, \A n \in Nat : n \in S => n + 1 \in S
  PROVE  \A n \in Nat : n \in S
<1> SUFFICES ASSUME Nat \ S # {} PROVE FALSE
  OBVIOUS
<1>1. PICK m \in Nat \ S : \A n \in Nat \ S : m <= n
  BY LeastNatural
<1>2. m # 0
  BY <1>1
<1>3. m - 1 \in Nat /\ m - 1 \in S
  BY <1>1, <1>2
<1> QED
  BY <1>1, <1>3

LEMMA MinIsLeast ==
  ASSUME NEW S \in SUBSET Nat, S # {}
  PROVE  /\ Min(S) \in S
         /\ \A n \in S : Min(S) <= n
<1>1. \E m \in S : \A n \in S : m <= n
  BY LeastNatural
<1> QED
  BY <1>1 DEF Min

LEMMA MaxIsGreatest ==
  ASSUME NEW m \in Nat, NEW S \in SUBSET (0..m), S # {}
  PROVE  /\ Max(S) \in S
         /\ \A n \in S : n <= Max(S)
<1> DEFINE T == {k \in Nat : \A n \in S : n <= k}
<1>1. m \in T
  OBVIOUS
<1>2. PICK k \in T : \A j \in T : k <= j
  BY <1>1, LeastNatural
<1>3. k \in S
  <2> SUFFICES ASSUME k \notin S PROVE FALSE
    OBVIOUS
  <2>1. PICK n \in S : TRUE
    OBVIOUS
  <2>2. n \in Nat /\ n <= k /\ n # k
    BY <1>2
  <2>3. k - 1 \in Nat
    BY <1>2, <2>2
  <2>4. ASSUME NEW j \in S
        PROVE  j <= k - 1
    BY <1>2, <2>4
  <2>5. k - 1 \in T
    BY <2>3, <2>4
  <2> QED
    BY <1>2, <2>5
<1>4. \E x \in S : \A n \in S : x >= n
  BY <1>2, <1>3
<1>5. Max(S) \in S /\ \A n \in S : Max(S) >= n
  BY <1>4 DEF Max
<1> QED
  BY <1>5

\* The greatest is the one that all others do not exceed.
LEMMA MaxIs ==
  ASSUME NEW m \in Nat, NEW S \in SUBSET (0..m), NEW k \in S, \A n \in S : n <= k
  PROVE  Max(S) = k
<1>1. Max(S) \in S /\ k <= Max(S)
  BY MaxIsGreatest
<1> DEFINE max == Max(S)
<1>2. max \in S /\ k <= max
  BY <1>1
<1> HIDE DEF max
<1>3. max \in Nat /\ k \in Nat /\ max <= k
  BY <1>2
<1>4. max = k
  BY <1>2, <1>3
<1> QED
  BY <1>4 DEF max

----------------------------------------------------------------------------
\* The words of a string.
LEMMA SolidFacts ==
  ASSUME NEW string \in Seq(Symbol)
  PROVE  /\ Len(string) \in Nat
         /\ Solid(string) \subseteq 1..Len(string)
         /\ Starts(string) \subseteq Solid(string)
         /\ IsFiniteSet(Starts(string))
         /\ Cardinality(Starts(string)) \in Nat
<1>1. /\ Len(string) \in Nat /\ Solid(string) \subseteq 1..Len(string)
      /\ Starts(string) \subseteq Solid(string)
  BY DEF Solid, Starts
<1>2. IsFiniteSet(1..Len(string))
  BY <1>1, FS_Interval
<1>3. IsFiniteSet(Starts(string))
  BY <1>1, <1>2, FS_Subset
<1> QED
  BY <1>1, <1>3, FS_CardinalityType

\* A stretch ends before the first separator.
LEMMA WordEnds ==
  ASSUME NEW string \in Seq(Symbol), NEW i \in Starts(string),
         NEW j \in i..Len(string), i..j \subseteq Solid(string),
         j + 1 \notin Solid(string)
  PROVE  Word(string, i) = SubSeq(string, i, j)
<1> DEFINE Stretch == {n \in i..Len(string) : i..n \subseteq Solid(string)}
<1>1. Len(string) \in Nat /\ i \in 1..Len(string) /\ j \in Nat
  BY SolidFacts
<1>2. j \in Stretch /\ Stretch \in SUBSET (0..Len(string))
  BY <1>1
<1>3. ASSUME NEW n \in Stretch
      PROVE  n <= j
  <2>1. n \in Nat /\ (n > j => j + 1 \in i..n)
    BY <1>1, <1>3
  <2> QED
    BY <1>1, <1>3, <2>1
<1> HIDE DEF Stretch
<1>4. Max(Stretch) = j
  BY <1>1, <1>2, <1>3, MaxIs
<1> QED
  BY <1>4 DEF Word, Stretch

\* Every stretch ends somewhere.
LEMMA WordIsSolid ==
  ASSUME NEW string \in Seq(Symbol), NEW i \in Starts(string)
  PROVE  \E j \in i..Len(string) :
           /\ i..j \subseteq Solid(string) /\ j + 1 \notin Solid(string)
           /\ Word(string, i) = SubSeq(string, i, j)
<1> DEFINE Stretch == {n \in i..Len(string) : i..n \subseteq Solid(string)}
           j == Max(Stretch)
<1>1. Len(string) \in Nat /\ i \in 1..Len(string) /\ i \in Solid(string)
  BY SolidFacts
<1>2. i \in Stretch /\ Stretch \in SUBSET (0..Len(string))
  BY <1>1
<1> HIDE DEF Stretch
<1>3. j \in Stretch /\ \A n \in Stretch : n <= j
  BY <1>1, <1>2, MaxIsGreatest
<1> HIDE DEF j
<1>4. j \in i..Len(string) /\ i..j \subseteq Solid(string)
  BY <1>3 DEF Stretch
<1>5. j + 1 \notin Solid(string)
  <2> SUFFICES ASSUME j + 1 \in Solid(string) PROVE FALSE
    OBVIOUS
  <2>1. j + 1 \in i..Len(string)
    BY <1>1, <1>4, SolidFacts
  <2>2. i..(j + 1) \subseteq Solid(string)
    BY <1>1, <1>4
  <2>3. j + 1 \in Stretch
    BY <2>1, <2>2 DEF Stretch
  <2> QED
    BY <1>1, <1>3, <1>4, <2>3
<1> QED
  BY <1>4, <1>5, WordEnds

\* How many have begun tells the starts apart.
LEMMA BegunDiffers ==
  ASSUME NEW string \in Seq(Symbol), NEW i \in Starts(string), NEW j \in Starts(string),
         i < j
  PROVE  Begun(string, i) < Begun(string, j)
<1> DEFINE To(n) == {m \in Starts(string) : m <= n}
<1>1. i \in Nat /\ j \in Nat
  BY SolidFacts
<1>2. IsFiniteSet(To(i)) /\ IsFiniteSet(To(j))
  <2>1. To(i) \in SUBSET Starts(string) /\ To(j) \in SUBSET Starts(string)
    OBVIOUS
  <2> QED
    BY <2>1, SolidFacts, FS_Subset
<1>3. To(i) \in SUBSET To(j) /\ j \in To(j) /\ j \notin To(i)
  BY <1>1, SolidFacts
<1> HIDE DEF To
<1>4. /\ Cardinality(To(i)) \in Nat /\ Cardinality(To(j)) \in Nat
      /\ Cardinality(To(i)) <= Cardinality(To(j))
      /\ Cardinality(To(i)) # Cardinality(To(j))
  BY <1>2, <1>3, FS_Subset, FS_CardinalityType
<1> QED
  BY <1>4 DEF Begun, To

LEMMA BegunType ==
  ASSUME NEW string \in Seq(Symbol), NEW i \in Starts(string)
  PROVE  Begun(string, i) \in 1..Cardinality(Starts(string))
<1> DEFINE To == {m \in Starts(string) : m <= i}
<1>1. To \in SUBSET Starts(string) /\ i \in To
  BY SolidFacts
<1> HIDE DEF To
<1>2. IsFiniteSet(To) /\ Cardinality(To) <= Cardinality(Starts(string))
  BY <1>1, SolidFacts, FS_Subset
<1>3. Cardinality(To) \in Nat /\ Cardinality(To) # 0
  BY <1>1, <1>2, FS_CardinalityType, FS_EmptySet
<1> QED
  BY <1>2, <1>3, SolidFacts DEF Begun, To

\* The word that begins at a start is found at its place among the words.
LEMMA WordAt ==
  ASSUME NEW string \in Seq(Symbol), NEW i \in Starts(string)
  PROVE  Words(string)[Begun(string, i)] = Word(string, i)
<1> DEFINE n == Begun(string, i)
           found == CHOOSE j \in Starts(string) : Begun(string, j) = n
<1>1. found \in Starts(string) /\ Begun(string, found) = n
  OBVIOUS
<1> HIDE DEF found
<1>2. ASSUME NEW j \in Starts(string), Begun(string, j) = n
      PROVE  j = i
  <2>1. ~(i < j) /\ ~(j < i) /\ i \in Nat /\ j \in Nat
    <3>1. Begun(string, i) \in Nat /\ Begun(string, j) \in Nat
      BY BegunType, SolidFacts
    <3> QED
      BY <1>2, <3>1, BegunDiffers, SolidFacts
  <2> QED
    BY <2>1
<1>3. n \in 1..Cardinality(Starts(string))
  BY BegunType
<1> QED
  BY <1>1, <1>2, <1>3, Zenon DEF Words, found

----------------------------------------------------------------------------
\* The scans of SplitWhitespaceView, and its recursive function.
Begins(string, i) == {j \in Solid(string) : j >= i}
Ends(string, i) ==
  {j \in i..Len(string) : j > Min(Begins(string, i)) /\ IsSpace(string[j])}
End(string, i) == Min(Ends(string, i) \cup {Len(string) + 1})
TokensOf(f, string, i) ==
  IF Begins(string, i) = {} THEN <<>>
  ELSE <<SubSeq(string, Min(Begins(string, i)), End(string, i) - 1)>> \o f[End(string, i)]

\* Where the scans from i on end.
LEMMA ScansEnd ==
  ASSUME NEW string \in Seq(Symbol), NEW i \in 1..(Len(string) + 1),
         Begins(string, i) # {}
  PROVE  \E b \in i..Len(string) : \E e \in (b + 1)..(Len(string) + 1) :
           /\ Min(Begins(string, i)) = b /\ End(string, i) = e
           /\ \A j \in i..(b - 1) : j \notin Solid(string)
           /\ b..(e - 1) \subseteq Solid(string) /\ e \notin Solid(string)
<1> DEFINE b == Min(Begins(string, i))
           e == End(string, i)
           size == Len(string)
<1>1. size \in Nat /\ Solid(string) \subseteq 1..size
  BY SolidFacts
<1>2. Begins(string, i) \in SUBSET Nat
  BY <1>1 DEF Begins
<1>3. b \in Begins(string, i) /\ \A j \in Begins(string, i) : b <= j
  BY <1>2, MinIsLeast
<1>4. b \in i..size /\ b \in Solid(string)
  BY <1>1, <1>3 DEF Begins
<1>5. ASSUME NEW j \in i..(b - 1), j \in Solid(string)
      PROVE  FALSE
  <2>1. j \in Begins(string, i)
    BY <1>5 DEF Begins
  <2> HIDE DEF b
  <2> QED
    BY <1>1, <1>3, <1>4, <2>1
<1>6. /\ Ends(string, i) \cup {size + 1} \in SUBSET Nat
      /\ Ends(string, i) \cup {size + 1} # {}
  BY <1>1 DEF Ends
<1>7. /\ e \in Ends(string, i) \cup {size + 1}
      /\ \A j \in Ends(string, i) \cup {size + 1} : e <= j
  BY <1>6, MinIsLeast DEF End
<1>8. Ends(string, i) = {j \in i..size : j > b /\ IsSpace(string[j])}
  BY DEF Ends
<1> HIDE DEF b, e
<1>9. e \in (b + 1)..(size + 1)
  BY <1>1, <1>4, <1>7, <1>8
<1>10. ASSUME NEW j \in b..(e - 1)
       PROVE  j \in Solid(string)
  <2>1. CASE j = b
    BY <1>4, <2>1
  <2>2. CASE j # b
    <3>1. j \in i..size /\ j > b /\ j \notin Ends(string, i)
      BY <1>1, <1>4, <1>7, <1>9, <2>2
    <3>2. ~IsSpace(string[j]) /\ j \in DOMAIN string
      BY <1>1, <1>8, <3>1
    <3> QED
      BY <3>2 DEF Solid
  <2> QED
    BY <2>1, <2>2
<1>11. e \notin Solid(string)
  <2>1. CASE e = size + 1
    BY <1>1, <2>1
  <2>2. CASE e \in Ends(string, i)
    BY <1>8, <2>2 DEF Solid
  <2> QED
    BY <1>7, <2>1, <2>2
<1> QED
  BY <1>4, <1>5, <1>9, <1>10, <1>11 DEF b, e

\* The recursive function of SplitWhitespaceView, from a position on.
IsTokens(f, string, k) == f = [i \in k..(Len(string) + 1) |-> TokensOf(f, string, i)]

LEMMA TokensExist ==
  ASSUME NEW string \in Seq(Symbol)
  PROVE  \E f : IsTokens(f, string, 1)
<1> DEFINE size == Len(string)
           S == {m \in Nat : m <= size + 1 => \E f : IsTokens(f, string, (size + 2) - m)}
<1>1. size \in Nat
  OBVIOUS
<1>2. 0 \in S
  <2>1. (size + 2) - 0 = size + 2 /\ (size + 2)..(size + 1) = {}
    BY <1>1
  <2>2. IsTokens([i \in (size + 2)..(size + 1) |-> 0], string, size + 2)
    BY <2>1 DEF IsTokens
  <2> QED
    BY <2>1, <2>2
<1>3. ASSUME NEW m \in Nat, m \in S
      PROVE  m + 1 \in S
  <2> SUFFICES ASSUME m + 1 <= size + 1
               PROVE  \E f : IsTokens(f, string, (size + 2) - (m + 1))
    OBVIOUS
  <2> DEFINE k == (size + 2) - (m + 1)
  <2>1. /\ k \in 1..(size + 1) /\ k + 1 = (size + 2) - m /\ m <= size + 1
        /\ \A i \in k..(size + 1) : i = k \/ i \in (k + 1)..(size + 1)
    BY <1>1
  <2>2. PICK f : IsTokens(f, string, k + 1)
    BY <1>3, <2>1
  <2> HIDE DEF k
  <2> DEFINE g == [i \in k..(size + 1) |-> IF i = k THEN TokensOf(f, string, k) ELSE f[i]]
  <2>3. \A i \in (k + 1)..(size + 1) : g[i] = f[i]
    BY <1>1, <2>1
  <2>4. ASSUME NEW i \in k..(size + 1)
        PROVE  TokensOf(g, string, i) = TokensOf(f, string, i)
    <3>1. CASE Begins(string, i) = {}
      BY <3>1 DEF TokensOf
    <3>2. CASE Begins(string, i) # {}
      <4>1. i \in 1..(size + 1)
        BY <1>1, <2>1
      <4>2. PICK b \in i..size : End(string, i) \in (b + 1)..(size + 1)
        BY <3>2, <4>1, ScansEnd
      <4>3. End(string, i) \in (k + 1)..(size + 1)
        BY <1>1, <2>1, <4>2
      <4>4. g[End(string, i)] = f[End(string, i)]
        BY <2>3, <4>3
      <4> HIDE DEF g
      <4> QED
        BY <4>4 DEF TokensOf
    <3> QED
      BY <3>1, <3>2
  <2>5. ASSUME NEW i \in k..(size + 1)
        PROVE  g[i] = TokensOf(g, string, i)
    <3>1. CASE i = k
      <4>1. g[i] = TokensOf(f, string, k)
        BY <3>1
      <4> HIDE DEF g
      <4> QED
        BY <2>4, <3>1, <4>1
    <3>2. CASE i # k
      <4>1. i \in (k + 1)..(size + 1) /\ g[i] = f[i]
        BY <2>1, <3>2
      <4>2. f[i] = TokensOf(f, string, i)
        BY <2>2, <4>1 DEF IsTokens
      <4> HIDE DEF g
      <4> QED
        BY <2>4, <4>1, <4>2
    <3> QED
      BY <3>1, <3>2
  <2>6. IsTokens(g, string, k)
    BY <2>5 DEF IsTokens
  <2> HIDE DEF g
  <2> QED
    BY <2>6 DEF k
<1> HIDE DEF S
<1>4. size + 1 \in S
  BY <1>1, <1>2, <1>3, SetInduction
<1>5. (size + 2) - (size + 1) = 1
  BY <1>1
<1> QED
  BY <1>1, <1>4, <1>5 DEF S

LEMMA SplitIsTokens ==
  ASSUME NEW string \in Seq(Symbol)
  PROVE  \E f : /\ SplitWhitespaceView(string) = f[1]
                /\ \A i \in 1..(Len(string) + 1) : f[i] = TokensOf(f, string, i)
<1> DEFINE f == CHOOSE tokensFrom : IsTokens(tokensFrom, string, 1)
<1>1. IsTokens(f, string, 1)
  BY TokensExist
<1>2. SplitWhitespaceView(string) = f[1]
  BY DEF SplitWhitespaceView, IsTokens, TokensOf, Begins, Ends, End
<1> HIDE DEF f
<1>3. \A i \in 1..(Len(string) + 1) : f[i] = TokensOf(f, string, i)
  BY <1>1 DEF IsTokens
<1> QED
  BY <1>2, <1>3

----------------------------------------------------------------------------
\* What the tokens from a position on have to be: the words that begin there.
FromOn(whole, k) == {s \in Starts(whole) : s >= k}
Rank(whole, k, s) == Cardinality({j \in FromOn(whole, k) : j <= s})
AreWords(tokens, whole, k) ==
  /\ tokens \in Seq(Seq(Symbol))
  /\ Len(tokens) = Cardinality(FromOn(whole, k))
  /\ \A n \in 1..Len(tokens) : \E s \in FromOn(whole, k) :
       Rank(whole, k, s) = n /\ tokens[n] = Word(whole, s)

LEMMA FromOnFinite ==
  ASSUME NEW whole \in Seq(Symbol), NEW k \in Nat
  PROVE  /\ IsFiniteSet(FromOn(whole, k)) /\ Cardinality(FromOn(whole, k)) \in Nat
         /\ FromOn(whole, k) \subseteq 1..Len(whole)
         /\ \A s : /\ IsFiniteSet({j \in FromOn(whole, k) : j <= s})
                   /\ Rank(whole, k, s) \in Nat
<1>1. FromOn(whole, k) \in SUBSET Starts(whole) /\ FromOn(whole, k) \subseteq 1..Len(whole)
  BY SolidFacts DEF FromOn
<1>2. IsFiniteSet(FromOn(whole, k))
  BY <1>1, SolidFacts, FS_Subset
<1>3. ASSUME NEW s
      PROVE  /\ IsFiniteSet({j \in FromOn(whole, k) : j <= s})
             /\ Rank(whole, k, s) \in Nat
  <2> DEFINE To == {j \in FromOn(whole, k) : j <= s}
  <2>1. To \in SUBSET FromOn(whole, k)
    OBVIOUS
  <2> HIDE DEF To
  <2>2. IsFiniteSet(To) /\ Cardinality(To) \in Nat
    BY <1>2, <2>1, FS_Subset, FS_CardinalityType
  <2> QED
    BY <2>2 DEF Rank, To
<1> QED
  BY <1>1, <1>2, <1>3, FS_CardinalityType

\* One more word in front.
LEMMA OneMoreWord ==
  ASSUME NEW whole \in Seq(Symbol), NEW k \in Nat, NEW b \in Nat, NEW e \in Nat,
         b < e, FromOn(whole, k) = {b} \cup FromOn(whole, e),
         NEW tokens, AreWords(tokens, whole, e), Word(whole, b) \in Seq(Symbol)
  PROVE  AreWords(<<Word(whole, b)>> \o tokens, whole, k)
<1> DEFINE word == Word(whole, b)
           more == <<word>> \o tokens
           size == Len(tokens)
<1>1. /\ tokens \in Seq(Seq(Symbol)) /\ size \in Nat /\ word \in Seq(Symbol)
      /\ size = Cardinality(FromOn(whole, e))
  BY DEF AreWords
<1> HIDE DEF word
<1>2. /\ more \in Seq(Seq(Symbol)) /\ Len(more) = size + 1 /\ more[1] = word
      /\ \A n \in 1..size : more[n + 1] = tokens[n]
  BY <1>1
<1> HIDE DEF more, size
<1>3. \A s \in FromOn(whole, e) : s \in Nat /\ s > b /\ s # b
  <2>1. FromOn(whole, e) \subseteq 1..Len(whole)
    BY FromOnFinite
  <2>2. \A s \in FromOn(whole, e) : s \in Nat /\ s >= e
    BY <2>1 DEF FromOn
  <2> QED
    BY <2>2
<1>4. Cardinality(FromOn(whole, k)) = size + 1
  <2>1. FromOn(whole, k) = FromOn(whole, e) \cup {b} /\ b \notin FromOn(whole, e)
    BY <1>3
  <2>2. IsFiniteSet(FromOn(whole, e))
    BY FromOnFinite
  <2>3. Cardinality(FromOn(whole, e) \cup {b}) = Cardinality(FromOn(whole, e)) + 1
    BY <2>1, <2>2, FS_AddElement
  <2> QED
    BY <1>1, <2>1, <2>3
<1>5. Rank(whole, k, b) = 1
  <2>1. {j \in FromOn(whole, k) : j <= b} = {b}
    BY <1>3
  <2> QED
    BY <2>1, FS_Singleton DEF Rank
<1>6. ASSUME NEW s \in FromOn(whole, e)
      PROVE  Rank(whole, k, s) = Rank(whole, e, s) + 1
  <2> DEFINE To == {j \in FromOn(whole, e) : j <= s}
  <2>1. {j \in FromOn(whole, k) : j <= s} = To \cup {b}
    BY <1>3
  <2>2. b \notin To
    BY <1>3
  <2>3. IsFiniteSet(To)
    BY FromOnFinite
  <2> HIDE DEF To
  <2>4. Cardinality(To \cup {b}) = Cardinality(To) + 1
    BY <2>2, <2>3, FS_AddElement
  <2> QED
    BY <2>1, <2>4 DEF Rank, To
<1>7. ASSUME NEW n \in 1..(size + 1)
      PROVE  \E s \in FromOn(whole, k) :
               Rank(whole, k, s) = n /\ more[n] = Word(whole, s)
  <2>1. CASE n = 1
    BY <1>2, <1>5, <2>1 DEF word
  <2>2. CASE n # 1
    <3>1. n - 1 \in 1..size /\ (n - 1) + 1 = n
      BY <1>1, <2>2
    <3>2. PICK s \in FromOn(whole, e) :
            Rank(whole, e, s) = n - 1 /\ tokens[n - 1] = Word(whole, s)
      BY <3>1 DEF AreWords, size
    <3>3. Rank(whole, k, s) = n
      BY <1>6, <3>1, <3>2
    <3>4. more[n] = Word(whole, s)
      BY <1>2, <3>1, <3>2
    <3> QED
      BY <3>2, <3>3, <3>4
  <2> QED
    BY <2>1, <2>2
<1> QED
  BY <1>2, <1>4, <1>7 DEF AreWords, more, word

\* A string that lies in a longer one, with separators only around it.
Within(string, whole, d) ==
  /\ d + Len(string) <= Len(whole)
  /\ \A j \in 1..Len(string) : string[j] = whole[j + d]
  /\ Solid(whole) \subseteq (d + 1)..(d + Len(string))

LEMMA SolidWithin ==
  ASSUME NEW string \in Seq(Symbol), NEW whole \in Seq(Symbol), NEW d \in Nat,
         Within(string, whole, d)
  PROVE  \A j \in 1..Len(string) : j \in Solid(string) <=> j + d \in Solid(whole)
<1> SUFFICES ASSUME NEW j \in 1..Len(string)
             PROVE  j \in Solid(string) <=> j + d \in Solid(whole)
  OBVIOUS
<1>1. j \in DOMAIN string /\ j + d \in DOMAIN whole /\ string[j] = whole[j + d]
  BY DEF Within
<1> QED
  BY <1>1 DEF Solid

\* The first token from a position between two words on.
LEMMA FirstToken ==
  ASSUME NEW string \in Seq(Symbol), NEW whole \in Seq(Symbol), NEW d \in Nat,
         Within(string, whole, d), NEW i \in 1..(Len(string) + 1),
         i + d \notin Solid(whole) \/ (i + d) - 1 \notin Solid(whole)
  PROVE  /\ Begins(string, i) = {} => FromOn(whole, i + d) = {}
         /\ Begins(string, i) # {} =>
              LET b == Min(Begins(string, i))
                  e == End(string, i)
              IN  /\ b \in Nat /\ e \in (i + 1)..(Len(string) + 1) /\ b < e
                  /\ e + d \notin Solid(whole)
                  /\ FromOn(whole, i + d) = {b + d} \cup FromOn(whole, e + d)
                  /\ Word(whole, b + d) = SubSeq(string, b, e - 1)
                  /\ Word(whole, b + d) \in Seq(Symbol)
<1> DEFINE size == Len(string)
<1>1. /\ size \in Nat /\ Len(whole) \in Nat /\ d + size <= Len(whole)
      /\ Solid(string) \subseteq 1..size
      /\ Solid(whole) \subseteq (d + 1)..(d + size)
      /\ Starts(whole) \subseteq Solid(whole)
  BY SolidFacts DEF Within
<1>2. \A s \in Solid(whole) : s - d \in Solid(string) /\ s \in Nat
  <2>1. ASSUME NEW s \in Solid(whole)
        PROVE  s - d \in Solid(string) /\ s \in Nat
    <3>1. s - d \in 1..size /\ (s - d) + d = s /\ s \in Nat
      BY <1>1
    <3> QED
      BY <3>1, SolidWithin
  <2> QED
    BY <2>1
<1>3. CASE Begins(string, i) = {}
  <2>1. ASSUME NEW s \in FromOn(whole, i + d)
        PROVE  FALSE
    <3>1. s \in Solid(whole) /\ s >= i + d
      BY <1>1 DEF FromOn
    <3>2. s - d \in Begins(string, i)
      BY <1>2, <3>1 DEF Begins
    <3> QED
      BY <1>3, <3>2
  <2> QED
    BY <1>3, <2>1
<1>4. CASE Begins(string, i) # {}
  <2>1. PICK b \in i..size : \E e \in (b + 1)..(size + 1) :
           /\ Min(Begins(string, i)) = b /\ End(string, i) = e
           /\ \A j \in i..(b - 1) : j \notin Solid(string)
           /\ b..(e - 1) \subseteq Solid(string) /\ e \notin Solid(string)
    BY <1>4, ScansEnd
  <2>2. PICK e \in (b + 1)..(size + 1) :
           /\ Min(Begins(string, i)) = b /\ End(string, i) = e
           /\ \A j \in i..(b - 1) : j \notin Solid(string)
           /\ b..(e - 1) \subseteq Solid(string) /\ e \notin Solid(string)
    BY <2>1
  <2>3. b \in Nat /\ e \in Nat /\ b < e /\ e \in (i + 1)..(size + 1)
    BY <1>1
  <2>4. ASSUME NEW j \in (b + d)..((e - 1) + d)
        PROVE  j \in Solid(whole)
    <3>1. j - d \in b..(e - 1) /\ (j - d) + d = j
      BY <2>3
    <3>2. j - d \in Solid(string) /\ j - d \in 1..size
      BY <1>1, <2>2, <3>1
    <3> QED
      BY <3>1, <3>2, SolidWithin
  <2>5. e + d \notin Solid(whole)
    <3> SUFFICES ASSUME e + d \in Solid(whole) PROVE FALSE
      OBVIOUS
    <3>1. (e + d) - d \in Solid(string) /\ (e + d) - d = e
      BY <1>2, <2>3
    <3> QED
      BY <2>2, <3>1
  <2>6. ASSUME NEW j \in (i + d)..((b - 1) + d), j \in Solid(whole)
        PROVE  FALSE
    <3>1. j - d \in i..(b - 1)
      BY <2>3
    <3> QED
      BY <1>2, <2>2, <2>6, <3>1
  <2>7. b + d \in Starts(whole)
    <3>1. b + d \in Solid(whole)
      BY <2>3, <2>4
    <3>2. (b + d) - 1 \notin Solid(whole)
      <4>1. CASE b = i
        BY <3>1, <4>1
      <4>2. CASE b # i
        <5>1. (b + d) - 1 \in (i + d)..((b - 1) + d)
          BY <2>3, <4>2
        <5> QED
          BY <2>6, <5>1
      <4> QED
        BY <4>1, <4>2
    <3> QED
      BY <3>1, <3>2 DEF Starts
  <2>8. FromOn(whole, i + d) = {b + d} \cup FromOn(whole, e + d)
    <3>1. ASSUME NEW s \in FromOn(whole, i + d), s # b + d
          PROVE  s \in FromOn(whole, e + d)
      <4>1. /\ s \in Starts(whole) /\ s \in Solid(whole) /\ s - 1 \notin Solid(whole)
            /\ s >= i + d /\ s \in Nat
        BY <1>1, <1>2, <3>1 DEF FromOn, Starts
      <4>2. s \notin (i + d)..((b - 1) + d) /\ s - 1 \notin (b + d)..((e - 1) + d)
        BY <2>4, <2>6, <4>1
      <4>3. s >= e + d
        BY <2>3, <3>1, <4>1, <4>2
      <4> QED
        BY <4>1, <4>3 DEF FromOn
    <3>2. ASSUME NEW s \in FromOn(whole, e + d)
          PROVE  s \in FromOn(whole, i + d)
      <4>1. s \in Starts(whole) /\ s \in Nat /\ s >= e + d /\ e + d >= i + d
        BY <1>1, <1>2, <2>3 DEF FromOn
      <4>2. s >= i + d
        BY <2>3, <4>1
      <4> QED
        BY <4>1, <4>2 DEF FromOn
    <3>3. b + d \in FromOn(whole, i + d)
      <4>1. b + d >= i + d
        BY <2>1, <2>3
      <4> QED
        BY <2>7, <4>1 DEF FromOn
    <3> QED
      BY <3>1, <3>2, <3>3
  <2>9. Word(whole, b + d) = SubSeq(whole, b + d, (e - 1) + d)
    <3>1. (e - 1) + d \in (b + d)..Len(whole) /\ ((e - 1) + d) + 1 = e + d
      BY <1>1, <2>3
    <3>2. (b + d)..((e - 1) + d) \subseteq Solid(whole)
      BY <2>4
    <3> QED
      BY <2>5, <2>7, <3>1, <3>2, WordEnds
  <2>10. SubSeq(whole, b + d, (e - 1) + d) = SubSeq(string, b, e - 1)
    <3> DEFINE one == SubSeq(whole, b + d, (e - 1) + d)
               other == SubSeq(string, b, e - 1)
    <3>1. /\ one = [n \in 1..(e - b) |-> whole[(b + d) + n - 1]]
          /\ other = [n \in 1..(e - b) |-> string[b + n - 1]]
      <4>1. /\ ((e - 1) + d) - (b + d) + 1 = e - b /\ (e - 1) - b + 1 = e - b
            /\ b + d \in Nat /\ e - 1 \in Nat /\ (e - 1) + d \in Nat
        BY <2>3
      <4> QED
        BY <4>1
    <3>2. ASSUME NEW n \in 1..(e - b)
          PROVE  whole[(b + d) + n - 1] = string[b + n - 1]
      <4>1. b + n - 1 \in 1..size /\ (b + n - 1) + d = (b + d) + n - 1
        BY <1>1, <2>1, <2>3
      <4> QED
        BY <4>1 DEF Within
    <3> HIDE DEF one, other
    <3> QED
      BY <3>1, <3>2 DEF one, other
  <2>11. SubSeq(string, b, e - 1) \in Seq(Symbol)
    <3>1. b \in 1..(size + 1) /\ e - 1 \in (b - 1)..size
      BY <1>1, <2>1, <2>3
    <3>2. \A n \in b..(e - 1) : string[n] \in Symbol
      BY <1>1, <2>1, <2>3
    <3> QED
      BY <1>1, <2>3, <3>1, <3>2
  <2> QED
    BY <1>4, <2>2, <2>3, <2>5, <2>8, <2>9, <2>10, <2>11
<1> QED
  BY <1>3, <1>4

\* The tokens from any position between two words on are the words from there on.
LEMMA TokensFromOn ==
  ASSUME NEW string \in Seq(Symbol), NEW whole \in Seq(Symbol), NEW d \in Nat,
         Within(string, whole, d), NEW f,
         \A i \in 1..(Len(string) + 1) : f[i] = TokensOf(f, string, i)
  PROVE  \A i \in 1..(Len(string) + 1) :
           i + d \notin Solid(whole) \/ (i + d) - 1 \notin Solid(whole) =>
             AreWords(f[i], whole, i + d)
<1> DEFINE size == Len(string)
           Good(i) == i + d \notin Solid(whole) \/ (i + d) - 1 \notin Solid(whole)
                        => AreWords(f[i], whole, i + d)
           Bad == {i \in 1..(size + 1) : ~Good(i)}
<1>1. size \in Nat
  OBVIOUS
<1> SUFFICES ASSUME Bad # {} PROVE FALSE
  OBVIOUS
<1>2. Bad \in SUBSET (0..(size + 1))
  BY <1>1
<1>3. PICK i \in Bad : \A j \in Bad : j <= i
  <2> HIDE DEF Bad
  <2>1. size + 1 \in Nat
    BY <1>1
  <2> DEFINE most == size + 1
  <2> HIDE DEF most, size
  <2>2. most \in Nat /\ Bad \in SUBSET (0..most) /\ Bad # {}
    BY <1>2, <2>1 DEF most
  <2>3. Max(Bad) \in Bad /\ \A j \in Bad : j <= Max(Bad)
    BY <2>2, MaxIsGreatest
  <2> QED
    BY <2>3
<1>4. /\ i \in 1..(size + 1) /\ i + d \in Nat
      /\ i + d \notin Solid(whole) \/ (i + d) - 1 \notin Solid(whole)
      /\ ~AreWords(f[i], whole, i + d)
  BY <1>1, <1>3
<1>5. f[i] = TokensOf(f, string, i)
  BY <1>4
<1>6. CASE Begins(string, i) = {}
  <2>1. f[i] = <<>> /\ FromOn(whole, i + d) = {}
    BY <1>4, <1>5, <1>6, FirstToken DEF TokensOf
  <2>2. Cardinality(FromOn(whole, i + d)) = 0
    BY <2>1, FS_EmptySet
  <2> QED
    BY <1>4, <2>1, <2>2 DEF AreWords
<1>7. CASE Begins(string, i) # {}
  <2> DEFINE b == Min(Begins(string, i))
             e == End(string, i)
  <2>1. /\ b \in Nat /\ e \in (i + 1)..(size + 1) /\ b < e
        /\ e + d \notin Solid(whole)
        /\ FromOn(whole, i + d) = {b + d} \cup FromOn(whole, e + d)
        /\ Word(whole, b + d) = SubSeq(string, b, e - 1)
        /\ Word(whole, b + d) \in Seq(Symbol)
    BY <1>4, <1>7, FirstToken
  <2>2. f[i] = <<SubSeq(string, b, e - 1)>> \o f[e]
    BY <1>5, <1>7 DEF TokensOf
  <2> HIDE DEF b, e
  <2>3. e \in 1..(size + 1) /\ e \notin Bad /\ e \in Nat
    BY <1>1, <1>3, <1>4, <2>1
  <2>4. AreWords(f[e], whole, e + d)
    BY <2>1, <2>3
  <2>5. b + d \in Nat /\ e + d \in Nat /\ b + d < e + d
    BY <2>1, <2>3
  <2>6. AreWords(<<Word(whole, b + d)>> \o f[e], whole, i + d)
    BY <1>4, <2>1, <2>4, <2>5, OneMoreWord
  <2> QED
    BY <1>4, <2>1, <2>2, <2>6
<1> QED
  BY <1>6, <1>7

\* A string's tokens are the words of every string it lies in, and each of these
\* begins somewhere.
LEMMA TokensOfWithin ==
  ASSUME NEW string \in Seq(Symbol), NEW whole \in Seq(Symbol), NEW d \in Nat,
         Within(string, whole, d)
  PROVE  /\ SplitWhitespaceView(string) = Words(whole)
         /\ Words(whole) \in Seq(Seq(Symbol))
         /\ Len(Words(whole)) = Cardinality(Starts(whole))
         /\ \A n \in 1..Len(Words(whole)) : \E s \in Starts(whole) :
              Begun(whole, s) = n /\ Words(whole)[n] = Word(whole, s)
<1>1. PICK f : /\ SplitWhitespaceView(string) = f[1]
               /\ \A i \in 1..(Len(string) + 1) : f[i] = TokensOf(f, string, i)
  BY SplitIsTokens
<1> DEFINE tokens == f[1]
<1>2. AreWords(tokens, whole, 1 + d)
  <2>1. (1 + d) - 1 = d /\ d \notin Solid(whole) /\ 1 \in 1..(Len(string) + 1)
    BY DEF Within
  <2> QED
    BY <1>1, <2>1, TokensFromOn
<1>3. FromOn(whole, 1 + d) = Starts(whole)
  <2>1. \A s \in Starts(whole) : s >= 1 + d
    BY SolidFacts DEF Within
  <2> QED
    BY <2>1 DEF FromOn
<1> HIDE DEF tokens
<1>4. /\ tokens \in Seq(Seq(Symbol)) /\ Len(tokens) = Cardinality(Starts(whole))
      /\ \A n \in 1..Len(tokens) : \E s \in Starts(whole) :
           Begun(whole, s) = n /\ tokens[n] = Word(whole, s)
  BY <1>2, <1>3 DEF AreWords, Rank, Begun
<1>5. ASSUME NEW n \in 1..Len(tokens)
      PROVE  tokens[n] = Words(whole)[n]
  <2>1. PICK s \in Starts(whole) : Begun(whole, s) = n /\ tokens[n] = Word(whole, s)
    BY <1>4
  <2> QED
    BY <2>1, WordAt
<1>6. tokens = [n \in 1..Len(tokens) |-> tokens[n]]
  BY <1>4
<1>7. Words(whole) = [n \in 1..Len(tokens) |-> Words(whole)[n]]
  BY <1>4 DEF Words
<1>8. tokens = Words(whole)
  BY <1>5, <1>6, <1>7
<1> QED
  BY <1>1, <1>4, <1>8 DEF tokens

\* The same of a string itself.
LEMMA WordsOf ==
  ASSUME NEW string \in Seq(Symbol)
  PROVE  /\ SplitWhitespaceView(string) = Words(string)
         /\ Words(string) \in Seq(Seq(Symbol))
         /\ Len(Words(string)) = Cardinality(Starts(string))
         /\ \A n \in 1..Len(Words(string)) : \E s \in Starts(string) :
              Begun(string, s) = n /\ Words(string)[n] = Word(string, s)
<1>1. Within(string, string, 0)
  <2>1. Len(string) \in Nat /\ Solid(string) \subseteq 1..Len(string)
    BY SolidFacts
  <2>2. \A j \in 1..Len(string) : j + 0 = j
    BY <2>1
  <2>3. 0 + Len(string) = Len(string) /\ 0 + 1 = 1
    BY <2>1
  <2> QED
    BY <2>1, <2>2, <2>3 DEF Within
<1> QED
  BY <1>1, TokensOfWithin

\* Trim leaves a string with the same words, and nothing only without words.
LEMMA TrimKeepsWords ==
  ASSUME NEW string \in Seq(Symbol)
  PROVE  /\ SplitWhitespaceView(Trim(string)) = Words(string)
         /\ Trim(string) = <<>> <=> Words(string) = <<>>
<1> DEFINE solid == Solid(string)
           size == Len(string)
<1>1. size \in Nat /\ solid \subseteq 1..size
  BY SolidFacts
<1>2. CASE solid = {}
  <2>1. Trim(string) = <<>>
    BY <1>2 DEF Trim
  <2>2. Within(<<>>, string, 0) /\ <<>> \in Seq(Symbol)
    BY <1>1, <1>2 DEF Within
  <2>3. SplitWhitespaceView(<<>>) = Words(string)
    BY <2>2, TokensOfWithin
  <2>4. Starts(string) = {}
    BY <1>2 DEF Starts
  <2>5. Len(Words(string)) = 0 /\ Words(string) \in Seq(Seq(Symbol))
    BY <2>4, WordsOf, FS_EmptySet
  <2> QED
    BY <2>1, <2>3, <2>5
<1>3. CASE solid # {}
  <2> DEFINE lo == Min(solid)
             hi == Max(solid)
  <2>1. lo \in solid /\ hi \in solid /\ \A n \in solid : lo <= n /\ n <= hi
    <3>1. solid \in SUBSET Nat /\ solid \in SUBSET (0..size)
      BY <1>1
    <3> HIDE DEF solid
    <3> QED
      BY <1>1, <1>3, <3>1, MinIsLeast, MaxIsGreatest
  <2>2. Trim(string) = SubSeq(string, lo, hi)
    BY <1>3 DEF Trim
  <2> HIDE DEF lo, hi, solid
  <2>3. lo \in 1..size /\ hi \in lo..size
    BY <1>1, <2>1
  <2> DEFINE part == SubSeq(string, lo, hi)
             d == lo - 1
  <2>4. /\ part \in Seq(Symbol) /\ Len(part) = (hi - lo) + 1
        /\ \A j \in 1..Len(part) : part[j] = string[j + d]
    <3>1. /\ Len(part) = (hi - lo) + 1
          /\ part = [n \in 1..((hi - lo) + 1) |-> string[lo + n - 1]]
      BY <1>1, <2>3
    <3>2. \A n \in 1..((hi - lo) + 1) :
            /\ lo + n - 1 = n + d /\ string[lo + n - 1] \in Symbol
      BY <1>1, <2>3
    <3> HIDE DEF part
    <3> QED
      BY <2>3, <3>1, <3>2
  <2> HIDE DEF part
  <2>5. Within(part, string, d)
    <3>1. d + Len(part) = hi /\ d + 1 = lo
      BY <1>1, <2>3, <2>4
    <3>2. solid \subseteq lo..hi
      BY <1>1, <2>1, <2>3
    <3> QED
      BY <1>1, <2>3, <2>4, <3>1, <3>2 DEF Within, solid
  <2>6. d \in Nat
    BY <2>3
  <2>7. SplitWhitespaceView(part) = Words(string)
    BY <2>4, <2>5, <2>6, TokensOfWithin
  <2>8. Len(part) # 0
    BY <1>1, <2>3, <2>4
  <2>9. lo \in Starts(string)
    <3>1. lo - 1 \notin solid
      BY <1>1, <2>1, <2>3
    <3> QED
      BY <2>1, <3>1 DEF Starts, solid
  <2>10. Cardinality(Starts(string)) # 0
    BY <2>9, SolidFacts, FS_EmptySet
  <2>11. Len(Words(string)) # 0
    BY <2>10, WordsOf
  <2>12. part # <<>> /\ Words(string) # <<>>
    BY <2>8, <2>11
  <2> QED
    BY <2>2, <2>7, <2>12 DEF part
<1> QED
  BY <1>2, <1>3

----------------------------------------------------------------------------
\* What typing one more word does.
LEMMA WordAppended ==
  ASSUME NEW typed \in Seq(Symbol), Len(typed) \notin Solid(typed),
         NEW word \in Seq(Symbol), word # <<>>,
         \A i \in 1..Len(word) : ~IsSpace(word[i])
  PROVE  Words(typed \o word) = Append(Words(typed), word)
<1> DEFINE all == typed \o word
           size == Len(typed)
           more == Len(word)
<1>1. /\ size \in Nat /\ more \in Nat /\ more >= 1
      /\ all \in Seq(Symbol) /\ Len(all) = size + more
      /\ \A i \in 1..size : all[i] = typed[i]
      /\ \A i \in 1..more : all[size + i] = word[i]
  BY SMT
<1>2. /\ \A i \in (size + 1)..(size + more) : all[i] = word[i - size]
      /\ \A i \in (size + 1)..(size + more) : i - size \in 1..more
  <2>1. \A i \in (size + 1)..(size + more) : i - size \in 1..more /\ size + (i - size) = i
    BY <1>1
  <2> HIDE DEF all
  <2> QED
    BY <1>1, <2>1
<1> HIDE DEF all
<1>3. \A i \in 1..size : i \in Solid(all) <=> i \in Solid(typed)
  BY <1>1 DEF Solid
<1>4. \A i \in (size + 1)..(size + more) : i \in Solid(all)
  BY <1>1, <1>2 DEF Solid
<1>5. /\ Solid(typed) \subseteq 1..size /\ Solid(all) \subseteq 1..(size + more)
      /\ Starts(typed) \subseteq Solid(typed)
  BY <1>1, SolidFacts
<1>6. size \notin Solid(all)
  BY <1>1, <1>3, <1>5
<1>7. Starts(all) = Starts(typed) \cup {size + 1}
  <2>1. size + 1 \in Starts(all)
    <3>1. size + 1 \in Solid(all) /\ (size + 1) - 1 = size
      BY <1>1, <1>4
    <3> QED
      BY <1>6, <3>1 DEF Starts
  <2>2. ASSUME NEW i \in Starts(all), i # size + 1
        PROVE  i \in Starts(typed)
    <3>1. i \in Solid(all) /\ i - 1 \notin Solid(all) /\ i \in 1..(size + more)
      BY <1>5 DEF Starts
    <3>2. i \in 1..size
      <4>1. i > size + 1 => i - 1 \in (size + 1)..(size + more)
        BY <1>1, <3>1
      <4>2. ~(i > size + 1)
        BY <1>4, <3>1, <4>1
      <4> QED
        BY <1>1, <2>2, <3>1, <4>2
    <3>3. i - 1 \notin Solid(typed)
      <4>1. i - 1 \in Solid(typed) => i - 1 \in 1..size
        BY <1>5
      <4> QED
        BY <1>3, <3>1, <4>1
    <3> QED
      BY <1>3, <3>1, <3>2, <3>3 DEF Starts
  <2>3. ASSUME NEW i \in Starts(typed)
        PROVE  i \in Starts(all)
    <3>1. i \in Solid(typed) /\ i - 1 \notin Solid(typed) /\ i \in 1..size
      BY <1>5 DEF Starts
    <3>2. i - 1 \notin Solid(all)
      <4>1. i - 1 = 0 \/ i - 1 \in 1..size
        BY <1>1, <3>1
      <4>2. 0 \notin Solid(all)
        BY <1>1, <1>5
      <4> QED
        BY <1>3, <3>1, <4>1, <4>2
    <3> QED
      BY <1>3, <3>1, <3>2 DEF Starts
  <2> QED
    BY <2>1, <2>2, <2>3
<1>8. \A i \in Starts(typed) : i \in 1..size /\ i < size + 1
  BY <1>1, <1>5
<1> DEFINE count == Cardinality(Starts(typed))
<1>9. count \in Nat /\ Cardinality(Starts(all)) = count + 1
  <2>1. size + 1 \notin Starts(typed)
    BY <1>1, <1>8
  <2>2. IsFiniteSet(Starts(typed)) /\ count \in Nat
    BY SolidFacts
  <2>3. Cardinality(Starts(typed) \cup {size + 1}) = count + 1
    BY <2>1, <2>2, FS_AddElement
  <2> QED
    BY <1>7, <2>2, <2>3
<1>10. ASSUME NEW i \in Starts(typed)
       PROVE  Begun(all, i) = Begun(typed, i) /\ Word(all, i) = Word(typed, i)
  <2>1. {j \in Starts(all) : j <= i} = {j \in Starts(typed) : j <= i}
    BY <1>1, <1>7, <1>8
  <2>2. PICK j \in i..size :
          /\ i..j \subseteq Solid(typed) /\ j + 1 \notin Solid(typed)
          /\ Word(typed, i) = SubSeq(typed, i, j)
    BY WordIsSolid
  <2>3. i \in 1..size /\ j \in 1..size /\ i..j \subseteq 1..size
    BY <1>1, <1>8
  <2>4. i..j \subseteq Solid(all)
    BY <1>3, <2>2, <2>3
  <2>5. j + 1 \notin Solid(all)
    <3>1. j # size
      <4>1. j \in i..j
        BY <2>2, <2>3
      <4> QED
        BY <2>2, <4>1
    <3>2. j + 1 \in 1..size
      BY <1>1, <2>3, <3>1
    <3> QED
      BY <1>3, <2>2, <3>2
  <2>6. i \in Starts(all) /\ j \in i..Len(all)
    BY <1>1, <1>7, <2>2, <2>3
  <2>7. Word(all, i) = SubSeq(all, i, j)
    BY <1>1, <2>4, <2>5, <2>6, WordEnds
  <2>8. SubSeq(all, i, j) = SubSeq(typed, i, j)
    <3>1. /\ SubSeq(all, i, j) = [n \in 1..((j - i) + 1) |-> all[i + n - 1]]
          /\ SubSeq(typed, i, j) = [n \in 1..((j - i) + 1) |-> typed[i + n - 1]]
      BY <1>1, <2>3
    <3>2. \A n \in 1..((j - i) + 1) : i + n - 1 \in 1..size
      BY <1>1, <2>2, <2>3
    <3> QED
      BY <1>1, <3>1, <3>2
  <2> QED
    BY <2>1, <2>2, <2>7, <2>8 DEF Begun
<1>11. Begun(all, size + 1) = count + 1
  <2>1. {j \in Starts(all) : j <= size + 1} = Starts(all)
    BY <1>1, <1>7, <1>8
  <2> QED
    BY <1>9, <2>1 DEF Begun
<1>12. Word(all, size + 1) = word
  <2>1. /\ size + 1 \in Starts(all) /\ size + more \in (size + 1)..Len(all)
        /\ (size + 1)..(size + more) \subseteq Solid(all)
        /\ (size + more) + 1 \notin Solid(all)
    BY <1>1, <1>4, <1>5, <1>7
  <2>2. Word(all, size + 1) = SubSeq(all, size + 1, size + more)
    BY <1>1, <2>1, WordEnds
  <2>3. SubSeq(all, size + 1, size + more) = [n \in 1..more |-> all[(size + 1) + n - 1]]
    <3>1. (size + more) - (size + 1) + 1 = more
      BY <1>1
    <3> QED
      BY <1>1, <3>1
  <2>4. \A n \in 1..more : (size + 1) + n - 1 = size + n
    BY <1>1
  <2>5. word = [n \in 1..more |-> word[n]]
    OBVIOUS
  <2>6. \A n \in 1..more : all[(size + 1) + n - 1] = word[n]
    BY <1>1, <2>4
  <2> HIDE DEF more, size
  <2> QED
    BY <2>2, <2>3, <2>5, <2>6
<1>13. /\ Words(all) \in Seq(Seq(Symbol)) /\ Len(Words(all)) = count + 1
       /\ Words(typed) \in Seq(Seq(Symbol)) /\ Len(Words(typed)) = count
  BY <1>1, <1>9, WordsOf
<1>14. ASSUME NEW n \in 1..(count + 1)
       PROVE  Words(all)[n] = Append(Words(typed), word)[n]
  <2>1. CASE n = count + 1
    <3>1. Words(all)[n] = word
      BY <1>1, <1>7, <1>11, <1>12, <2>1, WordAt
    <3>2. Append(Words(typed), word)[n] = word
      BY <1>9, <1>13, <2>1
    <3> QED
      BY <3>1, <3>2
  <2>2. CASE n # count + 1
    <3>1. n \in 1..count
      BY <1>9, <2>2
    <3>2. PICK s \in Starts(typed) :
            Begun(typed, s) = n /\ Words(typed)[n] = Word(typed, s)
      BY <1>13, <3>1, WordsOf
    <3>3. Words(all)[n] = Words(typed)[n]
      BY <1>1, <1>7, <1>10, <3>2, WordAt
    <3>4. Append(Words(typed), word)[n] = Words(typed)[n]
      BY <1>9, <1>13, <3>1
    <3> QED
      BY <3>3, <3>4
  <2> QED
    BY <2>1, <2>2
<1> DEFINE left == Words(all)
           right == Append(Words(typed), word)
<1>15. /\ left = [n \in 1..(count + 1) |-> left[n]]
       /\ right = [n \in 1..(count + 1) |-> right[n]]
  <2>1. right \in Seq(Seq(Symbol)) /\ Len(right) = count + 1
    BY <1>9, <1>13
  <2> HIDE DEF left, right
  <2> QED
    BY <1>13, <2>1 DEF left
<1> HIDE DEF left, right
<1>16. left = right
  BY <1>14, <1>15 DEF left, right
<1> QED
  BY <1>16 DEF left, right, all

LEMMA SpaceAppended ==
  ASSUME NEW typed \in Seq(Symbol)
  PROVE  /\ typed \o <<Space>> \in Seq(Symbol)
         /\ Words(typed \o <<Space>>) = Words(typed)
         /\ Len(typed \o <<Space>>) \notin Solid(typed \o <<Space>>)
<1> DEFINE all == typed \o <<Space>>
           size == Len(typed)
<1>1. Space \in Symbol /\ IsSpace(Space)
  BY SpaceAssumption DEF Symbol, IsSpace
<1>2. /\ size \in Nat /\ all \in Seq(Symbol) /\ Len(all) = size + 1
      /\ all[size + 1] = Space /\ \A i \in 1..size : all[i] = typed[i]
  BY <1>1
<1> HIDE DEF all
<1>3. size + 1 \notin Solid(all)
  BY <1>1, <1>2 DEF Solid
<1>4. Within(typed, all, 0)
  <2>1. Solid(all) \subseteq 1..(size + 1)
    BY <1>2, SolidFacts
  <2>2. Solid(all) \subseteq (0 + 1)..(0 + size)
    BY <1>2, <1>3, <2>1
  <2>3. \A j \in 1..size : typed[j] = all[j + 0]
    BY <1>2
  <2> QED
    BY <1>2, <2>2, <2>3 DEF Within
<1>5. SplitWhitespaceView(typed) = Words(all)
  BY <1>2, <1>4, TokensOfWithin
<1> QED
  BY <1>2, <1>3, <1>5, WordsOf DEF all

----------------------------------------------------------------------------
\* Typing all words with single spaces.
LEMMA WordsAreSolid ==
  ASSUME NEW string \in Seq(Symbol), NEW n \in 1..Len(Words(string))
  PROVE  /\ Words(string)[n] \in Seq(Symbol) /\ Words(string)[n] # <<>>
         /\ \A i \in 1..Len(Words(string)[n]) : ~IsSpace(Words(string)[n][i])
<1> DEFINE word == Words(string)[n]
<1>1. PICK s \in Starts(string) : word = Word(string, s)
  BY WordsOf
<1>2. PICK j \in s..Len(string) :
        /\ s..j \subseteq Solid(string) /\ Word(string, s) = SubSeq(string, s, j)
  BY WordIsSolid
<1>3. s \in 1..Len(string) /\ j \in 1..Len(string) /\ s <= j /\ Len(string) \in Nat
  BY <1>2, SolidFacts
<1>4. word = [i \in 1..((j - s) + 1) |-> string[s + i - 1]] /\ Len(word) = (j - s) + 1
  BY <1>1, <1>2, <1>3
<1>5. word \in Seq(Symbol)
  BY WordsOf
<1> HIDE DEF word
<1>6. ASSUME NEW i \in 1..Len(word)
      PROVE  ~IsSpace(word[i])
  <2>1. s + i - 1 \in s..j /\ word[i] = string[s + i - 1]
    BY <1>3, <1>4
  <2> QED
    BY <1>2, <2>1 DEF Solid
<1>7. Len(word) # 0
  BY <1>3, <1>4
<1>8. word # <<>>
  BY <1>7
<1> QED
  BY <1>5, <1>6, <1>8 DEF word

\* The recursive functions of Plain and of JoinTokens.
Longer(typed, word) == typed \o <<Space>> \o word
IsTyped(f, words, k) ==
  f = [n \in 0..k |-> IF n = 0 THEN <<>>
                      ELSE IF n = 1 THEN words[1]
                      ELSE Longer(f[n - 1], words[n])]
IsJoined(f, tokens, begin, k) ==
  f = [i \in begin..k |-> IF i = begin THEN tokens[i]
                          ELSE Longer(f[i - 1], tokens[i])]

LEMMA TypedExists ==
  ASSUME NEW words, NEW size \in Nat
  PROVE  \E f : IsTyped(f, words, size)
<1> DEFINE S == {k \in Nat : \E f : IsTyped(f, words, k)}
<1>1. 0 \in S
  <2>1. IsTyped([n \in 0..0 |-> <<>>], words, 0)
    BY DEF IsTyped
  <2> QED
    BY <2>1
<1>2. ASSUME NEW k \in Nat, k \in S
      PROVE  k + 1 \in S
  <2>1. PICK f : IsTyped(f, words, k)
    BY <1>2
  <2> DEFINE last == IF k + 1 = 1 THEN words[1] ELSE Longer(f[k], words[k + 1])
             g == [n \in 0..(k + 1) |-> IF n = k + 1 THEN last ELSE f[n]]
  <2>2. ASSUME NEW n \in 0..(k + 1)
        PROVE  g[n] = IF n = 0 THEN <<>>
                      ELSE IF n = 1 THEN words[1]
                      ELSE Longer(g[n - 1], words[n])
    <3>1. CASE n = k + 1
      <4>1. g[n] = last /\ n # 0 /\ n - 1 = k /\ g[n - 1] = f[k]
        BY <3>1
      <4> HIDE DEF g
      <4> QED
        BY <3>1, <4>1
    <3>2. CASE n \in 0..k
      <4>1. g[n] = f[n] /\ (n # 0 => g[n - 1] = f[n - 1])
        BY <3>2
      <4> HIDE DEF g
      <4> QED
        BY <2>1, <3>2, <4>1 DEF IsTyped
    <3> QED
      BY <3>1, <3>2
  <2>3. IsTyped(g, words, k + 1)
    BY <2>2 DEF IsTyped
  <2> HIDE DEF g
  <2> QED
    BY <2>3
<1> HIDE DEF S
<1>3. \A k \in Nat : k \in S
  BY <1>1, <1>2, SetInduction
<1> QED
  BY <1>3 DEF S

LEMMA JoinedExists ==
  ASSUME NEW tokens, NEW begin \in Nat, NEW size \in Nat, begin <= size
  PROVE  \E f : IsJoined(f, tokens, begin, size)
<1> DEFINE S == {k \in Nat : \E f : IsJoined(f, tokens, begin, begin + k)}
<1>1. 0 \in S
  <2>1. begin + 0 = begin
    OBVIOUS
  <2>2. IsJoined([i \in begin..begin |-> tokens[begin]], tokens, begin, begin)
    BY DEF IsJoined
  <2> QED
    BY <2>1, <2>2
<1>2. ASSUME NEW k \in Nat, k \in S
      PROVE  k + 1 \in S
  <2> DEFINE m == begin + k
  <2>1. PICK f : IsJoined(f, tokens, begin, m)
    BY <1>2
  <2>2. m \in Nat /\ begin <= m /\ begin + (k + 1) = m + 1
    OBVIOUS
  <2> HIDE DEF m
  <2> DEFINE last == Longer(f[m], tokens[m + 1])
             g == [i \in begin..(m + 1) |-> IF i = m + 1 THEN last ELSE f[i]]
  <2>3. ASSUME NEW i \in begin..(m + 1)
        PROVE  g[i] = IF i = begin THEN tokens[i] ELSE Longer(g[i - 1], tokens[i])
    <3>1. CASE i = m + 1
      <4>1. i # begin /\ i - 1 = m /\ m \in begin..(m + 1) /\ m # m + 1
        BY <2>2, <3>1
      <4>2. g[m] = f[m]
        BY <4>1
      <4>3. g[i] = last
        BY <3>1
      <4> HIDE DEF g
      <4> QED
        BY <3>1, <4>1, <4>2, <4>3
    <3>2. CASE i \in begin..m
      <4>1. g[i] = f[i] /\ (i # begin => g[i - 1] = f[i - 1])
        BY <2>2, <3>2
      <4> HIDE DEF g
      <4> QED
        BY <2>1, <3>2, <4>1 DEF IsJoined
    <3> QED
      BY <2>2, <3>1, <3>2
  <2>4. IsJoined(g, tokens, begin, m + 1)
    BY <2>3 DEF IsJoined
  <2> HIDE DEF g
  <2> QED
    BY <2>2, <2>4
<1> HIDE DEF S
<1>3. size - begin \in S /\ begin + (size - begin) = size
  <2>1. size - begin \in Nat /\ begin + (size - begin) = size
    OBVIOUS
  <2> QED
    BY <1>1, <1>2, <2>1, SetInduction
<1> QED
  BY <1>3 DEF S

LEMMA Associative ==
  \A a, b, c \in Seq(Symbol) : (a \o b) \o c = a \o (b \o c)
  OBVIOUS

LEMMA PlainIsTyped ==
  ASSUME NEW string \in Seq(Symbol)
  PROVE  \E f : /\ IsTyped(f, Words(string), Len(Words(string)))
                /\ Plain(string) = f[Len(Words(string))]
<1> DEFINE size == Len(Words(string))
           f == CHOOSE upTo : IsTyped(upTo, Words(string), size)
<1>1. size \in Nat
  BY WordsOf
<1>2. IsTyped(f, Words(string), size)
  BY <1>1, TypedExists
<1>3. Plain(string) = f[size]
  BY DEF Plain, IsTyped, Longer
<1> QED
  BY <1>2, <1>3

LEMMA JoinTokensIsJoined ==
  ASSUME NEW tokens \in Seq(Seq(Symbol)), NEW begin \in Nat, begin <= Len(tokens)
  PROVE  \E f : /\ IsJoined(f, tokens, begin, Len(tokens))
                /\ JoinTokens(tokens, begin) = f[Len(tokens)]
<1> DEFINE size == Len(tokens)
           f == CHOOSE upTo : IsJoined(upTo, tokens, begin, size)
<1>1. size \in Nat
  OBVIOUS
<1>2. IsJoined(f, tokens, begin, size)
  BY <1>1, JoinedExists
<1>3. JoinTokens(tokens, begin) = f[size]
  BY DEF JoinTokens, IsJoined, Longer
<1> QED
  BY <1>2, <1>3

\* Typed plainly, a line has the words it had.
LEMMA PlainKeepsWords ==
  ASSUME NEW string \in Seq(Symbol)
  PROVE  Plain(string) \in Seq(Symbol) /\ Words(Plain(string)) = Words(string)
<1> DEFINE words == Words(string)
           size == Len(words)
<1>1. words \in Seq(Seq(Symbol)) /\ size \in Nat
  BY WordsOf
<1>2. PICK f : IsTyped(f, words, size) /\ Plain(string) = f[size]
  BY PlainIsTyped
<1>3. \A n \in 1..size : /\ words[n] \in Seq(Symbol) /\ words[n] # <<>>
                         /\ \A i \in 1..Len(words[n]) : ~IsSpace(words[n][i])
  BY WordsAreSolid
<1> HIDE DEF words
<1> DEFINE Good(n) == f[n] \in Seq(Symbol) /\ Words(f[n]) = SubSeq(words, 1, n)
           S == {n \in Nat : n <= size => Good(n)}
<1>4. Words(<<>>) = <<>> /\ <<>> \in Seq(Symbol) /\ Len(<<>>) \notin Solid(<<>>)
  <2>1. Starts(<<>>) = {} /\ Solid(<<>>) = {} /\ <<>> \in Seq(Symbol)
    BY DEF Starts, Solid
  <2>2. Len(Words(<<>>)) = 0 /\ Words(<<>>) \in Seq(Seq(Symbol))
    BY <2>1, WordsOf, FS_EmptySet
  <2> QED
    BY <2>1, <2>2
<1>5. Good(0)
  <2>1. f[0] = <<>>
    BY <1>1, <1>2 DEF IsTyped
  <2>2. SubSeq(words, 1, 0) = <<>>
    BY <1>1
  <2> QED
    BY <1>4, <2>1, <2>2
<1>6. ASSUME NEW n \in Nat, n + 1 <= size, Good(n)
      PROVE  Good(n + 1)
  <2>1. n + 1 \in 0..size /\ n + 1 \in 1..size /\ n + 1 # 0 /\ (n + 1) - 1 = n
    BY <1>1, <1>6
  <2> DEFINE word == words[n + 1]
             typed == IF n = 0 THEN <<>> ELSE f[n] \o <<Space>>
  <2>2. f[n + 1] = IF n + 1 = 1 THEN word ELSE typed \o word
    <3>1. f[n + 1] = IF n + 1 = 1 THEN words[1] ELSE Longer(f[n], words[n + 1])
      BY <1>2, <2>1 DEF IsTyped
    <3>2. n + 1 = 1 <=> n = 0
      OBVIOUS
    <3>3. CASE n = 0
      BY <3>1, <3>2, <3>3
    <3>4. CASE n # 0
      <4>1. f[n + 1] = Longer(f[n], word)
        BY <3>1, <3>2, <3>4
      <4> QED
        BY <3>2, <3>4, <4>1 DEF Longer
    <3> QED
      BY <3>3, <3>4
  <2>3. /\ typed \in Seq(Symbol) /\ Words(typed) = SubSeq(words, 1, n)
        /\ Len(typed) \notin Solid(typed)
    <3>1. CASE n = 0
      <4>1. SubSeq(words, 1, n) = <<>> /\ typed = <<>>
        BY <1>1, <3>1
      <4> HIDE DEF typed
      <4> QED
        BY <1>4, <4>1
    <3>2. CASE n # 0
      <4>1. typed = f[n] \o <<Space>>
        BY <3>2
      <4> HIDE DEF typed
      <4> QED
        BY <1>6, <4>1, SpaceAppended
    <3> QED
      BY <3>1, <3>2
  <2>4. /\ word \in Seq(Symbol) /\ word # <<>>
        /\ \A i \in 1..Len(word) : ~IsSpace(word[i])
    BY <1>3, <2>1
  <2>5. f[n + 1] = typed \o word
    <3>1. CASE n = 0
      <4>1. typed = <<>> /\ f[n + 1] = word
        BY <2>2, <3>1
      <4> HIDE DEF typed, word
      <4>2. <<>> \o word = word
        BY <2>4
      <4> QED
        BY <4>1, <4>2
    <3>2. CASE n # 0
      <4>1. n + 1 # 1 /\ typed = f[n] \o <<Space>>
        BY <3>2
      <4> QED
        BY <2>2, <4>1
    <3> QED
      BY <3>1, <3>2
  <2> HIDE DEF typed
  <2>6. SubSeq(words, 1, n + 1) = Append(SubSeq(words, 1, n), word)
    BY <1>1, <2>1
  <2> HIDE DEF word
  <2>7. Words(typed \o word) = Append(Words(typed), word)
    BY <2>3, <2>4, WordAppended
  <2>8. typed \o word \in Seq(Symbol)
    BY <2>3, <2>4
  <2> QED
    BY <2>3, <2>5, <2>6, <2>7, <2>8
<1>7. size \in S
  <2>1. 0 \in S
    BY <1>5
  <2>2. ASSUME NEW n \in Nat, n \in S
        PROVE  n + 1 \in S
    <3>1. n + 1 <= size => n <= size
      BY <1>1
    <3> HIDE DEF Good
    <3> QED
      BY <1>6, <2>2, <3>1
  <2> HIDE DEF S
  <2> QED
    BY <1>1, <2>1, <2>2, SetInduction
<1>8. SubSeq(words, 1, size) = words
  BY <1>1
<1> QED
  BY <1>1, <1>2, <1>7, <1>8 DEF words

\* The words of the value behind those of the verb and of the key.
LEMMA ValueIsJoined ==
  ASSUME NEW string \in Seq(Symbol), Len(Words(string)) >= 3
  PROVE  LET words == Words(string)
         IN  Plain(string) = words[1] \o <<Space>> \o words[2] \o <<Space>>
                               \o JoinTokens(words, 3)
<1> DEFINE words == Words(string)
           size == Len(words)
           front == words[1] \o <<Space>> \o words[2] \o <<Space>>
<1>1. words \in Seq(Seq(Symbol)) /\ size \in Nat /\ size >= 3
  BY WordsOf
<1>2. PICK f : IsTyped(f, words, size) /\ Plain(string) = f[size]
  BY PlainIsTyped
<1>3. PICK g : IsJoined(g, words, 3, size) /\ JoinTokens(words, 3) = g[size]
  BY <1>1, JoinTokensIsJoined
<1>4. Space \in Symbol
  BY DEF Symbol
<1> HIDE DEF words
<1>5. \A n \in 1..size : words[n] \in Seq(Symbol)
  BY <1>1
<1>6. front \in Seq(Symbol)
  BY <1>1, <1>4, <1>5
<1> DEFINE Good(n) == g[n] \in Seq(Symbol) /\ f[n] = front \o g[n]
           S == {m \in Nat : 3 + m <= size => Good(3 + m)}
<1>7. Good(3)
  <2>1. 1 \in 0..size /\ 2 \in 0..size /\ 3 \in 0..size /\ 3 \in 1..size /\ 3 \in 3..size
    BY <1>1
  <2>2. f[1] = words[1]
    BY <1>2, <2>1 DEF IsTyped
  <2>3. f[2] = Longer(f[1], words[2]) /\ f[3] = Longer(f[2], words[3])
    BY <1>2, <2>1 DEF IsTyped
  <2>4. g[3] = words[3] /\ words[3] \in Seq(Symbol)
    BY <1>3, <1>5, <2>1 DEF IsJoined
  <2> QED
    BY <2>2, <2>3, <2>4, Zenon DEF Longer
<1>8. ASSUME NEW n \in Nat, n >= 3, n + 1 <= size, Good(n)
      PROVE  Good(n + 1)
  <2>1. /\ n + 1 \in 0..size /\ n + 1 \in 3..size /\ (n + 1) - 1 = n
        /\ n + 1 # 0 /\ n + 1 # 1 /\ n + 1 # 3 /\ n + 1 \in 1..size
    BY <1>1, <1>8
  <2>2. f[n + 1] = Longer(f[n], words[n + 1])
    BY <1>2, <2>1 DEF IsTyped
  <2>3. g[n + 1] = Longer(g[n], words[n + 1])
    BY <1>3, <2>1 DEF IsJoined
  <2> DEFINE rest == g[n]
             word == words[n + 1]
  <2>4. rest \in Seq(Symbol) /\ word \in Seq(Symbol) /\ <<Space>> \in Seq(Symbol)
    BY <1>4, <1>5, <1>8, <2>1
  <2> HIDE DEF front, rest, word
  <2>5. (front \o rest) \o <<Space>> \o word = front \o (rest \o <<Space>> \o word)
    <3> DEFINE gap == <<Space>>
    <3>1. gap \in Seq(Symbol)
      BY <2>4
    <3> HIDE DEF gap
    <3> DEFINE most == rest \o gap
    <3>2. most \in Seq(Symbol)
      BY <2>4, <3>1
    <3>3. (front \o rest) \o gap = front \o most
      BY <1>6, <2>4, <3>1, Associative, Zenon
    <3> HIDE DEF most
    <3>4. \A c \in Seq(Symbol) : (front \o most) \o c = front \o (most \o c)
      BY <1>6, <3>2, Associative, Zenon
    <3>5. (front \o most) \o word = front \o (most \o word)
      BY <2>4, <3>4, Zenon
    <3> QED
      BY <3>3, <3>5, Zenon DEF most, gap
  <2>6. rest \o <<Space>> \o word \in Seq(Symbol)
    BY <2>4
  <2> QED
    BY <1>8, <2>2, <2>3, <2>5, <2>6 DEF Longer, rest, word
<1>9. size - 3 \in S /\ 3 + (size - 3) = size
  <2>1. size - 3 \in Nat /\ 3 + (size - 3) = size
    BY <1>1
  <2>2. 0 \in S
    <3>1. 3 + 0 = 3
      OBVIOUS
    <3> HIDE DEF Good
    <3> QED
      BY <1>7, <3>1
  <2>3. ASSUME NEW m \in Nat, m \in S
        PROVE  m + 1 \in S
    <3>1. /\ 3 + m \in Nat /\ 3 + m >= 3 /\ 3 + (m + 1) = (3 + m) + 1
          /\ (3 + m) + 1 <= size => 3 + m <= size
      BY <1>1
    <3> HIDE DEF Good
    <3> QED
      BY <1>8, <2>3, <3>1
  <2> HIDE DEF S
  <2> QED
    BY <2>1, <2>2, <2>3, SetInduction
<1>10. Good(size)
  <2> HIDE DEF Good
  <2> QED
    BY <1>1, <1>9
<1> QED
  BY <1>2, <1>3, <1>10 DEF words

----------------------------------------------------------------------------
\* The commands.
OfSymbols == line \in Seq(Symbol)

LEMMA LineType == Spec => []OfSymbols
<1>1. Init => OfSymbols
  BY DEF Init, OfSymbols
<1>2. OfSymbols /\ [Type]_line => OfSymbols'
  <2> SUFFICES ASSUME OfSymbols, [Type]_line
               PROVE  line' \in Seq(Symbol)
    BY DEF OfSymbols
  <2>1. CASE Type
    <3>1. PICK symbol \in Symbol : line' = Append(line, symbol)
      BY <2>1 DEF Type, Symbol
    <3> QED
      BY <3>1 DEF OfSymbols
  <2>2. CASE UNCHANGED line
    BY <2>2 DEF OfSymbols
  <2> QED
    BY <2>1, <2>2
<1> QED
  BY <1>1, <1>2, PTL DEF Spec

\* What a command's type says of the tokens it was parsed from.
LEMMA SetCommand ==
  ASSUME NEW tokens, ParseTokens(tokens).type = "kSet"
  PROVE  /\ Len(tokens) >= 3
         /\ ParseTokens(tokens).key = tokens[2]
         /\ ParseTokens(tokens).value = JoinTokens(tokens, 3)
  BY DEF ParseTokens, Usage, Command, MakeInvalidCommand

LEMMA KeyCommand ==
  ASSUME NEW tokens, ParseTokens(tokens).type \in {"kGet", "kDel"}
  PROVE  Len(tokens) = 2 /\ ParseTokens(tokens).key = tokens[2]
  BY DEF ParseTokens, Usage, Command, MakeInvalidCommand

LEMMA EmptyCommand ==
  ASSUME NEW string \in Seq(Symbol), Words(string) # <<>> \/ Parse(string).type # "kInvalid"
  PROVE  Parse(string) = ParseTokens(Words(string)) /\ Words(string) # <<>>
<1>1. Trim(string) # <<>>
  BY TrimKeepsWords DEF Parse, MakeInvalidCommand
<1> QED
  BY <1>1, TrimKeepsWords DEF Parse

----------------------------------------------------------------------------
\* For lines of any length, over any symbols and any set of separators: the
\* tokens are the maximal stretches without separators, with and without Trim
\* before (SplitWhitespaceView).
THEOREM TokensTheorem == Spec => []TokensAreTheWords
<1>1. OfSymbols => TokensAreTheWords
  BY WordsOf, TrimKeepsWords DEF OfSymbols, TokensAreTheWords
<1> QED
  BY <1>1, LineType, PTL

\* A command keeps the key and, for SET, every word behind it
\* (CliParser::Parse with JoinTokens).
THEOREM WordsTheorem == Spec => []NoWordIsLost
<1>1. OfSymbols => NoWordIsLost
  <2> SUFFICES ASSUME line \in Seq(Symbol) PROVE NoWordIsLost
    BY DEF OfSymbols
  <2> DEFINE words == Words(line)
             command == Parse(line)
  <2>1. words \in Seq(Seq(Symbol))
    BY WordsOf
  <2>2. CASE command.type = "kSet"
    <3>1. command = ParseTokens(words)
      BY <2>2, EmptyCommand
    <3>2. /\ Len(words) >= 3 /\ command.key = words[2]
          /\ command.value = JoinTokens(words, 3)
      BY <2>2, <3>1, SetCommand
    <3>3. Plain(line) = words[1] \o <<Space>> \o command.key \o <<Space>> \o command.value
      BY <3>2, ValueIsJoined
    <3> QED
      BY <2>2, <3>3 DEF NoWordIsLost
  <2>3. CASE command.type \in {"kGet", "kDel"}
    <3>1. command = ParseTokens(words)
      BY <2>3, EmptyCommand
    <3>2. Len(words) = 2 /\ command.key = words[2]
      BY <2>3, <3>1, KeyCommand
    <3> HIDE DEF words, command
    <3>3. words = <<words[1], command.key>>
      BY <2>1, <3>2
    <3> QED
      BY <2>3, <3>3 DEF NoWordIsLost, words, command
  <2> QED
    BY <2>2, <2>3 DEF NoWordIsLost
<1> QED
  BY <1>1, LineType, PTL

\* Only the words of a line matter: any separators, in any number, make the same
\* command or the same error (Trim and SplitWhitespaceView).
THEOREM SpacingTheorem == Spec => []SpacingDoesNotMatter
<1>1. OfSymbols => SpacingDoesNotMatter
  <2> SUFFICES ASSUME line \in Seq(Symbol) PROVE SpacingDoesNotMatter
    BY DEF OfSymbols
  <2>1. Plain(line) \in Seq(Symbol) /\ Words(Plain(line)) = Words(line)
    BY PlainKeepsWords
  <2>2. /\ SplitWhitespaceView(Trim(Plain(line))) = SplitWhitespaceView(Trim(line))
        /\ Trim(Plain(line)) = <<>> <=> Trim(line) = <<>>
    BY <2>1, TrimKeepsWords
  <2> QED
    BY <2>2 DEF SpacingDoesNotMatter, Parse
<1> QED
  BY <1>1, LineType, PTL
=============================================================================
