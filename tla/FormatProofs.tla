---------------------------- MODULE FormatProofs ----------------------------
(***************************************************************************)
(* The two file formats for every base and width of their bytes, every     *)
(* limit and files of any length.  The log's parser inverts its writer, and *)
(* replay reads the same records from a file and from what a crash leaves  *)
(* of it; Load reads back what Save writes, in both layouts, and accepts   *)
(* nothing else.                                                           *)
(***************************************************************************)
EXTENDS SnapshotFormat, SequencesExt, SequenceTheorems, WellFoundedInduction, TLAPS

----------------------------------------------------------------------------
\* Induction.  That < is well founded on Nat says that every set of natural
\* numbers has a least element; a set takes the place of a predicate.
LEMMA LeastNatural ==
  ASSUME NEW S \in SUBSET Nat, S # {}
  PROVE  \E m \in S : \A n \in S : m <= n
<1> DEFINE R == OpToRel(<, Nat)
<1>1. R = {ss \in Nat \X Nat : ss[1] < ss[2]}
  BY DEF OpToRel
<1>2. IsWellFoundedOn(R, Nat)
  BY NatLessThanWellFounded
<1> HIDE DEF R
<1>3. PICK m \in S : \A n \in S : <<n, m>> \notin R
  BY <1>2, WFMin
<1>4. ASSUME NEW n \in S
      PROVE  m <= n
  <2>1. m \in Nat /\ n \in Nat /\ <<n, m>> \notin R
    BY <1>3
  <2>2. ~(n < m)
    BY <1>1, <2>1
  <2> QED
    BY <2>1, <2>2
<1> QED
  BY <1>4

LEMMA SetInduction ==
  ASSUME NEW S, 0 \in S, \A n \in Nat : n \in S => n + 1 \in S
  PROVE  \A n \in Nat : n \in S
<1> SUFFICES ASSUME Nat \ S # {} PROVE FALSE
  OBVIOUS
<1>1. PICK m \in Nat \ S : \A n \in Nat \ S : m <= n
  BY LeastNatural
<1>2. m # 0
  BY <1>1
<1>3. m - 1 \in Nat /\ m - 1 \in S
  BY <1>1, <1>2
<1> QED
  BY <1>1, <1>3

----------------------------------------------------------------------------
\* Numbers and their bytes.


\* The recursive function of Shifted: it exists, and two of them agree where
\* both are defined.
IsRest(f, n, w) ==
  f = [i \in 0..w |-> IF i = 0 THEN n ELSE f[i - 1] \div Base]

LEMMA RestExists ==
  ASSUME NEW n \in Nat, NEW w \in Nat
  PROVE  \E f : IsRest(f, n, w)
<1> DEFINE S == {k \in Nat : \E f : IsRest(f, n, k)}
<1>1. 0 \in S
  <2>1. IsRest([i \in 0..0 |-> n], n, 0)
    BY DEF IsRest
  <2> QED
    BY <2>1
<1>2. ASSUME NEW k \in Nat, k \in S
      PROVE  k + 1 \in S
  <2>1. PICK f : IsRest(f, n, k)
    BY <1>2
  <2> DEFINE g == [i \in 0..(k + 1) |-> IF i = k + 1 THEN f[k] \div Base ELSE f[i]]
  <2>2. ASSUME NEW i \in 0..(k + 1)
        PROVE  g[i] = IF i = 0 THEN n ELSE g[i - 1] \div Base
    <3>1. CASE i = k + 1
      BY <3>1
    <3>2. CASE i \in 0..k
      <4>1. g[i] = f[i] /\ (i # 0 => g[i - 1] = f[i - 1])
        BY <3>2
      <4> HIDE DEF g
      <4> QED
        BY <2>1, <3>2, <4>1 DEF IsRest
    <3> QED
      BY <3>1, <3>2
  <2>3. IsRest(g, n, k + 1)
    BY <2>2 DEF IsRest
  <2> HIDE DEF g
  <2> QED
    BY <2>3
<1> HIDE DEF S
<1>3. \A k \in Nat : k \in S
  BY <1>1, <1>2, SetInduction
<1> QED
  BY <1>3 DEF S

LEMMA RestAgrees ==
  ASSUME NEW n \in Nat, NEW v \in Nat, NEW w \in Nat, NEW f, NEW g,
         IsRest(f, n, v), IsRest(g, n, w)
  PROVE  \A j \in Nat : j <= v /\ j <= w => f[j] = g[j]
<1> DEFINE S == {j \in Nat : j <= v /\ j <= w => f[j] = g[j]}
<1>1. 0 \in S
  BY DEF IsRest
<1>2. ASSUME NEW j \in Nat, j \in S
      PROVE  j + 1 \in S
  <2>1. CASE j + 1 <= v /\ j + 1 <= w
    <3>1. f[j] = g[j] /\ j + 1 \in 0..v /\ j + 1 \in 0..w /\ j + 1 # 0
          /\ (j + 1) - 1 = j
      BY <1>2, <2>1
    <3>2. f[j + 1] = f[j] \div Base /\ g[j + 1] = g[j] \div Base
      BY <3>1 DEF IsRest
    <3> QED
      BY <3>1, <3>2
  <2> QED
    BY <2>1
<1> HIDE DEF S
<1>3. \A j \in Nat : j \in S
  BY <1>1, <1>2, SetInduction
<1> QED
  BY <1>3 DEF S

\* One more byte is taken off by one more division.
LEMMA ShiftedStep ==
  ASSUME NEW n \in Nat, NEW i \in Nat
  PROVE  /\ Shifted(n, 0) = n
         /\ Shifted(n, i + 1) = Shifted(n, i) \div Base
<1> DEFINE Rest(w) == CHOOSE f : IsRest(f, n, w)
<1>1. \A w \in Nat : IsRest(Rest(w), n, w)
  BY RestExists
<1>2. \A w \in Nat : Shifted(n, w) = Rest(w)[w]
  BY DEF Shifted, IsRest
<1> HIDE DEF Rest
<1>3. i + 1 \in Nat /\ i + 1 # 0 /\ (i + 1) - 1 = i /\ i + 1 \in 0..(i + 1)
  OBVIOUS
<1>4. Rest(0)[0] = n
  BY <1>1 DEF IsRest
<1>5. Rest(i + 1)[i] = Rest(i)[i]
  BY <1>1, <1>3, RestAgrees
<1>6. Rest(i + 1)[i + 1] = Rest(i + 1)[i] \div Base
  BY <1>1, <1>3 DEF IsRest
<1> QED
  BY <1>2, <1>3, <1>4, <1>5, <1>6

\* What is left is a number, and no larger for a smaller number.
LEMMA ShiftedType ==
  ASSUME NEW n \in Nat
  PROVE  \A i \in Nat : Shifted(n, i) \in Nat
<1> DEFINE S == {i \in Nat : Shifted(n, i) \in Nat}
<1>1. 0 \in S
  BY ShiftedStep
<1>2. ASSUME NEW i \in Nat, i \in S
      PROVE  i + 1 \in S
  <2>1. Shifted(n, i) \div Base \in Nat
    BY <1>2, BytesAssumption
  <2> QED
    BY <2>1, ShiftedStep
<1> HIDE DEF S
<1>3. \A i \in Nat : i \in S
  BY <1>1, <1>2, SetInduction
<1> QED
  BY <1>3 DEF S

LEMMA Division ==
  ASSUME NEW n \in Nat, NEW b \in Nat, b > 0
  PROVE  n = (n % b) + b * (n \div b)
  OBVIOUS

LEMMA DivisionMonotone ==
  ASSUME NEW m \in Nat, NEW n \in Nat, m <= n, NEW b \in Nat, b > 0
  PROVE  m \div b <= n \div b
  OBVIOUS

LEMMA ShiftedMonotone ==
  ASSUME NEW m \in Nat, NEW n \in Nat, m <= n
  PROVE  \A i \in Nat : Shifted(m, i) <= Shifted(n, i)
<1> DEFINE S == {i \in Nat : Shifted(m, i) <= Shifted(n, i)}
<1>1. 0 \in S
  BY ShiftedStep
<1>2. ASSUME NEW i \in Nat, i \in S
      PROVE  i + 1 \in S
  <2>1. Shifted(m, i) \in Nat /\ Shifted(n, i) \in Nat
        /\ Shifted(m, i) <= Shifted(n, i)
    BY <1>2, ShiftedType
  <2>2. Base \in Nat /\ Base > 0
    BY BytesAssumption
  <2>3. Shifted(m, i) \div Base <= Shifted(n, i) \div Base
    BY <2>1, <2>2, DivisionMonotone
  <2> QED
    BY <2>3, ShiftedStep
<1> HIDE DEF S
<1>3. \A i \in Nat : i \in S
  BY <1>1, <1>2, SetInduction
<1> QED
  BY <1>3 DEF S

\* A number within the limit fits into a length field.
LEMMA WithinLimitFits ==
  ASSUME NEW n \in Nat, n <= kMaxRecordLength
  PROVE  Fits(n, Width)
  BY ShiftedMonotone, ShiftedType, LimitAssumption, BytesAssumption DEF Fits

\* The recursive function of PrimitiveAt, in the same way.
IsFrom(f, bytes, at, w) ==
  f = [i \in 0..w |-> IF i = w THEN 0 ELSE bytes[at + i + 1] + Base * f[i + 1]]

LEMMA FromExists ==
  ASSUME NEW bytes, NEW at \in Nat, NEW w \in Nat
  PROVE  \E f : IsFrom(f, bytes, at, w)
<1> DEFINE Step(f, i) == IF i = w THEN 0 ELSE bytes[at + i + 1] + Base * f[i + 1]
           Upper(f, k) == \A i \in 0..w : i + k >= w => f[i] = Step(f, i)
           S == {k \in Nat : \E f : Upper(f, k)}
<1>1. 0 \in S
  <2>1. Upper([i \in 0..w |-> 0], 0)
    OBVIOUS
  <2> QED
    BY <2>1
<1>2. ASSUME NEW k \in Nat, k \in S
      PROVE  k + 1 \in S
  <2>1. PICK f : Upper(f, k)
    BY <1>2
  <2> DEFINE g == [i \in 0..w |-> IF i + k >= w THEN f[i] ELSE Step(f, i)]
  <2>2. Upper(g, k + 1)
    <3> SUFFICES ASSUME NEW i \in 0..w, i + (k + 1) >= w
                 PROVE  g[i] = Step(g, i)
      OBVIOUS
    <3>1. i # w => g[i + 1] = f[i + 1]
      OBVIOUS
    <3>2. Step(g, i) = Step(f, i)
      BY <3>1
    <3>3. g[i] = Step(f, i)
      BY <2>1
    <3> QED
      BY <3>2, <3>3
  <2> HIDE DEF g, Upper
  <2> QED
    BY <2>2
<1> HIDE DEF S
<1>3. w \in S
  BY <1>1, <1>2, SetInduction
<1>4. PICK f : Upper(f, w)
  BY <1>3 DEF S
<1> DEFINE g == [i \in 0..w |-> f[i]]
<1>5. ASSUME NEW i \in 0..w
      PROVE  g[i] = Step(g, i)
  BY <1>4
<1>6. IsFrom(g, bytes, at, w)
  BY <1>5 DEF IsFrom
<1> HIDE DEF g
<1> QED
  BY <1>6

LEMMA FromAgrees ==
  ASSUME NEW bytes, NEW at \in Nat, NEW w \in Nat, NEW f, NEW g,
         IsFrom(f, bytes, at, w), IsFrom(g, bytes, at, w)
  PROVE  f[0] = g[0]
<1> DEFINE S == {k \in Nat : \A i \in 0..w : i + k >= w => f[i] = g[i]}
<1>1. 0 \in S
  <2>1. f[w] = 0 /\ g[w] = 0
    BY DEF IsFrom
  <2> QED
    BY <2>1
<1>2. ASSUME NEW k \in Nat, k \in S
      PROVE  k + 1 \in S
  <2> SUFFICES ASSUME NEW i \in 0..w, i + (k + 1) >= w
               PROVE  f[i] = g[i]
    OBVIOUS
  <2>1. CASE i = w
    BY <2>1 DEF IsFrom
  <2>2. CASE i # w
    <3>1. i + 1 \in 0..w /\ (i + 1) + k >= w
      BY <2>2
    <3>2. f[i + 1] = g[i + 1]
      BY <1>2, <3>1
    <3>3. f[i] = bytes[at + i + 1] + Base * f[i + 1]
      BY <2>2 DEF IsFrom
    <3>4. g[i] = bytes[at + i + 1] + Base * g[i + 1]
      BY <2>2 DEF IsFrom
    <3> QED
      BY <3>2, <3>3, <3>4
  <2> QED
    BY <2>1, <2>2
<1> HIDE DEF S
<1>3. w \in S
  BY <1>1, <1>2, SetInduction
<1> QED
  BY <1>3 DEF S

LEMMA PrimitiveAtIs ==
  ASSUME NEW bytes, NEW at \in Nat, NEW w \in Nat, NEW f, IsFrom(f, bytes, at, w)
  PROVE  PrimitiveAt(bytes, at, w) = f[0]
<1> DEFINE From == CHOOSE g : IsFrom(g, bytes, at, w)
<1>1. PrimitiveAt(bytes, at, w) = From[0]
  BY DEF PrimitiveAt, IsFrom
<1>2. IsFrom(From, bytes, at, w)
  OBVIOUS
<1> HIDE DEF From
<1> QED
  BY <1>1, <1>2, FromAgrees

\* PrimitiveAt looks at no other bytes than those of its number.
LEMMA PrimitiveAtMoved ==
  ASSUME NEW left, NEW l \in Nat, NEW right, NEW r \in Nat, NEW w \in Nat,
         \A i \in 1..w : left[l + i] = right[r + i]
  PROVE  PrimitiveAt(left, l, w) = PrimitiveAt(right, r, w)
<1>1. PICK f : IsFrom(f, left, l, w)
  BY FromExists
<1>2. \A i \in 0..w : i # w => left[l + i + 1] = right[r + i + 1]
  <2> TAKE i \in 0..w
  <2> HAVE i # w
  <2>1. i + 1 \in 1..w /\ l + (i + 1) = l + i + 1 /\ r + (i + 1) = r + i + 1
    OBVIOUS
  <2> QED
    BY <2>1
<1>3. IsFrom(f, right, r, w)
  BY <1>1, <1>2 DEF IsFrom
<1> QED
  BY <1>1, <1>3, PrimitiveAtIs

\* A number that fits is read back from its bytes.
LEMMA DecodeEncoded ==
  ASSUME NEW n, NEW w \in Nat, Fits(n, w),
         NEW bytes, NEW at \in Nat,
         \A i \in 1..w : bytes[at + i] = Primitive(n, w)[i]
  PROVE  PrimitiveAt(bytes, at, w) = n
<1> DEFINE f == [i \in 0..w |-> Shifted(n, i)]
<1>0. n \in Nat /\ Shifted(n, w) = 0 /\ Base \in Nat /\ Base > 0
  BY BytesAssumption DEF Fits
<1>1. ASSUME NEW i \in 0..w, i # w
      PROVE  f[i] = bytes[at + i + 1] + Base * f[i + 1]
  <2>1. i + 1 \in 1..w /\ (i + 1) - 1 = i /\ at + (i + 1) = at + i + 1
    BY <1>1
  <2>2. bytes[at + i + 1] = Shifted(n, i) % Base
    BY <2>1 DEF Primitive
  <2>3. Shifted(n, i) \in Nat /\ Shifted(n, i + 1) = Shifted(n, i) \div Base
    <3>1. i \in Nat
      OBVIOUS
    <3>2. Shifted(n, i) \in Nat
      BY <1>0, <3>1, ShiftedType, Zenon
    <3>3. Shifted(n, i + 1) = Shifted(n, i) \div Base
      BY <1>0, <3>1, ShiftedStep, Zenon
    <3> QED
      BY <3>2, <3>3
  <2>4. Shifted(n, i) = (Shifted(n, i) % Base) + Base * (Shifted(n, i) \div Base)
    BY <1>0, <2>3, Division
  <2>5. f[i] = Shifted(n, i) /\ f[i + 1] = Shifted(n, i + 1)
    BY <2>1
  <2> HIDE DEF f
  <2> QED
    BY <2>2, <2>3, <2>4, <2>5
<1>2. f[w] = 0 /\ f[0] = n
  BY <1>0, ShiftedStep
<1>3. IsFrom(f, bytes, at, w)
  <2>1. \A i \in 0..w :
          f[i] = IF i = w THEN 0 ELSE bytes[at + i + 1] + Base * f[i + 1]
    <3> HIDE DEF f
    <3> QED
      BY <1>1, <1>2
  <2> QED
    BY <2>1 DEF IsFrom
<1> HIDE DEF f
<1> QED
  BY <1>2, <1>3, PrimitiveAtIs

\* Bytes hold a number that fits, and are the bytes of that number.
LEMMA EncodeDecoded ==
  ASSUME NEW w \in Nat, NEW bytes, NEW at \in Nat,
         \A i \in 1..w : bytes[at + i] \in Byte
  PROVE  /\ Fits(PrimitiveAt(bytes, at, w), w)
         /\ \A i \in 1..w : Primitive(PrimitiveAt(bytes, at, w), w)[i] = bytes[at + i]
<1>0. Base \in Nat /\ Base > 0
  BY BytesAssumption
<1>1. PICK f : IsFrom(f, bytes, at, w)
  BY FromExists
<1>2. ASSUME NEW i \in 0..w, i # w
      PROVE  /\ bytes[at + i + 1] \in Byte
             /\ f[i] = bytes[at + i + 1] + Base * f[i + 1]
  <2>1. i + 1 \in 1..w /\ at + (i + 1) = at + i + 1
    BY <1>2
  <2> QED
    BY <1>1, <1>2, <2>1 DEF IsFrom
<1>3. f[w] = 0
  BY <1>1 DEF IsFrom
<1>4. \A i \in 0..w : f[i] \in Nat
  <2> DEFINE S == {k \in Nat : \A i \in 0..w : i + k >= w => f[i] \in Nat}
  <2>1. 0 \in S
    BY <1>3
  <2>2. ASSUME NEW k \in Nat, k \in S
        PROVE  k + 1 \in S
    <3> SUFFICES ASSUME NEW i \in 0..w, i + (k + 1) >= w, i # w
                 PROVE  f[i] \in Nat
      BY <1>3
    <3>1. i + 1 \in 0..w /\ (i + 1) + k >= w
      OBVIOUS
    <3>2. f[i + 1] \in Nat
      BY <2>2, <3>1
    <3> QED
      BY <1>0, <1>2, <3>2 DEF Byte
  <2> HIDE DEF S
  <2>3. w \in S
    BY <2>1, <2>2, SetInduction
  <2> QED
    BY <2>3 DEF S
<1>5. ASSUME NEW i \in 0..w, i # w
      PROVE  f[i] \div Base = f[i + 1] /\ f[i] % Base = bytes[at + i + 1]
  <2>1. f[i + 1] \in Nat /\ f[i] \in Nat
    BY <1>4, <1>5
  <2>2. bytes[at + i + 1] \in Nat /\ bytes[at + i + 1] < Base
    BY <1>0, <1>2, <1>5 DEF Byte
  <2>3. \A b, m \in Nat : b < Base =>
          (b + Base * m) \div Base = m /\ (b + Base * m) % Base = b
    BY <1>0
  <2> QED
    BY <1>2, <1>5, <2>1, <2>2, <2>3
<1>6. \A i \in 0..w : Shifted(f[0], i) = f[i]
  <2> DEFINE S == {i \in Nat : i <= w => Shifted(f[0], i) = f[i]}
  <2>0. f[0] \in Nat
    BY <1>4
  <2>1. 0 \in S
    BY <2>0, ShiftedStep
  <2>2. ASSUME NEW i \in Nat, i \in S
        PROVE  i + 1 \in S
    <3> SUFFICES ASSUME i + 1 <= w PROVE Shifted(f[0], i + 1) = f[i + 1]
      OBVIOUS
    <3>1. Shifted(f[0], i) = f[i]
      BY <2>2
    <3>2. f[i] \div Base = f[i + 1]
      BY <1>5
    <3> QED
      BY <2>0, <3>1, <3>2, ShiftedStep
  <2> HIDE DEF S
  <2>3. \A i \in Nat : i \in S
    BY <2>1, <2>2, SetInduction
  <2> QED
    BY <2>3 DEF S
<1>7. PrimitiveAt(bytes, at, w) = f[0] /\ f[0] \in Nat
  BY <1>1, <1>4, PrimitiveAtIs
<1>8. Shifted(f[0], w) = 0
  BY <1>3, <1>6
<1>9. ASSUME NEW i \in 1..w
      PROVE  Primitive(f[0], w)[i] = bytes[at + i]
  <2>1. i - 1 \in 0..w /\ i - 1 # w /\ at + (i - 1) + 1 = at + i
    OBVIOUS
  <2>2. Shifted(f[0], i - 1) % Base = bytes[at + i]
    BY <1>5, <1>6, <2>1
  <2> QED
    BY <2>2 DEF Primitive
<1> QED
  BY <1>7, <1>8, <1>9 DEF Fits

----------------------------------------------------------------------------
LEMMA ConcatElements ==
  ASSUME NEW S, NEW a \in Seq(S), NEW b \in Seq(S)
  PROVE  /\ a \o b \in Seq(S) /\ Len(a \o b) = Len(a) + Len(b)
         /\ Len(a) \in Nat /\ Len(b) \in Nat
         /\ \A i \in 1..Len(a) : (a \o b)[i] = a[i]
         /\ \A i \in 1..Len(b) : (a \o b)[Len(a) + i] = b[i]
  OBVIOUS

LEMMA AppendElements ==
  ASSUME NEW S, NEW s \in Seq(S), NEW e \in S
  PROVE  /\ Append(s, e) \in Seq(S) /\ Len(Append(s, e)) = Len(s) + 1
         /\ Append(s, e)[Len(s) + 1] = e
         /\ \A i \in 1..Len(s) : Append(s, e)[i] = s[i]
  OBVIOUS

LEMMA CutElements ==
  ASSUME NEW S, NEW s \in Seq(S), NEW n \in 0..Len(s)
  PROVE  /\ SubSeq(s, 1, n) \in Seq(S) /\ Len(SubSeq(s, 1, n)) = n
         /\ \A i \in 1..n : SubSeq(s, 1, n)[i] = s[i]
  OBVIOUS

\* Strings and their places in a file: string stands in bytes behind at.
Holds(bytes, at, string) ==
  /\ at + Len(string) <= Len(bytes)
  /\ \A i \in 1..Len(string) : bytes[at + i] = string[i]

LEMMA HoldsConcat ==
  ASSUME NEW bytes \in Seq(Byte), NEW at \in Nat,
         NEW left \in Seq(Byte), NEW right \in Seq(Byte)
  PROVE  Holds(bytes, at, left \o right)
           <=> Holds(bytes, at, left) /\ Holds(bytes, at + Len(left), right)
<1> DEFINE both == left \o right
<1>1. /\ Len(both) = Len(left) + Len(right)
      /\ Len(left) \in Nat /\ Len(right) \in Nat /\ Len(bytes) \in Nat
  OBVIOUS
<1>2. \A i \in 1..Len(left) : i \in 1..Len(both) /\ both[i] = left[i]
  OBVIOUS
<1>3. \A i \in 1..Len(right) :
        Len(left) + i \in 1..Len(both) /\ both[Len(left) + i] = right[i]
  OBVIOUS
<1>4. \A i \in 1..Len(both) :
        i \in 1..Len(left) \/ \E j \in 1..Len(right) : i = Len(left) + j
  <2> TAKE i \in 1..Len(both)
  <2>1. i \in 1..Len(left) \/ i - Len(left) \in 1..Len(right)
    BY <1>1
  <2>2. i = Len(left) + (i - Len(left))
    BY <1>1
  <2> QED
    BY <2>1, <2>2
<1>5. \A i \in 1..Len(right) : at + Len(left) + i = at + (Len(left) + i)
  BY <1>1
<1> HIDE DEF both
<1>6. ASSUME Holds(bytes, at, both)
      PROVE  Holds(bytes, at, left) /\ Holds(bytes, at + Len(left), right)
  BY <1>1, <1>2, <1>3, <1>5, <1>6 DEF Holds
<1>7. ASSUME Holds(bytes, at, left), Holds(bytes, at + Len(left), right)
      PROVE  Holds(bytes, at, both)
  <2>1. ASSUME NEW i \in 1..Len(both)
        PROVE  bytes[at + i] = both[i]
    <3>1. CASE i \in 1..Len(left)
      BY <1>2, <1>7, <3>1 DEF Holds
    <3>2. CASE \E j \in 1..Len(right) : i = Len(left) + j
      BY <1>3, <1>5, <1>7, <3>2 DEF Holds
    <3> QED
      BY <1>4, <3>1, <3>2
  <2> QED
    BY <1>1, <1>7, <2>1 DEF Holds
<1> QED
  BY <1>6, <1>7 DEF both

LEMMA PartHeld ==
  ASSUME NEW bytes \in Seq(Byte), NEW at \in Nat, NEW n \in Nat,
         at + n <= Len(bytes)
  PROVE  /\ SubSeq(bytes, at + 1, at + n) \in Seq(Byte)
         /\ Len(SubSeq(bytes, at + 1, at + n)) = n
         /\ Holds(bytes, at, SubSeq(bytes, at + 1, at + n))
<1>1. \A i \in (at + 1)..(at + n) : bytes[i] \in Byte
  OBVIOUS
<1>2. /\ SubSeq(bytes, at + 1, at + n) \in Seq(Byte)
      /\ Len(SubSeq(bytes, at + 1, at + n)) = n
      /\ \A i \in 1..n : SubSeq(bytes, at + 1, at + n)[i] = bytes[at + i]
  BY <1>1, SubSeqProperties
<1> QED
  BY <1>2 DEF Holds

LEMMA HeldPart ==
  ASSUME NEW bytes \in Seq(Byte), NEW at \in Nat, NEW string \in Seq(Byte),
         Holds(bytes, at, string)
  PROVE  SubSeq(bytes, at + 1, at + Len(string)) = string
<1> DEFINE part == SubSeq(bytes, at + 1, at + Len(string))
<1>1. at + Len(string) <= Len(bytes) /\ Len(string) \in Nat
  BY DEF Holds
<1>2. part \in Seq(Byte) /\ Len(part) = Len(string) /\ Holds(bytes, at, part)
  BY <1>1, PartHeld
<1> HIDE DEF part
<1>3. \A i \in 1..Len(part) : part[i] = string[i]
  BY <1>2 DEF Holds
<1>4. part = string
  BY <1>2, <1>3, SeqEqual
<1> QED
  BY <1>4 DEF part

----------------------------------------------------------------------------
\* A length field and what it counts.
LEMMA PrimitiveType ==
  ASSUME NEW n \in Nat, NEW w \in Nat
  PROVE  Primitive(n, w) \in Seq(Byte) /\ Len(Primitive(n, w)) = w
<1>1. ASSUME NEW i \in 1..w
      PROVE  Shifted(n, i - 1) % Base \in Byte
  <2>1. i - 1 \in Nat /\ Base \in Nat /\ Base > 0
    BY BytesAssumption
  <2>2. Shifted(n, i - 1) \in Nat
    BY <2>1, ShiftedType
  <2> QED
    BY <2>1, <2>2 DEF Byte
<1> QED
  BY <1>1 DEF Primitive

LEMMA LengthType ==
  ASSUME NEW n \in Nat
  PROVE  Length(n) \in Seq(Byte) /\ Len(Length(n)) = Width
  BY PrimitiveType, BytesAssumption DEF Length

LEMMA SizedType ==
  ASSUME NEW string \in Seq(Byte)
  PROVE  /\ Sized(string) \in Seq(Byte)
         /\ Len(Sized(string)) = Width + Len(string)
  BY LengthType DEF Sized

LEMMA PrimitiveAtType ==
  ASSUME NEW bytes \in Seq(Byte), NEW at \in Nat, NEW w \in Nat, at + w <= Len(bytes)
  PROVE  /\ Fits(PrimitiveAt(bytes, at, w), w) /\ PrimitiveAt(bytes, at, w) \in Nat
         /\ Holds(bytes, at, Primitive(PrimitiveAt(bytes, at, w), w))
<1>1. \A i \in 1..w : bytes[at + i] \in Byte
  OBVIOUS
<1>2. /\ Fits(PrimitiveAt(bytes, at, w), w)
      /\ \A i \in 1..w : Primitive(PrimitiveAt(bytes, at, w), w)[i] = bytes[at + i]
  BY <1>1, EncodeDecoded
<1>3. PrimitiveAt(bytes, at, w) \in Nat
  BY <1>2 DEF Fits
<1>4. Len(Primitive(PrimitiveAt(bytes, at, w), w)) = w
  BY <1>3, PrimitiveType
<1> QED
  BY <1>2, <1>3, <1>4 DEF Holds

LEMMA LengthAtType ==
  ASSUME NEW bytes \in Seq(Byte), NEW at \in Nat, at + Width <= Len(bytes)
  PROVE  /\ Fits(LengthAt(bytes, at), Width) /\ LengthAt(bytes, at) \in Nat
         /\ Holds(bytes, at, Length(LengthAt(bytes, at)))
  BY PrimitiveAtType, BytesAssumption DEF LengthAt, Length

LEMMA PrimitiveAtHeld ==
  ASSUME NEW n, NEW w \in Nat, Fits(n, w), NEW bytes, NEW at \in Nat,
         Holds(bytes, at, Primitive(n, w))
  PROVE  PrimitiveAt(bytes, at, w) = n
<1>1. n \in Nat /\ Len(Primitive(n, w)) = w
  BY PrimitiveType DEF Fits
<1>2. \A i \in 1..w : bytes[at + i] = Primitive(n, w)[i]
  BY <1>1 DEF Holds
<1> QED
  BY <1>1, <1>2, DecodeEncoded

LEMMA LengthAtHeld ==
  ASSUME NEW n, Fits(n, Width), NEW bytes, NEW at \in Nat,
         Holds(bytes, at, Length(n))
  PROVE  LengthAt(bytes, at) = n
  BY PrimitiveAtHeld, BytesAssumption DEF LengthAt, Length

----------------------------------------------------------------------------
\* The payloads.
LEMMA SetPayloadType ==
  ASSUME NEW key \in Seq(Byte), NEW value \in Seq(Byte)
  PROVE  /\ SetPayload(key, value) \in Seq(Byte)
         /\ Len(SetPayload(key, value))
              = 1 + (Width + Len(key)) + (Width + Len(value))
<1>1. <<SetOp>> \in Seq(Byte)
  BY BytesAssumption DEF Byte, SetOp
<1>2. /\ Sized(key) \in Seq(Byte) /\ Len(Sized(key)) = Width + Len(key)
      /\ Sized(value) \in Seq(Byte) /\ Len(Sized(value)) = Width + Len(value)
  BY SizedType
<1>3. /\ <<SetOp>> \o Sized(key) \in Seq(Byte)
      /\ Len(<<SetOp>> \o Sized(key)) = Len(<<SetOp>>) + Len(Sized(key))
  BY <1>1, <1>2, ConcatProperties, Zenon
<1>4. /\ SetPayload(key, value) \in Seq(Byte)
      /\ Len(SetPayload(key, value))
           = Len(<<SetOp>> \o Sized(key)) + Len(Sized(value))
  BY <1>2, <1>3, ConcatProperties, Zenon DEF SetPayload
<1>5. Len(<<SetOp>>) = 1
  OBVIOUS
<1> QED
  BY <1>2, <1>3, <1>4, <1>5

LEMMA DeletePayloadType ==
  ASSUME NEW key \in Seq(Byte)
  PROVE  /\ DeletePayload(key) \in Seq(Byte)
         /\ Len(DeletePayload(key)) = 1 + (Width + Len(key))
<1>1. <<DeleteOp>> \in Seq(Byte)
  BY BytesAssumption DEF Byte, DeleteOp
<1>2. Sized(key) \in Seq(Byte) /\ Len(Sized(key)) = Width + Len(key)
  BY SizedType
<1>3. /\ DeletePayload(key) \in Seq(Byte)
      /\ Len(DeletePayload(key)) = Len(<<DeleteOp>>) + Len(Sized(key))
  BY <1>1, <1>2, ConcatProperties, Zenon DEF DeletePayload
<1>4. Len(<<DeleteOp>>) = 1
  OBVIOUS
<1> QED
  BY <1>2, <1>3, <1>4

\* What stands where in a payload that holds the fields of a write.
LEMMA SetFields ==
  ASSUME NEW bytes \in Seq(Byte), NEW key \in Seq(Byte), NEW value \in Seq(Byte)
  PROVE  Holds(bytes, 0, SetPayload(key, value))
           <=> /\ Holds(bytes, 0, <<SetOp>>)
               /\ Holds(bytes, 1, Length(Len(key)))
               /\ Holds(bytes, 1 + Width, key)
               /\ Holds(bytes, 1 + Width + Len(key), Length(Len(value)))
               /\ Holds(bytes, 1 + Width + Len(key) + Width, value)
<1>1. <<SetOp>> \in Seq(Byte) /\ Len(<<SetOp>>) = 1
  BY BytesAssumption DEF Byte, SetOp
<1>2. /\ 1 \in Nat /\ Width \in Nat /\ Len(key) \in Nat /\ Len(value) \in Nat
      /\ Length(Len(key)) \in Seq(Byte) /\ Len(Length(Len(key))) = Width
      /\ Length(Len(value)) \in Seq(Byte) /\ Len(Length(Len(value))) = Width
      /\ Sized(key) \in Seq(Byte) /\ Len(Sized(key)) = Width + Len(key)
      /\ Sized(value) \in Seq(Byte) /\ Len(Sized(value)) = Width + Len(value)
  <2>1. Width \in Nat /\ Len(key) \in Nat /\ Len(value) \in Nat /\ 1 \in Nat
    BY BytesAssumption
  <2> QED
    BY <2>1, LengthType, SizedType, Zenon
<1> HIDE DEF SetOp
<1>3. <<SetOp>> \o Sized(key) \in Seq(Byte)
      /\ Len(<<SetOp>> \o Sized(key)) = Len(<<SetOp>>) + Len(Sized(key))
  BY <1>1, <1>2, ConcatProperties, Zenon
<1>4. Holds(bytes, 0, SetPayload(key, value))
        <=> /\ Holds(bytes, 0, <<SetOp>> \o Sized(key))
            /\ Holds(bytes, 0 + Len(<<SetOp>> \o Sized(key)), Sized(value))
  <2>1. 0 \in Nat
    OBVIOUS
  <2> QED
    BY <2>1, <1>2, <1>3, HoldsConcat, Zenon DEF SetPayload
<1>5. Holds(bytes, 0, <<SetOp>> \o Sized(key))
        <=> Holds(bytes, 0, <<SetOp>>) /\ Holds(bytes, 0 + Len(<<SetOp>>), Sized(key))
  BY <1>1, <1>2, HoldsConcat, Zenon
<1>6. Holds(bytes, 1, Sized(key))
        <=> Holds(bytes, 1, Length(Len(key))) /\ Holds(bytes, 1 + Width, key)
  BY <1>2, HoldsConcat, Zenon DEF Sized
<1>7. Holds(bytes, 1 + Width + Len(key), Sized(value))
        <=> /\ Holds(bytes, 1 + Width + Len(key), Length(Len(value)))
            /\ Holds(bytes, 1 + Width + Len(key) + Width, value)
  <2>1. 1 + Width + Len(key) \in Nat
    BY <1>2
  <2> QED
    BY <1>2, <2>1, HoldsConcat, Zenon DEF Sized
<1>8. /\ 0 + Len(<<SetOp>>) = 1
      /\ 0 + Len(<<SetOp>> \o Sized(key)) = 1 + Width + Len(key)
  BY <1>1, <1>2, <1>3
<1> QED
  BY <1>4, <1>5, <1>6, <1>7, <1>8

LEMMA DeleteFields ==
  ASSUME NEW bytes \in Seq(Byte), NEW key \in Seq(Byte)
  PROVE  Holds(bytes, 0, DeletePayload(key))
           <=> /\ Holds(bytes, 0, <<DeleteOp>>)
               /\ Holds(bytes, 1, Length(Len(key)))
               /\ Holds(bytes, 1 + Width, key)
<1>1. <<DeleteOp>> \in Seq(Byte) /\ Len(<<DeleteOp>>) = 1
  BY BytesAssumption DEF Byte, DeleteOp
<1>2. /\ 1 \in Nat /\ Width \in Nat /\ Len(key) \in Nat
      /\ Length(Len(key)) \in Seq(Byte) /\ Len(Length(Len(key))) = Width
      /\ Sized(key) \in Seq(Byte)
  <2>1. 1 \in Nat /\ Width \in Nat /\ Len(key) \in Nat
    BY BytesAssumption
  <2> QED
    BY <2>1, LengthType, SizedType, Zenon
<1> HIDE DEF DeleteOp
<1>3. Holds(bytes, 0, DeletePayload(key))
        <=> Holds(bytes, 0, <<DeleteOp>>) /\ Holds(bytes, 0 + Len(<<DeleteOp>>), Sized(key))
  BY <1>1, <1>2, HoldsConcat, Zenon DEF DeletePayload
<1>4. Holds(bytes, 1, Sized(key))
        <=> Holds(bytes, 1, Length(Len(key))) /\ Holds(bytes, 1 + Width, key)
  BY <1>2, HoldsConcat, Zenon DEF Sized
<1>5. 0 + Len(<<DeleteOp>>) = 1
  BY <1>1
<1> QED
  BY <1>3, <1>4, <1>5

\* A text as long as the file, from its first byte on, is the file.
LEMMA HoldsAll ==
  ASSUME NEW bytes \in Seq(Byte), NEW string \in Seq(Byte),
         Len(bytes) = Len(string)
  PROVE  Holds(bytes, 0, string) <=> bytes = string
<1>1. ASSUME Holds(bytes, 0, string)
      PROVE  bytes = string
  <2>1. \A i \in 1..Len(bytes) : bytes[i] = string[i]
    BY <1>1 DEF Holds
  <2> QED
    BY <2>1, SeqEqual
<1>2. Holds(string, 0, string)
  BY DEF Holds
<1> QED
  BY <1>1, <1>2

\* The parser reads the operation that a writer wrote.
LEMMA ParsesSet ==
  ASSUME NEW key \in Seq(Byte), NEW value \in Seq(Byte),
         Fits(Len(key), Width), Fits(Len(value), Width)
  PROVE  ParseRecord(SetPayload(key, value))
           = [op |-> SetOp, key |-> key, value |-> value]
<1> DEFINE bytes == SetPayload(key, value)
           keyEnd == 1 + Width + Len(key)
           valueEnd == keyEnd + Width + Len(value)
<1>1. Width \in Nat /\ Len(key) \in Nat /\ Len(value) \in Nat
  BY BytesAssumption
<1>2. bytes \in Seq(Byte) /\ Len(bytes) = valueEnd
  BY <1>1, SetPayloadType
<1>3. Holds(bytes, 0, bytes)
  BY <1>2, HoldsAll
<1>4. /\ Holds(bytes, 0, <<SetOp>>) /\ Holds(bytes, 1, Length(Len(key)))
      /\ Holds(bytes, 1 + Width, key) /\ Holds(bytes, keyEnd, Length(Len(value)))
      /\ Holds(bytes, keyEnd + Width, value)
  BY <1>2, <1>3, SetFields
<1> HIDE DEF bytes
<1>5. bytes[1] = SetOp
  BY <1>4 DEF Holds
<1>6. LengthAt(bytes, 1) = Len(key) /\ LengthAt(bytes, keyEnd) = Len(value)
  BY <1>1, <1>4, LengthAtHeld
<1>7. SubSeq(bytes, 2 + Width, keyEnd) = key
  <2>1. 2 + Width = (1 + Width) + 1 /\ keyEnd = (1 + Width) + Len(key)
        /\ 1 + Width \in Nat /\ (1 + Width) + Len(key) <= Len(bytes)
    BY <1>1, <1>2
  <2>2. SubSeq(bytes, (1 + Width) + 1, (1 + Width) + Len(key)) = key
    BY <1>2, <1>4, <2>1, HeldPart, Zenon
  <2> QED
    BY <2>1, <2>2
<1>8. SubSeq(bytes, keyEnd + Width + 1, valueEnd) = value
  <2> DEFINE at == keyEnd + Width
  <2>1. at \in Nat /\ at + Len(value) <= Len(bytes) /\ valueEnd = at + Len(value)
    BY <1>1, <1>2
  <2>2. Holds(bytes, at, value)
    BY <1>4
  <2> HIDE DEF at
  <2>3. SubSeq(bytes, at + 1, at + Len(value)) = value
    BY <1>2, <2>1, <2>2, HeldPart, Zenon
  <2> QED
    BY <2>1, <2>3 DEF at
<1>9. /\ Len(bytes) >= 1 + Width /\ keyEnd <= Len(bytes)
      /\ keyEnd + Width <= Len(bytes) /\ SetOp # DeleteOp
  BY <1>1, <1>2 DEF SetOp, DeleteOp
<1> HIDE DEF SetOp, DeleteOp
<1>10. ParseRecord(bytes) = [op |-> SetOp, key |-> key, value |-> value]
  BY <1>2, <1>5, <1>6, <1>7, <1>8, <1>9, Zenon DEF ParseRecord
<1> QED
  BY <1>10 DEF bytes

LEMMA ParsesDelete ==
  ASSUME NEW key \in Seq(Byte), Fits(Len(key), Width)
  PROVE  ParseRecord(DeletePayload(key)) = [op |-> DeleteOp, key |-> key]
<1> DEFINE bytes == DeletePayload(key)
           keyEnd == 1 + Width + Len(key)
<1>1. Width \in Nat /\ Len(key) \in Nat
  BY BytesAssumption
<1>2. bytes \in Seq(Byte) /\ Len(bytes) = keyEnd
  BY <1>1, DeletePayloadType
<1>3. Holds(bytes, 0, bytes)
  BY <1>2, HoldsAll
<1>4. /\ Holds(bytes, 0, <<DeleteOp>>) /\ Holds(bytes, 1, Length(Len(key)))
      /\ Holds(bytes, 1 + Width, key)
  BY <1>2, <1>3, DeleteFields
<1> HIDE DEF bytes
<1>5. bytes[1] = DeleteOp
  BY <1>4 DEF Holds
<1>6. LengthAt(bytes, 1) = Len(key)
  BY <1>1, <1>4, LengthAtHeld
<1>7. SubSeq(bytes, 2 + Width, keyEnd) = key
  <2>1. 2 + Width = (1 + Width) + 1 /\ keyEnd = (1 + Width) + Len(key)
        /\ 1 + Width \in Nat
    BY <1>1
  <2>2. SubSeq(bytes, (1 + Width) + 1, (1 + Width) + Len(key)) = key
    BY <1>2, <1>4, <2>1, HeldPart, Zenon
  <2> QED
    BY <2>1, <2>2
<1>8. /\ Len(bytes) >= 1 + Width /\ keyEnd <= Len(bytes)
      /\ DeleteOp # SetOp
  BY <1>1, <1>2 DEF SetOp, DeleteOp
<1> HIDE DEF SetOp, DeleteOp
<1>9. ParseRecord(bytes) = [op |-> DeleteOp, key |-> key]
  BY <1>2, <1>5, <1>6, <1>7, <1>8, Zenon DEF ParseRecord
<1> QED
  BY <1>9 DEF bytes

\* The operations on byte strings, and the type of what is parsed.
Record ==
  [op: {SetOp}, key: Seq(Byte), value: Seq(Byte)]
    \cup [op: {DeleteOp}, key: Seq(Byte)]

\* What a payload that the parser accepts consists of, in the words of the
\* writer.
LEMMA ParsedIsEncoded ==
  ASSUME NEW bytes \in Seq(Byte), ParseRecord(bytes) # Malformed
  PROVE  /\ ParseRecord(bytes) \in Record
         /\ Payload(ParseRecord(bytes)) = bytes
<1> DEFINE length == Len(bytes)
           keyEnd == 1 + Width + LengthAt(bytes, 1)
           key == SubSeq(bytes, 2 + Width, keyEnd)
           valueEnd == keyEnd + Width + LengthAt(bytes, keyEnd)
           value == SubSeq(bytes, keyEnd + Width + 1, valueEnd)
           hasKey == length >= 1 + Width /\ keyEnd <= length
           isSet == bytes[1] = SetOp /\ keyEnd + Width <= length
                      /\ valueEnd = length
           isDelete == bytes[1] = DeleteOp /\ keyEnd = length
<1>1. SetOp # DeleteOp
  BY DEF SetOp, DeleteOp
<1>2. \/ /\ hasKey /\ isSet
         /\ ParseRecord(bytes) = [op |-> SetOp, key |-> key, value |-> value]
      \/ /\ hasKey /\ isDelete
         /\ ParseRecord(bytes) = [op |-> DeleteOp, key |-> key]
  <2> HIDE DEF SetOp, DeleteOp
  <2> QED
    BY <1>1, Zenon DEF ParseRecord
<1>3. Width \in Nat /\ length \in Nat /\ hasKey
  BY <1>2, BytesAssumption
<1>4. /\ LengthAt(bytes, 1) \in Nat /\ Fits(LengthAt(bytes, 1), Width)
      /\ Holds(bytes, 1, Length(LengthAt(bytes, 1)))
  BY <1>3, LengthAtType
<1>5. /\ key \in Seq(Byte) /\ Len(key) = LengthAt(bytes, 1)
      /\ Holds(bytes, 1 + Width, key)
  <2>1. /\ 2 + Width = (1 + Width) + 1 /\ 1 + Width \in Nat
        /\ (1 + Width) + LengthAt(bytes, 1) <= Len(bytes)
    BY <1>3, <1>4
  <2>2. key = SubSeq(bytes, (1 + Width) + 1, (1 + Width) + LengthAt(bytes, 1))
    BY <2>1
  <2> HIDE DEF key
  <2> QED
    BY <1>4, <2>1, <2>2, PartHeld, Zenon
<1>6. \A op \in {SetOp, DeleteOp} : bytes[1] = op => Holds(bytes, 0, <<op>>)
  BY <1>3 DEF Holds
<1>7. CASE isSet /\ ParseRecord(bytes) = [op |-> SetOp, key |-> key, value |-> value]
  <2>0. /\ keyEnd \in Nat /\ keyEnd + Width <= Len(bytes)
        /\ Len(bytes) = keyEnd + Width + LengthAt(bytes, keyEnd)
        /\ bytes[1] = SetOp
    BY <1>3, <1>4, <1>7
  <2>1. /\ LengthAt(bytes, keyEnd) \in Nat
        /\ Holds(bytes, keyEnd, Length(LengthAt(bytes, keyEnd)))
    BY <2>0, LengthAtType, Zenon
  <2>2. /\ value \in Seq(Byte) /\ Len(value) = LengthAt(bytes, keyEnd)
        /\ Holds(bytes, keyEnd + Width, value)
    <3> DEFINE at == keyEnd + Width
    <3>1. at \in Nat /\ at + LengthAt(bytes, keyEnd) <= Len(bytes)
      BY <1>3, <2>0, <2>1
    <3>2. value = SubSeq(bytes, at + 1, at + LengthAt(bytes, keyEnd))
      OBVIOUS
    <3> HIDE DEF at, value
    <3>3. /\ value \in Seq(Byte) /\ Len(value) = LengthAt(bytes, keyEnd)
          /\ Holds(bytes, at, value)
      BY <2>1, <3>1, <3>2, PartHeld, Zenon
    <3> QED
      BY <3>3 DEF at
  <2>3. keyEnd = 1 + Width + Len(key) /\ Len(bytes) = keyEnd + Width + Len(value)
    BY <1>5, <2>0, <2>2
  <2>4. Holds(bytes, 0, <<SetOp>>)
    BY <1>6, <2>0
  <2> HIDE DEF key, value
  <2>5. Holds(bytes, 0, SetPayload(key, value))
    BY <1>4, <1>5, <2>1, <2>2, <2>3, <2>4, SetFields
  <2>6. /\ SetPayload(key, value) \in Seq(Byte)
        /\ Len(SetPayload(key, value)) = Len(bytes)
    <3>1. Len(key) \in Nat /\ Len(value) \in Nat
      BY <1>5, <2>2
    <3>2. 1 + (Width + Len(key)) + (Width + Len(value)) = Len(bytes)
      BY <1>3, <2>3, <3>1
    <3> QED
      BY <1>5, <2>2, <3>2, SetPayloadType, Zenon
  <2>7. SetPayload(key, value) = bytes
    BY <2>5, <2>6, HoldsAll
  <2> QED
    BY <1>5, <1>7, <2>2, <2>7 DEF Record, Payload
<1>8. CASE isDelete /\ ParseRecord(bytes) = [op |-> DeleteOp, key |-> key]
  <2>1. Holds(bytes, 0, <<DeleteOp>>)
    BY <1>6, <1>8
  <2> HIDE DEF key
  <2>2. Holds(bytes, 0, DeletePayload(key))
    BY <1>4, <1>5, <2>1, DeleteFields
  <2>3. /\ DeletePayload(key) \in Seq(Byte)
        /\ Len(DeletePayload(key)) = Len(bytes)
    BY <1>3, <1>5, <1>8, DeletePayloadType
  <2>4. DeletePayload(key) = bytes
    BY <2>2, <2>3, HoldsAll
  <2> QED
    BY <1>1, <1>5, <1>8, <2>4 DEF Record, Payload
<1> QED
  BY <1>2, <1>7, <1>8

\* A writer's payload for any operation within the limit, and what is parsed.
LEMMA PayloadType ==
  ASSUME NEW operation \in Record
  PROVE  Payload(operation) \in Seq(Byte)
<1>1. SetOp # DeleteOp
  BY DEF SetOp, DeleteOp
<1> HIDE DEF SetOp, DeleteOp
<1>2. CASE operation \in [op: {SetOp}, key: Seq(Byte), value: Seq(Byte)]
  BY <1>2, SetPayloadType DEF Payload
<1>3. CASE operation \in [op: {DeleteOp}, key: Seq(Byte)]
  BY <1>1, <1>3, DeletePayloadType DEF Payload
<1> QED
  BY <1>2, <1>3 DEF Record

LEMMA ParsesPayload ==
  ASSUME NEW operation \in Record, WithinLimit(Payload(operation))
  PROVE  ParseRecord(Payload(operation)) = operation
<1>1. SetOp # DeleteOp
  BY DEF SetOp, DeleteOp
<1>2. kMaxRecordLength \in Nat /\ Width \in Nat
  BY LimitAssumption, BytesAssumption DEF Fits
<1> HIDE DEF SetOp, DeleteOp
<1>3. CASE operation \in [op: {DeleteOp}, key: Seq(Byte)]
  <2> DEFINE key == operation.key
  <2>1. operation = [op |-> DeleteOp, key |-> key] /\ key \in Seq(Byte)
    BY <1>3
  <2> HIDE DEF key
  <2>2. Payload(operation) = DeletePayload(key)
    BY <1>1, <2>1 DEF Payload
  <2>3. Len(key) <= kMaxRecordLength /\ Len(key) \in Nat
    BY <1>2, <2>1, <2>2, DeletePayloadType DEF WithinLimit
  <2>4. Fits(Len(key), Width)
    BY <2>3, WithinLimitFits
  <2> QED
    BY <2>1, <2>2, <2>4, ParsesDelete
<1>4. CASE operation \in [op: {SetOp}, key: Seq(Byte), value: Seq(Byte)]
  <2> DEFINE key == operation.key
             value == operation.value
  <2>1. /\ operation = [op |-> SetOp, key |-> key, value |-> value]
        /\ key \in Seq(Byte) /\ value \in Seq(Byte)
    BY <1>4
  <2> HIDE DEF key, value
  <2>2. Payload(operation) = SetPayload(key, value)
    BY <2>1 DEF Payload
  <2>3. /\ Len(key) <= kMaxRecordLength /\ Len(key) \in Nat
        /\ Len(value) <= kMaxRecordLength /\ Len(value) \in Nat
    <3>1. Len(key) \in Nat /\ Len(value) \in Nat
      BY <2>1
    <3>2. 1 + (Width + Len(key)) + (Width + Len(value)) <= kMaxRecordLength
      BY <2>1, <2>2, SetPayloadType, Zenon DEF WithinLimit
    <3> QED
      BY <1>2, <3>1, <3>2
  <2>4. Fits(Len(key), Width) /\ Fits(Len(value), Width)
    BY <2>3, WithinLimitFits
  <2> QED
    BY <2>1, <2>2, <2>4, ParsesSet
<1> QED
  BY <1>3, <1>4 DEF Record

----------------------------------------------------------------------------
\* Replay.  A frame stands behind at, or nothing is read there.
NextRecord(bytes, at) == at + Width + LengthAt(bytes, at)

Readable(bytes, at) ==
  /\ at + Width <= Len(bytes)
  /\ LengthAt(bytes, at) <= kMaxRecordLength
  /\ NextRecord(bytes, at) <= Len(bytes)

Parsed(bytes, at) ==
  ParseRecord(SubSeq(bytes, at + Width + 1, NextRecord(bytes, at)))

Records(parsed) == IF parsed = Malformed THEN <<>> ELSE <<parsed>>

IsReplay(f, bytes) ==
  f = [at \in Nat |-> IF ~Readable(bytes, at) THEN <<>>
                      ELSE Records(Parsed(bytes, at)) \o f[NextRecord(bytes, at)]]

LEMMA FrameType ==
  ASSUME NEW payload \in Seq(Byte)
  PROVE  /\ Frame(payload) \in Seq(Byte)
         /\ Len(Frame(payload)) = Width + Len(payload)
         /\ Len(Frame(payload)) \in Nat /\ Len(Frame(payload)) > 0
  BY SizedType, BytesAssumption DEF Frame

LEMMA FrameEnd ==
  ASSUME NEW bytes, NEW at \in Nat, NEW payload \in Seq(Byte),
         Holds(bytes, at, Frame(payload))
  PROVE  /\ at + Len(Frame(payload)) \in Nat
         /\ at < at + Len(Frame(payload))
         /\ at + Len(Frame(payload)) <= Len(bytes)
<1>1. Len(Frame(payload)) \in Nat /\ Len(Frame(payload)) > 0
  BY FrameType
<1>2. at + Len(Frame(payload)) <= Len(bytes)
  BY DEF Holds
<1> QED
  BY <1>1, <1>2

\* A readable place is one where a frame within the limit stands.
LEMMA ReadableFrame ==
  ASSUME NEW bytes \in Seq(Byte), NEW at \in Nat, Readable(bytes, at)
  PROVE  \E payload \in Seq(Byte) :
           WithinLimit(payload) /\ Holds(bytes, at, Frame(payload))
<1> DEFINE n == LengthAt(bytes, at)
           payload == SubSeq(bytes, at + Width + 1, at + Width + n)
<1>1. Width \in Nat /\ at + Width <= Len(bytes) /\ n <= kMaxRecordLength
      /\ at + Width + n <= Len(bytes)
  BY BytesAssumption DEF Readable, NextRecord
<1>2. n \in Nat /\ Holds(bytes, at, Length(n))
  BY <1>1, LengthAtType
<1>3. at + Width \in Nat
  BY <1>1
<1> HIDE DEF n
<1>4. /\ payload \in Seq(Byte) /\ Len(payload) = n
      /\ Holds(bytes, at + Width, payload)
  BY <1>1, <1>2, <1>3, PartHeld, Zenon
<1> HIDE DEF payload
<1>5. Length(n) \in Seq(Byte) /\ Len(Length(n)) = Width
  BY <1>2, LengthType
<1>6. Holds(bytes, at, Frame(payload))
  BY <1>2, <1>4, <1>5, HoldsConcat, Zenon DEF Frame, Sized
<1>7. WithinLimit(payload)
  BY <1>1, <1>4 DEF WithinLimit
<1> QED
  BY <1>4, <1>6, <1>7

LEMMA FrameReadable ==
  ASSUME NEW bytes \in Seq(Byte), NEW at \in Nat, NEW payload \in Seq(Byte),
         WithinLimit(payload), Holds(bytes, at, Frame(payload))
  PROVE  /\ Readable(bytes, at)
         /\ NextRecord(bytes, at) = at + Len(Frame(payload))
         /\ Parsed(bytes, at) = ParseRecord(payload)
<1>1. Width \in Nat /\ Len(payload) \in Nat /\ Len(bytes) \in Nat
  BY BytesAssumption
<1>2. Length(Len(payload)) \in Seq(Byte) /\ Len(Length(Len(payload))) = Width
  BY <1>1, LengthType
<1>3. /\ Holds(bytes, at, Length(Len(payload)))
      /\ Holds(bytes, at + Width, payload)
  BY <1>2, HoldsConcat, Zenon DEF Frame, Sized
<1>4. Fits(Len(payload), Width)
  BY <1>1, WithinLimitFits DEF WithinLimit
<1>5. LengthAt(bytes, at) = Len(payload)
  BY <1>3, <1>4, LengthAtHeld
<1>6. at + Width \in Nat /\ at + Width + Len(payload) <= Len(bytes)
  BY <1>1, <1>3 DEF Holds
<1>7. SubSeq(bytes, at + Width + 1, at + Width + Len(payload)) = payload
  BY <1>3, <1>6, HeldPart, Zenon
<1>8. Parsed(bytes, at) = ParseRecord(payload)
  BY <1>5, <1>7, Zenon DEF Parsed, NextRecord
<1>9. NextRecord(bytes, at) = at + Width + Len(payload)
  BY <1>5 DEF NextRecord
<1>10. at + Len(Frame(payload)) = at + Width + Len(payload)
  BY <1>1, FrameType
<1>11. Readable(bytes, at)
  BY <1>1, <1>5, <1>6, <1>9 DEF Readable, WithinLimit
<1> QED
  BY <1>8, <1>9, <1>10, <1>11

LEMMA ReadableNext ==
  ASSUME NEW bytes \in Seq(Byte), NEW at \in Nat, Readable(bytes, at)
  PROVE  /\ NextRecord(bytes, at) \in Nat
         /\ at < NextRecord(bytes, at) /\ NextRecord(bytes, at) <= Len(bytes)
<1>1. PICK payload \in Seq(Byte) :
             WithinLimit(payload) /\ Holds(bytes, at, Frame(payload))
  BY ReadableFrame
<1>2. NextRecord(bytes, at) = at + Len(Frame(payload))
  BY <1>1, FrameReadable
<1> QED
  BY <1>1, <1>2, FrameEnd

LEMMA ReplayExists ==
  ASSUME NEW bytes \in Seq(Byte)
  PROVE  \E f : IsReplay(f, bytes)
<1> DEFINE Step(f, at) == IF ~Readable(bytes, at) THEN <<>>
                          ELSE Records(Parsed(bytes, at)) \o f[NextRecord(bytes, at)]
           Upper(f, k) == \A at \in Nat : at + k >= Len(bytes) => f[at] = Step(f, at)
           S == {k \in Nat : \E f : Upper(f, k)}
<1>1. 0 \in S
  <2> DEFINE g == [at \in Nat |-> <<>>]
  <2>1. ASSUME NEW at \in Nat, at + 0 >= Len(bytes)
        PROVE  g[at] = Step(g, at)
    <3>1. ~Readable(bytes, at)
      BY <2>1, ReadableNext
    <3> QED
      BY <3>1
  <2>2. Upper(g, 0)
    BY <2>1
  <2> HIDE DEF g, Upper
  <2> QED
    BY <2>2
<1>2. ASSUME NEW k \in Nat, k \in S
      PROVE  k + 1 \in S
  <2>1. PICK f : Upper(f, k)
    BY <1>2
  <2> DEFINE g == [at \in Nat |-> IF at + k >= Len(bytes) THEN f[at] ELSE Step(f, at)]
  <2>2. ASSUME NEW at \in Nat, at + (k + 1) >= Len(bytes)
        PROVE  g[at] = Step(g, at)
    <3>1. g[at] = Step(f, at)
      BY <2>1
    <3>2. CASE Readable(bytes, at)
      <4>1. NextRecord(bytes, at) \in Nat /\ NextRecord(bytes, at) + k >= Len(bytes)
        BY <2>2, <3>2, ReadableNext
      <4>2. g[NextRecord(bytes, at)] = f[NextRecord(bytes, at)]
        BY <4>1
      <4> HIDE DEF g
      <4> QED
        BY <3>1, <3>2, <4>2
    <3>3. CASE ~Readable(bytes, at)
      <4> HIDE DEF g
      <4> QED
        BY <3>1, <3>3
    <3> QED
      BY <3>2, <3>3
  <2>3. Upper(g, k + 1)
    BY <2>2
  <2> HIDE DEF g, Upper
  <2> QED
    BY <2>3
<1> HIDE DEF S
<1>3. Len(bytes) \in S
  BY <1>1, <1>2, SetInduction
<1>4. PICK f : Upper(f, Len(bytes))
  BY <1>3 DEF S
<1> DEFINE g == [at \in Nat |-> f[at]]
<1>5. ASSUME NEW at \in Nat
      PROVE  g[at] = Step(g, at)
  <2>1. f[at] = Step(f, at)
    BY <1>4
  <2>2. Readable(bytes, at) => g[NextRecord(bytes, at)] = f[NextRecord(bytes, at)]
    BY ReadableNext
  <2>3. g[at] = f[at]
    OBVIOUS
  <2> HIDE DEF g
  <2> QED
    BY <2>1, <2>2, <2>3
<1>6. IsReplay(g, bytes)
  <2>1. g = [at \in Nat |-> g[at]]
    OBVIOUS
  <2> HIDE DEF g
  <2> QED
    BY <1>5, <2>1 DEF IsReplay
<1> HIDE DEF g
<1> QED
  BY <1>6

\* One round of ReplayFrom's loop.
LEMMA ReplayUnrolled ==
  ASSUME NEW bytes \in Seq(Byte), NEW at \in Nat
  PROVE  ReplayFrom(bytes, at) =
           IF ~Readable(bytes, at) THEN <<>>
           ELSE Records(Parsed(bytes, at)) \o ReplayFrom(bytes, NextRecord(bytes, at))
<1> DEFINE Replay == CHOOSE f : IsReplay(f, bytes)
<1>1. \A n : ReplayFrom(bytes, n) = Replay[n]
  BY DEF ReplayFrom, IsReplay, Readable, Parsed, Records, NextRecord
<1>2. IsReplay(Replay, bytes)
  BY ReplayExists
<1> HIDE DEF Replay
<1>3. Replay[at] = IF ~Readable(bytes, at) THEN <<>>
                   ELSE Records(Parsed(bytes, at)) \o Replay[NextRecord(bytes, at)]
  BY <1>2 DEF IsReplay
<1> QED
  BY <1>1, <1>3, Zenon

LEMMA ReplayFrame ==
  ASSUME NEW bytes \in Seq(Byte), NEW at \in Nat, NEW payload \in Seq(Byte),
         WithinLimit(payload), Holds(bytes, at, Frame(payload))
  PROVE  ReplayFrom(bytes, at) =
           Records(ParseRecord(payload))
             \o ReplayFrom(bytes, at + Len(Frame(payload)))
  BY ReplayUnrolled, FrameReadable, Zenon

LEMMA ReplayNothing ==
  ASSUME NEW bytes \in Seq(Byte), NEW at \in Nat,
         \A payload \in Seq(Byte) :
           ~(WithinLimit(payload) /\ Holds(bytes, at, Frame(payload)))
  PROVE  ReplayFrom(bytes, at) = <<>>
  BY ReplayUnrolled, ReadableFrame, Zenon

LEMMA ReplayAtEnd ==
  ASSUME NEW bytes \in Seq(Byte), NEW at \in Nat, at >= Len(bytes)
  PROVE  ReplayFrom(bytes, at) = <<>>
<1>1. ~Readable(bytes, at)
  BY ReadableNext
<1> QED
  BY <1>1, ReplayUnrolled, Zenon

\* What holds of a place in a file when it holds of the places behind it.
LEMMA BackwardInduction ==
  ASSUME NEW n \in Nat, NEW S,
         \A at \in Nat : (\A next \in Nat : at < next /\ next <= n => next \in S)
                           => at \in S
  PROVE  \A at \in Nat : at \in S
<1> DEFINE T == {k \in Nat : \A at \in Nat : at + k > n => at \in S}
<1>1. 0 \in T
  OBVIOUS
<1>2. ASSUME NEW k \in Nat, k \in T
      PROVE  k + 1 \in T
  <2> SUFFICES ASSUME NEW at \in Nat, at + (k + 1) > n
               PROVE  at \in S
    OBVIOUS
  <2>1. ASSUME NEW next \in Nat, at < next
        PROVE  next \in S
    <3>1. next + k > n
      BY <2>1
    <3> QED
      BY <1>2, <3>1
  <2> QED
    BY <2>1
<1> HIDE DEF T
<1>3. n + 1 \in T
  BY <1>1, <1>2, SetInduction
<1> QED
  BY <1>3 DEF T

\* The records a writer can have written.
Writable == {record \in Record : WithinLimit(Payload(record))}

LEMMA RecordsType ==
  ASSUME NEW payload \in Seq(Byte), WithinLimit(payload)
  PROVE  Records(ParseRecord(payload)) \in Seq(Writable)
<1>1. CASE ParseRecord(payload) = Malformed
  BY <1>1 DEF Records
<1>2. CASE ParseRecord(payload) # Malformed
  <2>1. ParseRecord(payload) \in Writable
    BY <1>2, ParsedIsEncoded DEF Writable
  <2>2. Records(ParseRecord(payload)) = <<ParseRecord(payload)>>
    BY <1>2 DEF Records
  <2> HIDE DEF Writable
  <2> QED
    BY <2>1, <2>2
<1> QED
  BY <1>1, <1>2

\* Replay reads nothing that a writer refuses to write.
LEMMA ReplayType ==
  ASSUME NEW bytes \in Seq(Byte)
  PROVE  \A at \in Nat : ReplayFrom(bytes, at) \in Seq(Writable)
<1> DEFINE S == {at \in Nat : ReplayFrom(bytes, at) \in Seq(Writable)}
<1>1. ASSUME NEW at \in Nat,
             \A next \in Nat : at < next /\ next <= Len(bytes) => next \in S
      PROVE  at \in S
  <2>1. CASE \E payload \in Seq(Byte) :
               WithinLimit(payload) /\ Holds(bytes, at, Frame(payload))
    <3>1. PICK payload \in Seq(Byte) :
                 WithinLimit(payload) /\ Holds(bytes, at, Frame(payload))
      BY <2>1
    <3> DEFINE next == at + Len(Frame(payload))
    <3>2. next \in Nat /\ at < next /\ next <= Len(bytes)
      BY <3>1, FrameEnd
    <3>3. ReplayFrom(bytes, next) \in Seq(Writable)
      BY <1>1, <3>2
    <3>4. Records(ParseRecord(payload)) \in Seq(Writable)
      BY <3>1, RecordsType
    <3>5. ReplayFrom(bytes, at)
            = Records(ParseRecord(payload)) \o ReplayFrom(bytes, next)
      BY <3>1, ReplayFrame
    <3> HIDE DEF next
    <3> QED
      BY <3>3, <3>4, <3>5, ConcatProperties, Zenon
  <2>2. CASE ~ \E payload \in Seq(Byte) :
                 WithinLimit(payload) /\ Holds(bytes, at, Frame(payload))
    <3>1. ReplayFrom(bytes, at) = <<>>
      BY <2>2, ReplayNothing
    <3> QED
      BY <3>1
  <2> QED
    BY <2>1, <2>2
<1> HIDE DEF S
<1>2. \A at \in Nat : at \in S
  BY <1>1, BackwardInduction, Len(bytes) \in Nat
<1> QED
  BY <1>2 DEF S

\* What stands in a file stands in a longer one, and moves with what is put
\* in front of it.
LEMMA HeldLonger ==
  ASSUME NEW bytes \in Seq(Byte), NEW tail \in Seq(Byte), NEW at \in Nat,
         NEW string \in Seq(Byte), Holds(bytes, at, string)
  PROVE  Holds(bytes \o tail, at, string)
<1>1. /\ Len(bytes \o tail) >= Len(bytes) /\ at + Len(string) <= Len(bytes)
      /\ \A i \in 1..Len(bytes) : (bytes \o tail)[i] = bytes[i]
  BY DEF Holds
<1>2. \A i \in 1..Len(string) : at + i \in 1..Len(bytes)
  BY <1>1
<1> QED
  BY <1>1, <1>2 DEF Holds

LEMMA HeldBehind ==
  ASSUME NEW head \in Seq(Byte), NEW bytes \in Seq(Byte), NEW at \in Nat,
         NEW string \in Seq(Byte)
  PROVE  Holds(head \o bytes, Len(head) + at, string) <=> Holds(bytes, at, string)
<1> DEFINE both == head \o bytes
<1>1. /\ Len(both) = Len(head) + Len(bytes)
      /\ Len(head) \in Nat /\ Len(bytes) \in Nat /\ Len(string) \in Nat
      /\ \A i \in 1..Len(bytes) : both[Len(head) + i] = bytes[i]
  OBVIOUS
<1> HIDE DEF both
<1>2. Len(head) + at + Len(string) <= Len(both) <=> at + Len(string) <= Len(bytes)
  BY <1>1
<1>3. at + Len(string) <= Len(bytes) =>
        \A i \in 1..Len(string) : both[Len(head) + at + i] = bytes[at + i]
  <2> SUFFICES ASSUME at + Len(string) <= Len(bytes), NEW i \in 1..Len(string)
               PROVE  both[Len(head) + at + i] = bytes[at + i]
    OBVIOUS
  <2>1. at + i \in 1..Len(bytes) /\ Len(head) + at + i = Len(head) + (at + i)
    BY <1>1
  <2> QED
    BY <1>1, <2>1
<1>4. Holds(both, Len(head) + at, string) <=> Holds(bytes, at, string)
  BY <1>2, <1>3 DEF Holds
<1> QED
  BY <1>4 DEF both

LEMMA ReplayBehind ==
  ASSUME NEW head \in Seq(Byte), NEW bytes \in Seq(Byte)
  PROVE  \A at \in Nat :
           ReplayFrom(head \o bytes, Len(head) + at) = ReplayFrom(bytes, at)
<1> DEFINE both == head \o bytes
           S == {at \in Nat : ReplayFrom(both, Len(head) + at) = ReplayFrom(bytes, at)}
<1>1. both \in Seq(Byte) /\ Len(head) \in Nat
  OBVIOUS
<1>2. ASSUME NEW at \in Nat, NEW string \in Seq(Byte)
      PROVE  Holds(both, Len(head) + at, string) <=> Holds(bytes, at, string)
  BY HeldBehind
<1> HIDE DEF both
<1>3. ASSUME NEW at \in Nat,
             \A next \in Nat : at < next /\ next <= Len(bytes) => next \in S
      PROVE  at \in S
  <2>0. Len(head) + at \in Nat
    BY <1>1
  <2>1. CASE \E payload \in Seq(Byte) :
               WithinLimit(payload) /\ Holds(bytes, at, Frame(payload))
    <3>1. PICK payload \in Seq(Byte) :
                 WithinLimit(payload) /\ Holds(bytes, at, Frame(payload))
      BY <2>1
    <3>2. Holds(both, Len(head) + at, Frame(payload))
      BY <1>2, <3>1, FrameType
    <3> DEFINE next == at + Len(Frame(payload))
    <3>3. /\ next \in Nat /\ at < next /\ next <= Len(bytes)
          /\ Len(head) + at + Len(Frame(payload)) = Len(head) + next
      <4>1. next \in Nat /\ at < next /\ next <= Len(bytes)
        BY <3>1, FrameEnd
      <4>2. Len(Frame(payload)) \in Nat
        BY FrameType
      <4> QED
        BY <1>1, <4>1, <4>2
    <3>4. ReplayFrom(both, Len(head) + next) = ReplayFrom(bytes, next)
      BY <1>3, <3>3
    <3>5. ReplayFrom(bytes, at)
            = Records(ParseRecord(payload)) \o ReplayFrom(bytes, next)
      BY <3>1, ReplayFrame
    <3>6. ReplayFrom(both, Len(head) + at)
            = Records(ParseRecord(payload))
                \o ReplayFrom(both, Len(head) + at + Len(Frame(payload)))
      BY <1>1, <2>0, <3>1, <3>2, ReplayFrame, Zenon
    <3> HIDE DEF next
    <3> QED
      BY <3>3, <3>4, <3>5, <3>6, Zenon
  <2>2. CASE ~ \E payload \in Seq(Byte) :
                 WithinLimit(payload) /\ Holds(bytes, at, Frame(payload))
    <3>1. ReplayFrom(bytes, at) = <<>>
      BY <2>2, ReplayNothing
    <3>2. \A payload \in Seq(Byte) :
            ~(WithinLimit(payload) /\ Holds(both, Len(head) + at, Frame(payload)))
      BY <1>2, <2>2, FrameType
    <3>3. ReplayFrom(both, Len(head) + at) = <<>>
      BY <1>1, <2>0, <3>2, ReplayNothing, Zenon
    <3> QED
      BY <3>1, <3>3
  <2> QED
    BY <2>1, <2>2
<1> HIDE DEF S
<1>4. \A at \in Nat : at \in S
  BY <1>3, BackwardInduction, Len(bytes) \in Nat
<1> QED
  BY <1>4 DEF S, both

LEMMA PrefixElements ==
  ASSUME NEW S, NEW s \in Seq(S), NEW t \in Seq(S)
  PROVE  IsPrefix(s, t) <=> Len(s) <= Len(t) /\ \A i \in 1..Len(s) : s[i] = t[i]
<1> SUFFICES ASSUME Len(s) <= Len(t)
             PROVE  SubSeq(s, 1, Len(s)) = SubSeq(t, 1, Len(s))
                      <=> \A i \in 1..Len(s) : s[i] = t[i]
  BY DEF IsPrefix
<1> DEFINE u == SubSeq(t, 1, Len(s))
<1>1. SubSeq(s, 1, Len(s)) = s
  BY SubSeqFull
<1>2. u \in Seq(S) /\ Len(u) = Len(s) /\ \A i \in 1..Len(s) : u[i] = t[i]
  OBVIOUS
<1> HIDE DEF u
<1>3. s = u <=> \A i \in 1..Len(s) : s[i] = u[i]
  BY <1>2, SeqEqual
<1>4. s = u <=> \A i \in 1..Len(s) : s[i] = t[i]
  BY <1>2, <1>3
<1> QED
  BY <1>1, <1>4 DEF u

LEMMA PrefixBehind ==
  ASSUME NEW S, NEW head \in Seq(S), NEW s \in Seq(S), NEW t \in Seq(S),
         IsPrefix(s, t)
  PROVE  IsPrefix(head \o s, head \o t)
<1>1. Len(s) <= Len(t) /\ \A i \in 1..Len(s) : s[i] = t[i]
  BY PrefixElements
<1> DEFINE v == head \o s
           w == head \o t
<1>2. /\ v \in Seq(S) /\ Len(v) = Len(head) + Len(s)
      /\ w \in Seq(S) /\ Len(w) = Len(head) + Len(t)
  OBVIOUS
<1>3. ASSUME NEW i \in 1..Len(v)
      PROVE  v[i] = w[i]
  <2>0. i \in Nat /\ Len(head) \in Nat
    BY <1>2
  <2>1. CASE i <= Len(head)
    <3>1. v[i] = head[i] /\ w[i] = head[i]
      BY <2>1
    <3> QED
      BY <3>1
  <2>2. CASE i > Len(head)
    <3>1. i - Len(head) \in 1..Len(s) /\ i - Len(head) \in 1..Len(t)
      BY <1>1, <1>2, <2>2
    <3>2. v[i] = s[i - Len(head)] /\ w[i] = t[i - Len(head)]
      BY <2>2, <3>1
    <3> QED
      BY <1>1, <3>1, <3>2
  <2>3. i <= Len(head) \/ i > Len(head)
    BY <2>0
  <2> QED
    BY <2>1, <2>2, <2>3
<1> HIDE DEF v, w
<1>4. IsPrefix(v, w)
  BY <1>1, <1>2, <1>3, PrefixElements
<1> QED
  BY <1>4 DEF v, w

LEMMA EmptyIsPrefix ==
  ASSUME NEW S, NEW t \in Seq(S)
  PROVE  IsPrefix(<<>>, t)
<1> DEFINE e == <<>>
<1>1. e \in Seq(S) /\ Len(e) = 0 /\ Len(t) \in Nat
  BY EmptySeq
<1> HIDE DEF e
<1>2. Len(e) <= Len(t) /\ \A i \in 1..Len(e) : e[i] = t[i]
  BY <1>1
<1>3. IsPrefix(e, t)
  BY <1>1, <1>2, PrefixElements, Zenon
<1> QED
  BY <1>3 DEF e

\* What is read from a file is read from a longer one.
LEMMA ReplayLonger ==
  ASSUME NEW bytes \in Seq(Byte), NEW tail \in Seq(Byte)
  PROVE  \A at \in Nat :
           IsPrefix(ReplayFrom(bytes, at), ReplayFrom(bytes \o tail, at))
<1> DEFINE longer == bytes \o tail
           S == {at \in Nat : IsPrefix(ReplayFrom(bytes, at), ReplayFrom(longer, at))}
<1>1. longer \in Seq(Byte)
  OBVIOUS
<1>2. ASSUME NEW at \in Nat, NEW string \in Seq(Byte), Holds(bytes, at, string)
      PROVE  Holds(longer, at, string)
  BY <1>2, HeldLonger
<1> HIDE DEF longer
<1>3. ASSUME NEW at \in Nat,
             \A next \in Nat : at < next /\ next <= Len(bytes) => next \in S
      PROVE  at \in S
  <2>0. ReplayFrom(longer, at) \in Seq(Writable)
    BY <1>1, ReplayType
  <2>1. CASE \E payload \in Seq(Byte) :
               WithinLimit(payload) /\ Holds(bytes, at, Frame(payload))
    <3>1. PICK payload \in Seq(Byte) :
                 WithinLimit(payload) /\ Holds(bytes, at, Frame(payload))
      BY <2>1
    <3>2. Holds(longer, at, Frame(payload))
      BY <1>2, <3>1, FrameType
    <3> DEFINE next == at + Len(Frame(payload))
               head == Records(ParseRecord(payload))
    <3>3. next \in Nat /\ at < next /\ next <= Len(bytes)
      BY <3>1, FrameEnd
    <3>4. IsPrefix(ReplayFrom(bytes, next), ReplayFrom(longer, next))
      BY <1>3, <3>3
    <3>5. /\ ReplayFrom(bytes, at) = head \o ReplayFrom(bytes, next)
          /\ ReplayFrom(longer, at) = head \o ReplayFrom(longer, next)
      BY <1>1, <3>1, <3>2, ReplayFrame, Zenon
    <3>6. /\ head \in Seq(Writable)
          /\ ReplayFrom(bytes, next) \in Seq(Writable)
          /\ ReplayFrom(longer, next) \in Seq(Writable)
      BY <1>1, <3>1, <3>3, RecordsType, ReplayType
    <3> HIDE DEF next, head
    <3> QED
      BY <3>4, <3>5, <3>6, PrefixBehind, Zenon
  <2>2. CASE ~ \E payload \in Seq(Byte) :
                 WithinLimit(payload) /\ Holds(bytes, at, Frame(payload))
    <3>1. ReplayFrom(bytes, at) = <<>>
      BY <2>2, ReplayNothing
    <3> QED
      BY <2>0, <3>1, EmptyIsPrefix, Zenon
  <2> QED
    BY <2>1, <2>2
<1> HIDE DEF S
<1>4. \A at \in Nat : at \in S
  BY <1>3, BackwardInduction, Len(bytes) \in Nat
<1> QED
  BY <1>4 DEF S, longer

LEMMA ReplayFramed ==
  ASSUME NEW payload \in Seq(Byte), WithinLimit(payload)
  PROVE  ReplayFrom(Frame(payload), 0) = Records(ParseRecord(payload))
<1> DEFINE bytes == Frame(payload)
<1>1. bytes \in Seq(Byte) /\ Len(bytes) \in Nat /\ 0 + Len(bytes) = Len(bytes)
  BY FrameType
<1>2. Holds(bytes, 0, Frame(payload))
  BY <1>1, HoldsAll
<1>3. ReplayFrom(bytes, 0)
        = Records(ParseRecord(payload)) \o ReplayFrom(bytes, 0 + Len(bytes))
  BY <1>1, <1>2, ReplayFrame
<1>4. ReplayFrom(bytes, Len(bytes)) = <<>>
  BY <1>1, ReplayAtEnd
<1> HIDE DEF bytes
<1>5. Records(ParseRecord(payload)) \o <<>> = Records(ParseRecord(payload))
  BY RecordsType, ConcatEmptySeq
<1>6. ReplayFrom(bytes, 0) = Records(ParseRecord(payload))
  BY <1>1, <1>3, <1>4, <1>5
<1> QED
  BY <1>6 DEF bytes


----------------------------------------------------------------------------
\* The effects of operations on a map.
\* Applying an operation twice is applying it once.
LEMMA ApplyTwice ==
  ASSUME NEW map, NEW operation
  PROVE  Apply(Apply(map, operation), operation) = Apply(map, operation)
  BY DEF Apply

\* The recursive function of Applied.
IsAfter(f, map, operations, n) ==
  f = [i \in 0..n |-> IF i = 0 THEN map ELSE Apply(f[i - 1], operations[i])]

LEMMA AfterExists ==
  ASSUME NEW map, NEW operations
  PROVE  \A n \in Nat : \E f : IsAfter(f, map, operations, n)
<1> DEFINE S == {n \in Nat : \E f : IsAfter(f, map, operations, n)}
<1>1. 0 \in S
  <2>1. IsAfter([i \in 0..0 |-> map], map, operations, 0)
    BY DEF IsAfter
  <2> QED
    BY <2>1
<1>2. ASSUME NEW n \in Nat, n \in S
      PROVE  n + 1 \in S
  <2>1. PICK f : IsAfter(f, map, operations, n)
    BY <1>2
  <2> DEFINE g == [i \in 0..(n + 1) |->
                     IF i = n + 1 THEN Apply(f[n], operations[n + 1]) ELSE f[i]]
  <2>2. ASSUME NEW i \in 0..(n + 1)
        PROVE  g[i] = IF i = 0 THEN map ELSE Apply(g[i - 1], operations[i])
    <3>1. CASE i = n + 1
      <4>1. g[i] = Apply(f[n], operations[n + 1]) /\ g[n] = f[n] /\ i - 1 = n /\ i # 0
        BY <3>1
      <4> HIDE DEF g
      <4> QED
        BY <3>1, <4>1
    <3>2. CASE i \in 0..n
      <4>1. g[i] = f[i] /\ (i # 0 => g[i - 1] = f[i - 1])
        BY <3>2
      <4> HIDE DEF g
      <4> QED
        BY <2>1, <3>2, <4>1 DEF IsAfter
    <3> QED
      BY <3>1, <3>2
  <2>3. IsAfter(g, map, operations, n + 1)
    <3>1. g = [i \in 0..(n + 1) |-> g[i]]
      OBVIOUS
    <3> HIDE DEF g
    <3> QED
      BY <2>2, <3>1 DEF IsAfter
  <2> HIDE DEF g
  <2> QED
    BY <2>3
<1> HIDE DEF S
<1>3. \A n \in Nat : n \in S
  BY <1>1, <1>2, SetInduction
<1> QED
  BY <1>3 DEF S

LEMMA AfterAgrees ==
  ASSUME NEW map, NEW left, NEW right, NEW l \in Nat, NEW r \in Nat, NEW f, NEW g,
         l <= r, \A i \in 1..l : left[i] = right[i],
         IsAfter(f, map, left, l), IsAfter(g, map, right, r)
  PROVE  f[l] = g[l]
<1> DEFINE S == {n \in Nat : n <= l => f[n] = g[n]}
<1>1. 0 \in S
  BY DEF IsAfter
<1>2. ASSUME NEW n \in Nat, n \in S
      PROVE  n + 1 \in S
  <2> SUFFICES ASSUME n + 1 <= l PROVE f[n + 1] = g[n + 1]
    OBVIOUS
  <2>1. /\ f[n] = g[n] /\ n + 1 \in 0..l /\ n + 1 \in 0..r /\ n + 1 # 0
        /\ (n + 1) - 1 = n /\ left[n + 1] = right[n + 1]
    BY <1>2
  <2>2. f[n + 1] = Apply(f[n], left[n + 1]) /\ g[n + 1] = Apply(g[n], right[n + 1])
    BY <2>1, Zenon DEF IsAfter
  <2> QED
    BY <2>1, <2>2
<1> HIDE DEF S
<1>3. l \in S
  BY <1>1, <1>2, SetInduction
<1> QED
  BY <1>3 DEF S

\* No operation, and one operation more.
LEMMA AppliedNothing ==
  ASSUME NEW map
  PROVE  Applied(map, <<>>) = map
<1> DEFINE After == CHOOSE f : IsAfter(f, map, <<>>, 0)
<1>1. Applied(map, <<>>) = After[0]
  BY Len(<<>>) = 0 DEF Applied, IsAfter
<1>2. IsAfter(After, map, <<>>, 0)
  BY AfterExists
<1> HIDE DEF After
<1> QED
  BY <1>1, <1>2 DEF IsAfter

LEMMA AppliedStep ==
  ASSUME NEW map, NEW S, NEW operations \in Seq(S), NEW last \in S
  PROVE  Applied(map, operations \o <<last>>) = Apply(Applied(map, operations), last)
<1> DEFINE After(ops) == CHOOSE f : IsAfter(f, map, ops, Len(ops))
           longer == operations \o <<last>>
           n == Len(operations)
<1>1. \A ops : Applied(map, ops) = After(ops)[Len(ops)]
  BY DEF Applied, IsAfter
<1>2. /\ Len(longer) = n + 1 /\ longer[n + 1] = last /\ n \in Nat
      /\ \A i \in 1..n : operations[i] = longer[i]
  OBVIOUS
<1>3. /\ IsAfter(After(operations), map, operations, n)
      /\ IsAfter(After(longer), map, longer, n + 1)
  <2>1. \A ops : Len(ops) \in Nat => IsAfter(After(ops), map, ops, Len(ops))
    BY AfterExists
  <2>2. Len(operations) \in Nat /\ Len(longer) \in Nat
    BY <1>2
  <2> HIDE DEF After, longer
  <2>3. IsAfter(After(operations), map, operations, Len(operations))
    BY <2>1, <2>2, Zenon
  <2>4. IsAfter(After(longer), map, longer, Len(longer))
    BY <2>1, <2>2, Zenon
  <2> QED
    BY <1>2, <2>3, <2>4
<1> HIDE DEF After, longer, n
<1>6. After(longer)[n] = After(operations)[n]
  <2>1. n + 1 \in Nat /\ n <= n + 1
    BY <1>2
  <2> QED
    BY <1>2, <1>3, <2>1, AfterAgrees
<1>7. After(longer)[n + 1] = Apply(After(longer)[n], longer[n + 1])
  <2>1. n + 1 \in 0..(n + 1) /\ n + 1 # 0 /\ (n + 1) - 1 = n
    BY <1>2
  <2> QED
    BY <1>3, <2>1, Zenon DEF IsAfter
<1>9. Applied(map, longer) = Apply(Applied(map, operations), last)
  BY <1>1, <1>2, <1>6, <1>7 DEF n
<1> QED
  BY <1>9 DEF longer

LEMMA AppliedUnrolled ==
  ASSUME NEW map, NEW operations, Len(operations) \in Nat
  PROVE  \E f : /\ Applied(map, operations) = f[Len(operations)] /\ f[0] = map
                /\ \A i \in 1..Len(operations) : f[i] = Apply(f[i - 1], operations[i])
                /\ IsAfter(f, map, operations, Len(operations))
<1> DEFINE After == CHOOSE f : IsAfter(f, map, operations, Len(operations))
<1>1. Applied(map, operations) = After[Len(operations)]
  BY DEF Applied, IsAfter
<1>2. IsAfter(After, map, operations, Len(operations))
  BY AfterExists
<1> HIDE DEF After
<1>3. After[0] = map
  BY <1>2 DEF IsAfter
<1>4. ASSUME NEW i \in 1..Len(operations)
      PROVE  After[i] = Apply(After[i - 1], operations[i])
  <2>1. i \in 0..Len(operations) /\ i # 0
    OBVIOUS
  <2> QED
    BY <1>2, <2>1, Zenon DEF IsAfter
<1> QED
  BY <1>1, <1>2, <1>3, <1>4

\* Operations behind others.
LEMMA AppliedConcat ==
  ASSUME NEW map, NEW S, NEW left \in Seq(S), NEW right \in Seq(S)
  PROVE  Applied(map, left \o right) = Applied(Applied(map, left), right)
<1> DEFINE both == left \o right
           l == Len(left)
           r == Len(right)
<1>1. /\ l \in Nat /\ r \in Nat /\ Len(both) = l + r
      /\ \A i \in 1..l : left[i] = both[i]
      /\ \A i \in 1..r : right[i] = both[l + i]
  BY ConcatElements
<1> HIDE DEF both
<1>2. Len(left) \in Nat /\ Len(right) \in Nat /\ Len(both) \in Nat
  BY <1>1
<1>3. PICK f : /\ Applied(map, left) = f[Len(left)]
               /\ IsAfter(f, map, left, Len(left))
  <2>1. \E f : /\ Applied(map, left) = f[Len(left)]
              /\ IsAfter(f, map, left, Len(left))
    BY <1>2, AppliedUnrolled, Zenon
  <2> QED
    BY <2>1
<1>4. PICK g : /\ Applied(f[Len(left)], right) = g[Len(right)] /\ g[0] = f[Len(left)]
               /\ \A i \in 1..Len(right) : g[i] = Apply(g[i - 1], right[i])
  <2> DEFINE middle == f[Len(left)]
  <2> HIDE DEF middle
  <2>1. PICK g : /\ Applied(middle, right) = g[Len(right)] /\ g[0] = middle
                 /\ \A i \in 1..Len(right) : g[i] = Apply(g[i - 1], right[i])
                 /\ IsAfter(g, middle, right, Len(right))
    BY <1>2, AppliedUnrolled
  <2> QED
    BY <2>1 DEF middle
<1>5. PICK h : /\ Applied(map, both) = h[Len(both)]
               /\ \A i \in 1..Len(both) : h[i] = Apply(h[i - 1], both[i])
               /\ IsAfter(h, map, both, Len(both))
  BY <1>2, AppliedUnrolled
<1> HIDE DEF l, r
<1>6. Len(left) = l /\ Len(right) = r
  BY DEF l, r
<1>7. f[l] = h[l]
  <2>1. l <= l + r /\ l + r \in Nat /\ IsAfter(f, map, left, l)
        /\ IsAfter(h, map, both, l + r)
    BY <1>1, <1>3, <1>5, <1>6
  <2> QED
    BY <1>1, <2>1, AfterAgrees
<1> DEFINE T == {n \in Nat : n <= r => g[n] = h[l + n]}
<1>8. 0 \in T
  BY <1>1, <1>4, <1>6, <1>7
<1>9. ASSUME NEW n \in Nat, n \in T
      PROVE  n + 1 \in T
  <2> SUFFICES ASSUME n + 1 <= r PROVE g[n + 1] = h[l + (n + 1)]
    OBVIOUS
  <2>1. /\ g[n] = h[l + n] /\ n + 1 \in 1..r /\ (n + 1) - 1 = n
        /\ l + (n + 1) \in 1..(l + r) /\ (l + (n + 1)) - 1 = l + n
    <3>1. g[n] = h[l + n]
      BY <1>1, <1>9
    <3> QED
      BY <1>1, <3>1
  <2>2. g[n + 1] = Apply(g[n], right[n + 1])
    BY <1>4, <1>6, <2>1
  <2>3. h[l + (n + 1)] = Apply(h[l + n], both[l + (n + 1)])
    BY <1>1, <1>5, <2>1
  <2> QED
    BY <1>1, <2>1, <2>2, <2>3
<1> HIDE DEF T
<1>10. r \in T
  BY <1>1, <1>8, <1>9, SetInduction
<1>11. Applied(map, both) = Applied(Applied(map, left), right)
  BY <1>1, <1>3, <1>4, <1>5, <1>6, <1>10 DEF T
<1> QED
  BY <1>11 DEF both

\* Operations again.
IsMap(map) == map = [key \in DOMAIN map |-> map[key]]

SameAt(a, b, key) ==
  /\ key \in DOMAIN a <=> key \in DOMAIN b
  /\ key \in DOMAIN a => a[key] = b[key]

LEMMA ApplyEffect ==
  ASSUME NEW a, NEW b, NEW operation, NEW key
  PROVE  /\ IsMap(Apply(a, operation))
         /\ key = operation.key \/ SameAt(a, b, key)
              => SameAt(Apply(a, operation), Apply(b, operation), key)
         /\ key # operation.key => SameAt(Apply(a, operation), a, key)
  BY DEF Apply, IsMap, SameAt

LEMMA AppliedTwice ==
  ASSUME NEW map, IsMap(map), NEW S, NEW operations \in Seq(S)
  PROVE  Applied(Applied(map, operations), operations) = Applied(map, operations)
<1>1. PICK n \in Nat : n = Len(operations)
  OBVIOUS
<1>2. PICK f : /\ Applied(map, operations) = f[n] /\ f[0] = map
               /\ \A i \in 1..n : f[i] = Apply(f[i - 1], operations[i])
  BY <1>1, AppliedUnrolled
<1>3. PICK g : /\ Applied(f[n], operations) = g[n] /\ g[0] = f[n]
               /\ \A i \in 1..n : g[i] = Apply(g[i - 1], operations[i])
  BY <1>1, AppliedUnrolled
<1> DEFINE Named(key, k) == \E i \in 1..k : operations[i].key = key
           Agree(k) == \A key : IF Named(key, k) THEN SameAt(f[k], g[k], key)
                                                 ELSE SameAt(g[k], g[0], key)
           T == {k \in Nat : k <= n => IsMap(f[k]) /\ (k > 0 => IsMap(g[k])) /\ Agree(k)}
<1>4. 0 \in T
  BY <1>2 DEF SameAt
<1>5. ASSUME NEW k \in Nat, k \in T
      PROVE  k + 1 \in T
  <2> SUFFICES ASSUME k + 1 <= n
               PROVE  IsMap(f[k + 1]) /\ IsMap(g[k + 1]) /\ Agree(k + 1)
    BY DEF T
  <2>1. /\ Agree(k) /\ k + 1 \in 1..n /\ (k + 1) - 1 = k
        /\ \A i \in 1..(k + 1) : i \in 1..k \/ i = k + 1
        /\ \A i \in 1..k : i \in 1..(k + 1)
        /\ k + 1 \in 1..(k + 1)
    BY <1>5
  <2> DEFINE operation == operations[k + 1]
  <2>2. f[k + 1] = Apply(f[k], operation) /\ g[k + 1] = Apply(g[k], operation)
    BY <1>2, <1>3, <2>1
  <2>3. ASSUME NEW key
        PROVE  Named(key, k + 1) <=> Named(key, k) \/ key = operation.key
    BY <2>1
  <2> HIDE DEF Named, operation, T
  <2>4. ASSUME NEW key
        PROVE  IF Named(key, k + 1) THEN SameAt(f[k + 1], g[k + 1], key)
                                    ELSE SameAt(g[k + 1], g[0], key)
    <3>1. CASE Named(key, k + 1)
      <4>1. key = operation.key \/ SameAt(f[k], g[k], key)
        BY <2>1, <2>3, <3>1
      <4>2. SameAt(f[k + 1], g[k + 1], key)
        BY <2>2, <4>1, ApplyEffect
      <4> QED
        BY <3>1, <4>2
    <3>2. CASE ~Named(key, k + 1)
      <4>1. key # operation.key /\ SameAt(g[k], g[0], key)
        BY <2>1, <2>3, <3>2
      <4>2. SameAt(g[k + 1], g[k], key)
        BY <2>2, <4>1, ApplyEffect
      <4> QED
        BY <3>2, <4>1, <4>2 DEF SameAt
    <3> QED
      BY <3>1, <3>2
  <2> QED
    BY <2>2, <2>4, ApplyEffect
<1> HIDE DEF T
<1>6. n \in T
  BY <1>4, <1>5, SetInduction
<1>7. IsMap(f[n]) /\ (n > 0 => IsMap(g[n])) /\ Agree(n)
  BY <1>6 DEF T
<1>8. CASE n = 0
  BY <1>2, <1>3, <1>8
<1>9. CASE n > 0
  <2>1. \A key : SameAt(f[n], g[n], key)
    BY <1>3, <1>7 DEF SameAt
  <2>2. DOMAIN f[n] = DOMAIN g[n] /\ \A key \in DOMAIN f[n] : f[n][key] = g[n][key]
    BY <2>1 DEF SameAt
  <2>3. f[n] = g[n]
    BY <1>7, <1>9, <2>2 DEF IsMap
  <2> QED
    BY <1>2, <1>3, <2>3
<1> QED
  BY <1>8, <1>9

----------------------------------------------------------------------------
\* The snapshot.
\* The strings that read_entry accepts, and what Load returns.
Loadable == {string \in Seq(Byte) : Len(string) <= kMaxSnapshotFieldLength}
Pair == Loadable \X Loadable

----------------------------------------------------------------------------
\* One field and one entry.
LEMMA LoadableFits ==
  ASSUME NEW n \in Nat, n <= kMaxSnapshotFieldLength
  PROVE  Fits(n, Width)
  BY ShiftedMonotone, ShiftedType, SnapshotAssumption, BytesAssumption DEF Fits

LEMMA FieldHeld ==
  ASSUME NEW bytes \in Seq(Byte), NEW at \in Nat, NEW string \in Loadable,
         Holds(bytes, at, Sized(string))
  PROVE  /\ FieldEnd(bytes, at) = at + Len(Sized(string))
         /\ FieldEnd(bytes, at) \in Nat /\ FieldEnd(bytes, at) > 0
         /\ SubSeq(bytes, at + Width + 1, FieldEnd(bytes, at)) = string
<1>1. /\ string \in Seq(Byte) /\ Len(string) \in Nat
      /\ Len(string) <= kMaxSnapshotFieldLength /\ Width \in Nat /\ Width > 0
  BY BytesAssumption DEF Loadable
<1>2. Length(Len(string)) \in Seq(Byte) /\ Len(Length(Len(string))) = Width
  BY <1>1, LengthType
<1>3. Holds(bytes, at, Length(Len(string))) /\ Holds(bytes, at + Width, string)
  BY <1>1, <1>2, HoldsConcat, Zenon DEF Sized
<1>4. LengthAt(bytes, at) = Len(string)
  BY <1>1, <1>3, LoadableFits, LengthAtHeld
<1>5. Len(Sized(string)) = Width + Len(string)
  BY <1>1, SizedType
<1>6. Len(bytes) \in Nat /\ at + Width + Len(string) <= Len(bytes) /\ at + Width \in Nat
  BY <1>1, <1>3 DEF Holds
<1>7. FieldEnd(bytes, at) = at + Width + Len(string)
  BY <1>1, <1>4, <1>6 DEF FieldEnd
<1>8. SubSeq(bytes, at + Width + 1, at + Width + Len(string)) = string
  BY <1>1, <1>3, <1>6, HeldPart, Zenon
<1> QED
  BY <1>1, <1>5, <1>7, <1>8

LEMMA FieldRead ==
  ASSUME NEW bytes \in Seq(Byte), NEW at \in Nat, FieldEnd(bytes, at) # 0,
         NEW string, string = SubSeq(bytes, at + Width + 1, FieldEnd(bytes, at))
  PROVE  string \in Loadable /\ Holds(bytes, at, Sized(string))
<1>1. Width \in Nat /\ Len(bytes) \in Nat
  BY BytesAssumption
<1>2. /\ at + Width <= Len(bytes) /\ LengthAt(bytes, at) <= kMaxSnapshotFieldLength
      /\ at + Width + LengthAt(bytes, at) <= Len(bytes)
      /\ FieldEnd(bytes, at) = at + Width + LengthAt(bytes, at)
  BY DEF FieldEnd
<1>3. /\ LengthAt(bytes, at) \in Nat /\ Holds(bytes, at, Length(LengthAt(bytes, at)))
  BY <1>2, LengthAtType
<1>4. /\ string \in Seq(Byte) /\ Len(string) = LengthAt(bytes, at)
      /\ Holds(bytes, at + Width, string)
  <2> DEFINE length == LengthAt(bytes, at)
             from == at + Width
  <2>1. from \in Nat /\ length \in Nat /\ from + length <= Len(bytes)
        /\ string = SubSeq(bytes, from + 1, from + length)
    BY <1>1, <1>2, <1>3
  <2> HIDE DEF length, from
  <2>2. string \in Seq(Byte) /\ Len(string) = length /\ Holds(bytes, from, string)
    <3> DEFINE part == SubSeq(bytes, from + 1, from + length)
    <3>1. part \in Seq(Byte) /\ Len(part) = length /\ Holds(bytes, from, part)
      BY <2>1, PartHeld, Zenon
    <3>2. string = part
      BY <2>1
    <3> HIDE DEF part
    <3> QED
      BY <3>1, <3>2
  <2> QED
    BY <2>2 DEF length, from
<1>5. Length(Len(string)) \in Seq(Byte) /\ Len(Length(Len(string))) = Width
  BY <1>3, <1>4, LengthType
<1>6. Holds(bytes, at, Sized(string))
  <2>1. Holds(bytes, at, Length(Len(string)))
    BY <1>3, <1>4
  <2>2. Holds(bytes, at + Len(Length(Len(string))), string)
    BY <1>4, <1>5
  <2> QED
    BY <1>4, <1>5, <2>1, <2>2, HoldsConcat, Zenon DEF Sized
<1> QED
  BY <1>2, <1>4, <1>6 DEF Loadable

LEMMA PairType ==
  ASSUME NEW pair \in Pair
  PROVE  /\ pair[1] \in Loadable /\ pair[2] \in Loadable /\ pair = <<pair[1], pair[2]>>
         /\ Sized(pair[1]) \in Seq(Byte) /\ Sized(pair[2]) \in Seq(Byte)
         /\ Len(Sized(pair[1])) \in Nat /\ Len(Sized(pair[2])) \in Nat
<1>1. pair[1] \in Loadable /\ pair[2] \in Loadable /\ pair = <<pair[1], pair[2]>>
  BY DEF Pair
<1>2. pair[1] \in Seq(Byte) /\ pair[2] \in Seq(Byte)
  BY <1>1 DEF Loadable
<1> QED
  BY <1>1, <1>2, SizedType

\* A pair stands in a file at a place.
HoldsPair(bytes, at, pair) ==
  /\ Holds(bytes, at, Sized(pair[1]))
  /\ Holds(bytes, at + Len(Sized(pair[1])), Sized(pair[2]))

LEMMA EntryHeld ==
  ASSUME NEW bytes \in Seq(Byte), NEW at \in Nat, NEW pair \in Pair,
         HoldsPair(bytes, at, pair)
  PROVE  /\ read_entry(bytes, at) = at + Len(Sized(pair[1])) + Len(Sized(pair[2]))
         /\ read_entry(bytes, at) # 0
         /\ EntryAt(bytes, at) = pair
<1> DEFINE keyEnd == FieldEnd(bytes, at)
<1>1. /\ keyEnd = at + Len(Sized(pair[1])) /\ keyEnd \in Nat /\ keyEnd > 0
      /\ SubSeq(bytes, at + Width + 1, keyEnd) = pair[1]
  BY PairType, FieldHeld DEF HoldsPair
<1>2. Holds(bytes, keyEnd, Sized(pair[2]))
  BY <1>1 DEF HoldsPair
<1>3. /\ FieldEnd(bytes, keyEnd) = keyEnd + Len(Sized(pair[2]))
      /\ FieldEnd(bytes, keyEnd) \in Nat /\ FieldEnd(bytes, keyEnd) > 0
      /\ SubSeq(bytes, keyEnd + Width + 1, FieldEnd(bytes, keyEnd)) = pair[2]
  BY <1>1, <1>2, PairType, FieldHeld
<1>4. read_entry(bytes, at) = FieldEnd(bytes, keyEnd)
  BY <1>1 DEF read_entry
<1>5. EntryAt(bytes, at) = <<pair[1], pair[2]>>
  BY <1>1, <1>3 DEF EntryAt
<1> QED
  BY <1>1, <1>3, <1>4, <1>5, PairType

LEMMA EntryRead ==
  ASSUME NEW bytes \in Seq(Byte), NEW at \in Nat, read_entry(bytes, at) # 0
  PROVE  EntryAt(bytes, at) \in Pair /\ HoldsPair(bytes, at, EntryAt(bytes, at))
<1> DEFINE keyEnd == FieldEnd(bytes, at)
           key == SubSeq(bytes, at + Width + 1, keyEnd)
           value == SubSeq(bytes, keyEnd + Width + 1, FieldEnd(bytes, keyEnd))
<1>1. keyEnd # 0 /\ FieldEnd(bytes, keyEnd) # 0
  BY DEF read_entry
<1>2. key \in Loadable /\ Holds(bytes, at, Sized(key))
  BY <1>1, FieldRead
<1>3. keyEnd = at + Len(Sized(key)) /\ keyEnd \in Nat
  BY <1>2, FieldHeld
<1>4. value \in Loadable /\ Holds(bytes, keyEnd, Sized(value))
  BY <1>1, <1>3, FieldRead
<1>5. EntryAt(bytes, at) = <<key, value>>
  BY DEF EntryAt
<1> HIDE DEF key, value, keyEnd
<1> QED
  BY <1>2, <1>3, <1>4, <1>5 DEF Pair, HoldsPair

----------------------------------------------------------------------------
\* The entries one behind the other.
WithEntry(before, entry) == before \o Sized(entry[1]) \o Sized(entry[2])

IsWritten(f, entries, n) ==
  f = [i \in 0..n |-> IF i = 0 THEN <<>> ELSE WithEntry(f[i - 1], entries[i])]

LEMMA WrittenExists ==
  ASSUME NEW entries
  PROVE  \A n \in Nat : \E f : IsWritten(f, entries, n)
<1> DEFINE S == {n \in Nat : \E f : IsWritten(f, entries, n)}
<1>1. 0 \in S
  <2>1. IsWritten([i \in 0..0 |-> <<>>], entries, 0)
    BY DEF IsWritten
  <2> QED
    BY <2>1
<1>2. ASSUME NEW n \in Nat, n \in S
      PROVE  n + 1 \in S
  <2>1. PICK f : IsWritten(f, entries, n)
    BY <1>2
  <2> DEFINE g == [i \in 0..(n + 1) |-> IF i = n + 1 THEN WithEntry(f[n], entries[n + 1]) ELSE f[i]]
  <2>2. ASSUME NEW i \in 0..(n + 1)
        PROVE  g[i] = IF i = 0 THEN <<>> ELSE WithEntry(g[i - 1], entries[i])
    <3>1. CASE i = n + 1
      <4>1. g[i] = WithEntry(f[n], entries[n + 1]) /\ g[n] = f[n] /\ i - 1 = n /\ i # 0
        BY <3>1
      <4> HIDE DEF g
      <4> QED
        BY <3>1, <4>1
    <3>2. CASE i \in 0..n
      <4>1. g[i] = f[i] /\ (i # 0 => g[i - 1] = f[i - 1])
        BY <3>2
      <4> HIDE DEF g
      <4> QED
        BY <2>1, <3>2, <4>1 DEF IsWritten
    <3> QED
      BY <3>1, <3>2
  <2>3. IsWritten(g, entries, n + 1)
    <3>1. g = [i \in 0..(n + 1) |-> g[i]]
      OBVIOUS
    <3> HIDE DEF g
    <3> QED
      BY <2>2, <3>1 DEF IsWritten
  <2> HIDE DEF g
  <2> QED
    BY <2>3
<1> HIDE DEF S
<1>3. \A n \in Nat : n \in S
  BY <1>1, <1>2, SetInduction
<1> QED
  BY <1>3 DEF S

LEMMA WrittenUnrolled ==
  ASSUME NEW entries, Len(entries) \in Nat
  PROVE  \E f : /\ write_entries(entries) = f[Len(entries)] /\ f[0] = <<>>
                /\ \A n \in 1..Len(entries) : f[n] = WithEntry(f[n - 1], entries[n])
<1> DEFINE Upto == CHOOSE f : IsWritten(f, entries, Len(entries))
<1>1. write_entries(entries) = Upto[Len(entries)]
  BY DEF write_entries, IsWritten, WithEntry
<1>2. IsWritten(Upto, entries, Len(entries))
  BY WrittenExists
<1> HIDE DEF Upto
<1>3. Upto[0] = <<>>
  BY <1>2 DEF IsWritten
<1>4. ASSUME NEW n \in 1..Len(entries)
      PROVE  Upto[n] = WithEntry(Upto[n - 1], entries[n])
  <2>1. n \in 0..Len(entries) /\ n # 0
    OBVIOUS
  <2> QED
    BY <1>2, <2>1, Zenon DEF IsWritten
<1> QED
  BY <1>1, <1>3, <1>4

\* The places behind the entries, as Load computes them.
NextEnd(bytes, end) == IF end = 0 THEN 0 ELSE read_entry(bytes, end)

Steps(end, bytes, at, count) ==
  /\ end[0] = at
  /\ \A n \in 1..count : end[n] = NextEnd(bytes, end[n - 1])

EntriesAt(bytes, end, count) == [n \in 1..count |-> EntryAt(bytes, end[n - 1])]

IsEnds(f, bytes, at, n) ==
  f = [i \in 0..n |-> IF i = 0 THEN at ELSE NextEnd(bytes, f[i - 1])]

LEMMA EndsExist ==
  ASSUME NEW bytes, NEW at
  PROVE  \A n \in Nat : \E f : IsEnds(f, bytes, at, n)
<1> DEFINE S == {n \in Nat : \E f : IsEnds(f, bytes, at, n)}
<1>1. 0 \in S
  <2>1. IsEnds([i \in 0..0 |-> at], bytes, at, 0)
    BY DEF IsEnds
  <2> QED
    BY <2>1
<1>2. ASSUME NEW n \in Nat, n \in S
      PROVE  n + 1 \in S
  <2>1. PICK f : IsEnds(f, bytes, at, n)
    BY <1>2
  <2> DEFINE g == [i \in 0..(n + 1) |-> IF i = n + 1 THEN NextEnd(bytes, f[n]) ELSE f[i]]
  <2>2. ASSUME NEW i \in 0..(n + 1)
        PROVE  g[i] = IF i = 0 THEN at ELSE NextEnd(bytes, g[i - 1])
    <3>1. CASE i = n + 1
      <4>1. g[i] = NextEnd(bytes, f[n]) /\ g[n] = f[n] /\ i - 1 = n /\ i # 0
        BY <3>1
      <4> HIDE DEF g
      <4> QED
        BY <3>1, <4>1
    <3>2. CASE i \in 0..n
      <4>1. g[i] = f[i] /\ (i # 0 => g[i - 1] = f[i - 1])
        BY <3>2
      <4> HIDE DEF g
      <4> QED
        BY <2>1, <3>2, <4>1 DEF IsEnds
    <3> QED
      BY <3>1, <3>2
  <2>3. IsEnds(g, bytes, at, n + 1)
    <3>1. g = [i \in 0..(n + 1) |-> g[i]]
      OBVIOUS
    <3> HIDE DEF g
    <3> QED
      BY <2>2, <3>1 DEF IsEnds
  <2> HIDE DEF g
  <2> QED
    BY <2>3
<1> HIDE DEF S
<1>3. \A n \in Nat : n \in S
  BY <1>1, <1>2, SetInduction
<1> QED
  BY <1>3 DEF S

LEMMA WithEntryHeld ==
  ASSUME NEW before \in Seq(Byte), NEW pair \in Pair
  PROVE  /\ WithEntry(before, pair) \in Seq(Byte)
         /\ Len(WithEntry(before, pair)) =
              Len(before) + Len(Sized(pair[1])) + Len(Sized(pair[2]))
         /\ \A bytes \in Seq(Byte), at \in Nat :
              Holds(bytes, at, WithEntry(before, pair))
                <=> Holds(bytes, at, before) /\ HoldsPair(bytes, at + Len(before), pair)
<1> DEFINE key == Sized(pair[1])
           value == Sized(pair[2])
           front == before \o key
<1>1. key \in Seq(Byte) /\ value \in Seq(Byte)
  BY PairType
<1> HIDE DEF key, value
<1>2. front \in Seq(Byte) /\ Len(front) = Len(before) + Len(key)
      /\ Len(before) \in Nat /\ Len(key) \in Nat
  BY <1>1
<1>3. WithEntry(before, pair) = front \o value
  BY DEF WithEntry, key, value
<1>4. ASSUME NEW bytes \in Seq(Byte), NEW at \in Nat
      PROVE  Holds(bytes, at, front)
               <=> Holds(bytes, at, before) /\ Holds(bytes, at + Len(before), key)
  BY <1>1, HoldsConcat
<1> HIDE DEF front
<1>5. front \o value \in Seq(Byte) /\ Len(front \o value) = Len(front) + Len(value)
  BY <1>1, <1>2, ConcatElements, Zenon
<1>6. ASSUME NEW bytes \in Seq(Byte), NEW at \in Nat
      PROVE  Holds(bytes, at, front \o value)
               <=> Holds(bytes, at, front) /\ Holds(bytes, at + Len(front), value)
  BY <1>1, <1>2, HoldsConcat
<1>7. ASSUME NEW bytes \in Seq(Byte), NEW at \in Nat
      PROVE  Holds(bytes, at, WithEntry(before, pair))
               <=> Holds(bytes, at, before) /\ HoldsPair(bytes, at + Len(before), pair)
  <2>1. HoldsPair(bytes, at + Len(before), pair)
          <=> /\ Holds(bytes, at + Len(before), key)
              /\ Holds(bytes, (at + Len(before)) + Len(key), value)
    BY DEF HoldsPair, key, value
  <2>2. (at + Len(before)) + Len(key) = at + Len(front)
    BY <1>2
  <2> QED
    BY <1>3, <1>4, <1>6, <2>1, <2>2
<1>8. Len(WithEntry(before, pair)) = Len(before) + Len(key) + Len(value)
  BY <1>2, <1>3, <1>5
<1>9. WithEntry(before, pair) \in Seq(Byte)
  BY <1>3, <1>5
<1> QED
  BY <1>7, <1>8, <1>9 DEF key, value

LEMMA EndsAdd ==
  ASSUME NEW at \in Nat, NEW length \in Nat, NEW key \in Nat, NEW value \in Nat,
         NEW end, end = at + length, NEW next, next = end + key + value,
         NEW longer, longer = length + key + value
  PROVE  next = at + longer /\ next \in Nat
  OBVIOUS

LEMMA EntryBehind ==
  ASSUME NEW before \in Seq(Byte), NEW pair \in Pair,
         NEW after, after = WithEntry(before, pair)
  PROVE  /\ after \in Seq(Byte)
         /\ Len(after) = Len(before) + Len(Sized(pair[1])) + Len(Sized(pair[2]))
         /\ Len(before) \in Nat /\ Len(Sized(pair[1])) \in Nat
         /\ Len(Sized(pair[2])) \in Nat
<1>1. Len(before) \in Nat
  OBVIOUS
<1> QED
  BY <1>1, WithEntryHeld, PairType, Zenon

LEMMA HoldsBehind ==
  ASSUME NEW bytes \in Seq(Byte), NEW at \in Nat,
         NEW before \in Seq(Byte), NEW pair \in Pair,
         NEW after, after = WithEntry(before, pair),
         Holds(bytes, at, before), HoldsPair(bytes, at + Len(before), pair)
  PROVE  Holds(bytes, at, after)
  BY WithEntryHeld, Zenon

LEMMA HoldsBefore ==
  ASSUME NEW bytes \in Seq(Byte), NEW at \in Nat,
         NEW before \in Seq(Byte), NEW pair \in Pair,
         NEW after, after = WithEntry(before, pair), Holds(bytes, at, after)
  PROVE  Holds(bytes, at, before) /\ HoldsPair(bytes, at + Len(before), pair)
  BY WithEntryHeld, Zenon

\* What is written before the n-th entry is a string of bytes.
LEMMA WrittenType ==
  ASSUME NEW entries, NEW count \in Nat, NEW f, f[0] = <<>>,
         \A n \in 1..count : entries[n] \in Pair /\ f[n] = WithEntry(f[n - 1], entries[n])
  PROVE  \A n \in 0..count : f[n] \in Seq(Byte)
<1> DEFINE S == {n \in Nat : n <= count => f[n] \in Seq(Byte)}
<1>1. 0 \in S
  BY EmptySeq
<1>2. ASSUME NEW n \in Nat, n \in S
      PROVE  n + 1 \in S
  <2> SUFFICES ASSUME n + 1 <= count PROVE f[n + 1] \in Seq(Byte)
    OBVIOUS
  <2>1. n + 1 \in 1..count /\ (n + 1) - 1 = n /\ f[n] \in Seq(Byte)
    BY <1>2
  <2>2. entries[n + 1] \in Pair /\ f[n + 1] = WithEntry(f[n], entries[n + 1])
    BY <2>1
  <2> QED
    BY <2>1, <2>2, WithEntryHeld
<1> HIDE DEF S
<1>3. \A n \in Nat : n \in S
  BY <1>1, <1>2, SetInduction
<1> QED
  BY <1>3 DEF S

\* Entries that load are written one behind the other.
LEMMA EntriesRead ==
  ASSUME NEW bytes \in Seq(Byte), NEW at \in Nat, at > 0, at <= Len(bytes),
         NEW count \in Nat, NEW end, Steps(end, bytes, at, count), end[count] # 0,
         NEW entries, entries = EntriesAt(bytes, end, count)
  PROVE  /\ entries \in Seq(Pair) /\ Len(entries) = count
         /\ Holds(bytes, at, write_entries(entries))
<1>0. entries = [n \in 1..count |-> EntryAt(bytes, end[n - 1])]
  BY DEF EntriesAt
<1> DEFINE T == {m \in Nat : m <= count => end[count - m] # 0}
<1>1. 0 \in T
  OBVIOUS
<1>2. ASSUME NEW m \in Nat, m \in T
      PROVE  m + 1 \in T
  <2> SUFFICES ASSUME m + 1 <= count PROVE end[count - (m + 1)] # 0
    OBVIOUS
  <2>1. count - m \in 1..count /\ (count - m) - 1 = count - (m + 1) /\ end[count - m] # 0
    BY <1>2
  <2> HIDE DEF T
  <2>2. end[count - m] = NextEnd(bytes, end[count - (m + 1)])
    BY <2>1 DEF Steps
  <2> QED
    BY <2>1, <2>2 DEF NextEnd
<1> HIDE DEF T
<1>3. \A m \in Nat : m \in T
  BY <1>1, <1>2, SetInduction
<1>4. ASSUME NEW n \in 0..count
      PROVE  end[n] # 0
  <2>1. count - n \in Nat /\ count - n <= count /\ count - (count - n) = n
    OBVIOUS
  <2> QED
    BY <1>3, <2>1 DEF T
<1>5. ASSUME NEW n \in 1..count
      PROVE  /\ entries[n] = EntryAt(bytes, end[n - 1])
             /\ end[n] = read_entry(bytes, end[n - 1]) /\ end[n] # 0
  <2>1. n - 1 \in 0..count /\ n \in 0..count
    OBVIOUS
  <2> QED
    BY <1>0, <1>4, <2>1 DEF Steps, NextEnd
<1>6. Len(entries) = count /\ DOMAIN entries = 1..count
  BY <1>0
<1>7. PICK f : /\ write_entries(entries) = f[count] /\ f[0] = <<>>
               /\ \A n \in 1..count : f[n] = WithEntry(f[n - 1], entries[n])
  BY <1>6, WrittenUnrolled
<1> DEFINE Read(n) == /\ end[n] \in Nat /\ f[n] \in Seq(Byte)
                      /\ end[n] = at + Len(f[n]) /\ Holds(bytes, at, f[n])
                      /\ n > 0 => entries[n] \in Pair
           U == {n \in Nat : n <= count => Read(n)}
<1>8. 0 \in U
  <2>1. end[0] = at
    BY DEF Steps
  <2>2. Len(bytes) \in Nat /\ at + 0 <= Len(bytes) /\ f[0] \in Seq(Byte) /\ Len(f[0]) = 0
    BY <1>7, EmptySeq
  <2> QED
    BY <2>1, <2>2 DEF Holds
<1>9. ASSUME NEW n \in Nat, n \in U
      PROVE  n + 1 \in U
  <2> SUFFICES ASSUME n + 1 <= count PROVE Read(n + 1)
    BY DEF U
  <2>1. Read(n) /\ n + 1 \in 1..count /\ (n + 1) - 1 = n
    BY <1>9
  <2> HIDE DEF U
  <2> DEFINE pair == EntryAt(bytes, end[n])
  <2>2. /\ entries[n + 1] = pair /\ end[n + 1] = read_entry(bytes, end[n])
        /\ read_entry(bytes, end[n]) # 0 /\ f[n + 1] = WithEntry(f[n], entries[n + 1])
    BY <1>5, <1>7, <2>1
  <2>3. pair \in Pair /\ HoldsPair(bytes, end[n], pair)
    BY <2>1, <2>2, EntryRead
  <2>4. end[n + 1] = end[n] + Len(Sized(pair[1])) + Len(Sized(pair[2]))
    BY <2>1, <2>2, <2>3, EntryHeld
  <2>5. /\ f[n + 1] \in Seq(Byte)
        /\ Len(f[n + 1]) = Len(f[n]) + Len(Sized(pair[1])) + Len(Sized(pair[2]))
        /\ Holds(bytes, at, f[n + 1])
    <3> DEFINE before == f[n]
               after == f[n + 1]
    <3>1. after = WithEntry(before, pair)
      BY <2>2
    <3>2. HoldsPair(bytes, at + Len(before), pair)
      BY <2>1, <2>3
    <3>3. pair \in Pair /\ before \in Seq(Byte) /\ Holds(bytes, at, before)
      BY <2>1, <2>3
    <3> HIDE DEF pair, before, after
    <3>4. /\ after \in Seq(Byte)
          /\ Len(after) = Len(before) + Len(Sized(pair[1])) + Len(Sized(pair[2]))
      BY <3>1, <3>3, EntryBehind
    <3>5. Holds(bytes, at, after)
      BY <3>1, <3>2, <3>3, HoldsBehind
    <3> QED
      BY <3>4, <3>5 DEF before, after
  <2>6. Len(f[n]) \in Nat /\ Len(Sized(pair[1])) \in Nat /\ Len(Sized(pair[2])) \in Nat
    BY <2>1, <2>3, PairType
  <2> HIDE DEF pair
  <2> QED
    <3>1. end[n + 1] \in Nat /\ end[n + 1] = at + Len(f[n + 1])
      <4> DEFINE length == Len(f[n])
                 key == Len(Sized(pair[1]))
                 value == Len(Sized(pair[2]))
                 longer == Len(f[n + 1])
                 next == end[n + 1]
      <4>1. /\ length \in Nat /\ key \in Nat /\ value \in Nat
            /\ end[n] = at + length /\ next = end[n] + key + value
            /\ longer = length + key + value
        BY <2>1, <2>4, <2>5, <2>6
      <4> HIDE DEF length, key, value, longer, next
      <4>2. next = at + longer /\ next \in Nat
        BY <4>1, EndsAdd
      <4> QED
        BY <4>2 DEF longer, next
    <3>2. entries[n + 1] \in Pair
      BY <2>2, <2>3
    <3> QED
      BY <2>5, <3>1, <3>2
<1> HIDE DEF U
<1>10. \A n \in Nat : n \in U
  BY <1>8, <1>9, SetInduction
<1>11. ASSUME NEW n \in 1..count
       PROVE  entries[n] \in Pair
  <2>1. n \in U
    BY <1>10
  <2> QED
    BY <2>1 DEF U
<1>12. Holds(bytes, at, f[count])
  BY <1>10 DEF U
<1>13. entries \in [1..count -> Pair]
  BY <1>0, <1>11
<1> QED
  BY <1>6, <1>7, <1>12, <1>13, SeqDef

\* Entries that stand in the file load.
LEMMA EntriesHeld ==
  ASSUME NEW bytes \in Seq(Byte), NEW at \in Nat, at > 0,
         NEW count \in Nat, NEW end, Steps(end, bytes, at, count),
         NEW entries \in Seq(Pair), Len(entries) = count,
         Holds(bytes, at, write_entries(entries))
  PROVE  end[count] # 0 /\ entries = [n \in 1..count |-> EntryAt(bytes, end[n - 1])]
<1>1. PICK f : /\ write_entries(entries) = f[count] /\ f[0] = <<>>
               /\ \A n \in 1..count : f[n] = WithEntry(f[n - 1], entries[n])
  BY WrittenUnrolled
<1>2. \A n \in 1..count : entries[n] \in Pair
  OBVIOUS
<1>3. \A n \in 0..count : f[n] \in Seq(Byte)
  BY <1>1, <1>2, WrittenType
<1> DEFINE T == {m \in Nat : m <= count => Holds(bytes, at, f[count - m])}
<1>4. 0 \in T
  BY <1>1
<1>5. ASSUME NEW m \in Nat, m \in T
      PROVE  m + 1 \in T
  <2> SUFFICES ASSUME m + 1 <= count PROVE Holds(bytes, at, f[count - (m + 1)])
    OBVIOUS
  <2>1. /\ count - m \in 1..count /\ (count - m) - 1 = count - (m + 1)
        /\ count - (m + 1) \in 0..count /\ Holds(bytes, at, f[count - m])
    BY <1>5
  <2> HIDE DEF T
  <2>2. f[count - m] = WithEntry(f[count - (m + 1)], entries[count - m])
    BY <1>1, <2>1
  <2> QED
    <3>1. f[count - (m + 1)] \in Seq(Byte) /\ entries[count - m] \in Pair
      BY <1>2, <1>3, <2>1, Zenon
    <3> QED
      BY <2>1, <2>2, <3>1, HoldsBefore
<1> HIDE DEF T
<1>6. \A m \in Nat : m \in T
  BY <1>4, <1>5, SetInduction
<1>7. ASSUME NEW n \in 0..count
      PROVE  Holds(bytes, at, f[n])
  <2>1. count - n \in Nat /\ count - n <= count /\ count - (count - n) = n
    OBVIOUS
  <2> QED
    BY <1>6, <2>1 DEF T
<1>8. ASSUME NEW n \in 1..count
      PROVE  /\ HoldsPair(bytes, at + Len(f[n - 1]), entries[n])
             /\ f[n - 1] \in Seq(Byte) /\ Len(f[n - 1]) \in Nat
             /\ Len(f[n]) = Len(f[n - 1])
                   + Len(Sized(entries[n][1])) + Len(Sized(entries[n][2]))
  <2> DEFINE before == f[n - 1]
             after == f[n]
             pair == entries[n]
  <2>1. n - 1 \in 0..count /\ n \in 0..count
    OBVIOUS
  <2>2. before \in Seq(Byte) /\ after = WithEntry(before, pair)
        /\ pair \in Pair /\ Holds(bytes, at, after)
    BY <1>1, <1>2, <1>3, <1>7, <2>1
  <2> HIDE DEF before, after, pair
  <2>3. HoldsPair(bytes, at + Len(before), pair)
    BY <2>2, HoldsBefore
  <2>4. Len(after) = Len(before) + Len(Sized(pair[1])) + Len(Sized(pair[2]))
        /\ Len(before) \in Nat
    BY <2>2, EntryBehind
  <2> QED
    BY <2>2, <2>3, <2>4 DEF before, after, pair
<1> DEFINE Reached(n) == end[n] = at + Len(f[n])
           U == {n \in Nat : n <= count => Reached(n)}
<1>9. ASSUME NEW n \in 1..count, Reached(n - 1)
      PROVE  Reached(n) /\ EntryAt(bytes, end[n - 1]) = entries[n]
  <2>1. end[n - 1] \in Nat /\ end[n - 1] > 0 /\ HoldsPair(bytes, end[n - 1], entries[n])
    <3>1. /\ HoldsPair(bytes, at + Len(f[n - 1]), entries[n])
          /\ end[n - 1] = at + Len(f[n - 1]) /\ Len(f[n - 1]) \in Nat
      BY <1>8, <1>9, Zenon
    <3> QED
      BY <3>1
  <2>2. end[n] = read_entry(bytes, end[n - 1])
    BY <2>1 DEF Steps, NextEnd
  <2>3. entries[n] \in Pair
    BY <1>2
  <2>4. /\ read_entry(bytes, end[n - 1]) =
             end[n - 1] + Len(Sized(entries[n][1])) + Len(Sized(entries[n][2]))
        /\ EntryAt(bytes, end[n - 1]) = entries[n]
    BY <2>1, <2>3, EntryHeld
  <2>5. Len(Sized(entries[n][1])) \in Nat /\ Len(Sized(entries[n][2])) \in Nat
        /\ Len(f[n - 1]) \in Nat
    BY <1>8, <2>3, PairType
  <2> QED
    <3>1. /\ Len(f[n]) = Len(f[n - 1]) + Len(Sized(entries[n][1])) + Len(Sized(entries[n][2]))
          /\ end[n - 1] = at + Len(f[n - 1])
      BY <1>8, <1>9, Zenon
    <3>2. end[n] = at + Len(f[n])
      <4> DEFINE length == Len(f[n - 1])
                 key == Len(Sized(entries[n][1]))
                 value == Len(Sized(entries[n][2]))
                 longer == Len(f[n])
                 next == end[n]
      <4>1. /\ length \in Nat /\ key \in Nat /\ value \in Nat
            /\ end[n - 1] = at + length /\ next = end[n - 1] + key + value
            /\ longer = length + key + value
        BY <2>2, <2>4, <2>5, <3>1
      <4> HIDE DEF length, key, value, longer, next
      <4>2. next = at + longer
        BY <4>1, EndsAdd
      <4> QED
        BY <4>2 DEF longer, next
    <3> QED
      BY <2>4, <3>2, Zenon
<1>10. 0 \in U
  <2>1. end[0] = at /\ Len(f[0]) = 0
    BY <1>1, EmptySeq DEF Steps
  <2> QED
    BY <2>1
<1>11. ASSUME NEW n \in Nat, n \in U
       PROVE  n + 1 \in U
  <2> SUFFICES ASSUME n + 1 <= count PROVE Reached(n + 1)
    BY DEF U
  <2>1. Reached(n) /\ n + 1 \in 1..count /\ (n + 1) - 1 = n
    BY <1>11
  <2> HIDE DEF Reached
  <2> QED
    BY <1>9, <2>1
<1> HIDE DEF U
<1>12. \A n \in Nat : n \in U
  BY <1>10, <1>11, SetInduction
<1>13. ASSUME NEW n \in 0..count
       PROVE  Reached(n)
  BY <1>12 DEF U
<1>14. end[count] # 0
  <2>1. Len(f[count]) \in Nat /\ end[count] = at + Len(f[count])
    BY <1>3, <1>13
  <2> QED
    BY <2>1
<1>15. ASSUME NEW n \in 1..count
       PROVE  entries[n] = EntryAt(bytes, end[n - 1])
  <2>1. n - 1 \in 0..count
    OBVIOUS
  <2> HIDE DEF Reached
  <2> QED
    BY <1>9, <1>13, <2>1
<1>16. entries = [n \in 1..count |-> entries[n]]
  OBVIOUS
<1> QED
  BY <1>14, <1>15, <1>16

LEMMA LoadUnrolled ==
  ASSUME NEW bytes, HeaderReadable(bytes), ~(Len(bytes) < Width),
         NEW count \in Nat, count = LengthAt(bytes, HeaderLength(bytes) - Width)
  PROVE  \E end :
           /\ Steps(end, bytes, HeaderLength(bytes), count)
           /\ Load(bytes) =
                IF end[count] = 0 THEN Refused
                ELSE [entries |-> [n \in 1..count |-> EntryAt(bytes, end[n - 1])],
                      offset |-> IF IsCurrent(bytes)
                                 THEN PrimitiveAt(bytes, 2 * Width, OffsetWidth) ELSE 0]
<1> DEFINE Ends == CHOOSE f : IsEnds(f, bytes, HeaderLength(bytes), count)
<1>1. Load(bytes) =
        IF Ends[count] = 0 THEN Refused
        ELSE [entries |-> [n \in 1..count |-> EntryAt(bytes, Ends[n - 1])],
              offset |-> IF IsCurrent(bytes)
                         THEN PrimitiveAt(bytes, 2 * Width, OffsetWidth) ELSE 0]
  BY DEF Load, IsEnds, NextEnd
<1>2. IsEnds(Ends, bytes, HeaderLength(bytes), count)
  BY EndsExist
<1> HIDE DEF Ends
<1>3. Ends[0] = HeaderLength(bytes)
  BY <1>2 DEF IsEnds
<1>4. ASSUME NEW n \in 1..count
      PROVE  Ends[n] = NextEnd(bytes, Ends[n - 1])
  <2>1. n \in 0..count /\ n # 0
    OBVIOUS
  <2> QED
    BY <1>2, <2>1, Zenon DEF IsEnds
<1> QED
  BY <1>1, <1>3, <1>4 DEF Steps

----------------------------------------------------------------------------
\* Whole files.
LEMMA EntriesType ==
  ASSUME NEW entries \in Seq(Pair)
  PROVE  write_entries(entries) \in Seq(Byte)
<1>1. PICK count \in Nat : count = Len(entries)
  OBVIOUS
<1>2. PICK f : /\ write_entries(entries) = f[count] /\ f[0] = <<>>
               /\ \A n \in 1..count : f[n] = WithEntry(f[n - 1], entries[n])
  BY <1>1, WrittenUnrolled
<1>3. \A n \in 1..count : entries[n] \in Pair
  BY <1>1
<1>4. \A n \in 0..count : f[n] \in Seq(Byte)
  BY <1>2, <1>3, WrittenType
<1> QED
  BY <1>2, <1>4

LEMMA SavedHeld ==
  ASSUME NEW bytes \in Seq(Byte), NEW entries \in Seq(Pair), NEW offset \in Nat
  PROVE  /\ Saved(entries, offset) \in Seq(Byte)
         /\ Len(Saved(entries, offset)) =
              3 * Width + OffsetWidth + Len(write_entries(entries))
         /\ Holds(bytes, 0, Saved(entries, offset))
              <=> /\ Holds(bytes, 0, Length(kSnapshotMagic))
                  /\ Holds(bytes, Width, Length(kSnapshotVersion))
                  /\ Holds(bytes, 2 * Width, Primitive(offset, OffsetWidth))
                  /\ Holds(bytes, 2 * Width + OffsetWidth, Length(Len(entries)))
                  /\ Holds(bytes, 3 * Width + OffsetWidth, write_entries(entries))
<1> DEFINE magic == Length(kSnapshotMagic)
           version == Length(kSnapshotVersion)
           place == Primitive(offset, OffsetWidth)
           number == Length(Len(entries))
           rest == write_entries(entries)
           two == magic \o version
           three == two \o place
           four == three \o number
           five == four \o rest
<1>0. Saved(entries, offset) = five
  BY DEF Saved
<1>1. /\ magic \in Seq(Byte) /\ Len(magic) = Width
      /\ version \in Seq(Byte) /\ Len(version) = Width
      /\ place \in Seq(Byte) /\ Len(place) = OffsetWidth
      /\ number \in Seq(Byte) /\ Len(number) = Width
      /\ rest \in Seq(Byte)
  <2>1. kSnapshotMagic \in Nat /\ kSnapshotVersion \in Nat /\ Len(entries) \in Nat
        /\ OffsetWidth \in Nat
    BY SnapshotAssumption DEF Fits
  <2>2. Len(entries) \in Nat
    OBVIOUS
  <2> QED
    BY <2>1, <2>2, LengthType, PrimitiveType, EntriesType
<1>2. Width \in Nat /\ OffsetWidth \in Nat /\ Len(rest) \in Nat
  BY <1>1, BytesAssumption, SnapshotAssumption
<1> HIDE DEF magic, version, place, number, rest
<1>3. /\ two \in Seq(Byte) /\ Len(two) = 2 * Width
      /\ Holds(bytes, 0, two) <=> Holds(bytes, 0, magic) /\ Holds(bytes, Width, version)
  <2>1. two \in Seq(Byte) /\ Len(two) = Len(magic) + Len(version)
    BY <1>1, ConcatElements, Zenon
  <2>2. Holds(bytes, 0, two) <=> Holds(bytes, 0, magic) /\ Holds(bytes, 0 + Len(magic), version)
    BY <1>1, 0 \in Nat, HoldsConcat, Zenon
  <2> HIDE DEF two
  <2> QED
    BY <1>1, <1>2, <2>1, <2>2
<1> HIDE DEF two
<1>4. /\ three \in Seq(Byte) /\ Len(three) = 2 * Width + OffsetWidth
      /\ Holds(bytes, 0, three) <=> Holds(bytes, 0, two) /\ Holds(bytes, 2 * Width, place)
  <2>1. three \in Seq(Byte) /\ Len(three) = Len(two) + Len(place)
    BY <1>1, <1>3, ConcatElements, Zenon
  <2>2. Holds(bytes, 0, three) <=> Holds(bytes, 0, two) /\ Holds(bytes, 0 + Len(two), place)
    BY <1>1, <1>3, 0 \in Nat, HoldsConcat, Zenon
  <2> HIDE DEF three
  <2> QED
    BY <1>1, <1>2, <1>3, <2>1, <2>2
<1> HIDE DEF three
<1>5. /\ four \in Seq(Byte) /\ Len(four) = 3 * Width + OffsetWidth
      /\ Holds(bytes, 0, four)
           <=> Holds(bytes, 0, three) /\ Holds(bytes, 2 * Width + OffsetWidth, number)
  <2>1. four \in Seq(Byte) /\ Len(four) = Len(three) + Len(number)
    BY <1>1, <1>4, ConcatElements, Zenon
  <2>2. Holds(bytes, 0, four) <=> Holds(bytes, 0, three) /\ Holds(bytes, 0 + Len(three), number)
    BY <1>1, <1>4, 0 \in Nat, HoldsConcat, Zenon
  <2> HIDE DEF four
  <2> QED
    BY <1>1, <1>2, <1>4, <2>1, <2>2
<1> HIDE DEF four
<1>6. /\ five \in Seq(Byte) /\ Len(five) = 3 * Width + OffsetWidth + Len(rest)
      /\ Holds(bytes, 0, five)
           <=> Holds(bytes, 0, four) /\ Holds(bytes, 3 * Width + OffsetWidth, rest)
  <2>1. five \in Seq(Byte) /\ Len(five) = Len(four) + Len(rest)
    BY <1>1, <1>5, ConcatElements, Zenon
  <2>2. Holds(bytes, 0, five) <=> Holds(bytes, 0, four) /\ Holds(bytes, 0 + Len(four), rest)
    BY <1>1, <1>5, 0 \in Nat, HoldsConcat, Zenon
  <2> HIDE DEF five
  <2> QED
    BY <1>1, <1>2, <1>5, <2>1, <2>2
<1> HIDE DEF five
<1>7. Holds(bytes, 0, five)
        <=> /\ Holds(bytes, 0, magic) /\ Holds(bytes, Width, version)
            /\ Holds(bytes, 2 * Width, place)
            /\ Holds(bytes, 2 * Width + OffsetWidth, number)
            /\ Holds(bytes, 3 * Width + OffsetWidth, rest)
  BY <1>3, <1>4, <1>5, <1>6, Zenon
<1> QED
  BY <1>0, <1>6, <1>7, Zenon DEF magic, version, place, number, rest

LEMMA SavedType ==
  ASSUME NEW entries \in Seq(Pair), NEW offset \in Nat
  PROVE  /\ Saved(entries, offset) \in Seq(Byte)
         /\ Len(Saved(entries, offset)) =
              3 * Width + OffsetWidth + Len(write_entries(entries))
<1>1. <<>> \in Seq(Byte)
  BY EmptySeq
<1> QED
  BY <1>1, SavedHeld, Zenon

LEMMA LegacyHeld ==
  ASSUME NEW bytes \in Seq(Byte), NEW entries \in Seq(Pair)
  PROVE  /\ SavedLegacy(entries) \in Seq(Byte)
         /\ Len(SavedLegacy(entries)) = Width + Len(write_entries(entries))
         /\ Holds(bytes, 0, SavedLegacy(entries))
              <=> /\ Holds(bytes, 0, Length(Len(entries)))
                  /\ Holds(bytes, Width, write_entries(entries))
<1> DEFINE number == Length(Len(entries))
           rest == write_entries(entries)
           both == number \o rest
<1>0. SavedLegacy(entries) = both
  BY DEF SavedLegacy
<1>1. /\ number \in Seq(Byte) /\ Len(number) = Width /\ rest \in Seq(Byte)
  <2>1. Len(entries) \in Nat
    OBVIOUS
  <2> QED
    BY <2>1, LengthType, EntriesType
<1>2. Width \in Nat
  BY BytesAssumption
<1> HIDE DEF number, rest
<1>3. both \in Seq(Byte) /\ Len(both) = Len(number) + Len(rest)
  BY <1>1, ConcatElements, Zenon
<1>4. Holds(bytes, 0, both) <=> Holds(bytes, 0, number) /\ Holds(bytes, 0 + Len(number), rest)
  BY <1>1, 0 \in Nat, HoldsConcat, Zenon
<1> HIDE DEF both
<1>5. /\ Len(both) = Width + Len(rest)
      /\ Holds(bytes, 0, both) <=> Holds(bytes, 0, number) /\ Holds(bytes, Width, rest)
  BY <1>1, <1>2, <1>3, <1>4
<1> QED
  BY <1>0, <1>3, <1>5, Zenon DEF number, rest

LEMMA LegacyType ==
  ASSUME NEW entries \in Seq(Pair)
  PROVE  /\ SavedLegacy(entries) \in Seq(Byte)
         /\ Len(SavedLegacy(entries)) = Width + Len(write_entries(entries))
<1>1. <<>> \in Seq(Byte)
  BY EmptySeq
<1> QED
  BY <1>1, LegacyHeld, Zenon

\* What a file can be loaded as, and the file that is loaded as that.
Content == [entries: {entries \in Seq(Pair) : Fits(Len(entries), Width)}, offset: Nat]

Stands(bytes, content) ==
  IF IsCurrent(bytes)
  THEN /\ Fits(content.offset, OffsetWidth)
       /\ Holds(bytes, 0, Saved(content.entries, content.offset))
  ELSE content.offset = 0 /\ Holds(bytes, 0, SavedLegacy(content.entries))

LEMMA ContentType ==
  ASSUME NEW content \in Content
  PROVE  content \notin {NotLoaded, Refused}
<1>1. Loadable \subseteq Seq(Byte)
  BY DEF Loadable
<1>2. Pair \subseteq Seq(Byte) \X Seq(Byte)
  BY <1>1 DEF Pair
<1> DEFINE Pairs == Seq(Byte) \X Seq(Byte)
<1>3. Pair \subseteq Pairs
  BY <1>2
<1> HIDE DEF Pairs
<1>4. Seq(Pair) \subseteq Seq(Pairs)
  BY <1>3
<1>5. content \in [entries: Seq(Pairs), offset: Nat]
  BY <1>4 DEF Content
<1> QED
  BY <1>5, OutcomesAssumption DEF Pairs

LEMMA Widths ==
  /\ Width \in Nat /\ Width > 0 /\ OffsetWidth \in Nat /\ OffsetWidth > 0
  /\ Fits(kSnapshotMagic, Width) /\ Fits(kSnapshotVersion, Width)
  BY BytesAssumption, SnapshotAssumption

\* Whatever loads was written.
LEMMA ReadContent ==
  ASSUME NEW bytes \in Seq(Byte), ~(Len(bytes) < Width), Load(bytes) # Refused
  PROVE  Load(bytes) \in Content /\ Stands(bytes, Load(bytes))
<1> DEFINE header == HeaderLength(bytes)
           place == header - Width
           offset == IF IsCurrent(bytes) THEN PrimitiveAt(bytes, 2 * Width, OffsetWidth) ELSE 0
<1>1. ~(Len(bytes) < Width)
  OBVIOUS
<1>2. HeaderReadable(bytes)
  BY DEF Load
<1>3. /\ header \in Nat /\ place \in Nat /\ header > 0 /\ place + Width = header
      /\ header <= Len(bytes)
      /\ header = IF IsCurrent(bytes) THEN 3 * Width + OffsetWidth ELSE Width
  BY <1>2, Widths DEF HeaderLength, HeaderReadable
<1>4. PICK count \in Nat : /\ count = LengthAt(bytes, place) /\ Fits(count, Width)
                           /\ Holds(bytes, place, Length(count))
  BY <1>3, LengthAtType
<1>5. PICK end :
        /\ Steps(end, bytes, header, count)
        /\ Load(bytes) =
             IF end[count] = 0 THEN Refused
             ELSE [entries |-> [n \in 1..count |-> EntryAt(bytes, end[n - 1])],
                   offset |-> offset]
  BY <1>1, <1>2, <1>4, LoadUnrolled
<1>6. PICK entries : /\ entries = [n \in 1..count |-> EntryAt(bytes, end[n - 1])]
                     /\ end[count] # 0
                     /\ Load(bytes) = [entries |-> entries, offset |-> offset]
  BY <1>5
<1> HIDE DEF header, place
<1>7. /\ entries \in Seq(Pair) /\ Len(entries) = count
      /\ Holds(bytes, header, write_entries(entries))
  <2>1. Steps(end, bytes, header, count) /\ end[count] # 0
    BY <1>5, <1>6, Zenon
  <2>2. entries = EntriesAt(bytes, end, count)
    BY <1>6, Zenon DEF EntriesAt
  <2>3. header \in Nat /\ header > 0 /\ header <= Len(bytes)
    BY <1>3
  <2> QED
    BY <2>1, <2>2, <2>3, EntriesRead
<1>8. CASE IsCurrent(bytes)
  <2>1. header = 3 * Width + OffsetWidth /\ place = 2 * Width + OffsetWidth
        /\ 2 * Width + OffsetWidth <= Len(bytes) /\ 2 * Width <= Len(bytes)
    BY <1>3, <1>8, Widths
  <2>2. offset \in Nat /\ Fits(offset, OffsetWidth)
        /\ Holds(bytes, 2 * Width, Primitive(offset, OffsetWidth))
    <3>1. 2 * Width \in Nat /\ OffsetWidth \in Nat
      BY Widths
    <3> QED
      BY <1>8, <2>1, <3>1, PrimitiveAtType
  <2>3. Holds(bytes, 0, Length(kSnapshotMagic))
    <3>1. 0 + Width <= Len(bytes) /\ 0 \in Nat
      BY <2>1, Widths
    <3>2. Holds(bytes, 0, Length(LengthAt(bytes, 0)))
      BY <3>1, LengthAtType
    <3> QED
      BY <1>8, <3>2 DEF IsCurrent
  <2>4. Holds(bytes, Width, Length(kSnapshotVersion))
    <3>1. Width + Width <= Len(bytes) /\ Width \in Nat
      BY <2>1, Widths
    <3>2. Holds(bytes, Width, Length(LengthAt(bytes, Width)))
      BY <3>1, LengthAtType
    <3> QED
      BY <1>2, <1>8, <3>2 DEF HeaderReadable
  <2> HIDE DEF offset
  <2>5. Holds(bytes, 0, Saved(entries, offset))
    <3>1. Holds(bytes, 2 * Width + OffsetWidth, Length(Len(entries)))
      BY <1>4, <1>7, <2>1
    <3>2. Holds(bytes, 3 * Width + OffsetWidth, write_entries(entries))
      BY <1>7, <2>1
    <3> QED
      BY <1>7, <2>2, <2>3, <2>4, <3>1, <3>2, SavedHeld, Zenon
  <2> QED
    BY <1>4, <1>6, <1>7, <1>8, <2>2, <2>5 DEF Content, Stands
<1>9. CASE ~IsCurrent(bytes)
  <2>1. header = Width /\ place = 0 /\ offset = 0
    BY <1>3, <1>9, Widths
  <2> HIDE DEF offset
  <2>2. Holds(bytes, 0, SavedLegacy(entries))
    BY <1>4, <1>7, <2>1, LegacyHeld
  <2> QED
    BY <1>4, <1>6, <1>7, <1>9, <2>1, <2>2 DEF Content, Stands
<1> QED
  BY <1>8, <1>9

LEMMA LoadRead ==
  ASSUME NEW bytes \in Seq(Byte), Load(bytes) \notin {NotLoaded, Refused}
  PROVE  Load(bytes) \in Content /\ Stands(bytes, Load(bytes))
<1>1. ~(Len(bytes) < Width)
  BY DEF Load
<1> QED
  BY <1>1, ReadContent

LEMMA NotLoadedIsShort ==
  ASSUME NEW bytes \in Seq(Byte), Load(bytes) = NotLoaded
  PROVE  Len(bytes) < Width
<1> SUFFICES ASSUME ~(Len(bytes) < Width) PROVE FALSE
  OBVIOUS
<1>1. Load(bytes) # Refused
  BY OutcomesAssumption
<1> QED
  BY <1>1, ReadContent, ContentType

\* Whatever was written loads.
LEMMA LoadHeld ==
  ASSUME NEW bytes \in Seq(Byte), NEW content \in Content, Stands(bytes, content)
  PROVE  Load(bytes) = content
<1> DEFINE header == HeaderLength(bytes)
           place == header - Width
           offset == IF IsCurrent(bytes) THEN PrimitiveAt(bytes, 2 * Width, OffsetWidth) ELSE 0
           entries == content.entries
           count == Len(entries)
<1>1. /\ entries \in Seq(Pair) /\ count \in Nat /\ Fits(count, Width)
      /\ content.offset \in Nat /\ content = [entries |-> entries, offset |-> content.offset]
  BY DEF Content
<1> HIDE DEF entries
<1>2. /\ header \in Nat /\ place \in Nat /\ header > 0 /\ place + Width = header
      /\ header = IF IsCurrent(bytes) THEN 3 * Width + OffsetWidth ELSE Width
  BY Widths DEF HeaderLength
<1> HIDE DEF header, place
<1>3. /\ header <= Len(bytes) /\ HeaderReadable(bytes) /\ offset = content.offset
      /\ Holds(bytes, place, Length(count)) /\ Holds(bytes, header, write_entries(entries))
  <2>1. CASE IsCurrent(bytes)
    <3>1. header = 3 * Width + OffsetWidth /\ place = 2 * Width + OffsetWidth
      BY <1>2, <2>1, Widths
    <3>2. Fits(content.offset, OffsetWidth) /\ Holds(bytes, 0, Saved(entries, content.offset))
      BY <2>1 DEF Stands, entries
    <3>3. /\ Holds(bytes, Width, Length(kSnapshotVersion))
          /\ Holds(bytes, 2 * Width, Primitive(content.offset, OffsetWidth))
          /\ Holds(bytes, 2 * Width + OffsetWidth, Length(Len(entries)))
          /\ Holds(bytes, 3 * Width + OffsetWidth, write_entries(entries))
      BY <1>1, <3>2, SavedHeld, Zenon
    <3>4. LengthAt(bytes, Width) = kSnapshotVersion
      BY <3>3, Widths, LengthAtHeld
    <3>5. PrimitiveAt(bytes, 2 * Width, OffsetWidth) = content.offset
      <4>1. 2 * Width \in Nat /\ OffsetWidth \in Nat
        BY Widths
      <4> QED
        BY <3>2, <3>3, <4>1, PrimitiveAtHeld
    <3>6. header <= Len(bytes)
      <4>1. Len(write_entries(entries)) \in Nat
        BY <1>1, EntriesType
      <4> QED
        BY <1>2, <3>1, <3>3, <4>1, Len(bytes) \in Nat DEF Holds
    <3> QED
      BY <2>1, <3>1, <3>3, <3>4, <3>5, <3>6 DEF HeaderReadable, header
  <2>2. CASE ~IsCurrent(bytes)
    <3>1. header = Width /\ place = 0 /\ offset = 0
      BY <1>2, <2>2, Widths
    <3>2. content.offset = 0 /\ Holds(bytes, 0, SavedLegacy(entries))
      BY <2>2 DEF Stands, entries
    <3>3. Holds(bytes, 0, Length(count)) /\ Holds(bytes, Width, write_entries(entries))
      BY <1>1, <3>2, LegacyHeld
    <3>4. header <= Len(bytes)
      <4>1. Len(write_entries(entries)) \in Nat
        BY <1>1, EntriesType
      <4> QED
        BY <1>2, <3>1, <3>3, <4>1, Len(bytes) \in Nat DEF Holds
    <3> QED
      BY <2>2, <3>1, <3>2, <3>3, <3>4 DEF HeaderReadable, header
  <2> QED
    BY <2>1, <2>2
<1>4. count = LengthAt(bytes, HeaderLength(bytes) - Width)
  <2>1. LengthAt(bytes, place) = count
    BY <1>1, <1>2, <1>3, LengthAtHeld
  <2> QED
    BY <2>1 DEF place, header
<1>5. ~(Len(bytes) < Width)
  BY <1>2, <1>3, Widths, Len(bytes) \in Nat
<1> HIDE DEF count, offset
<1>6. PICK end :
        /\ Steps(end, bytes, header, count)
        /\ Load(bytes) =
             IF end[count] = 0 THEN Refused
             ELSE [entries |-> [n \in 1..count |-> EntryAt(bytes, end[n - 1])],
                   offset |-> offset]
  BY <1>1, <1>3, <1>4, <1>5, LoadUnrolled DEF header, offset
<1>7. end[count] # 0 /\ entries = [n \in 1..count |-> EntryAt(bytes, end[n - 1])]
  <2>1. Len(entries) = count
    BY DEF count
  <2> QED
    BY <1>1, <1>2, <1>3, <1>6, <2>1, EntriesHeld
<1> QED
  BY <1>1, <1>3, <1>6, <1>7

\* The layout is told from the first field.
LEMMA FirstField ==
  ASSUME NEW bytes \in Seq(Byte), NEW n \in Nat, Fits(n, Width), Holds(bytes, 0, Length(n))
  PROVE  IsCurrent(bytes) <=> n = kSnapshotMagic
<1>1. LengthAt(bytes, 0) = n
  BY 0 \in Nat, LengthAtHeld
<1> QED
  BY <1>1 DEF IsCurrent

LEMMA StandsSaved ==
  ASSUME NEW bytes \in Seq(Byte), NEW content \in Content, Fits(content.offset, OffsetWidth),
         Holds(bytes, 0, Saved(content.entries, content.offset))
  PROVE  Stands(bytes, content)
<1>1. content.entries \in Seq(Pair) /\ content.offset \in Nat
  BY DEF Content
<1>2. Holds(bytes, 0, Length(kSnapshotMagic))
  BY <1>1, SavedHeld, Zenon
<1>3. IsCurrent(bytes)
  BY <1>2, Widths, FirstField DEF Fits
<1> QED
  BY <1>3 DEF Stands

LEMMA StandsLegacy ==
  ASSUME NEW bytes \in Seq(Byte), NEW content \in Content, content.offset = 0,
         Len(content.entries) # kSnapshotMagic,
         Holds(bytes, 0, SavedLegacy(content.entries))
  PROVE  Stands(bytes, content)
<1>1. /\ content.entries \in Seq(Pair) /\ Len(content.entries) \in Nat
      /\ Fits(Len(content.entries), Width)
  BY DEF Content
<1>2. Holds(bytes, 0, Length(Len(content.entries)))
  BY <1>1, LegacyHeld, Zenon
<1>3. ~IsCurrent(bytes)
  BY <1>1, <1>2, FirstField
<1> QED
  BY <1>3 DEF Stands

\* The bytes of a content, in the layout of the file it stands in.
WrittenAs(bytes, content) ==
  IF IsCurrent(bytes) THEN Saved(content.entries, content.offset)
                      ELSE SavedLegacy(content.entries)

LEMMA StandsWritten ==
  ASSUME NEW bytes \in Seq(Byte), NEW content \in Content, Stands(bytes, content)
  PROVE  /\ WrittenAs(bytes, content) \in Seq(Byte)
         /\ Holds(bytes, 0, WrittenAs(bytes, content))
<1>1. content.entries \in Seq(Pair) /\ content.offset \in Nat
  BY DEF Content
<1>2. /\ Saved(content.entries, content.offset) \in Seq(Byte)
      /\ SavedLegacy(content.entries) \in Seq(Byte)
  BY <1>1, SavedHeld, LegacyHeld
<1> QED
  BY <1>2 DEF Stands, WrittenAs

\* A file that loads is loaded as the same when bytes are added.
LEMMA StandsLonger ==
  ASSUME NEW bytes \in Seq(Byte), NEW tail \in Seq(Byte), NEW content \in Content,
         Stands(bytes, content), NEW longer, longer = bytes \o tail
  PROVE  /\ longer \in Seq(Byte) /\ Stands(longer, content)
         /\ WrittenAs(longer, content) = WrittenAs(bytes, content)
<1>1. longer \in Seq(Byte)
  BY ConcatElements
<1>2. WrittenAs(bytes, content) \in Seq(Byte) /\ Holds(bytes, 0, WrittenAs(bytes, content))
  BY StandsWritten
<1>3. Holds(longer, 0, WrittenAs(bytes, content))
  <2>1. Holds(bytes \o tail, 0, WrittenAs(bytes, content))
    BY <1>2, 0 \in Nat, HeldLonger, Zenon
  <2> QED
    BY <2>1
<1>4. /\ content.entries \in Seq(Pair) /\ content.offset \in Nat
      /\ Len(content.entries) \in Nat /\ Fits(Len(content.entries), Width)
  BY DEF Content
<1>5. CASE IsCurrent(bytes)
  <2>1. Fits(content.offset, OffsetWidth)
    BY <1>5 DEF Stands
  <2>2. Holds(longer, 0, Saved(content.entries, content.offset))
    BY <1>3, <1>5 DEF WrittenAs
  <2>3. Holds(longer, 0, Length(kSnapshotMagic))
    BY <1>1, <1>4, <2>2, SavedHeld, Zenon
  <2>4. IsCurrent(longer)
    BY <1>1, <2>3, Widths, FirstField DEF Fits
  <2> QED
    BY <1>1, <1>5, <2>1, <2>2, <2>4 DEF Stands, WrittenAs
<1>6. CASE ~IsCurrent(bytes)
  <2>1. content.offset = 0 /\ Holds(bytes, 0, SavedLegacy(content.entries))
    BY <1>6 DEF Stands
  <2>2. Holds(longer, 0, SavedLegacy(content.entries))
    BY <1>3, <1>6 DEF WrittenAs
  <2>3. Holds(bytes, 0, Length(Len(content.entries)))
    BY <1>4, <2>1, LegacyHeld, Zenon
  <2>4. Holds(longer, 0, Length(Len(content.entries)))
    BY <1>1, <1>4, <2>2, LegacyHeld, Zenon
  <2>5. ~IsCurrent(longer)
    BY <1>1, <1>4, <1>6, <2>3, <2>4, FirstField
  <2> QED
    BY <1>1, <1>6, <2>1, <2>2, <2>5 DEF Stands, WrittenAs
<1> QED
  BY <1>5, <1>6
=============================================================================
