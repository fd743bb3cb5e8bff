-------------------------- MODULE ConnectionProofs --------------------------
(***************************************************************************)
(* What Connection delivers, for any messages, any pipelines that the two  *)
(* ends agree on (ConnectionAssumption) and chunks of any size: first what *)
(* each codec makes of the bytes of the other end, then what a chain of    *)
(* codecs makes of them, then the reader.                                  *)
(***************************************************************************)
EXTENDS Connection, SequenceTheorems, WellFoundedInduction, TLAPS

-----------------------------------------------------------------------------
(* Induction over the natural numbers, for a set G of them. *)
LessThan == {pair \in Nat \X Nat : pair[1] < pair[2]}

LEMMA NatInduct ==
  ASSUME NEW G, 0 \in G, \A n \in Nat : n \in G => n + 1 \in G
  PROVE  \A n \in Nat : n \in G
<1> DEFINE Bad == {n \in Nat : n \notin G}
<1> SUFFICES ASSUME Bad # {} PROVE FALSE
  OBVIOUS
<1>1. IsWellFoundedOn(LessThan, Nat)
  BY NatLessThanWellFounded DEF OpToRel, LessThan
<1>2. PICK n \in Bad : \A m \in Bad : <<m, n>> \notin LessThan
  <2>1. Bad \subseteq Nat
    OBVIOUS
  <2> HIDE DEF Bad
  <2> QED BY <1>1, <2>1, WFMin
<1>3. n # 0 /\ n \in Nat
  OBVIOUS
<1>4. n - 1 \in Nat /\ <<n - 1, n>> \in LessThan
  BY <1>3 DEF LessThan
<1>5. n - 1 \in G
  BY <1>2, <1>4
<1> QED BY <1>3, <1>4, <1>5

-----------------------------------------------------------------------------
(* Powers of the base. *)
PowerLoop(p, n) == p = [i \in 0..n |-> IF i = 0 THEN 1 ELSE Base * p[i - 1]]

LEMMA PowerIsDefined == \A n \in Nat : \E p : PowerLoop(p, n)
<1> DEFINE G == {n \in Nat : \E p : PowerLoop(p, n)}
<1>1. 0 \in G
  <2> DEFINE p == [i \in 0..0 |-> 1]
  <2>1. PowerLoop(p, 0)
    BY DEF PowerLoop
  <2> QED BY <2>1
<1>2. ASSUME NEW n \in Nat, n \in G PROVE n + 1 \in G
  <2>1. PICK p : PowerLoop(p, n)
    BY <1>2
  <2> DEFINE q == [i \in 0..n + 1 |-> IF i = n + 1 THEN Base * p[n] ELSE p[i]]
  <2>2. ASSUME NEW i \in 0..n + 1 PROVE q[i] = IF i = 0 THEN 1 ELSE Base * q[i - 1]
    BY <2>1 DEF PowerLoop
  <2>3. PowerLoop(q, n + 1)
    BY <2>2 DEF PowerLoop
  <2> QED BY <2>3
<1> HIDE DEF G
<1>3. \A n \in Nat : n \in G
  BY <1>1, <1>2, NatInduct
<1> QED BY <1>3 DEF G

LEMMA PowerIsUnique ==
  ASSUME NEW n \in Nat, NEW p, PowerLoop(p, n), NEW m \in Nat, NEW q, PowerLoop(q, m), n <= m
  PROVE  p[n] = q[n]
<1> DEFINE G == {i \in Nat : i <= n => p[i] = q[i]}
<1>1. 0 \in G
  BY DEF PowerLoop
<1>2. ASSUME NEW i \in Nat, i \in G PROVE i + 1 \in G
  <2> SUFFICES ASSUME i + 1 <= n PROVE p[i + 1] = q[i + 1]
    OBVIOUS
  <2>1. i + 1 \in 0..n /\ i + 1 \in 0..m /\ i + 1 # 0 /\ (i + 1) - 1 = i
    OBVIOUS
  <2>2. p[i + 1] = Base * p[i] /\ q[i + 1] = Base * q[i]
    BY <2>1 DEF PowerLoop
  <2> QED BY <1>2, <2>2
<1> HIDE DEF G
<1>3. n \in G
  BY <1>1, <1>2, NatInduct
<1> QED BY <1>3 DEF G

LEMMA PowerLoops ==
  ASSUME NEW n \in Nat
  PROVE  \E p : PowerLoop(p, n) /\ Power(n) = p[n]
<1> DEFINE p == CHOOSE p : PowerLoop(p, n)
<1>1. PowerLoop(p, n)
  BY PowerIsDefined
<1>2. Power(n) = p[n]
  BY DEF Power, PowerLoop
<1> QED BY <1>1, <1>2

LEMMA PowerStep ==
  /\ Power(0) = 1
  /\ \A n \in Nat : Power(n + 1) = Base * Power(n)
<1>1. Power(0) = 1
  BY PowerLoops DEF PowerLoop
<1>2. ASSUME NEW n \in Nat PROVE Power(n + 1) = Base * Power(n)
  <2>1. PICK p : PowerLoop(p, n) /\ Power(n) = p[n]
    BY PowerLoops
  <2>2. PICK q : PowerLoop(q, n + 1) /\ Power(n + 1) = q[n + 1]
    BY PowerLoops
  <2>3. p[n] = q[n]
    BY <2>1, <2>2, PowerIsUnique
  <2>4. q[n + 1] = Base * q[n]
    BY <2>2 DEF PowerLoop
  <2> QED BY <2>1, <2>2, <2>3, <2>4
<1> QED BY <1>1, <1>2

LEMMA PowerType == \A n \in Nat : Power(n) \in Nat \ {0}
<1> DEFINE G == {n \in Nat : Power(n) \in Nat \ {0}}
<1>1. 0 \in G
  BY PowerStep
<1>2. ASSUME NEW n \in Nat, n \in G PROVE n + 1 \in G
  <2>1. Power(n) \in Nat /\ Power(n) > 0 /\ Base \in Nat /\ Base > 0
    BY <1>2, CodecAssumption
  <2>2. Power(n + 1) = Base * Power(n)
    BY PowerStep
  <2>3. \A b, p \in Nat : b > 0 /\ p > 0 => b * p \in Nat /\ b * p > 0
    OBVIOUS
  <2> QED BY <2>1, <2>2, <2>3
<1> HIDE DEF G
<1>3. \A n \in Nat : n \in G
  BY <1>1, <1>2, NatInduct
<1> QED BY <1>3 DEF G

-----------------------------------------------------------------------------
(* Division. *)
LEMMA DivMod ==
  ASSUME NEW a \in Int, NEW b \in Nat \ {0}
  PROVE  a \div b \in Int /\ a % b \in 0..b - 1 /\ a = b * (a \div b) + (a % b)
<1>1. b > 0
  OBVIOUS
<1>2. a \div b \in Int
  BY <1>1
<1>3. a % b \in 0..b - 1
  BY <1>1
<1>4. a = b * (a \div b) + (a % b)
  BY <1>1
<1> QED BY <1>2, <1>3, <1>4

LEMMA QuotientIs ==
  ASSUME NEW a \in Int, NEW b \in Nat \ {0}, NEW q \in Int, NEW r \in 0..b - 1, a = b * q + r
  PROVE  a \div b = q
<1>1. a \div b \in Int /\ a % b \in 0..b - 1 /\ a = b * (a \div b) + (a % b)
  BY DivMod
<1>2. \A p, s \in Int : b * q + r = b * p + s /\ s \in 0..b - 1 => p = q
  <2> SUFFICES ASSUME NEW p \in Int, NEW s \in 0..b - 1, b * q + r = b * p + s, p # q PROVE FALSE
    OBVIOUS
  <2>1. CASE p < q
    <3>1. q >= p + 1
      BY <2>1
    <3>2. b * q >= b * (p + 1)
      BY <3>1
    <3>3. b * (p + 1) = b * p + b
      OBVIOUS
    <3> QED BY <3>2, <3>3
  <2>2. CASE p > q
    <3>1. p >= q + 1
      BY <2>2
    <3>2. b * p >= b * (q + 1)
      BY <3>1
    <3>3. b * (q + 1) = b * q + b
      OBVIOUS
    <3> QED BY <3>2, <3>3
  <2> QED BY <2>1, <2>2
<1> QED BY <1>1, <1>2

LEMMA DivDiv ==
  ASSUME NEW k \in Int, NEW a \in Nat \ {0}, NEW b \in Nat \ {0}
  PROVE  k \div (b * a) = (k \div a) \div b
<1> DEFINE q == k \div a
           r == k % a
           p == q \div b
           s == q % b
<1>1. q \in Int /\ r \in 0..a - 1 /\ k = a * q + r
  BY DivMod
<1>2. p \in Int /\ s \in 0..b - 1 /\ q = b * p + s
  BY <1>1, DivMod
<1> HIDE DEF q, r, p, s
<1>3. b * a \in Nat \ {0}
  <2>1. a \in Nat /\ a > 0 /\ b \in Nat /\ b > 0
    OBVIOUS
  <2>2. b * a > 0 /\ b * a \in Nat
    BY <2>1
  <2> QED BY <2>2
<1>4. k = (b * a) * p + (a * s + r)
  <2>1. a * (b * p + s) = a * (b * p) + a * s
    BY <1>2
  <2>2. a * (b * p) = (b * a) * p
    BY <1>2
  <2> QED BY <1>1, <1>2, <2>1, <2>2, <1>3
<1>5. a * s + r \in 0..(b * a) - 1
  <2>1. s <= b - 1 /\ s \in Nat /\ a \in Nat /\ b \in Nat
    BY <1>2
  <2>2. a * s <= a * (b - 1)
    BY <2>1
  <2>3. a * (b - 1) = b * a - a
    BY <2>1
  <2>4. a * s \in Nat
    BY <2>1
  <2> QED BY <1>1, <2>2, <2>3, <2>4
<1>6. k \div (b * a) = p
  BY <1>2, <1>3, <1>4, <1>5, QuotientIs
<1> QED BY <1>6 DEF p, q

-----------------------------------------------------------------------------
(* Numbers and their digits. *)
NumberLoop(v, s, n) == v = [i \in 0..n |-> IF i = 0 THEN 0 ELSE v[i - 1] * Base + s[i]]

LEMMA NumberIsDefined == ASSUME NEW s PROVE \A n \in Nat : \E v : NumberLoop(v, s, n)
<1> DEFINE G == {n \in Nat : \E v : NumberLoop(v, s, n)}
<1>1. 0 \in G
  <2> DEFINE v == [i \in 0..0 |-> 0]
  <2>1. NumberLoop(v, s, 0)
    BY DEF NumberLoop
  <2> QED BY <2>1
<1>2. ASSUME NEW n \in Nat, n \in G PROVE n + 1 \in G
  <2>1. PICK v : NumberLoop(v, s, n)
    BY <1>2
  <2> DEFINE w == [i \in 0..n + 1 |-> IF i = n + 1 THEN v[n] * Base + s[n + 1] ELSE v[i]]
  <2>2. ASSUME NEW i \in 0..n + 1 PROVE w[i] = IF i = 0 THEN 0 ELSE w[i - 1] * Base + s[i]
    BY <2>1 DEF NumberLoop
  <2>3. NumberLoop(w, s, n + 1)
    BY <2>2 DEF NumberLoop
  <2> QED BY <2>3
<1> HIDE DEF G
<1>3. \A n \in Nat : n \in G
  BY <1>1, <1>2, NatInduct
<1> QED BY <1>3 DEF G

(* Before n digits are read, the number is k \div Power(n), which is 0, or *)
(* -1 if k is negative; the number that they stand for is k less that.     *)
LEMMA NumberOfDigits ==
  ASSUME NEW k \in Int, NEW n \in Nat
  PROVE  Number(Digits(k, n)) = k - (k \div Power(n)) * Power(n)
<1> DEFINE s == Digits(k, n)
           d == k \div Power(n)
<1>p. \A i \in Nat : Power(i) \in Nat \ {0}
  BY PowerType
<1>b. Base \in Nat \ {0}
  BY CodecAssumption
<1>1. Len(s) = n /\ \A i \in 1..n : s[i] = (k \div Power(n - i)) % Base
  BY DEF Digits
<1>2. PICK v : NumberLoop(v, s, n) /\ Number(s) = v[n]
  <2> DEFINE v == CHOOSE v : NumberLoop(v, s, n)
  <2>1. NumberLoop(v, s, n)
    BY NumberIsDefined
  <2>2. Number(s) = v[n]
    BY <1>1 DEF Number, NumberLoop
  <2> QED BY <2>1, <2>2
<1>3. d \in Int
  BY <1>p, DivMod
<1> DEFINE G == {i \in Nat : i <= n => v[i] = (k \div Power(n - i)) - d * Power(i)}
<1>4. 0 \in G
  <2>1. v[0] = 0
    BY <1>2 DEF NumberLoop
  <2>2. n - 0 = n /\ d * 1 = d /\ d - d = 0
    BY <1>3
  <2> QED BY <2>1, <2>2, PowerStep
<1>5. ASSUME NEW i \in Nat, i \in G PROVE i + 1 \in G
  <2> SUFFICES ASSUME i + 1 <= n
               PROVE  v[i + 1] = (k \div Power(n - (i + 1))) - d * Power(i + 1)
    OBVIOUS
  <2> DEFINE j == n - (i + 1)
             q == k \div Power(j)
             r == k \div Power(n - i)
  <2>1. j \in Nat /\ n - i = j + 1 /\ i + 1 \in 1..n /\ i + 1 \in 0..n /\ i + 1 # 0 /\ (i + 1) - 1 = i
    OBVIOUS
  <2>2. v[i + 1] = v[i] * Base + s[i + 1]
    BY <1>2, <2>1 DEF NumberLoop
  <2>3. v[i] = r - d * Power(i)
    BY <1>5, <2>1
  <2>4. s[i + 1] = q % Base
    BY <1>1, <2>1
  <2>5. q \in Int
    BY <1>p, <2>1, DivMod
  <2>6. r = q \div Base
    <3>1. Power(n - i) = Base * Power(j)
      BY <2>1, PowerStep
    <3> QED BY <3>1, <1>p, <1>b, <2>1, DivDiv
  <2>7. r \in Int /\ q % Base \in Int /\ q = Base * r + (q % Base)
    <3> HIDE DEF q, r
    <3>1. q \div Base \in Int /\ q % Base \in 0..Base - 1 /\ q = Base * (q \div Base) + (q % Base)
      BY <2>5, <1>b, DivMod
    <3> QED BY <3>1, <2>6, <1>b
  <2>8. Power(i + 1) = Base * Power(i) /\ Power(i) \in Int
    BY <1>p, PowerStep
  <2> HIDE DEF s, d, j, q, r
  <2>9. (r - d * Power(i)) * Base = Base * r - d * (Base * Power(i))
    BY <1>3, <1>b, <2>7, <2>8
  <2>10. v[i + 1] = q - d * Power(i + 1)
    <3>1. d * (Base * Power(i)) \in Int /\ Base * r \in Int
      BY <1>3, <1>b, <2>7, <2>8
    <3> QED BY <2>2, <2>3, <2>4, <2>7, <2>8, <2>9, <3>1
  <2> QED BY <2>10 DEF q, j
<1> HIDE DEF G
<1>6. n \in G
  BY <1>4, <1>5, NatInduct
<1>7. v[n] = (k \div Power(n - n)) - d * Power(n)
  BY <1>6 DEF G
<1>8. k \div Power(n - n) = k
  <2>1. n - n = 0 /\ 1 \in Nat \ {0} /\ 0 \in 0..1 - 1 /\ k = 1 * k + 0
    OBVIOUS
  <2> QED BY <2>1, PowerStep, QuotientIs
<1> QED BY <1>2, <1>7, <1>8

LEMMA NaturalRoundTrip ==
  ASSUME NEW n \in Nat, NEW k \in 0..Power(n) - 1
  PROVE  Number(Digits(k, n)) = k
<1>1. Power(n) \in Nat \ {0}
  BY PowerType
<1>2. k \in Int /\ k = Power(n) * 0 + k
  BY <1>1
<1>3. k \div Power(n) = 0
  BY <1>1, <1>2, QuotientIs
<1> QED BY <1>1, <1>2, <1>3, NumberOfDigits

LEMMA SignedRoundTrip ==
  ASSUME NEW n \in Nat, NEW k \in Int, -Power(n) <= 2 * k, 2 * k < Power(n)
  PROVE  Signed(Number(Digits(k, n)), n) = k
<1>1. Power(n) \in Nat \ {0}
  BY PowerType
<1>2. CASE k >= 0
  <2>1. k \in 0..Power(n) - 1
    BY <1>1, <1>2
  <2> QED BY <1>1, <2>1, NaturalRoundTrip DEF Signed
<1>3. CASE k < 0
  <2>1. k + Power(n) \in 0..Power(n) - 1 /\ k = Power(n) * (-1) + (k + Power(n))
    BY <1>1, <1>3
  <2>2. k \div Power(n) = -1
    BY <1>1, <2>1, QuotientIs
  <2>3. Number(Digits(k, n)) = k + Power(n)
    BY <1>1, <2>2, NumberOfDigits
  <2> QED BY <1>1, <1>3, <2>3 DEF Signed
<1> QED BY <1>2, <1>3

LEMMA DigitsAreBytes ==
  ASSUME NEW k \in Int, NEW n \in Nat
  PROVE  Digits(k, n) \in Bytes /\ Len(Digits(k, n)) = n
<1>1. Base \in Nat \ {0}
  BY CodecAssumption
<1>2. \A i \in 1..n : (k \div Power(n - i)) % Base \in 0..Base - 1
  <2> SUFFICES ASSUME NEW i \in 1..n PROVE (k \div Power(n - i)) % Base \in 0..Base - 1
    OBVIOUS
  <2>1. n - i \in Nat
    OBVIOUS
  <2>2. k \div Power(n - i) \in Int
    BY <2>1, PowerType, DivMod
  <2> QED BY <1>1, <2>2, DivMod
<1> QED BY <1>2 DEF Digits, Bytes

-----------------------------------------------------------------------------
(* Parts of a concatenation. *)
LEMMA ConcatParts ==
  ASSUME NEW S, NEW a \in Seq(S), NEW b \in Seq(S)
  PROVE  /\ a \o b \in Seq(S) /\ Len(a \o b) = Len(a) + Len(b)
         /\ Len(a) \in Nat /\ Len(b) \in Nat
         /\ \A i \in 1..Len(a) : (a \o b)[i] = a[i]
         /\ \A i \in 1..Len(b) : (a \o b)[Len(a) + i] = b[i]
         /\ SubSeq(a \o b, 1, Len(a)) = a
         /\ SubSeq(a \o b, Len(a) + 1, Len(a) + Len(b)) = b
<1>1. /\ a \o b \in Seq(S) /\ Len(a \o b) = Len(a) + Len(b)
      /\ Len(a) \in Nat /\ Len(b) \in Nat
  OBVIOUS
<1>2. /\ \A i \in 1..Len(a) : (a \o b)[i] = a[i]
      /\ \A i \in 1..Len(b) : (a \o b)[Len(a) + i] = b[i]
  OBVIOUS
<1> DEFINE u == a \o b
<1> HIDE DEF u
<1>3. SubSeq(u, 1, Len(a)) = a
  <2>1. \A i \in 1..Len(a) : u[i] = a[i] /\ u[i] \in S
    BY <1>2 DEF u
  <2>2. /\ SubSeq(u, 1, Len(a)) \in Seq(S)
        /\ Len(SubSeq(u, 1, Len(a))) = Len(a)
        /\ \A i \in 1..Len(a) : SubSeq(u, 1, Len(a))[i] = u[i]
    BY <1>1, <2>1, SubSeqProperties
  <2> QED BY <2>1, <2>2, SeqEqual
<1>4. SubSeq(u, Len(a) + 1, Len(a) + Len(b)) = b
  <2>1. \A i \in 1..Len(b) : u[Len(a) + i] = b[i] /\ b[i] \in S
    BY <1>2 DEF u
  <2>2. \A i \in Len(a) + 1..Len(a) + Len(b) : u[i] \in S
    <3> SUFFICES ASSUME NEW i \in Len(a) + 1..Len(a) + Len(b) PROVE u[i] \in S
      OBVIOUS
    <3>1. i - Len(a) \in 1..Len(b) /\ Len(a) + (i - Len(a)) = i
      BY <1>1
    <3> QED BY <2>1, <3>1
  <2> DEFINE r == SubSeq(u, Len(a) + 1, Len(a) + Len(b))
  <2>3. r \in Seq(S) /\ Len(r) = Len(b) /\ \A i \in 1..Len(b) : r[i] = u[Len(a) + i]
    <3>1. /\ r \in Seq(S)
          /\ Len(r) = IF Len(a) + 1 <= Len(a) + Len(b) THEN (Len(a) + Len(b)) - (Len(a) + 1) + 1 ELSE 0
          /\ \A i \in 1..(Len(a) + Len(b)) - (Len(a) + 1) + 1 : r[i] = u[(Len(a) + 1) + i - 1]
      BY <1>1, <2>2, SubSeqProperties
    <3>2. \A i \in 1..Len(b) : i \in 1..(Len(a) + Len(b)) - (Len(a) + 1) + 1 /\ (Len(a) + 1) + i - 1 = Len(a) + i
      BY <1>1
    <3> QED BY <1>1, <3>1, <3>2
  <2> HIDE DEF r
  <2>4. r = b
    BY <2>1, <2>3, SeqEqual
  <2> QED BY <2>4 DEF r
<1> QED BY <1>1, <1>2, <1>3, <1>4 DEF u

(* The middle of three. *)
LEMMA ConcatMiddle ==
  ASSUME NEW S, NEW a \in Seq(S), NEW b \in Seq(S), NEW c \in Seq(S)
  PROVE  /\ SubSeq((a \o b) \o c, Len(a) + 1, Len(a) + Len(b)) = b
         /\ (a \o b) \o c \in Seq(S)
<1> DEFINE u == (a \o b) \o c
           r == SubSeq(u, Len(a) + 1, Len(a) + Len(b))
<1>1. u \in Seq(S) /\ Len(u) = Len(a) + Len(b) + Len(c) /\ Len(a) \in Nat /\ Len(b) \in Nat
      /\ Len(c) \in Nat
  OBVIOUS
<1>2. \A i \in 1..Len(b) : u[Len(a) + i] = b[i] /\ b[i] \in S
  OBVIOUS
<1> HIDE DEF u
<1>3. /\ \A i \in Len(a) + 1..Len(a) + Len(b) : u[i] \in S
  BY <1>1, ElementOfSeq
<1>4. /\ r \in Seq(S)
      /\ Len(r) = IF Len(a) + 1 <= Len(a) + Len(b) THEN (Len(a) + Len(b)) - (Len(a) + 1) + 1 ELSE 0
      /\ \A i \in 1..(Len(a) + Len(b)) - (Len(a) + 1) + 1 : r[i] = u[(Len(a) + 1) + i - 1]
  BY <1>1, <1>3, SubSeqProperties
<1>5. \A i \in 1..Len(b) : i \in 1..(Len(a) + Len(b)) - (Len(a) + 1) + 1 /\ (Len(a) + 1) + i - 1 = Len(a) + i
  BY <1>1
<1> HIDE DEF r
<1>6. Len(r) = Len(b) /\ \A i \in 1..Len(b) : r[i] = b[i]
  <2>1. Len(r) = Len(b)
    BY <1>1, <1>4
  <2>2. ASSUME NEW i \in 1..Len(b) PROVE r[i] = b[i]
    <3>1. r[i] = u[(Len(a) + 1) + i - 1]
      BY <1>4, <1>5
    <3> QED BY <1>2, <1>5, <3>1
  <2> QED BY <2>1, <2>2
<1>7. r = b
  BY <1>4, <1>6, SeqEqual
<1> QED BY <1>1, <1>7 DEF u, r

(* The same of sequences of bytes. *)
LEMMA ByteParts ==
  ASSUME NEW a \in Bytes, NEW b \in Bytes
  PROVE  /\ a \o b \in Bytes /\ Len(a \o b) = Len(a) + Len(b)
         /\ Len(a) \in Nat /\ Len(b) \in Nat
         /\ \A i \in 1..Len(a) : (a \o b)[i] = a[i]
         /\ \A i \in 1..Len(b) : (a \o b)[Len(a) + i] = b[i]
         /\ SubSeq(a \o b, 1, Len(a)) = a
         /\ SubSeq(a \o b, Len(a) + 1, Len(a) + Len(b)) = b
<1> DEFINE S == 0..Base - 1
<1>1. a \in Seq(S) /\ b \in Seq(S) /\ Bytes = Seq(S)
  BY DEF Bytes
<1> HIDE DEF S
<1>2. /\ a \o b \in Seq(S) /\ Len(a \o b) = Len(a) + Len(b)
      /\ Len(a) \in Nat /\ Len(b) \in Nat
      /\ \A i \in 1..Len(a) : (a \o b)[i] = a[i]
      /\ \A i \in 1..Len(b) : (a \o b)[Len(a) + i] = b[i]
      /\ SubSeq(a \o b, 1, Len(a)) = a
      /\ SubSeq(a \o b, Len(a) + 1, Len(a) + Len(b)) = b
  BY <1>1, ConcatParts
<1> QED BY <1>1, <1>2

LEMMA ByteMiddle ==
  ASSUME NEW a \in Bytes, NEW b \in Bytes, NEW c \in Bytes
  PROVE  SubSeq((a \o b) \o c, Len(a) + 1, Len(a) + Len(b)) = b
<1> DEFINE S == 0..Base - 1
<1>1. a \in Seq(S) /\ b \in Seq(S) /\ c \in Seq(S)
  BY DEF Bytes
<1> HIDE DEF S
<1> QED BY <1>1, ConcatMiddle

LEMMA ByteConcatAssoc ==
  ASSUME NEW a \in Bytes, NEW b \in Bytes, NEW c \in Bytes
  PROVE  (a \o b) \o c = a \o (b \o c)
  BY ConcatAssociative DEF Bytes

(* Of two beginnings of the same bytes, the longer one begins with the     *)
(* other.                                                                  *)
Splits(a, b, p, q) == \E r \in Bytes : p = a \o r /\ b = r \o q

LEMMA PrefixSplits ==
  ASSUME NEW a \in Bytes, NEW b \in Bytes, NEW p \in Bytes, NEW q \in Bytes,
         a \o b = p \o q, Len(a) <= Len(p)
  PROVE  Splits(a, b, p, q)
<1> DEFINE S == 0..Base - 1
<1>s. Bytes = Seq(S)
  BY DEF Bytes
<1> HIDE DEF S
<1> DEFINE r == SubSeq(p, Len(a) + 1, Len(p))
<1>1. Len(a) \in Nat /\ Len(p) \in Nat /\ Len(b) \in Nat /\ Len(q) \in Nat
  BY <1>s
<1>2. /\ r \in Seq(S) /\ Len(r) = Len(p) - Len(a)
      /\ \A i \in 1..Len(p) - Len(a) : r[i] = p[Len(a) + i]
  <2>1. \A i \in Len(a) + 1..Len(p) : p[i] \in S
    BY <1>s, <1>1, ElementOfSeq
  <2>2. /\ r \in Seq(S)
        /\ Len(r) = IF Len(a) + 1 <= Len(p) THEN Len(p) - (Len(a) + 1) + 1 ELSE 0
        /\ \A i \in 1..Len(p) - (Len(a) + 1) + 1 : r[i] = p[(Len(a) + 1) + i - 1]
    BY <1>1, <2>1, SubSeqProperties
  <2>3. \A i \in 1..Len(p) - Len(a) : i \in 1..Len(p) - (Len(a) + 1) + 1 /\ (Len(a) + 1) + i - 1 = Len(a) + i
    BY <1>1
  <2> QED BY <1>1, <2>2, <2>3
<1> HIDE DEF r
<1>3. \A i \in 1..Len(a) : p[i] = a[i]
  <2> SUFFICES ASSUME NEW i \in 1..Len(a) PROVE p[i] = a[i]
    OBVIOUS
  <2>1. i \in 1..Len(p)
    BY <1>1
  <2>2. (a \o b)[i] = a[i] /\ (p \o q)[i] = p[i]
    BY <2>1, ByteParts
  <2> QED BY <2>2
<1>4. p = a \o r
  <2>1. /\ a \o r \in Seq(S) /\ Len(a \o r) = Len(a) + Len(r)
        /\ \A i \in 1..Len(a) : (a \o r)[i] = a[i]
        /\ \A i \in 1..Len(r) : (a \o r)[Len(a) + i] = r[i]
    BY <1>s, <1>2, ByteParts
  <2>2. Len(a \o r) = Len(p)
    BY <1>1, <1>2, <2>1
  <2>3. ASSUME NEW i \in 1..Len(p) PROVE p[i] = (a \o r)[i]
    <3>0. i <= Len(a) \/ i > Len(a)
      BY <1>1
    <3>1. CASE i <= Len(a)
      BY <1>1, <1>3, <2>1, <3>1
    <3>2. CASE i > Len(a)
      <4>1. i - Len(a) \in 1..Len(r) /\ Len(a) + (i - Len(a)) = i
        BY <1>1, <1>2, <3>2
      <4>2. (a \o r)[i] = r[i - Len(a)] /\ r[i - Len(a)] = p[i]
        BY <1>2, <2>1, <4>1
      <4> QED BY <4>2
    <3> QED BY <3>0, <3>1, <3>2
  <2> QED BY <1>s, <2>1, <2>2, <2>3, SeqEqual
<1>5. b = r \o q
  <2>1. a \o b = a \o (r \o q) /\ r \o q \in Seq(S)
    <3>1. (a \o r) \o q = a \o (r \o q)
      <4>1. \A a1, a2, a3 \in Bytes : (a1 \o a2) \o a3 = a1 \o (a2 \o a3)
        BY ByteConcatAssoc
      <4>2. r \in Bytes
        BY <1>s, <1>2
      <4> QED BY <4>1, <4>2, SMTT(20)
    <3>2. r \o q \in Seq(S)
      BY <1>s, <1>2, ByteParts
    <3>3. a \o b = (a \o r) \o q
      BY <1>4
    <3> QED BY <3>1, <3>2, <3>3, Zenon
  <2>2. \A s, t, v \in Seq(S) : s \o t = s \o v => t = v
    BY ConcatSimplifications
  <2> QED BY <1>s, <2>1, <2>2
<1> QED BY <1>s, <1>2, <1>4, <1>5 DEF Splits

LEMMA SameOnes ==
  ASSUME NEW S, NEW n \in Nat, NEW e \in S
  PROVE  [i \in 1..n |-> e] \in Seq(S) /\ Len([i \in 1..n |-> e]) = n
  OBVIOUS

-----------------------------------------------------------------------------
(* What a decoder has to make of what the encoder of the other end made of *)
(* x: nothing before it has come as a whole, then x, whatever follows; or  *)
(* an error if x is beyond the limit, and no later than that.              *)
FitsIn(c, x) == Len(x) + (IF c.kind = "line" THEN 1 ELSE 0) <= c.max
Kept(c, x) == IF c.kind = "length" /\ c.strip = 0 THEN Encode(c, x) ELSE x

Frames(c, x) ==
  /\ Encode(c, x) \in Bytes /\ Encode(c, x) # <<>>
  /\ \A s \in Bytes :
       Decode(c, Encode(c, x) \o s) =
         IF FitsIn(c, x) THEN Message(Kept(c, x), Len(Encode(c, x))) ELSE TooLarge
  /\ \A p, q \in Bytes : Encode(c, x) = p \o q /\ q # <<>> =>
       Decode(c, p) = More \/ (~ FitsIn(c, x) /\ Decode(c, p) = TooLarge)

LEMMA CodecFields ==
  ASSUME NEW c \in Codecs
  PROVE  /\ c.kind \in {"length", "line", "delimiter", "message"}
         /\ c.kind # "message" => c.max \in Int
         /\ c.kind = "length" =>
              c.offset \in Nat /\ c.width \in Nat \ {0} /\ c.includes \in BOOLEAN /\ c.adjust \in Int /\ c.strip \in Nat
         /\ c.kind = "message" => c.width \in Nat \ {0}
  BY DEF Codecs

(* The header of a frame is enough to know its length. *)
LEMMA HeaderHasTheLength ==
  ASSUME NEW c \in Codecs, c.kind = "length", c.adjust = IF c.includes THEN -c.width ELSE 0,
         NEW x, Takes(c, x)
  PROVE  \E h \in Bytes :
           /\ Len(h) = c.offset + c.width
           /\ Encode(c, x) = h \o x
           /\ \A r \in Bytes :
                Number(SubSeq(h \o r, c.offset + 1, c.offset + c.width)) + c.adjust = Len(x)
<1> DEFINE length == Len(x) + (IF c.includes THEN c.width ELSE 0)
           o == [i \in 1..c.offset |-> 1]
           d == Digits(length, c.width)
<1>c. c.offset \in Nat /\ c.width \in Nat \ {0} /\ c.includes \in BOOLEAN /\ c.adjust \in Int
  BY CodecFields
<1>1. x \in Bytes /\ Len(x) \in Nat
  BY DEF Takes, Bytes
<1>2. length \in 0..Power(c.width) - 1
  <2>1. length < Power(c.width) /\ Power(c.width) \in Nat
    BY <1>c, PowerType DEF Takes
  <2>2. length \in Nat
    BY <1>c, <1>1
  <2> QED BY <2>1, <2>2
<1>3. d \in Bytes /\ Len(d) = c.width
  BY <1>c, <1>2, DigitsAreBytes
<1>4. o \in Bytes /\ Len(o) = c.offset
  <2>1. 1 \in 0..Base - 1
    BY CodecAssumption
  <2> QED BY <1>c, <2>1, SameOnes DEF Bytes
<1>5. Encode(c, x) = (o \o d) \o x
  <2>1. Encode(c, x) = o \o d \o x
    BY DEF Encode, LengthFieldEncode
  <2> QED BY <2>1
<1>6. Number(d) = length
  BY <1>c, <1>2, NaturalRoundTrip
<1>7. length + c.adjust = Len(x)
  BY <1>c, <1>1
<1> HIDE DEF o, d, length
<1>8. o \o d \in Bytes /\ Len(o \o d) = c.offset + c.width
  <2>1. o \o d \in Bytes /\ Len(o \o d) = Len(o) + Len(d)
    BY <1>3, <1>4, ByteParts
  <2> QED BY <2>1, <1>3, <1>4
<1>9. ASSUME NEW r \in Bytes
      PROVE  Number(SubSeq((o \o d) \o r, c.offset + 1, c.offset + c.width)) + c.adjust = Len(x)
  <2>1. SubSeq((o \o d) \o r, Len(o) + 1, Len(o) + Len(d)) = d
    BY <1>3, <1>4, ByteMiddle
  <2> QED BY <2>1, <1>3, <1>4, <1>6, <1>7
<1> QED BY <1>5, <1>8, <1>9

LEMMA LengthFieldFrames ==
  ASSUME NEW c \in Codecs, c.kind = "length", c.adjust = IF c.includes THEN -c.width ELSE 0,
         c.strip = c.offset + c.width \/ c.strip = 0,
         NEW x, Takes(c, x)
  PROVE  Frames(c, x)
<1> DEFINE header == c.offset + c.width
           e == Encode(c, x)
           length(u) == Number(SubSeq(u, c.offset + 1, header)) + c.adjust
<1>c. /\ c.offset \in Nat /\ c.width \in Nat \ {0} /\ c.includes \in BOOLEAN
      /\ c.adjust \in Int /\ c.strip \in Nat /\ c.max \in Int
  BY CodecFields
<1>1. x \in Bytes /\ Len(x) \in Nat
  BY DEF Takes, Bytes
<1>2. PICK h \in Bytes : /\ Len(h) = header
                         /\ e = h \o x
                         /\ \A r \in Bytes : length(h \o r) = Len(x)
  BY HeaderHasTheLength
<1>3. /\ e \in Bytes /\ Len(e) = header + Len(x)
  <2>1. e \in Bytes /\ Len(e) = Len(h) + Len(x)
    BY <1>1, <1>2, ByteParts, ZenonT(30)
  <2> QED BY <2>1, <1>2
<1>4. header \in Nat /\ header > 0
  BY <1>c
<1>5. e # <<>>
  BY <1>1, <1>3, <1>4
<1>6. FitsIn(c, x) <=> Len(x) <= c.max
  BY <1>1 DEF FitsIn
<1>7. \A u : Decode(c, u) =
               IF Len(u) < header THEN More
               ELSE IF length(u) > c.max THEN TooLarge
               ELSE IF Len(u) < header + length(u) THEN More
               ELSE Message(SubSeq(u, c.strip + 1, header + length(u)), header + length(u))
  BY DEF Decode, LengthFieldDecode
<1> HIDE DEF length, header, e
<1>8. ASSUME NEW s \in Bytes
      PROVE  Decode(c, e \o s) = IF FitsIn(c, x) THEN Message(Kept(c, x), Len(e)) ELSE TooLarge
  <2>1. e \o s \in Bytes /\ Len(e \o s) = Len(e) + Len(s) /\ Len(s) \in Nat
    BY <1>3, ByteParts
  <2>2. e \o s = h \o (x \o s) /\ x \o s \in Bytes
    BY <1>1, <1>2, ByteParts, ByteConcatAssoc
  <2>3. length(e \o s) = Len(x)
    BY <1>2, <2>2
  <2>4. ~ (Len(e \o s) < header) /\ ~ (Len(e \o s) < header + Len(x))
    BY <1>1, <1>3, <1>4, <2>1
  <2>5. SubSeq(e \o s, c.strip + 1, header + Len(x)) = Kept(c, x)
    <3>1. CASE c.strip = 0
      <4>1. Kept(c, x) = e
        BY <3>1 DEF Kept, e
      <4>2. SubSeq(e \o s, 1, Len(e)) = e
        BY <1>3, ByteParts
      <4> QED BY <3>1, <4>1, <4>2, <1>3
    <3>2. CASE c.strip # 0
      <4>1. Kept(c, x) = x
        BY <3>2 DEF Kept
      <4>2. c.strip = Len(h)
        BY <1>2, <3>2 DEF header
      <4>3. SubSeq((h \o x) \o s, Len(h) + 1, Len(h) + Len(x)) = x
        BY <1>1, <1>2, ByteMiddle
      <4> QED BY <4>1, <4>2, <4>3, <1>2
    <3> QED BY <3>1, <3>2
  <2>d. Decode(c, e \o s) = IF Len(x) > c.max THEN TooLarge
                            ELSE Message(SubSeq(e \o s, c.strip + 1, header + Len(x)), header + Len(x))
    BY <1>7, <2>3, <2>4
  <2>6. CASE FitsIn(c, x)
    <3>1. ~ (Len(x) > c.max)
      BY <1>6, <2>6, <1>1, <1>c
    <3> QED BY <3>1, <2>d, <2>5, <2>6, <1>3
  <2>7. CASE ~ FitsIn(c, x)
    <3>1. Len(x) > c.max
      BY <1>6, <2>7, <1>1, <1>c
    <3> QED BY <3>1, <2>d, <2>7
  <2> QED BY <2>6, <2>7
<1>9. ASSUME NEW p \in Bytes, NEW q \in Bytes, e = p \o q, q # <<>>
      PROVE  Decode(c, p) = More \/ (~ FitsIn(c, x) /\ Decode(c, p) = TooLarge)
  <2>1. Len(p) \in Nat /\ Len(p) < Len(e)
    <3>1. Len(e) = Len(p) + Len(q) /\ Len(p) \in Nat /\ Len(q) \in Nat
      BY <1>9, ByteParts
    <3>2. Len(q) # 0
      BY <1>9 DEF Bytes
    <3> QED BY <3>1, <3>2
  <2>2. CASE Len(p) < header
    BY <1>7, <2>2
  <2>3. CASE Len(p) >= header
    <3>1. \E r \in Bytes : p = h \o r
      <4>1. h \o x = p \o q /\ Len(h) <= Len(p)
        BY <1>2, <1>9, <2>3, <2>1, <1>4
      <4>2. h \in Bytes /\ x \in Bytes /\ p \in Bytes /\ q \in Bytes
        BY <1>1
      <4>3. Splits(h, x, p, q)
        BY <4>1, <4>2, PrefixSplits
      <4> QED BY <4>3 DEF Splits
    <3>2. length(p) = Len(x)
      BY <1>2, <3>1
    <3>3. Len(p) < header + Len(x)
      BY <1>3, <2>1
    <3>4. CASE Len(x) > c.max
      BY <1>6, <1>7, <2>1, <2>3, <3>2, <3>4, <1>1, <1>c, <1>4
    <3>5. CASE ~ (Len(x) > c.max)
      BY <1>7, <2>1, <2>3, <3>2, <3>3, <3>5, <1>1, <1>4
    <3> QED BY <3>4, <3>5
  <2> QED BY <2>1, <2>2, <2>3, <1>4
<1>10. QED
  <2>1. e \in Bytes /\ e # <<>>
    BY <1>3, <1>5
  <2> QED BY <2>1, <1>8, <1>9 DEF Frames, e

-----------------------------------------------------------------------------
(* What bytes agree on they agree on in parts. *)
LEMMA SamePart ==
  ASSUME NEW u \in Bytes, NEW w \in Bytes, NEW i \in Nat, NEW n \in Nat,
         i + n <= Len(u), i + n <= Len(w), \A k \in 1..n : u[i + k] = w[i + k]
  PROVE  SubSeq(u, i + 1, i + n) = SubSeq(w, i + 1, i + n)
<1> DEFINE S == 0..Base - 1
<1>s. u \in Seq(S) /\ w \in Seq(S)
  BY DEF Bytes
<1> HIDE DEF S
<1>1. Len(u) \in Nat /\ Len(w) \in Nat
  BY <1>s
<1>2. \A k \in i + 1..i + n : u[k] \in S /\ w[k] \in S
  BY <1>s, <1>1, ElementOfSeq
<1>3. \A k \in 1..n : k \in 1..(i + n) - (i + 1) + 1 /\ (i + 1) + k - 1 = i + k
  OBVIOUS
<1> DEFINE a == SubSeq(u, i + 1, i + n)
           b == SubSeq(w, i + 1, i + n)
<1>4. /\ a \in Seq(S) /\ Len(a) = IF i + 1 <= i + n THEN (i + n) - (i + 1) + 1 ELSE 0
      /\ \A k \in 1..(i + n) - (i + 1) + 1 : a[k] = u[(i + 1) + k - 1]
  BY <1>2, SubSeqProperties
<1>5. /\ b \in Seq(S) /\ Len(b) = IF i + 1 <= i + n THEN (i + n) - (i + 1) + 1 ELSE 0
      /\ \A k \in 1..(i + n) - (i + 1) + 1 : b[k] = w[(i + 1) + k - 1]
  BY <1>2, SubSeqProperties
<1> HIDE DEF a, b
<1>6. Len(a) = n /\ Len(b) = n
  BY <1>4, <1>5
<1>7. ASSUME NEW k \in 1..n PROVE a[k] = b[k]
  <2>1. a[k] = u[(i + 1) + k - 1] /\ b[k] = w[(i + 1) + k - 1]
    BY <1>3, <1>4, <1>5
  <2> QED BY <1>3, <2>1
<1>8. a = b
  BY <1>4, <1>5, <1>6, <1>7, SeqEqual
<1> QED BY <1>8 DEF a, b

(* The scan for a mark that ends y, and does not come before its end. *)
LEMMA ScanFrames ==
  ASSUME NEW mark \in Bytes, mark # <<>>, NEW y \in Bytes, NEW max \in Int,
         \A i \in 0..Len(y) - 1 : SubSeq(y \o mark, i + 1, i + Len(mark)) # mark
  PROVE  /\ \A s \in Bytes :
              Scan((y \o mark) \o s, mark, max) =
                IF Len(y) <= max THEN Message(y, Len(y) + Len(mark)) ELSE TooLarge
         /\ \A p, q \in Bytes : y \o mark = p \o q /\ q # <<>> =>
              Scan(p, mark, max) = More \/ (Len(y) > max /\ Scan(p, mark, max) = TooLarge)
<1> DEFINE e == y \o mark
           n == Len(mark)
           Hits(u) == {i \in 0..Len(u) - n : SubSeq(u, i + 1, i + n) = mark}
           First(u) == CHOOSE i \in Hits(u) : \A j \in Hits(u) : i <= j
<1>1. e \in Bytes /\ Len(e) = Len(y) + n /\ Len(y) \in Nat /\ n \in Nat
  BY ByteParts
<1>2. n # 0
  BY DEF Bytes
<1>3. \A u : Scan(u, mark, max) =
               IF Hits(u) # {} /\ First(u) <= max THEN Message(SubSeq(u, 1, First(u)), First(u) + n)
               ELSE IF Len(u) - n > max THEN TooLarge
               ELSE More
  BY DEF Scan
<1>4. \A i \in 0..Len(y) - 1 : SubSeq(e, i + 1, i + n) # mark
  OBVIOUS
<1>5. SubSeq(e, Len(y) + 1, Len(y) + n) = mark
  BY ByteParts
<1> HIDE DEF e, n, Hits, First
<1>6. ASSUME NEW s \in Bytes
      PROVE  Scan(e \o s, mark, max) = IF Len(y) <= max THEN Message(y, Len(y) + n) ELSE TooLarge
  <2> DEFINE u == e \o s
  <2>1. /\ u \in Bytes /\ Len(u) = Len(e) + Len(s) /\ Len(s) \in Nat
        /\ \A i \in 1..Len(e) : u[i] = e[i]
    BY <1>1, ByteParts
  <2>2. u = y \o (mark \o s) /\ mark \o s \in Bytes
    <3>1. (y \o mark) \o s = y \o (mark \o s)
      BY ByteConcatAssoc
    <3>2. mark \o s \in Bytes
      BY ByteParts
    <3> QED BY <3>1, <3>2 DEF e
  <2>3. SubSeq(u, 1, Len(y)) = y
    BY <2>2, ByteParts
  <2> HIDE DEF u
  <2>4. ASSUME NEW i \in 0..Len(y) PROVE SubSeq(u, i + 1, i + n) = SubSeq(e, i + 1, i + n)
    <3>1. i \in Nat /\ i + n <= Len(e) /\ i + n <= Len(u)
      BY <1>1, <2>1
    <3>2. \A k \in 1..n : i + k \in 1..Len(e)
      BY <1>1, <3>1
    <3> QED BY <1>1, <2>1, <3>1, <3>2, SamePart
  <2>5. Len(y) \in Hits(u)
    <3>1. Len(y) \in 0..Len(u) - n
      BY <1>1, <2>1
    <3>2. SubSeq(u, Len(y) + 1, Len(y) + n) = mark
      BY <1>1, <1>5, <2>4
    <3> QED BY <3>1, <3>2 DEF Hits
  <2>6. ASSUME NEW i \in Hits(u) PROVE i \in Nat /\ Len(y) <= i
    <3>1. i \in Nat /\ SubSeq(u, i + 1, i + n) = mark
      BY DEF Hits
    <3>2. ~ (i < Len(y))
      <4> SUFFICES ASSUME i < Len(y) PROVE FALSE
        OBVIOUS
      <4>1. i \in 0..Len(y) /\ i \in 0..Len(y) - 1
        BY <1>1, <3>1
      <4> QED BY <1>4, <2>4, <3>1, <4>1
    <3> QED BY <1>1, <3>1, <3>2
  <2>7. First(u) = Len(y)
    <3>1. First(u) \in Hits(u) /\ \A j \in Hits(u) : First(u) <= j
      BY <2>5, <2>6 DEF First
    <3>2. First(u) <= Len(y) /\ Len(y) <= First(u) /\ First(u) \in Nat
      BY <2>5, <2>6, <3>1
    <3> QED BY <1>1, <3>2
  <2>8. Scan(u, mark, max) =
          IF Len(y) <= max THEN Message(y, Len(y) + n)
          ELSE IF Len(u) - n > max THEN TooLarge ELSE More
    BY <1>3, <2>3, <2>5, <2>7
  <2>9. CASE Len(y) <= max
    BY <2>8, <2>9 DEF u
  <2>10. CASE ~ (Len(y) <= max)
    <3>1. Len(u) - n > max
      BY <1>1, <2>1, <2>10
    <3> QED BY <2>8, <2>10, <3>1 DEF u
  <2> QED BY <2>9, <2>10
<1>7. ASSUME NEW p \in Bytes, NEW q \in Bytes, e = p \o q, q # <<>>
      PROVE  Scan(p, mark, max) = More \/ (Len(y) > max /\ Scan(p, mark, max) = TooLarge)
  <2>1. /\ Len(e) = Len(p) + Len(q) /\ Len(p) \in Nat /\ Len(q) \in Nat
        /\ \A i \in 1..Len(p) : e[i] = p[i]
    BY <1>7, ByteParts
  <2>2. Len(q) # 0
    BY <1>7 DEF Bytes
  <2>3. Hits(p) = {}
    <3> SUFFICES ASSUME NEW i \in Hits(p) PROVE FALSE
      OBVIOUS
    <3>1. i \in Nat /\ i + n <= Len(p) /\ SubSeq(p, i + 1, i + n) = mark
      BY <1>1, <2>1 DEF Hits
    <3>2. i \in 0..Len(y) - 1 /\ i + n <= Len(e)
      BY <1>1, <2>1, <2>2, <3>1
    <3>3. \A k \in 1..n : i + k \in 1..Len(p)
      BY <1>1, <2>1, <3>1
    <3>4. SubSeq(p, i + 1, i + n) = SubSeq(e, i + 1, i + n)
      BY <1>1, <2>1, <3>1, <3>2, <3>3, <1>7, SamePart
    <3> QED BY <1>4, <3>1, <3>2, <3>4
  <2>4. Scan(p, mark, max) = IF Len(p) - n > max THEN TooLarge ELSE More
    BY <1>3, <2>3
  <2>5. Len(p) - n > max => Len(y) > max
    BY <1>1, <2>1
  <2> QED BY <2>4, <2>5
<1> QED BY <1>6, <1>7 DEF e, n

LEMMA DelimiterFrames ==
  ASSUME NEW c \in Codecs, c.kind = "delimiter", NEW x, Takes(c, x)
  PROVE  Frames(c, x)
<1>1. /\ x \in Bytes
      /\ \A i \in 0..Len(x) - 1 : SubSeq(x \o Delimiter, i + 1, i + Len(Delimiter)) # Delimiter
  BY DEF Takes
<1>2. c.max \in Int /\ Len(x) \in Nat
  BY <1>1, CodecFields DEF Bytes
<1>3. Delimiter \in Bytes /\ Delimiter # <<>>
  BY CodecAssumption
<1>4. Encode(c, x) = x \o Delimiter
  BY DEF Encode
<1>5. \A u : Decode(c, u) = Scan(u, Delimiter, c.max)
  BY DEF Decode, DelimiterDecode
<1>6. FitsIn(c, x) <=> Len(x) <= c.max
  BY <1>2 DEF FitsIn
<1>7. Kept(c, x) = x
  BY DEF Kept
<1>8. x \o Delimiter \in Bytes /\ Len(x \o Delimiter) = Len(x) + Len(Delimiter) /\ Len(Delimiter) # 0
      /\ Len(Delimiter) \in Nat
  <2>1. Len(Delimiter) # 0
    BY <1>3 DEF Bytes
  <2> QED BY <1>1, <1>3, <2>1, ByteParts
<1>9. x \o Delimiter # <<>>
  BY <1>2, <1>8
<1>10. /\ \A s \in Bytes :
            Scan((x \o Delimiter) \o s, Delimiter, c.max) =
              IF Len(x) <= c.max THEN Message(x, Len(x) + Len(Delimiter)) ELSE TooLarge
       /\ \A p, q \in Bytes : x \o Delimiter = p \o q /\ q # <<>> =>
            Scan(p, Delimiter, c.max) = More \/ (Len(x) > c.max /\ Scan(p, Delimiter, c.max) = TooLarge)
  BY <1>1, <1>2, <1>3, ScanFrames
<1>11. ASSUME NEW s \in Bytes
       PROVE  Decode(c, Encode(c, x) \o s) =
                IF FitsIn(c, x) THEN Message(Kept(c, x), Len(Encode(c, x))) ELSE TooLarge
  BY <1>4, <1>5, <1>6, <1>7, <1>8, <1>10
<1>12. ASSUME NEW p \in Bytes, NEW q \in Bytes, Encode(c, x) = p \o q, q # <<>>
       PROVE  Decode(c, p) = More \/ (~ FitsIn(c, x) /\ Decode(c, p) = TooLarge)
  <2>1. x \o Delimiter = p \o q
    BY <1>4, <1>12
  <2>2. \/ Scan(p, Delimiter, c.max) = More
        \/ Len(x) > c.max /\ Scan(p, Delimiter, c.max) = TooLarge
    BY <1>10, <1>12, <2>1
  <2>3. Len(x) > c.max => ~ FitsIn(c, x)
    BY <1>2, <1>6
  <2> QED BY <1>5, <2>2, <2>3
<1> QED BY <1>4, <1>8, <1>9, <1>11, <1>12 DEF Frames

LEMMA EndOfLine ==
  ASSUME NEW S, NEW x \in Seq(S), NEW a \in S, NEW b \in S
  PROVE  /\ Append(x, a) \in Seq(S) /\ Len(Append(x, a)) = Len(x) + 1 /\ Append(x, a) # <<>>
         /\ Append(x, a)[Len(x) + 1] = a /\ \A i \in 1..Len(x) : Append(x, a)[i] = x[i]
         /\ <<b>> \in Seq(S) /\ <<b>> # <<>> /\ Len(<<b>>) = 1 /\ <<b>>[1] = b
         /\ x \o <<a, b>> = Append(x, a) \o <<b>>
         /\ SubSeq(Append(x, a), 1, Len(x)) = x
<1> DEFINE y == Append(x, a)
<1>1. /\ y \in Seq(S) /\ Len(y) = Len(x) + 1 /\ y # <<>> /\ Len(x) \in Nat
      /\ y[Len(x) + 1] = a /\ \A i \in 1..Len(x) : y[i] = x[i]
  OBVIOUS
<1>2. <<b>> \in Seq(S) /\ <<b>> # <<>> /\ Len(<<b>>) = 1 /\ <<b>>[1] = b
  OBVIOUS
<1>3. x \o <<a, b>> = y \o <<b>>
  <2> DEFINE u == x \o <<a, b>>
             w == y \o <<b>>
  <2>1. /\ u \in Seq(S) /\ Len(u) = Len(x) + 2 /\ \A i \in 1..Len(x) : u[i] = x[i]
        /\ u[Len(x) + 1] = a /\ u[Len(x) + 2] = b
    OBVIOUS
  <2>2. /\ w \in Seq(S) /\ Len(w) = Len(x) + 2 /\ \A i \in 1..Len(x) : w[i] = x[i]
        /\ w[Len(x) + 1] = a /\ w[Len(x) + 2] = b
    OBVIOUS
  <2> HIDE DEF u, w
  <2>3. \A i \in 1..Len(u) : u[i] = w[i]
    <3>1. \A i \in 1..Len(x) + 2 : i \in 1..Len(x) \/ i = Len(x) + 1 \/ i = Len(x) + 2
      BY <1>1
    <3> QED BY <2>1, <2>2, <3>1, Zenon
  <2>4. u = w
    BY <2>1, <2>2, <2>3, SeqEqual
  <2> QED BY <2>4 DEF u, w
<1> HIDE DEF y
<1>4. SubSeq(y, 1, Len(x)) = x
  <2>1. \A i \in 1..Len(x) : y[i] \in S
    BY <1>1, ElementOfSeq
  <2>2. /\ SubSeq(y, 1, Len(x)) \in Seq(S)
        /\ Len(SubSeq(y, 1, Len(x))) = Len(x)
        /\ \A i \in 1..Len(x) : SubSeq(y, 1, Len(x))[i] = y[i]
    BY <1>1, <2>1, SubSeqProperties
  <2> QED BY <1>1, <2>2, SeqEqual
<1> QED BY <1>1, <1>2, <1>3, <1>4 DEF y

(* The carriage return is part of what is scanned. *)
LEMMA LineFrames ==
  ASSUME NEW c \in Codecs, c.kind = "line", NEW x, Takes(c, x)
  PROVE  Frames(c, x)
<1> DEFINE y == Append(x, CR)
           e == y \o <<LF>>
<1>1. x \in Bytes /\ Len(x) \in Nat /\ \A i \in 1..Len(x) : x[i] # LF
  BY DEF Takes, Bytes
<1>2. c.max \in Int
  BY CodecFields
<1> DEFINE S == 0..Base - 1
<1>s. Bytes = Seq(S) /\ CR \in S /\ LF \in S
  BY CodecAssumption DEF Bytes
<1> HIDE DEF S
<1>3. /\ y \in Bytes /\ Len(y) = Len(x) + 1 /\ y # <<>>
      /\ y[Len(x) + 1] = CR /\ \A i \in 1..Len(x) : y[i] = x[i]
      /\ <<LF>> \in Bytes /\ <<LF>> # <<>> /\ Len(<<LF>>) = 1 /\ <<LF>>[1] = LF
  BY <1>1, <1>s, EndOfLine
<1>4. Encode(c, x) = e
  <2>1. x \o <<CR, LF>> = Append(x, CR) \o <<LF>>
    BY <1>1, <1>s, EndOfLine, SMTT(20)
  <2> QED BY <2>1 DEF Encode, LineEncode
<1>5. Front(y) = x /\ Last(y) = CR
  <2>1. SubSeq(y, 1, Len(x)) = x
    BY <1>1, <1>s, EndOfLine
  <2>2. Len(y) - 1 = Len(x)
    BY <1>1, <1>3
  <2> QED BY <1>3, <2>1, <2>2 DEF Front, Last
<1>6. \A u : Decode(c, u) =
               LET r == Scan(u, <<LF>>, c.max)
               IN IF r.status = "message" /\ r.msg # <<>> /\ Last(r.msg) = CR
                  THEN Message(Front(r.msg), r.used) ELSE r
  BY DEF Decode, LineDecode
<1> HIDE DEF y
<1>7. \A i \in 0..Len(y) - 1 : SubSeq(e, i + 1, i + Len(<<LF>>)) # <<LF>>
  <2> SUFFICES ASSUME NEW i \in 0..Len(y) - 1, SubSeq(e, i + 1, i + 1) = <<LF>> PROVE FALSE
    BY <1>3
  <2>1. i + 1 \in 1..Len(y) /\ i + 1 \in Int
    BY <1>1, <1>3
  <2>2. e[i + 1] = y[i + 1] /\ y[i + 1] \in S
    <3>1. \A k \in 1..Len(y) : e[k] = y[k]
      BY <1>3, ByteParts
    <3> QED BY <1>s, <1>3, <2>1, <3>1, ElementOfSeq
  <2>3. SubSeq(e, i + 1, i + 1)[1] = e[i + 1]
    <3> HIDE DEF e
    <3>1. \A k \in i + 1..i + 1 : e[k] \in S
      BY <2>2
    <3>2. \A k \in 1..(i + 1) - (i + 1) + 1 : SubSeq(e, i + 1, i + 1)[k] = e[(i + 1) + k - 1]
      BY <2>1, <3>1, SubSeqProperties
    <3>3. 1 \in 1..(i + 1) - (i + 1) + 1 /\ (i + 1) + 1 - 1 = i + 1
      OBVIOUS
    <3> QED BY <3>2, <3>3
  <2>4. y[i + 1] # LF
    <3>1. CASE i + 1 \in 1..Len(x)
      BY <1>1, <1>3, <3>1
    <3>2. CASE i + 1 \notin 1..Len(x)
      <4>1. i + 1 = Len(x) + 1
        BY <1>1, <1>3, <2>1, <3>2
      <4> QED BY <1>3, <4>1, CodecAssumption
    <3> QED BY <3>1, <3>2
  <2>5. SubSeq(e, i + 1, i + 1)[1] = LF
    BY <1>3
  <2> QED BY <2>2, <2>3, <2>4, <2>5
<1>8. FitsIn(c, x) <=> Len(y) <= c.max
  BY <1>1, <1>2, <1>3 DEF FitsIn
<1>9. Kept(c, x) = x
  BY DEF Kept
<1>10. e \in Bytes /\ Len(e) = Len(y) + 1 /\ e # <<>>
  BY <1>1, <1>3, ByteParts
<1>11. /\ \A s \in Bytes :
            Scan(e \o s, <<LF>>, c.max) =
              IF Len(y) <= c.max THEN Message(y, Len(y) + Len(<<LF>>)) ELSE TooLarge
       /\ \A p, q \in Bytes : e = p \o q /\ q # <<>> =>
            Scan(p, <<LF>>, c.max) = More \/ (Len(y) > c.max /\ Scan(p, <<LF>>, c.max) = TooLarge)
  BY <1>2, <1>3, <1>7, ScanFrames
<1> HIDE DEF e
<1>12. ASSUME NEW s \in Bytes
       PROVE  Decode(c, e \o s) = IF FitsIn(c, x) THEN Message(x, Len(e)) ELSE TooLarge
  <2> DEFINE r == Scan(e \o s, <<LF>>, c.max)
  <2>1. Decode(c, e \o s) = IF r.status = "message" /\ r.msg # <<>> /\ Last(r.msg) = CR
                            THEN Message(Front(r.msg), r.used) ELSE r
    BY <1>6
  <2>2. r = IF Len(y) <= c.max THEN Message(y, Len(e)) ELSE TooLarge
    BY <1>3, <1>10, <1>11
  <2> HIDE DEF r
  <2>3. CASE Len(y) <= c.max
    <3>1. r.status = "message" /\ r.msg = y /\ r.used = Len(e)
      BY <2>2, <2>3 DEF Message
    <3> QED BY <1>3, <1>5, <1>8, <2>1, <2>3, <3>1
  <2>4. CASE ~ (Len(y) <= c.max)
    <3>1. r = TooLarge /\ r.status = "error"
      BY <2>2, <2>4 DEF TooLarge
    <3> QED BY <1>8, <2>1, <2>4, <3>1
  <2> QED BY <2>3, <2>4
<1>13. ASSUME NEW p \in Bytes, NEW q \in Bytes, e = p \o q, q # <<>>
       PROVE  Decode(c, p) = More \/ (~ FitsIn(c, x) /\ Decode(c, p) = TooLarge)
  <2> DEFINE r == Scan(p, <<LF>>, c.max)
  <2>1. Decode(c, p) = IF r.status = "message" /\ r.msg # <<>> /\ Last(r.msg) = CR
                       THEN Message(Front(r.msg), r.used) ELSE r
    BY <1>6
  <2>2. r = More \/ (Len(y) > c.max /\ r = TooLarge)
    BY <1>11, <1>13
  <2> HIDE DEF r
  <2>3. r.status # "message"
    BY <2>2 DEF More, TooLarge
  <2>4. Len(y) > c.max => ~ FitsIn(c, x)
    BY <1>1, <1>2, <1>3, <1>8
  <2> QED BY <2>1, <2>2, <2>3, <2>4
<1> QED BY <1>4, <1>9, <1>10, <1>12, <1>13 DEF Frames

(* A Message is decoded from all the bytes of its frame. *)
LEMMA MessageRoundTrip ==
  ASSUME NEW c \in Codecs, c.kind = "message", NEW x \in Seq(Int), Takes(c, x)
  PROVE  /\ Encode(c, x) \in Bytes /\ Encode(c, x) # <<>>
         /\ Decode(c, Encode(c, x)) = Message(x, Len(Encode(c, x)))
<1> DEFINE w == c.width
           a == Digits(x[1], w)
           b == Digits(x[2], w)
           r == SubSeq(x, 3, Len(x))
           e == (a \o b) \o r
<1>1. w \in Nat /\ w > 0
  BY CodecFields
<1>2. /\ Len(x) \in Nat /\ Len(x) >= 2 /\ x[1] \in Int /\ x[2] \in Int
      /\ \A i \in 3..Len(x) : x[i] \in 0..Base - 1
      /\ -Power(w) <= 2 * x[1] /\ 2 * x[1] < Power(w)
      /\ -Power(w) <= 2 * x[2] /\ 2 * x[2] < Power(w)
  BY DEF Takes
<1>3. Encode(c, x) = e
  BY DEF Encode, MessageEncode
<1>4. a \in Bytes /\ Len(a) = w /\ b \in Bytes /\ Len(b) = w
  BY <1>1, <1>2, DigitsAreBytes
<1>5. /\ r \in Bytes /\ Len(r) = Len(x) - 2
      /\ \A i \in 1..Len(r) : r[i] = x[i + 2]
  <2> DEFINE S == 0..Base - 1
  <2>1. \A i \in 3..Len(x) : x[i] \in S
    BY <1>2
  <2> HIDE DEF S
  <2>2. /\ r \in Seq(S) /\ Len(r) = IF 3 <= Len(x) THEN Len(x) - 3 + 1 ELSE 0
        /\ \A i \in 1..Len(x) - 3 + 1 : r[i] = x[3 + i - 1]
    BY <1>2, <2>1, SubSeqProperties
  <2> HIDE DEF r
  <2>3. Len(r) = Len(x) - 2
    <3>1. Len(r) = IF 3 <= Len(x) THEN Len(x) - 3 + 1 ELSE 0
      BY <2>2
    <3>2. Len(x) \in Nat /\ Len(x) >= 2
      BY <1>2
    <3>3. \A n \in Nat : n >= 2 => (IF 3 <= n THEN n - 3 + 1 ELSE 0) = n - 2
      OBVIOUS
    <3> QED BY <3>1, <3>2, <3>3, Zenon
  <2>4. \A i \in 1..Len(r) : i \in 1..Len(x) - 3 + 1 /\ 3 + i - 1 = i + 2
    BY <1>2, <2>3
  <2> QED BY <2>2, <2>3, <2>4 DEF S, Bytes
<1>6. Signed(Number(a), w) = x[1] /\ Signed(Number(b), w) = x[2]
  BY <1>1, <1>2, SignedRoundTrip
<1>7. <<x[1], x[2]>> \o r = x
  <2> DEFINE u == <<x[1], x[2]>> \o r
  <2>1. r \in Seq(Int)
    BY <1>5 DEF Bytes
  <2> HIDE DEF r
  <2>2. /\ u \in Seq(Int) /\ Len(u) = Len(r) + 2
        /\ u[1] = x[1] /\ u[2] = x[2] /\ \A i \in 1..Len(r) : u[2 + i] = r[i]
    BY <1>2, <2>1
  <2> HIDE DEF u
  <2>3. ASSUME NEW i \in 1..Len(x) PROVE u[i] = x[i]
    <3>1. CASE i \in {1, 2}
      BY <2>2, <3>1
    <3>2. CASE i \notin {1, 2}
      <4>1. i - 2 \in 1..Len(r) /\ 2 + (i - 2) = i /\ (i - 2) + 2 = i
        BY <1>2, <1>5, <3>2
      <4> QED BY <1>5, <2>2, <4>1
    <3> QED BY <3>1, <3>2
  <2>4. Len(u) = Len(x)
    BY <1>2, <1>5, <2>2
  <2>5. u = x
    BY <2>2, <2>3, <2>4, SeqEqual
  <2> QED BY <2>5 DEF u
<1> HIDE DEF a, b, r
<1>8. /\ a \o b \in Bytes /\ Len(a \o b) = 2 * w
  <2>1. a \o b \in Bytes /\ Len(a \o b) = Len(a) + Len(b)
    BY <1>4, ByteParts
  <2> QED BY <2>1, <1>1, <1>4
<1>9. /\ e \in Bytes /\ Len(e) = 2 * w + Len(r) /\ Len(r) \in Nat
      /\ SubSeq(e, Len(a \o b) + 1, Len(a \o b) + Len(r)) = r
  <2>1. /\ e \in Bytes /\ Len(e) = Len(a \o b) + Len(r) /\ Len(r) \in Nat
        /\ SubSeq(e, Len(a \o b) + 1, Len(a \o b) + Len(r)) = r
    BY <1>5, <1>8, ByteParts
  <2> QED BY <2>1, <1>8
<1>10. SubSeq(e, 1, w) = a
  <2>1. e = a \o (b \o r)
    BY <1>4, <1>5, ByteConcatAssoc
  <2>2. b \o r \in Bytes
    BY <1>4, <1>5, ByteParts
  <2>3. SubSeq(a \o (b \o r), 1, Len(a)) = a
    BY <1>4, <2>2, ByteParts
  <2> QED BY <1>4, <2>1, <2>3
<1>11. SubSeq(e, w + 1, w + w) = b
  <2>1. SubSeq((a \o b) \o r, Len(a) + 1, Len(a) + Len(b)) = b
    BY <1>4, <1>5, ByteMiddle
  <2> QED BY <1>4, <2>1
<1>12. SubSeq(e, 2 * w + 1, Len(e)) = r
  BY <1>8, <1>9
<1> HIDE DEF e
<1>13. Decode(c, e) =
         IF Len(e) < 2 * w THEN More
         ELSE Message(<<Signed(Number(SubSeq(e, 0 * w + 1, (0 + 1) * w)), w),
                        Signed(Number(SubSeq(e, 1 * w + 1, (1 + 1) * w)), w)>>
                      \o SubSeq(e, 2 * w + 1, Len(e)), Len(e))
  BY DEF Decode, MessageDecode
<1>14. 0 * w + 1 = 1 /\ (0 + 1) * w = w /\ 1 * w + 1 = w + 1 /\ (1 + 1) * w = w + w
  BY <1>1
<1>15. ~ (Len(e) < 2 * w) /\ Len(e) # 0
  BY <1>1, <1>9
<1>16. Decode(c, e) = Message(x, Len(e))
  <2>1. Decode(c, e) =
          Message(<<Signed(Number(SubSeq(e, 1, w)), w), Signed(Number(SubSeq(e, w + 1, w + w)), w)>>
                  \o SubSeq(e, 2 * w + 1, Len(e)), Len(e))
    BY <1>13, <1>14, <1>15
  <2> QED BY <2>1, <1>6, <1>7, <1>10, <1>11, <1>12
<1> QED BY <1>3, <1>9, <1>15, <1>16

-----------------------------------------------------------------------------
(* The encoders of a pipeline.  What the ones after the first i make of m: *)
After(cs, i, m) == EncodeChain(SubSeq(cs, i + 1, Len(cs)), m)

EncodeLoop(b, cs, m, n) == b = [i \in 0..n |-> IF i = 0 THEN m ELSE Encode(cs[Len(cs) - i + 1], b[i - 1])]

LEMMA EncodeIsDefined == ASSUME NEW cs, NEW m PROVE \A n \in Nat : \E b : EncodeLoop(b, cs, m, n)
<1> DEFINE G == {n \in Nat : \E b : EncodeLoop(b, cs, m, n)}
<1>1. 0 \in G
  <2> DEFINE b == [i \in 0..0 |-> m]
  <2>1. EncodeLoop(b, cs, m, 0)
    BY DEF EncodeLoop
  <2> QED BY <2>1
<1>2. ASSUME NEW n \in Nat, n \in G PROVE n + 1 \in G
  <2>1. PICK b : EncodeLoop(b, cs, m, n)
    BY <1>2
  <2> DEFINE d == [i \in 0..n + 1 |-> IF i = n + 1 THEN Encode(cs[Len(cs) - (n + 1) + 1], b[n]) ELSE b[i]]
  <2>2. ASSUME NEW i \in 0..n + 1 PROVE d[i] = IF i = 0 THEN m ELSE Encode(cs[Len(cs) - i + 1], d[i - 1])
    BY <2>1 DEF EncodeLoop
  <2>3. EncodeLoop(d, cs, m, n + 1)
    BY <2>2 DEF EncodeLoop
  <2> QED BY <2>3
<1> HIDE DEF G
<1>3. \A n \in Nat : n \in G
  BY <1>1, <1>2, NatInduct
<1> QED BY <1>3 DEF G

LEMMA EncodeLoops ==
  ASSUME NEW cs, Len(cs) \in Nat, NEW m
  PROVE  \E b : EncodeLoop(b, cs, m, Len(cs)) /\ EncodeChain(cs, m) = b[Len(cs)]
<1> DEFINE b == CHOOSE b : EncodeLoop(b, cs, m, Len(cs))
<1>1. EncodeLoop(b, cs, m, Len(cs))
  BY EncodeIsDefined
<1>2. EncodeChain(cs, m) = b[Len(cs)]
  BY DEF EncodeChain, EncodeLoop
<1> QED BY <1>1, <1>2

LEMMA TailOfCodecs ==
  ASSUME NEW cs \in Seq(Codecs), NEW i \in 0..Len(cs)
  PROVE  /\ Len(SubSeq(cs, i + 1, Len(cs))) = Len(cs) - i
         /\ \A j \in 1..Len(cs) - i : SubSeq(cs, i + 1, Len(cs))[j] = cs[i + j]
<1>1. Len(cs) \in Nat
  OBVIOUS
<1>2. \A j \in i + 1..Len(cs) : cs[j] \in Codecs
  BY <1>1, ElementOfSeq
<1> DEFINE r == SubSeq(cs, i + 1, Len(cs))
<1>3. /\ Len(r) = IF i + 1 <= Len(cs) THEN Len(cs) - (i + 1) + 1 ELSE 0
      /\ \A j \in 1..Len(cs) - (i + 1) + 1 : r[j] = cs[(i + 1) + j - 1]
  BY <1>1, <1>2, SubSeqProperties
<1>4. \A j \in 1..Len(cs) - i : j \in 1..Len(cs) - (i + 1) + 1 /\ (i + 1) + j - 1 = i + j
  BY <1>1
<1>5. (IF i + 1 <= Len(cs) THEN Len(cs) - (i + 1) + 1 ELSE 0) = Len(cs) - i
  BY <1>1
<1> HIDE DEF r
<1>6. Len(r) = Len(cs) - i
  BY <1>3, <1>5
<1>7. \A j \in 1..Len(cs) - i : r[j] = cs[i + j]
  BY <1>3, <1>4
<1> QED BY <1>6, <1>7 DEF r

LEMMA EncodeStep ==
  ASSUME NEW cs \in Seq(Codecs), NEW m
  PROVE  /\ After(cs, 0, m) = EncodeChain(cs, m)
         /\ After(cs, Len(cs), m) = m
         /\ \A i \in 1..Len(cs) : After(cs, i - 1, m) = Encode(cs[i], After(cs, i, m))
<1>1. Len(cs) \in Nat
  OBVIOUS
<1>2. After(cs, 0, m) = EncodeChain(cs, m)
  <2>1. SubSeq(cs, 0 + 1, Len(cs)) = cs
    BY SubSeqFull
  <2> QED BY <2>1 DEF After
<1>3. After(cs, Len(cs), m) = m
  <2> DEFINE ds == SubSeq(cs, Len(cs) + 1, Len(cs))
  <2>1. Len(ds) = 0
    BY <1>1, TailOfCodecs
  <2> HIDE DEF ds
  <2>2. PICK b : EncodeLoop(b, ds, m, 0) /\ EncodeChain(ds, m) = b[0]
    BY <2>1, EncodeLoops
  <2>3. b[0] = m
    BY <2>2 DEF EncodeLoop
  <2> QED BY <2>2, <2>3 DEF After, ds
<1>4. ASSUME NEW i \in 1..Len(cs)
      PROVE  After(cs, i - 1, m) = Encode(cs[i], After(cs, i, m))
  <2> DEFINE k == Len(cs) - i
             ds == SubSeq(cs, (i - 1) + 1, Len(cs))
             es == SubSeq(cs, i + 1, Len(cs))
  <2>1. k \in Nat /\ Len(cs) - (i - 1) = k + 1
    BY <1>1
  <2>2. Len(ds) = k + 1 /\ \A j \in 1..k + 1 : ds[j] = cs[(i - 1) + j]
    <3>1. i - 1 \in 0..Len(cs)
      BY <1>1
    <3>2. Len(ds) = Len(cs) - (i - 1) /\ \A j \in 1..Len(cs) - (i - 1) : ds[j] = cs[(i - 1) + j]
      BY <3>1, TailOfCodecs
    <3> HIDE DEF ds, k
    <3> QED BY <2>1, <3>2
  <2>3. Len(es) = k /\ \A j \in 1..k : es[j] = cs[i + j]
    BY <1>1, TailOfCodecs
  <2> HIDE DEF ds, es
  <2>4. PICK b : EncodeLoop(b, ds, m, k + 1) /\ EncodeChain(ds, m) = b[k + 1]
    <3>1. Len(ds) \in Nat
      BY <2>1, <2>2
    <3> QED BY <3>1, <2>2, EncodeLoops
  <2>5. PICK d : EncodeLoop(d, es, m, k) /\ EncodeChain(es, m) = d[k]
    <3>1. Len(es) \in Nat
      BY <2>1, <2>3
    <3> QED BY <3>1, <2>3, EncodeLoops
  <2> DEFINE G == {j \in Nat : j <= k => b[j] = d[j]}
  <2>6. 0 \in G
    BY <2>1, <2>4, <2>5 DEF EncodeLoop
  <2>7. ASSUME NEW j \in Nat, j \in G PROVE j + 1 \in G
    <3> SUFFICES ASSUME j + 1 <= k PROVE b[j + 1] = d[j + 1]
      OBVIOUS
    <3>1. /\ j + 1 \in 0..k + 1 /\ j + 1 \in 0..k /\ j + 1 # 0 /\ (j + 1) - 1 = j
          /\ (k + 1) - (j + 1) + 1 \in 1..k + 1 /\ k - (j + 1) + 1 \in 1..k
          /\ (i - 1) + ((k + 1) - (j + 1) + 1) = i + (k - (j + 1) + 1)
      BY <2>1
    <3>2. b[j + 1] = Encode(ds[(k + 1) - (j + 1) + 1], b[j])
      BY <2>2, <2>4, <3>1 DEF EncodeLoop
    <3>3. d[j + 1] = Encode(es[k - (j + 1) + 1], d[j])
      BY <2>3, <2>5, <3>1 DEF EncodeLoop
    <3>4. ds[(k + 1) - (j + 1) + 1] = es[k - (j + 1) + 1]
      <4> DEFINE a == (k + 1) - (j + 1) + 1
                 z == k - (j + 1) + 1
      <4>1. a \in 1..k + 1 /\ z \in 1..k /\ (i - 1) + a = i + z
        BY <3>1
      <4> HIDE DEF a, z, k
      <4>2. ds[a] = cs[(i - 1) + a] /\ es[z] = cs[i + z]
        BY <2>2, <2>3, <4>1
      <4>3. ds[a] = es[z]
        BY <4>1, <4>2
      <4> QED BY <4>3 DEF a, z
    <3>5. b[j] = d[j]
      BY <2>7, <3>1
    <3> QED BY <3>2, <3>3, <3>4, <3>5
  <2> HIDE DEF G
  <2>8. k \in G
    BY <2>1, <2>6, <2>7, NatInduct
  <2>9. b[k] = d[k]
    BY <2>1, <2>8 DEF G
  <2>10. b[k + 1] = Encode(ds[1], b[k])
    <3>1. k + 1 \in 0..k + 1 /\ k + 1 # 0 /\ (k + 1) - 1 = k /\ (k + 1) - (k + 1) + 1 = 1
      BY <2>1
    <3>2. b[k + 1] = IF k + 1 = 0 THEN m ELSE Encode(ds[Len(ds) - (k + 1) + 1], b[(k + 1) - 1])
      BY <2>4, <3>1, Zenon DEF EncodeLoop
    <3> QED BY <2>2, <3>1, <3>2, Zenon
  <2>11. ds[1] = cs[i]
    <3>1. 1 \in 1..k + 1 /\ (i - 1) + 1 = i
      BY <2>1
    <3> QED BY <2>2, <3>1
  <2>12. EncodeChain(ds, m) = Encode(cs[i], EncodeChain(es, m))
    BY <2>4, <2>5, <2>9, <2>10, <2>11
  <2> QED BY <2>12 DEF After, ds, es
<1> QED BY <1>2, <1>3, <1>4

-----------------------------------------------------------------------------
(* The codecs of a pipeline that both ends agree on. *)
LEMMA PipelineFrames ==
  ASSUME NEW cs \in Pipelines, NEW m \in Msgs, Encodable(cs, m), NEW i \in 1..Len(cs)
  PROVE  /\ cs \in Seq(Codecs) /\ cs[i] \in Codecs
         /\ cs[i].kind # "message" => Frames(cs[i], After(cs, i, m))
         /\ cs[i].kind = "message" =>
              /\ i = Len(cs) /\ i # 1
              /\ Decode(cs[i], Encode(cs[i], After(cs, i, m))) =
                   Message(After(cs, i, m), Len(Encode(cs[i], After(cs, i, m))))
         /\ cs[i].kind = "line" => i = Len(cs)
         /\ cs[i].kind = "length" => cs[i].strip # 0 \/ Len(cs) = 1
         /\ After(cs, i - 1, m) = Encode(cs[i], After(cs, i, m))
         /\ After(cs, i - 1, m) \in Bytes /\ After(cs, i - 1, m) # <<>>
<1> DEFINE c == cs[i]
           x == After(cs, i, m)
<1>1. Usable(cs) /\ m \in Seq(Int) /\ Takes(c, x)
  BY ConnectionAssumption DEF After
<1>2. cs \in Seq(Codecs) /\ Len(cs) \in Nat
  BY <1>1 DEF Usable
<1>3. c \in Codecs
  BY <1>2, ElementOfSeq
<1>4. /\ c.kind = "length" =>
           /\ c.adjust = IF c.includes THEN -c.width ELSE 0
           /\ c.strip = c.offset + c.width \/ (Len(cs) = 1 /\ c.strip = 0)
      /\ c.kind \in {"line", "message"} => i = Len(cs)
      /\ c.kind = "message" => i # 1
  BY <1>1 DEF Usable
<1>5. After(cs, i - 1, m) = Encode(c, x)
  BY <1>2, EncodeStep
<1>6. c.kind = "length" => c.strip # 0 \/ Len(cs) = 1
  <2>1. c.kind = "length" => c.offset \in Nat /\ c.width \in Nat \ {0}
    BY <1>3, CodecFields
  <2> HIDE DEF c
  <2> QED BY <1>4, <2>1
<1>7. c.kind # "message" => Frames(c, x)
  <2>1. c.kind \in {"length", "line", "delimiter", "message"}
    BY <1>3, CodecFields
  <2> HIDE DEF c, x
  <2>2. c.kind = "length" => Frames(c, x)
    BY <1>1, <1>3, <1>4, LengthFieldFrames
  <2>3. c.kind = "line" => Frames(c, x)
    BY <1>1, <1>3, LineFrames
  <2>4. c.kind = "delimiter" => Frames(c, x)
    BY <1>1, <1>3, DelimiterFrames
  <2> QED BY <2>1, <2>2, <2>3, <2>4
<1>8. c.kind = "message" => x = m
  <2> SUFFICES ASSUME c.kind = "message" PROVE x = m
    OBVIOUS
  <2>1. i = Len(cs)
    BY <1>4
  <2> QED BY <1>2, <2>1, EncodeStep
<1>9. c.kind = "message" => /\ Encode(c, x) \in Bytes /\ Encode(c, x) # <<>>
                            /\ Decode(c, Encode(c, x)) = Message(x, Len(Encode(c, x)))
  <2> HIDE DEF c, x
  <2> QED BY <1>1, <1>3, <1>8, MessageRoundTrip
<1> HIDE DEF c, x
<1>10. Encode(c, x) \in Bytes /\ Encode(c, x) # <<>>
  BY <1>7, <1>9 DEF Frames
<1>11. /\ cs \in Seq(Codecs) /\ c \in Codecs
       /\ c.kind # "message" => Frames(c, x)
       /\ c.kind = "message" =>
            i = Len(cs) /\ i # 1 /\ Decode(c, Encode(c, x)) = Message(x, Len(Encode(c, x)))
       /\ c.kind = "line" => i = Len(cs)
       /\ c.kind = "length" => c.strip # 0 \/ Len(cs) = 1
       /\ After(cs, i - 1, m) = Encode(c, x)
       /\ After(cs, i - 1, m) \in Bytes /\ After(cs, i - 1, m) # <<>>
  BY <1>2, <1>3, <1>4, <1>5, <1>6, <1>7, <1>9, <1>10
<1> QED BY <1>11 DEF c, x

(* The bytes of a message. *)
LEMMA FrameIsBytes ==
  ASSUME NEW cs \in Pipelines, NEW m \in Msgs, Encodable(cs, m)
  PROVE  /\ EncodeChain(cs, m) \in Bytes
         /\ cs # <<>> => EncodeChain(cs, m) # <<>> /\ Len(EncodeChain(cs, m)) > 0
<1>1. cs \in Seq(Codecs) /\ Len(cs) \in Nat /\ m \in Seq(Int)
  BY ConnectionAssumption DEF Usable
<1>2. EncodeChain(cs, m) = After(cs, 0, m)
  BY <1>1, EncodeStep
<1>3. CASE cs = <<>>
  <2>1. EncodeChain(cs, m) = m
    <3>1. Len(cs) = 0
      BY <1>3
    <3> QED BY <1>1, <1>2, <3>1, EncodeStep
  <2>2. m \in Bytes
    <3> DEFINE S == 0..Base - 1
    <3>1. \A i \in DOMAIN m : m[i] \in S
      BY <1>3 DEF Encodable
    <3> HIDE DEF S
    <3>2. m \in Seq(S)
      BY <1>1, <3>1, IsASeq, LenProperties
    <3> QED BY <3>2 DEF S, Bytes
  <2> QED BY <1>3, <2>1, <2>2
<1>4. CASE cs # <<>>
  <2>1. 1 \in 1..Len(cs) /\ 1 - 1 = 0
    BY <1>1, <1>4
  <2>2. After(cs, 0, m) \in Bytes /\ After(cs, 0, m) # <<>>
    BY <2>1, PipelineFrames
  <2>3. \A e \in Bytes : e # <<>> => Len(e) > 0
    BY DEF Bytes
  <2> QED BY <1>2, <2>2, <2>3
<1> QED BY <1>3, <1>4

(* The decoders of a pipeline up to the i-th. *)
FitUpTo(cs, i, m) == \A j \in 1..i : cs[j].kind # "message" => FitsIn(cs[j], After(cs, j, m))

DecodeNext(cs, u, r, i) ==
  IF i = 1 THEN Decode(cs[1], u)
  ELSE IF \/ r[i - 1].status # "message"
          \/ \E j \in 1..i - 1 : cs[j].kind \in {"line", "message"}
       THEN r[i - 1]
  ELSE LET q == Decode(cs[i], r[i - 1].msg)
       IN IF q.status = "message" THEN Message(q.msg, r[i - 1].used) ELSE q

DecodeLoop(r, cs, u, n) == r = [i \in 1..n |-> DecodeNext(cs, u, r, i)]

LEMMA DecodeIsDefined == ASSUME NEW cs, NEW u PROVE \A n \in Nat : \E r : DecodeLoop(r, cs, u, n)
<1> DEFINE G == {n \in Nat : \E r : DecodeLoop(r, cs, u, n)}
<1>1. 0 \in G
  <2> DEFINE r == [i \in 1..0 |-> 0]
  <2>1. DecodeLoop(r, cs, u, 0)
    BY DEF DecodeLoop
  <2> QED BY <2>1
<1>2. ASSUME NEW n \in Nat, n \in G PROVE n + 1 \in G
  <2>1. PICK r : DecodeLoop(r, cs, u, n)
    BY <1>2
  <2> DEFINE d == [i \in 1..n + 1 |-> IF i = n + 1 THEN DecodeNext(cs, u, r, n + 1) ELSE r[i]]
  <2>2. ASSUME NEW i \in 1..n + 1 PROVE d[i] = DecodeNext(cs, u, d, i)
    <3>1. i # 1 => d[i - 1] = r[i - 1]
      OBVIOUS
    <3> HIDE DEF d
    <3>2. DecodeNext(cs, u, d, i) = DecodeNext(cs, u, r, i)
      <4>1. CASE i = 1
        BY <4>1 DEF DecodeNext
      <4>2. CASE i # 1
        <5>1. d[i - 1] = r[i - 1]
          BY <3>1, <4>2
        <5> QED BY <4>2, <5>1, Zenon DEF DecodeNext
      <4> QED BY <4>1, <4>2
    <3> USE DEF d
    <3>3. i # n + 1 => r[i] = DecodeNext(cs, u, r, i)
      BY <2>1 DEF DecodeLoop
    <3> QED BY <3>2, <3>3
  <2> HIDE DEF d
  <2>3. DecodeLoop(d, cs, u, n + 1)
    BY <2>2 DEF DecodeLoop, d
  <2> QED BY <2>3
<1> HIDE DEF G
<1>3. \A n \in Nat : n \in G
  BY <1>1, <1>2, NatInduct
<1> QED BY <1>3 DEF G

LEMMA DecodeLoops ==
  ASSUME NEW cs \in Seq(Codecs), NEW u
  PROVE  \E r : DecodeLoop(r, cs, u, Len(cs)) /\ DecodeChain(cs, u) = r[Len(cs)]
<1> DEFINE r == CHOOSE r : DecodeLoop(r, cs, u, Len(cs))
<1>1. DOMAIN cs = 1..Len(cs) /\ Len(cs) \in Nat
  OBVIOUS
<1>2. DecodeLoop(r, cs, u, Len(cs))
  BY <1>1, DecodeIsDefined
<1>3. DecodeChain(cs, u) = r[Len(cs)]
  BY <1>1 DEF DecodeChain, DecodeLoop, DecodeNext
<1> QED BY <1>2, <1>3

(* The steps of the chain in a pipeline: only the last codec may be one    *)
(* whose result the others do not touch.                                   *)
LEMMA DecodeSteps ==
  ASSUME NEW cs \in Pipelines, NEW m \in Msgs, Encodable(cs, m), cs # <<>>, NEW u,
         NEW r, DecodeLoop(r, cs, u, Len(cs))
  PROVE  /\ Len(cs) \in Nat /\ 1 \in 1..Len(cs)
         /\ r[1] = Decode(cs[1], u)
         /\ \A i \in 1..Len(cs) : i + 1 \in 1..Len(cs) =>
              /\ r[i].status # "message" => r[i + 1] = r[i]
              /\ r[i].status = "message" =>
                   r[i + 1] = LET q == Decode(cs[i + 1], r[i].msg)
                              IN IF q.status = "message" THEN Message(q.msg, r[i].used) ELSE q
<1>1. cs \in Seq(Codecs) /\ Len(cs) \in Nat
  BY ConnectionAssumption DEF Usable
<1>2. 1 \in 1..Len(cs)
  BY <1>1
<1>3. r[1] = Decode(cs[1], u)
  BY <1>2 DEF DecodeLoop, DecodeNext
<1>4. ASSUME NEW i \in 1..Len(cs), i + 1 \in 1..Len(cs)
      PROVE  /\ r[i].status # "message" => r[i + 1] = r[i]
             /\ r[i].status = "message" =>
                  r[i + 1] = LET q == Decode(cs[i + 1], r[i].msg)
                             IN IF q.status = "message" THEN Message(q.msg, r[i].used) ELSE q
  <2>1. r[i + 1] = DecodeNext(cs, u, r, i + 1)
    BY <1>4 DEF DecodeLoop
  <2>2. i + 1 # 1 /\ (i + 1) - 1 = i
    BY <1>1
  <2>3. ~ \E j \in 1..i : cs[j].kind \in {"line", "message"}
    <3> SUFFICES ASSUME NEW j \in 1..i, cs[j].kind \in {"line", "message"} PROVE FALSE
      OBVIOUS
    <3>1. j \in 1..Len(cs) /\ j # Len(cs)
      BY <1>1, <1>4
    <3> QED BY <3>1, PipelineFrames
  <2>4. DecodeNext(cs, u, r, i + 1) =
          IF \/ r[i].status # "message"
             \/ \E j \in 1..i : cs[j].kind \in {"line", "message"}
          THEN r[i]
          ELSE LET q == Decode(cs[i + 1], r[i].msg)
               IN IF q.status = "message" THEN Message(q.msg, r[i].used) ELSE q
    BY <2>2 DEF DecodeNext
  <2> DEFINE q == Decode(cs[i + 1], r[i].msg)
             w == IF q.status = "message" THEN Message(q.msg, r[i].used) ELSE q
             B == \E j \in 1..i : cs[j].kind \in {"line", "message"}
  <2>5. r[i + 1] = IF r[i].status # "message" \/ B THEN r[i] ELSE w
    BY <2>1, <2>4
  <2>6. ~ B
    BY <2>3
  <2> HIDE DEF w, B
  <2>7. /\ r[i].status # "message" => r[i + 1] = r[i]
        /\ r[i].status = "message" => r[i + 1] = w
    BY <2>5, <2>6
  <2> QED BY <2>7 DEF w
<1> QED BY <1>1, <1>2, <1>3, <1>4

(* When the bytes of a message have arrived, the decoders make of them     *)
(* what they have to, whatever follows.                                    *)
LEMMA ChainDecodesFrame ==
  ASSUME NEW cs \in Pipelines, NEW m \in Msgs, Encodable(cs, m), cs # <<>>, NEW s \in Bytes
  PROVE  DecodeChain(cs, EncodeChain(cs, m) \o s) =
           IF Fits(cs, m) THEN Message(Expected(cs, m), Len(EncodeChain(cs, m))) ELSE TooLarge
<1> DEFINE e == EncodeChain(cs, m)
           n == Len(cs)
<1>1. cs \in Seq(Codecs) /\ n \in Nat /\ DOMAIN cs = 1..n
  BY ConnectionAssumption DEF Usable
<1>2. PICK r : DecodeLoop(r, cs, e \o s, n) /\ DecodeChain(cs, e \o s) = r[n]
  BY <1>1, DecodeLoops
<1>3. /\ 1 \in 1..n
      /\ r[1] = Decode(cs[1], e \o s)
      /\ \A i \in 1..n : i + 1 \in 1..n =>
           /\ r[i].status # "message" => r[i + 1] = r[i]
           /\ r[i].status = "message" =>
                r[i + 1] = LET q == Decode(cs[i + 1], r[i].msg)
                           IN IF q.status = "message" THEN Message(q.msg, r[i].used) ELSE q
  BY <1>2, DecodeSteps
<1>4. e = After(cs, 0, m)
  BY <1>1, EncodeStep
<1> DEFINE x(i) == After(cs, i, m)
           Good(i) == r[i] = IF FitUpTo(cs, i, m) THEN Message(Kept(cs[i], x(i)), Len(e)) ELSE TooLarge
           G == {i \in Nat : i + 1 <= n => Good(i + 1)}
<1>5. 0 \in G
  <2> SUFFICES Good(0 + 1)
    OBVIOUS
  <2>1. 1 \in 1..n /\ 1 - 1 = 0 /\ 0 + 1 = 1
    BY <1>3
  <2>2. cs[1].kind # "message" /\ Frames(cs[1], x(1)) /\ x(0) = Encode(cs[1], x(1))
    BY <2>1, PipelineFrames
  <2>3. FitUpTo(cs, 1, m) <=> FitsIn(cs[1], x(1))
    <3>1. \A j \in 1..1 : j = 1
      OBVIOUS
    <3> QED BY <2>2, <3>1 DEF FitUpTo
  <2>4. e = Encode(cs[1], x(1))
    BY <1>4, <2>2
  <2>5. r[1] = IF FitsIn(cs[1], x(1)) THEN Message(Kept(cs[1], x(1)), Len(e)) ELSE TooLarge
    BY <1>3, <2>2, <2>4 DEF Frames
  <2> QED BY <2>1, <2>3, <2>5
<1>6. ASSUME NEW k \in Nat, k \in G PROVE k + 1 \in G
  <2> DEFINE i == k + 1
             c == cs[i + 1]
             y == x(i + 1)
  <2> SUFFICES ASSUME i + 1 <= n PROVE Good(i + 1)
    OBVIOUS
  <2>1. i \in 1..n /\ i + 1 \in 1..n /\ (i + 1) - 1 = i /\ n # 1 /\ i # n
    <3>1. \A a, b \in Nat : (a + 1) + 1 <= b =>
            a + 1 \in 1..b /\ (a + 1) + 1 \in 1..b /\ ((a + 1) + 1) - 1 = a + 1 /\ b # 1 /\ a + 1 # b
      OBVIOUS
    <3> HIDE DEF G, n, Good
    <3> QED BY <1>1, <3>1
  <2>2. Good(i)
    BY <1>6, <2>1
  <2>3. FitUpTo(cs, i + 1, m) <=> FitUpTo(cs, i, m) /\ (c.kind # "message" => FitsIn(c, y))
    <3>1. \A j : j \in 1..i + 1 <=> j \in 1..i \/ j = i + 1
      BY <2>1
    <3> HIDE DEF i
    <3> QED BY <3>1, Zenon DEF FitUpTo
  <2>4. Kept(cs[i], x(i)) = x(i)
    <3>1. cs[i].kind = "length" => cs[i].strip # 0
      BY <2>1, PipelineFrames
    <3> QED BY <3>1 DEF Kept
  <2>5. x(i) = Encode(c, y)
    BY <2>1, PipelineFrames
  <2> HIDE DEF i, x, e
  <2>6. CASE ~ FitUpTo(cs, i, m)
    <3>1. r[i] = TooLarge
      BY <2>2, <2>6
    <3>2. r[i].status # "message"
      BY <3>1 DEF TooLarge
    <3>3. r[i + 1] = TooLarge
      BY <1>3, <2>1, <3>1, <3>2
    <3> QED BY <2>3, <2>6, <3>3
  <2>7. CASE FitUpTo(cs, i, m)
    <3>1. r[i] = Message(Encode(c, y), Len(e))
      BY <2>2, <2>4, <2>5, <2>7
    <3>2. r[i].status = "message" /\ r[i].msg = Encode(c, y) /\ r[i].used = Len(e)
      BY <3>1 DEF Message
    <3> DEFINE q == Decode(c, Encode(c, y))
    <3>3. r[i + 1] = IF q.status = "message" THEN Message(q.msg, Len(e)) ELSE q
      BY <1>3, <2>1, <3>2
    <3>4. CASE c.kind = "message"
      <4>1. q = Message(y, Len(Encode(c, y)))
        BY <2>1, <3>4, PipelineFrames DEF x
      <4>2. q.status = "message" /\ q.msg = y
        BY <4>1 DEF Message
      <4>3. Kept(c, y) = y
        BY <3>4 DEF Kept
      <4> QED BY <2>3, <2>7, <3>3, <3>4, <4>2, <4>3
    <3>5. CASE c.kind # "message"
      <4>1. Frames(c, y)
        BY <2>1, <3>5, PipelineFrames DEF x
      <4>2. Encode(c, y) \o <<>> = Encode(c, y) /\ <<>> \in Bytes
        BY <4>1 DEF Frames, Bytes
      <4>3. q = IF FitsIn(c, y) THEN Message(Kept(c, y), Len(Encode(c, y))) ELSE TooLarge
        BY <4>1, <4>2 DEF Frames
      <4>4. CASE FitsIn(c, y)
        <5>1. q.status = "message" /\ q.msg = Kept(c, y)
          BY <4>3, <4>4 DEF Message
        <5> QED BY <2>3, <2>7, <3>3, <4>4, <5>1
      <4>5. CASE ~ FitsIn(c, y)
        <5>1. q = TooLarge /\ q.status = "error"
          BY <4>3, <4>5 DEF TooLarge
        <5> QED BY <2>3, <2>7, <3>3, <3>5, <4>5, <5>1
      <4> QED BY <4>4, <4>5
    <3> QED BY <3>4, <3>5
  <2> QED BY <2>6, <2>7
<1>7. Good(n)
  <2> HIDE DEF G
  <2>1. n - 1 \in G
    BY <1>1, <1>3, <1>5, <1>6, NatInduct
  <2> HIDE DEF Good
  <2>2. (n - 1) + 1 = n
    BY <1>1
  <2> QED BY <2>1, <2>2, <1>1 DEF G
<1>8. FitUpTo(cs, n, m) <=> Fits(cs, m)
  BY <1>1 DEF FitUpTo, Fits, FitsIn, After
<1>9. Kept(cs[n], x(n)) = Expected(cs, m)
  <2>1. x(n) = m
    BY <1>1, EncodeStep
  <2>2. n \in 1..n /\ 1 \in 1..n
    BY <1>1, <1>3
  <2>3. CASE n = 1
    <3>1. e = Encode(cs[1], m)
      <4>1. x(1 - 1) = Encode(cs[1], x(1)) /\ 1 - 1 = 0
        BY <2>2, PipelineFrames
      <4> QED BY <1>4, <2>1, <2>3, <4>1
    <3> QED BY <2>1, <2>3, <3>1 DEF Kept, Expected
  <2>4. CASE n # 1
    <3>1. cs[n].kind = "length" => cs[n].strip # 0
      BY <2>2, <2>4, PipelineFrames
    <3>2. cs[1].kind = "length" => cs[1].strip # 0
      BY <2>2, <2>4, PipelineFrames
    <3> QED BY <2>1, <3>1, <3>2 DEF Kept, Expected
  <2> QED BY <2>3, <2>4
<1> QED BY <1>2, <1>7, <1>8, <1>9

(* Before that, they wait for more, or fail on a message that is too large. *)
LEMMA ChainDecodesPart ==
  ASSUME NEW cs \in Pipelines, NEW m \in Msgs, Encodable(cs, m), cs # <<>>,
         NEW p \in Bytes, NEW q \in Bytes, EncodeChain(cs, m) = p \o q, q # <<>>
  PROVE  \/ DecodeChain(cs, p) = More
         \/ ~ Fits(cs, m) /\ DecodeChain(cs, p) = TooLarge
<1> DEFINE n == Len(cs)
           x == After(cs, 1, m)
<1>1. cs \in Seq(Codecs) /\ n \in Nat /\ DOMAIN cs = 1..n
  BY ConnectionAssumption DEF Usable
<1>2. PICK r : DecodeLoop(r, cs, p, n) /\ DecodeChain(cs, p) = r[n]
  BY <1>1, DecodeLoops
<1>3. /\ 1 \in 1..n
      /\ r[1] = Decode(cs[1], p)
      /\ \A i \in 1..n : i + 1 \in 1..n => (r[i].status # "message" => r[i + 1] = r[i])
  <2>1. /\ 1 \in 1..Len(cs)
        /\ r[1] = Decode(cs[1], p)
        /\ \A i \in 1..Len(cs) : i + 1 \in 1..Len(cs) =>
             /\ r[i].status # "message" => r[i + 1] = r[i]
             /\ r[i].status = "message" =>
                  r[i + 1] = LET y == Decode(cs[i + 1], r[i].msg)
                             IN IF y.status = "message" THEN Message(y.msg, r[i].used) ELSE y
    BY <1>2, DecodeSteps
  <2> QED BY <2>1
<1>4. cs[1].kind # "message" /\ Frames(cs[1], x) /\ EncodeChain(cs, m) = Encode(cs[1], x)
  <2>1. 1 - 1 = 0
    OBVIOUS
  <2> QED BY <1>1, <1>3, <2>1, PipelineFrames, EncodeStep
<1>5. Encode(cs[1], x) = p \o q
  BY <1>4
<1>6. r[1] = More \/ (~ FitsIn(cs[1], x) /\ r[1] = TooLarge)
  BY <1>3, <1>4, <1>5 DEF Frames
<1>7. r[1].status # "message"
  BY <1>6 DEF More, TooLarge
<1> DEFINE G == {i \in Nat : i + 1 <= n => r[i + 1] = r[1]}
<1>8. 0 \in G
  OBVIOUS
<1>9. ASSUME NEW k \in Nat, k \in G PROVE k + 1 \in G
  <2>1. k + 1 + 1 <= n => k + 1 \in 1..n /\ k + 1 + 1 \in 1..n /\ k + 1 <= n
    BY <1>1
  <2> QED BY <1>3, <1>7, <1>9, <2>1
<1> HIDE DEF G
<1>10. n - 1 \in G
  BY <1>1, <1>3, <1>8, <1>9, NatInduct
<1>11. r[n] = r[1]
  <2>1. (n - 1) + 1 = n
    BY <1>1
  <2> QED BY <1>1, <1>10, <2>1 DEF G
<1>12. Fits(cs, m) => FitsIn(cs[1], x)
  BY <1>1, <1>3, <1>4 DEF Fits, FitsIn, After
<1> QED BY <1>2, <1>6, <1>11, <1>12

-----------------------------------------------------------------------------
(* Bytes of which some are read. *)
LEMMA RestOf ==
  ASSUME NEW d \in Bytes, NEW i \in 0..Len(d)
  PROVE  /\ SubSeq(d, i + 1, Len(d)) \in Bytes
         /\ Len(SubSeq(d, i + 1, Len(d))) = Len(d) - i
         /\ \A k \in 1..Len(d) - i : SubSeq(d, i + 1, Len(d))[k] = d[i + k]
<1> DEFINE S == 0..Base - 1
<1>s. Bytes = Seq(S)
  BY DEF Bytes
<1> HIDE DEF S
<1>1. Len(d) \in Nat
  BY <1>s
<1>2. \A k \in i + 1..Len(d) : d[k] \in S
  BY <1>s, <1>1, ElementOfSeq
<1> DEFINE r == SubSeq(d, i + 1, Len(d))
<1>3. /\ r \in Seq(S)
      /\ Len(r) = IF i + 1 <= Len(d) THEN Len(d) - (i + 1) + 1 ELSE 0
      /\ \A k \in 1..Len(d) - (i + 1) + 1 : r[k] = d[(i + 1) + k - 1]
  BY <1>1, <1>2, SubSeqProperties
<1>4. \A k \in 1..Len(d) - i : k \in 1..Len(d) - (i + 1) + 1 /\ (i + 1) + k - 1 = i + k
  BY <1>1
<1> HIDE DEF r
<1>5. Len(r) = Len(d) - i
  BY <1>1, <1>3
<1>6. r \in Bytes /\ \A k \in 1..Len(d) - i : r[k] = d[i + k]
  BY <1>s, <1>3, <1>4
<1> QED BY <1>5, <1>6 DEF r

LEMMA SplitAt ==
  ASSUME NEW s \in Bytes, NEW n \in 0..Len(s)
  PROVE  /\ SubSeq(s, 1, n) \in Bytes /\ SubSeq(s, n + 1, Len(s)) \in Bytes
         /\ s = SubSeq(s, 1, n) \o SubSeq(s, n + 1, Len(s))
<1> DEFINE S == 0..Base - 1
           a == SubSeq(s, 1, n)
           b == SubSeq(s, n + 1, Len(s))
<1>s. Bytes = Seq(S)
  BY DEF Bytes
<1> HIDE DEF S
<1>1. Len(s) \in Nat
  BY <1>s
<1>2. b \in Bytes /\ Len(b) = Len(s) - n /\ \A k \in 1..Len(s) - n : b[k] = s[n + k]
  BY RestOf
<1>3. a \in Bytes /\ Len(a) = n /\ \A k \in 1..n : a[k] = s[k]
  <2>1. \A k \in 1..n : s[k] \in S
    BY <1>s, <1>1, ElementOfSeq
  <2> QED BY <1>s, <1>1, <2>1, SubSeqProperties
<1> HIDE DEF a, b
<1>4. s = a \o b
  <2>1. /\ a \o b \in Bytes /\ Len(a \o b) = Len(a) + Len(b)
        /\ \A k \in 1..Len(a) : (a \o b)[k] = a[k]
        /\ \A k \in 1..Len(b) : (a \o b)[Len(a) + k] = b[k]
    BY <1>2, <1>3, ByteParts
  <2>2. Len(a \o b) = Len(s)
    BY <1>1, <1>2, <1>3, <2>1
  <2>3. ASSUME NEW k \in 1..Len(s) PROVE (a \o b)[k] = s[k]
    <3>0. k <= n \/ k > n
      BY <1>1
    <3>1. CASE k <= n
      <4>1. k \in 1..n
        BY <3>1
      <4> QED BY <1>3, <2>1, <4>1
    <3>2. CASE k > n
      <4>1. k - n \in 1..Len(s) - n /\ n + (k - n) = k
        BY <1>1, <3>2
      <4>2. (a \o b)[n + (k - n)] = b[k - n] /\ b[k - n] = s[n + (k - n)]
        BY <1>2, <1>3, <2>1, <4>1
      <4> QED BY <4>1, <4>2
    <3> QED BY <3>0, <3>1, <3>2
  <2> QED BY <1>s, <2>1, <2>2, <2>3, SeqEqual
<1> QED BY <1>2, <1>3, <1>4 DEF a, b

(* What is unread after some bytes are read, added or moved. *)
LEMMA UnreadBytes ==
  ASSUME NEW b \in [data : Bytes, readIndex : Nat], b.readIndex <= Len(b.data)
  PROVE  /\ Unread(b) \in Bytes /\ Len(Unread(b)) = Len(b.data) - b.readIndex
         /\ Len(b.data) \in Nat /\ b.readIndex \in 0..Len(b.data)
         /\ b.readIndex = 0 => Unread(b) = b.data
<1>1. b.data \in Bytes /\ Len(b.data) \in Nat /\ b.readIndex \in 0..Len(b.data)
  BY DEF Bytes
<1>2. Unread(b) \in Bytes /\ Len(Unread(b)) = Len(b.data) - b.readIndex
  BY <1>1, RestOf DEF Unread
<1>3. b.readIndex = 0 => Unread(b) = b.data
  <2>1. SubSeq(b.data, 1, Len(b.data)) = b.data
    BY <1>1, SubSeqFull DEF Bytes
  <2>2. 0 + 1 = 1
    OBVIOUS
  <2> QED BY <2>1, <2>2 DEF Unread
<1> QED BY <1>1, <1>2, <1>3

LEMMA UnreadSkipped ==
  ASSUME NEW b \in [data : Bytes, readIndex : Nat], b.readIndex <= Len(b.data),
         NEW e \in Bytes, NEW r \in Bytes, Unread(b) = e \o r
  PROVE  /\ Skip(b, Len(e)) \in [data : Bytes, readIndex : Nat]
         /\ Skip(b, Len(e)).readIndex <= Len(Skip(b, Len(e)).data)
         /\ Unread(Skip(b, Len(e))) = r
<1> DEFINE c == Skip(b, Len(e))
           d == b.data
           i == b.readIndex
<1>1. d \in Bytes /\ Len(d) \in Nat /\ i \in 0..Len(d) /\ Len(Unread(b)) = Len(d) - i
  BY UnreadBytes
<1>2. c = [data |-> d, readIndex |-> i + Len(e)]
  BY DEF Skip
<1>3. /\ Len(Unread(b)) = Len(e) + Len(r) /\ Len(e) \in Nat /\ Len(r) \in Nat
      /\ \A k \in 1..Len(r) : Unread(b)[Len(e) + k] = r[k]
  BY ByteParts
<1>4. \A k \in 1..Len(d) - i : Unread(b)[k] = d[i + k]
  BY <1>1, RestOf DEF Unread
<1>5. c.data = d /\ c.readIndex = i + Len(e)
  BY <1>2
<1>6. i + Len(e) \in 0..Len(d) /\ Len(d) - (i + Len(e)) = Len(r)
  BY <1>1, <1>3
<1> HIDE DEF c, d, i
<1>7. c \in [data : Bytes, readIndex : Nat] /\ c.readIndex <= Len(c.data)
  BY <1>1, <1>2, <1>6
<1> DEFINE u == SubSeq(d, (i + Len(e)) + 1, Len(d))
<1>8. u \in Bytes /\ Len(u) = Len(r) /\ \A k \in 1..Len(r) : u[k] = d[(i + Len(e)) + k]
  BY <1>1, <1>6, RestOf
<1>9. Unread(c) = u
  BY <1>5 DEF Unread
<1> HIDE DEF u
<1>10. \A k \in 1..Len(r) : u[k] = r[k]
  <2> SUFFICES ASSUME NEW k \in 1..Len(r) PROVE u[k] = r[k]
    OBVIOUS
  <2>1. Len(e) + k \in 1..Len(d) - i /\ i + (Len(e) + k) = (i + Len(e)) + k
    BY <1>1, <1>3, <1>6
  <2>2. Unread(b)[Len(e) + k] = d[i + (Len(e) + k)]
    BY <1>4, <2>1
  <2> QED BY <1>3, <1>8, <2>1, <2>2
<1>11. u = r
  BY <1>8, <1>10, SeqEqual DEF Bytes
<1> QED BY <1>7, <1>9, <1>11 DEF c

LEMMA UnreadGrows ==
  ASSUME NEW b \in [data : Bytes, readIndex : Nat], b.readIndex <= Len(b.data),
         NEW x \in Bytes, NEW c, c = [b EXCEPT !.data = @ \o x]
  PROVE  /\ c = [data |-> b.data \o x, readIndex |-> b.readIndex]
         /\ c \in [data : Bytes, readIndex : Nat] /\ c.readIndex <= Len(c.data)
         /\ Unread(c) = Unread(b) \o x
<1> DEFINE d == b.data
           i == b.readIndex
           p == SubSeq(d, 1, i)
           u == SubSeq(d, i + 1, Len(d))
<1>1. c = [data |-> d \o x, readIndex |-> i]
  OBVIOUS
<1>c. c.data = d \o x /\ c.readIndex = i
  BY <1>1
<1>2. d \in Bytes /\ i \in 0..Len(d) /\ Len(d) \in Nat
  BY UnreadBytes
<1>3. d \o x \in Bytes /\ Len(d \o x) = Len(d) + Len(x) /\ Len(x) \in Nat
  BY <1>2, ByteParts
<1> HIDE DEF d, i
<1>4. c \in [data : Bytes, readIndex : Nat] /\ c.readIndex <= Len(c.data)
  <2>1. i \in Nat /\ i <= Len(d \o x)
    BY <1>2, <1>3
  <2> QED BY <1>1, <1>3, <1>c, <2>1
<1>5. p \in Bytes /\ u \in Bytes /\ d = p \o u /\ Len(u) = Len(d) - i
  BY <1>2, SplitAt, RestOf
<1>6. u = Unread(b)
  BY DEF Unread, d, i
<1> HIDE DEF p, u
<1>7. Len(p) = i
  <2>1. Len(d) = Len(p) + Len(u) /\ Len(p) \in Nat /\ Len(u) \in Nat
    BY <1>5, ByteParts
  <2> QED BY <1>2, <1>5, <2>1, SMTT(20)
<1>8. d \o x = p \o (u \o x) /\ u \o x \in Bytes
  <2>1. (p \o u) \o x = p \o (u \o x)
    <3>1. \A a1, a2, a3 \in Bytes : (a1 \o a2) \o a3 = a1 \o (a2 \o a3)
      BY ByteConcatAssoc
    <3> QED BY <1>5, <3>1, Zenon
  <2>2. u \o x \in Bytes
    BY <1>5, ByteParts
  <2> QED BY <1>5, <2>1, <2>2
<1>9. SubSeq(p \o (u \o x), Len(p) + 1, Len(p) + Len(u \o x)) = u \o x
  BY <1>5, <1>8, ByteParts
<1>10. Len(p) + Len(u \o x) = Len(d \o x)
  BY <1>5, <1>8, ByteParts
<1>11. Unread(c) = SubSeq(d \o x, i + 1, Len(d \o x))
  BY <1>c DEF Unread
<1>12. Unread(c) = u \o x
  BY <1>7, <1>8, <1>9, <1>10, <1>11
<1> QED BY <1>1, <1>4, <1>6, <1>12 DEF d, i

LEMMA UnreadCompact ==
  ASSUME NEW b \in [data : Bytes, readIndex : Nat], b.readIndex <= Len(b.data)
  PROVE  /\ Compact(b) \in [data : Bytes, readIndex : Nat]
         /\ Compact(b).readIndex = 0 /\ Compact(b).readIndex <= Len(Compact(b).data)
         /\ Compact(b).data = Unread(b) /\ Unread(Compact(b)) = Unread(b)
<1>1. Unread(b) \in Bytes /\ Len(Unread(b)) \in Nat
  BY UnreadBytes DEF Bytes
<1>2. /\ Compact(b) \in [data : Bytes, readIndex : Nat]
      /\ Compact(b).readIndex = 0 /\ Compact(b).readIndex <= Len(Compact(b).data)
      /\ Compact(b).data = Unread(b)
  BY <1>1 DEF Compact
<1> QED BY <1>2, UnreadBytes

-----------------------------------------------------------------------------
(* The bytes of the first k of the messages ms. *)
WrittenOf(cs, ms, k) ==
  LET upTo[i \in 0..k] == IF i = 0 THEN <<>> ELSE upTo[i - 1] \o EncodeChain(cs, ms[i])
  IN upTo[k]

WrittenLoop(w, cs, ms, n) ==
  w = [i \in 0..n |-> IF i = 0 THEN <<>> ELSE w[i - 1] \o EncodeChain(cs, ms[i])]

LEMMA WrittenIsDefined == ASSUME NEW cs, NEW ms PROVE \A n \in Nat : \E w : WrittenLoop(w, cs, ms, n)
<1> DEFINE G == {n \in Nat : \E w : WrittenLoop(w, cs, ms, n)}
<1>1. 0 \in G
  <2> DEFINE w == [i \in 0..0 |-> <<>>]
  <2>1. WrittenLoop(w, cs, ms, 0)
    BY DEF WrittenLoop
  <2> QED BY <2>1
<1>2. ASSUME NEW n \in Nat, n \in G PROVE n + 1 \in G
  <2>1. PICK w : WrittenLoop(w, cs, ms, n)
    BY <1>2
  <2> DEFINE v == [i \in 0..n + 1 |-> IF i = n + 1 THEN w[n] \o EncodeChain(cs, ms[n + 1]) ELSE w[i]]
  <2>2. ASSUME NEW i \in 0..n + 1 PROVE v[i] = IF i = 0 THEN <<>> ELSE v[i - 1] \o EncodeChain(cs, ms[i])
    <3>1. CASE i = n + 1
      <4>0. n + 1 \in 0..n + 1 /\ n \in 0..n + 1 /\ n # n + 1
        OBVIOUS
      <4>1. v[n + 1] = w[n] \o EncodeChain(cs, ms[n + 1]) /\ v[n] = w[n]
        BY <4>0, Zenon
      <4>2. n + 1 # 0 /\ (n + 1) - 1 = n
        OBVIOUS
      <4> HIDE DEF v
      <4> QED BY <3>1, <4>1, <4>2
    <3>2. CASE i # n + 1
      <4>1. i \in 0..n /\ (i # 0 => i - 1 \in 0..n /\ i - 1 # n + 1 /\ i - 1 \in 0..n + 1)
        BY <3>2
      <4>2. w[i] = IF i = 0 THEN <<>> ELSE w[i - 1] \o EncodeChain(cs, ms[i])
        BY <2>1, <4>1 DEF WrittenLoop
      <4>3. v[i] = w[i] /\ (i # 0 => v[i - 1] = w[i - 1])
        BY <3>2, <4>1
      <4> HIDE DEF v
      <4> QED BY <4>2, <4>3
    <3> QED BY <3>1, <3>2
  <2>3. WrittenLoop(v, cs, ms, n + 1)
    BY <2>2 DEF WrittenLoop
  <2> QED BY <2>3
<1> HIDE DEF G
<1>3. \A n \in Nat : n \in G
  BY <1>1, <1>2, NatInduct
<1> QED BY <1>3 DEF G

LEMMA WrittenIsUnique ==
  ASSUME NEW cs, NEW ms, NEW ns,
         NEW n \in Nat, NEW w, WrittenLoop(w, cs, ms, n),
         NEW m \in Nat, NEW v, WrittenLoop(v, cs, ns, m),
         n <= m, \A i \in 1..n : ms[i] = ns[i]
  PROVE  w[n] = v[n]
<1> DEFINE G == {i \in Nat : i <= n => w[i] = v[i]}
<1>1. 0 \in G
  BY DEF WrittenLoop
<1>2. ASSUME NEW i \in Nat, i \in G PROVE i + 1 \in G
  <2> SUFFICES ASSUME i + 1 <= n PROVE w[i + 1] = v[i + 1]
    OBVIOUS
  <2>1. /\ i + 1 \in 0..n /\ i + 1 \in 0..m /\ i + 1 # 0 /\ (i + 1) - 1 = i
        /\ i + 1 \in 1..n /\ i <= n
    OBVIOUS
  <2>2. /\ w[i + 1] = w[i] \o EncodeChain(cs, ms[i + 1])
        /\ v[i + 1] = v[i] \o EncodeChain(cs, ns[i + 1])
    BY <2>1 DEF WrittenLoop
  <2>3. w[i] = v[i] /\ ms[i + 1] = ns[i + 1]
    BY <1>2, <2>1
  <2> QED BY <2>2, <2>3
<1> HIDE DEF G
<1>3. n \in G
  BY <1>1, <1>2, NatInduct
<1> QED BY <1>3 DEF G

LEMMA WrittenLoops ==
  ASSUME NEW cs, NEW ms, NEW n \in Nat
  PROVE  \E w : WrittenLoop(w, cs, ms, n) /\ WrittenOf(cs, ms, n) = w[n]
<1> DEFINE w == CHOOSE w : WrittenLoop(w, cs, ms, n)
<1>1. WrittenLoop(w, cs, ms, n)
  BY WrittenIsDefined
<1>2. WrittenOf(cs, ms, n) = w[n]
  BY DEF WrittenOf, WrittenLoop
<1> QED BY <1>1, <1>2

LEMMA WrittenStep ==
  ASSUME NEW cs, NEW ms
  PROVE  /\ WrittenOf(cs, ms, 0) = <<>>
         /\ \A n \in Nat : WrittenOf(cs, ms, n + 1) = WrittenOf(cs, ms, n) \o EncodeChain(cs, ms[n + 1])
<1>1. WrittenOf(cs, ms, 0) = <<>>
  <2>1. PICK w : WrittenLoop(w, cs, ms, 0) /\ WrittenOf(cs, ms, 0) = w[0]
    BY WrittenLoops
  <2>2. w[0] = <<>>
    BY <2>1 DEF WrittenLoop
  <2> QED BY <2>1, <2>2
<1>2. ASSUME NEW n \in Nat
      PROVE  WrittenOf(cs, ms, n + 1) = WrittenOf(cs, ms, n) \o EncodeChain(cs, ms[n + 1])
  <2>1. PICK w : WrittenLoop(w, cs, ms, n) /\ WrittenOf(cs, ms, n) = w[n]
    BY WrittenLoops
  <2>2. PICK v : WrittenLoop(v, cs, ms, n + 1) /\ WrittenOf(cs, ms, n + 1) = v[n + 1]
    BY WrittenLoops
  <2>3. w[n] = v[n]
    BY <2>1, <2>2, WrittenIsUnique
  <2>4. v[n + 1] = v[n] \o EncodeChain(cs, ms[n + 1])
    BY <2>2 DEF WrittenLoop
  <2> QED BY <2>1, <2>2, <2>3, <2>4
<1> QED BY <1>1, <1>2

LEMMA WrittenSame ==
  ASSUME NEW cs, NEW ms, NEW ns, NEW n \in Nat, \A i \in 1..n : ms[i] = ns[i]
  PROVE  WrittenOf(cs, ms, n) = WrittenOf(cs, ns, n)
<1>1. PICK w : WrittenLoop(w, cs, ms, n) /\ WrittenOf(cs, ms, n) = w[n]
  BY WrittenLoops
<1>2. PICK v : WrittenLoop(v, cs, ns, n) /\ WrittenOf(cs, ns, n) = v[n]
  BY WrittenLoops
<1>3. w[n] = v[n]
  BY <1>1, <1>2, WrittenIsUnique
<1> QED BY <1>1, <1>2, <1>3

(* The messages that may have been sent. *)
Sendable(cs, ms) ==
  /\ cs \in Pipelines
  /\ ms \in Seq(Msgs)
  /\ \A i \in 1..Len(ms) : Encodable(cs, ms[i])

LEMMA WrittenBytes ==
  ASSUME NEW cs, NEW ms, Sendable(cs, ms)
  PROVE  \A n \in 0..Len(ms) : WrittenOf(cs, ms, n) \in Bytes
<1>1. Len(ms) \in Nat /\ \A i \in 1..Len(ms) : EncodeChain(cs, ms[i]) \in Bytes
  BY FrameIsBytes, ElementOfSeq DEF Sendable
<1> DEFINE G == {n \in Nat : n <= Len(ms) => WrittenOf(cs, ms, n) \in Bytes}
<1>2. 0 \in G
  <2>1. <<>> \in Bytes
    BY DEF Bytes
  <2> QED BY <2>1, WrittenStep
<1>3. ASSUME NEW n \in Nat, n \in G PROVE n + 1 \in G
  <2> SUFFICES ASSUME n + 1 <= Len(ms) PROVE WrittenOf(cs, ms, n + 1) \in Bytes
    OBVIOUS
  <2>1. n + 1 \in 1..Len(ms) /\ n <= Len(ms)
    BY <1>1
  <2>2. WrittenOf(cs, ms, n) \in Bytes /\ EncodeChain(cs, ms[n + 1]) \in Bytes
    BY <1>1, <1>3, <2>1
  <2>3. WrittenOf(cs, ms, n) \o EncodeChain(cs, ms[n + 1]) \in Bytes
    BY <2>2, ByteParts
  <2> QED BY <2>3, WrittenStep
<1> HIDE DEF G
<1>4. \A n \in Nat : n \in G
  BY <1>2, <1>3, NatInduct
<1>5. \A n \in 0..Len(ms) : n \in Nat /\ n <= Len(ms)
  BY <1>1
<1> QED BY <1>4, <1>5 DEF G

(* The bytes of the first messages are the beginning of all the bytes. *)
Begins(a, b) == \E t \in Bytes : b = a \o t

LEMMA WrittenBegins ==
  ASSUME NEW cs, NEW ms, Sendable(cs, ms), NEW k \in 0..Len(ms)
  PROVE  \A n \in k..Len(ms) : Begins(WrittenOf(cs, ms, k), WrittenOf(cs, ms, n))
<1> DEFINE W(n) == WrittenOf(cs, ms, n)
           G == {n \in Nat : k <= n /\ n <= Len(ms) => Begins(W(k), W(n))}
<1>0. Len(ms) \in Nat /\ k \in Nat
  BY DEF Sendable
<1>b. \A n \in 0..Len(ms) : W(n) \in Bytes
  BY WrittenBytes
<1>s. Begins(W(k), W(k))
  <2>1. W(k) = W(k) \o <<>> /\ <<>> \in Bytes
    <3>1. W(k) \in Bytes
      BY <1>b
    <3> HIDE DEF W
    <3> QED BY <3>1 DEF Bytes
  <2> QED BY <2>1 DEF Begins
<1>1. 0 \in G
  <2>1. k <= 0 => k = 0
    BY <1>0
  <2> QED BY <1>s, <2>1
<1>2. ASSUME NEW n \in Nat, n \in G PROVE n + 1 \in G
  <2> SUFFICES ASSUME k <= n + 1, n + 1 <= Len(ms) PROVE Begins(W(k), W(n + 1))
    OBVIOUS
  <2>1. CASE k = n + 1
    BY <1>s, <2>1
  <2>2. CASE k # n + 1
    <3>1. k <= n /\ n <= Len(ms) /\ n + 1 \in 1..Len(ms) /\ n \in 0..Len(ms)
      BY <1>0, <2>2
    <3>2. W(n + 1) = W(n) \o EncodeChain(cs, ms[n + 1])
      BY WrittenStep
    <3>3. EncodeChain(cs, ms[n + 1]) \in Bytes
      BY <3>1, FrameIsBytes, ElementOfSeq DEF Sendable
    <3>4. PICK t \in Bytes : W(n) = W(k) \o t
      BY <1>2, <3>1 DEF Begins
    <3>5. W(k) \in Bytes
      BY <1>b
    <3> HIDE DEF W
    <3>6. (W(k) \o t) \o EncodeChain(cs, ms[n + 1]) = W(k) \o (t \o EncodeChain(cs, ms[n + 1]))
      BY <3>3, <3>4, <3>5, ByteConcatAssoc
    <3>7. t \o EncodeChain(cs, ms[n + 1]) \in Bytes
      BY <3>3, <3>4, ByteParts
    <3>8. W(n + 1) = W(k) \o (t \o EncodeChain(cs, ms[n + 1]))
      BY <3>2, <3>4, <3>6
    <3> QED BY <3>7, <3>8 DEF Begins
  <2> QED BY <2>1, <2>2
<1> HIDE DEF G
<1>3. \A n \in Nat : n \in G
  BY <1>1, <1>2, NatInduct
<1>4. \A n \in k..Len(ms) : n \in Nat /\ k <= n /\ n <= Len(ms)
  BY <1>0
<1> QED BY <1>3, <1>4 DEF G

LEMMA WrittenGrows ==
  ASSUME NEW cs, NEW ms, Sendable(cs, ms), NEW k \in 0..Len(ms), NEW n \in k..Len(ms)
  PROVE  /\ Len(WrittenOf(cs, ms, k)) \in Nat
         /\ Len(WrittenOf(cs, ms, n)) \in Nat
         /\ Len(WrittenOf(cs, ms, k)) <= Len(WrittenOf(cs, ms, n))
<1>1. WrittenOf(cs, ms, k) \in Bytes
  BY WrittenBytes
<1>2. PICK t \in Bytes : WrittenOf(cs, ms, n) = WrittenOf(cs, ms, k) \o t
  BY WrittenBegins, SMTT(20) DEF Begins
<1>3. /\ Len(WrittenOf(cs, ms, k) \o t) = Len(WrittenOf(cs, ms, k)) + Len(t)
      /\ Len(WrittenOf(cs, ms, k)) \in Nat /\ Len(t) \in Nat
  BY <1>1, ByteParts
<1> QED BY <1>2, <1>3

(* What the decoders do with the unread bytes u, where s is still to come. *)
Decodes(cs, ms, n, u, s) ==
  LET m == ms[n + 1]
      e == EncodeChain(cs, m)
  IN \/ /\ Len(u) < Len(e)
        /\ \/ DecodeChain(cs, u) = More
           \/ DecodeChain(cs, u) = TooLarge /\ ~ Fits(cs, m)
     \/ /\ Len(e) <= Len(u)
        /\ DecodeChain(cs, u) = IF Fits(cs, m) THEN Message(Expected(cs, m), Len(e)) ELSE TooLarge
        /\ \E r \in Bytes :
             /\ u = e \o r
             /\ WrittenOf(cs, ms, Len(ms)) = WrittenOf(cs, ms, n + 1) \o (r \o s)

LEMMA NextMessage ==
  ASSUME NEW cs, NEW ms, Sendable(cs, ms), cs # <<>>, NEW n \in 0..Len(ms),
         NEW u \in Bytes, NEW s \in Bytes, u # <<>>,
         WrittenOf(cs, ms, Len(ms)) = WrittenOf(cs, ms, n) \o (u \o s)
  PROVE  n + 1 \in 1..Len(ms) /\ Decodes(cs, ms, n, u, s)
<1> DEFINE N == Len(ms)
           W(k) == WrittenOf(cs, ms, k)
           m == ms[n + 1]
           e == EncodeChain(cs, m)
<1>0. N \in Nat /\ cs \in Pipelines
  BY DEF Sendable
<1>1. W(n) \in Bytes /\ Len(W(n)) \in Nat
  BY WrittenBytes DEF Bytes
<1>2. u \o s \in Bytes /\ Len(u \o s) = Len(u) + Len(s) /\ Len(u) \in Nat /\ Len(s) \in Nat
  BY ByteParts
<1>3. Len(u) # 0
  BY DEF Bytes
<1>4. n + 1 \in 1..N /\ n + 1 \in 0..N /\ N \in n + 1..N
  <2> SUFFICES n # N
    BY <1>0
  <2> SUFFICES ASSUME n = N PROVE FALSE
    OBVIOUS
  <2>1. Len(W(n) \o (u \o s)) = Len(W(n)) + Len(u \o s)
    BY <1>1, <1>2, ByteParts
  <2>2. W(n) = W(n) \o (u \o s)
    OBVIOUS
  <2> HIDE DEF W, N
  <2> QED BY <1>1, <1>2, <1>3, <2>1, <2>2
<1>5. m \in Msgs /\ Encodable(cs, m)
  BY <1>4, ElementOfSeq DEF Sendable
<1>6. e \in Bytes /\ Len(e) \in Nat
  BY <1>0, <1>5, FrameIsBytes DEF Bytes
<1>7. W(n + 1) = W(n) \o e
  <2>1. n \in Nat
    BY <1>0
  <2>2. WrittenOf(cs, ms, n + 1) = WrittenOf(cs, ms, n) \o EncodeChain(cs, ms[n + 1])
    BY <2>1, WrittenStep
  <2> QED BY <2>2
<1>8. PICK t \in Bytes : W(N) = W(n + 1) \o t
  BY <1>4, WrittenBegins, ZenonT(30) DEF Begins
<1> HIDE DEF W, N, m, e
<1>9. e \o t = u \o s
  <2>1. W(n) \o (e \o t) = W(n) \o (u \o s)
    <3>1. (W(n) \o e) \o t = W(n) \o (e \o t)
      BY <1>1, <1>6, ByteConcatAssoc, SMTT(20)
    <3>2. W(N) = W(n) \o (u \o s)
      BY DEF W, N
    <3> QED BY <1>7, <1>8, <3>1, <3>2
  <2>2. e \o t \in Bytes
    BY <1>6, ByteParts
  <2>3. \A a, b, c \in Bytes : a \o b = a \o c => b = c
    BY ConcatSimplifications DEF Bytes
  <2> QED BY <1>1, <1>2, <2>1, <2>2, <2>3
<1>10. CASE Len(u) < Len(e)
  <2>0. u \o s = e \o t /\ Len(u) <= Len(e)
    BY <1>2, <1>6, <1>9, <1>10
  <2>1. Splits(u, s, e, t)
    BY <1>6, <2>0, PrefixSplits
  <2>2. PICK q \in Bytes : e = u \o q
    BY <2>1 DEF Splits
  <2>3. q # <<>>
    <3> SUFFICES ASSUME q = <<>> PROVE FALSE
      OBVIOUS
    <3>1. Len(e) = Len(u) + Len(q) /\ Len(q) = 0
      BY <2>2, ByteParts
    <3> QED BY <1>2, <1>6, <1>10, <3>1
  <2>4. EncodeChain(cs, m) = u \o q
    BY <2>2 DEF e
  <2>5. DecodeChain(cs, u) = More \/ (~ Fits(cs, m) /\ DecodeChain(cs, u) = TooLarge)
    BY <1>0, <1>5, <2>3, <2>4, ChainDecodesPart
  <2> QED BY <1>4, <1>10, <2>5 DEF Decodes, e, m, N
<1>11. CASE ~ (Len(u) < Len(e))
  <2>0. Len(e) <= Len(u)
    BY <1>2, <1>6, <1>11
  <2>1. Splits(e, t, u, s)
    BY <1>6, <1>9, <2>0, PrefixSplits
  <2>2. PICK r \in Bytes : u = e \o r /\ t = r \o s
    BY <2>1 DEF Splits
  <2>3. DecodeChain(cs, EncodeChain(cs, m) \o r) =
          IF Fits(cs, m) THEN Message(Expected(cs, m), Len(EncodeChain(cs, m))) ELSE TooLarge
    BY <1>0, <1>5, ChainDecodesFrame
  <2>4. DecodeChain(cs, u) = IF Fits(cs, m) THEN Message(Expected(cs, m), Len(e)) ELSE TooLarge
    BY <2>2, <2>3 DEF e
  <2>5. W(N) = W(n + 1) \o (r \o s)
    BY <1>8, <2>2
  <2> QED BY <1>4, <2>0, <2>2, <2>4, <2>5 DEF Decodes, e, m, N, W
<1> QED BY <1>10, <1>11

(* One message more. *)
Lengthens(cs, ms, m, ns) ==
  /\ Sendable(cs, ns)
  /\ Len(ns) = Len(ms) + 1 /\ Len(ms) \in Nat /\ ns[Len(ms) + 1] = m
  /\ \A i \in 1..Len(ms) : ns[i] = ms[i]
  /\ \A k \in 0..Len(ms) : WrittenOf(cs, ns, k) = WrittenOf(cs, ms, k)
  /\ WrittenOf(cs, ns, Len(ms) + 1) = WrittenOf(cs, ms, Len(ms)) \o EncodeChain(cs, m)

LEMMA OneMore ==
  ASSUME NEW cs, NEW ms, Sendable(cs, ms), NEW m \in Msgs, Encodable(cs, m)
  PROVE  Lengthens(cs, ms, m, Append(ms, m))
<1> DEFINE ns == Append(ms, m)
<1>0. ms \in Seq(Msgs) /\ Len(ms) \in Nat
  BY DEF Sendable
<1>1. /\ ns \in Seq(Msgs) /\ Len(ns) = Len(ms) + 1 /\ ns[Len(ms) + 1] = m
      /\ \A i \in 1..Len(ms) : ns[i] = ms[i]
  BY <1>0
<1> HIDE DEF ns
<1>2. Sendable(cs, ns)
  <2> SUFFICES ASSUME NEW i \in 1..Len(ns) PROVE Encodable(cs, ns[i])
    BY <1>1 DEF Sendable
  <2>1. CASE i = Len(ms) + 1
    BY <1>1, <2>1
  <2>2. CASE i # Len(ms) + 1
    <3>1. i \in 1..Len(ms)
      BY <1>0, <1>1, <2>2
    <3> QED BY <1>1, <3>1 DEF Sendable
  <2> QED BY <2>1, <2>2
<1>3. ASSUME NEW k \in 0..Len(ms) PROVE WrittenOf(cs, ns, k) = WrittenOf(cs, ms, k)
  <2>1. k \in Nat /\ \A i \in 1..k : i \in 1..Len(ms)
    BY <1>0
  <2>2. \A i \in 1..k : ns[i] = ms[i]
    BY <1>1, <2>1
  <2> QED BY <2>1, <2>2, WrittenSame
<1>4. WrittenOf(cs, ns, Len(ms) + 1) = WrittenOf(cs, ms, Len(ms)) \o EncodeChain(cs, m)
  <2>1. WrittenOf(cs, ns, Len(ms) + 1) = WrittenOf(cs, ns, Len(ms)) \o EncodeChain(cs, ns[Len(ms) + 1])
    BY <1>0, WrittenStep
  <2>2. WrittenOf(cs, ns, Len(ms)) = WrittenOf(cs, ms, Len(ms))
    BY <1>0, <1>3
  <2> QED BY <1>1, <2>1, <2>2
<1> QED BY <1>0, <1>1, <1>2, <1>3, <1>4 DEF ns, Lengthens

-----------------------------------------------------------------------------
(* The inductive invariant.  What was written is the bytes of the messages *)
(* given to the handlers, then the unread ones of the buffer, then those   *)
(* still to be read; and when ReadLoop waits, the unread ones are too few  *)
(* for the next message.                                                   *)
AllWritten == WrittenOf(codecs, sent, Len(sent))

Decoded ==
  /\ Len(fired) <= Len(sent)
  /\ AllWritten = WrittenOf(codecs, sent, Len(fired)) \o (Unread(buffer) \o stream)
  /\ \A i \in 1..Len(fired) : fired[i] = Expected(codecs, sent[i]) /\ Fits(codecs, sent[i])

TooFew ==
  /\ buffer.readIndex = 0
  /\ Len(fired) < Len(sent) =>
       Len(Unread(buffer)) < Len(EncodeChain(codecs, sent[Len(fired) + 1]))

(* Without codecs, nothing is taken out of the buffer. *)
Passed ==
  /\ AllWritten = buffer.data \o stream
  /\ buffer.readIndex = 0
  /\ reader = "reading" => buffer.data = <<>> \/ (fired # <<>> /\ Last(fired) = buffer.data)

IInv ==
  /\ TypeOK
  /\ Sendable(codecs, sent)
  /\ codecs # <<>> => Decoded /\ (reader = "reading" => TooFew)
  /\ codecs = <<>> => Passed

LEMMA InitIInv == Init => IInv
<1> SUFFICES ASSUME Init PROVE IInv
  OBVIOUS
<1>1. <<>> \in Bytes /\ \A S : <<>> \in Seq(S)
  BY DEF Bytes
<1>2. Len(sent) = 0 /\ Len(fired) = 0 /\ buffer = [data |-> <<>>, readIndex |-> 0]
  BY DEF Init
<1>3. buffer.data = <<>> /\ buffer.readIndex = 0 /\ Len(buffer.data) = 0
  BY <1>2
<1>4. TypeOK
  BY <1>1, <1>2, <1>3 DEF Init, TypeOK
<1>5. Sendable(codecs, sent)
  BY <1>1, <1>2 DEF Init, Sendable
<1>6. WrittenOf(codecs, sent, 0) = <<>>
  BY WrittenStep
<1>7. Unread(buffer) = <<>>
  BY <1>1, <1>2, <1>3, UnreadBytes
<1>8. stream = <<>> /\ <<>> \o <<>> = <<>>
  BY DEF Init
<1>9. Decoded
  <2>1. <<>> \o (<<>> \o <<>>) = <<>>
    OBVIOUS
  <2>2. AllWritten = WrittenOf(codecs, sent, Len(fired)) \o (Unread(buffer) \o stream)
    BY <1>2, <1>6, <1>7, <1>8, <2>1 DEF AllWritten
  <2> QED BY <1>2, <2>2 DEF Decoded
<1>10. codecs # <<>> => TooFew
  BY <1>2, <1>3 DEF TooFew
<1>11. Passed
  BY <1>2, <1>3, <1>6, <1>8 DEF Passed, AllWritten
<1> QED BY <1>4, <1>5, <1>9, <1>10, <1>11 DEF IInv

(* What the invariant says of the message that is next. *)
LEMMA Upcoming ==
  ASSUME IInv, codecs # <<>>, Unread(buffer) # <<>>
  PROVE  /\ Len(fired) \in Nat /\ Len(fired) + 1 \in 1..Len(sent)
         /\ Decodes(codecs, sent, Len(fired), Unread(buffer), stream)
<1>1. /\ Sendable(codecs, sent) /\ stream \in Bytes
      /\ Len(fired) \in 0..Len(sent) /\ Len(fired) \in Nat
      /\ AllWritten = WrittenOf(codecs, sent, Len(fired)) \o (Unread(buffer) \o stream)
  BY DEF IInv, TypeOK, Decoded, Sendable
<1>2. Unread(buffer) \in Bytes
  BY UnreadBytes DEF IInv, TypeOK
<1> QED BY <1>1, <1>2, NextMessage DEF AllWritten

(* When all messages have been given to the handlers, nothing is left. *)
LEMMA NothingLeft ==
  ASSUME IInv, codecs # <<>>, Len(fired) = Len(sent)
  PROVE  Unread(buffer) = <<>>
<1>1. Len(sent) \in Nat /\ stream \in Bytes /\ Unread(buffer) \in Bytes
  BY UnreadBytes DEF IInv, TypeOK
<1>2. ~ (Len(fired) + 1 \in 1..Len(sent))
  BY <1>1
<1> QED BY <1>2, Upcoming

LEMMA WriteIInv == ASSUME IInv, NEW m \in Msgs, Write(m) PROVE IInv'
<1> DEFINE e == EncodeChain(codecs, m)
           N == Len(sent)
           n == Len(fired)
<1>1. /\ Encodable(codecs, m) /\ stream' = stream \o e /\ sent' = Append(sent, m)
      /\ codecs' = codecs /\ buffer' = buffer /\ reader' = reader /\ fired' = fired /\ errors' = errors
  BY DEF Write
<1>2. TypeOK /\ Sendable(codecs, sent) /\ codecs \in Pipelines /\ stream \in Bytes
  BY DEF IInv, TypeOK
<1>3. e \in Bytes /\ (codecs # <<>> => Len(e) > 0)
  BY <1>1, <1>2, FrameIsBytes
<1>4. /\ Sendable(codecs, sent')
      /\ Len(sent') = N + 1 /\ N \in Nat /\ sent'[N + 1] = m
      /\ \A i \in 1..N : sent'[i] = sent[i]
      /\ \A k \in 0..N : WrittenOf(codecs, sent', k) = WrittenOf(codecs, sent, k)
      /\ WrittenOf(codecs, sent', N + 1) = WrittenOf(codecs, sent, N) \o e
  <2>1. Lengthens(codecs, sent, m, sent')
    BY <1>1, <1>2, OneMore
  <2> QED BY <2>1 DEF Lengthens
<1>5. stream' \in Bytes
  BY <1>1, <1>2, <1>3, ByteParts
<1>6. TypeOK'
  <2>1. sent' \in Seq(Msgs)
    BY <1>4 DEF Sendable
  <2> QED BY <1>1, <1>2, <1>5, <2>1 DEF TypeOK
<1>7. AllWritten' = AllWritten \o e
  BY <1>1, <1>4 DEF AllWritten
<1>8. ASSUME codecs # <<>> PROVE Decoded' /\ (reader' = "reading" => TooFew')
  <2>1. Decoded /\ (reader = "reading" => TooFew)
    BY <1>8 DEF IInv
  <2>2. n \in 0..N /\ n \in Nat
    BY <1>2, <1>4, <2>1 DEF Decoded, TypeOK
  <2>u. Unread(buffer) \in Bytes
    BY <1>2, UnreadBytes DEF TypeOK
  <2> DEFINE W == WrittenOf(codecs, sent, n)
             u == Unread(buffer)
  <2>3. W \in Bytes
    BY <1>2, <2>2, WrittenBytes
  <2>4. AllWritten = W \o (u \o stream)
    BY <2>1 DEF Decoded
  <2>w. WrittenOf(codecs, sent', n) = W
    BY <1>4, <2>2
  <2>5. AllWritten' = W \o (u \o stream')
    <3> HIDE DEF W, u, e
    <3>1. u \o stream \in Bytes
      BY <1>2, <2>u, ByteParts DEF u
    <3>2. (W \o (u \o stream)) \o e = W \o ((u \o stream) \o e)
      BY <1>3, <2>3, <3>1, ByteConcatAssoc
    <3>3. (u \o stream) \o e = u \o (stream \o e)
      BY <1>2, <1>3, <2>u, ByteConcatAssoc DEF u
    <3> QED BY <1>1, <1>7, <2>4, <3>2, <3>3 DEF e
  <2>6. \A i \in 1..n : fired[i] = Expected(codecs, sent'[i]) /\ Fits(codecs, sent'[i])
    <3>1. \A i \in 1..n : i \in 1..N
      BY <1>4, <2>2
    <3> QED BY <1>4, <2>1, <3>1 DEF Decoded
  <2>7. Decoded'
    <3>1. n <= N + 1
      BY <1>4, <2>2
    <3> QED BY <1>1, <1>4, <2>5, <2>6, <2>w, <3>1 DEF Decoded
  <2>8. ASSUME reader' = "reading" PROVE TooFew'
    <3>1. TooFew
      BY <1>1, <2>1, <2>8
    <3>2. ASSUME n < N + 1 PROVE Len(u) < Len(EncodeChain(codecs, sent'[n + 1]))
      <4>1. CASE n < N
        <5>1. n + 1 \in 1..N
          BY <1>4, <2>2, <4>1
        <5> QED BY <1>4, <3>1, <4>1, <5>1 DEF TooFew
      <4>2. CASE ~ (n < N)
        <5>1. n = N
          BY <1>4, <2>2, <3>2, <4>2
        <5>2. u = <<>> /\ Len(u) = 0
          BY <1>8, <5>1, NothingLeft
        <5> QED BY <1>3, <1>4, <1>8, <5>1, <5>2
      <4> QED BY <4>1, <4>2
    <3> QED BY <1>1, <1>4, <3>1, <3>2 DEF TooFew
  <2> QED BY <2>7, <2>8
<1>9. ASSUME codecs = <<>> PROVE Passed'
  <2>1. Passed
    BY <1>9 DEF IInv
  <2>2. buffer.data \in Bytes
    BY <1>2 DEF TypeOK
  <2>3. (buffer.data \o stream) \o e = buffer.data \o (stream \o e)
    <3> HIDE DEF e
    <3> QED BY <1>2, <1>3, <2>2, ByteConcatAssoc
  <2> HIDE DEF e
  <2>4. AllWritten' = buffer.data \o stream'
    BY <1>1, <1>7, <2>1, <2>3 DEF Passed, e
  <2> QED BY <1>1, <2>1, <2>4 DEF Passed
<1> QED BY <1>1, <1>4, <1>6, <1>8, <1>9 DEF IInv

LEMMA ReadIInv == ASSUME IInv, Read PROVE IInv'
<1>1. PICK k \in 1..Len(stream) :
        /\ buffer' = [buffer EXCEPT !.data = @ \o SubSeq(stream, 1, k)]
        /\ stream' = SubSeq(stream, k + 1, Len(stream))
  BY DEF Read
<1>2. /\ reader' = "decoding"
      /\ codecs' = codecs /\ sent' = sent /\ fired' = fired /\ errors' = errors
  BY DEF Read, Reader
<1>3. /\ TypeOK /\ Sendable(codecs, sent)
      /\ stream \in Bytes /\ buffer \in [data : Bytes, readIndex : Nat]
      /\ buffer.readIndex <= Len(buffer.data)
  BY DEF IInv, TypeOK
<1> DEFINE x == SubSeq(stream, 1, k)
<1>4. x \in Bytes /\ stream' \in Bytes /\ stream = x \o stream'
  <2>1. k \in 0..Len(stream)
    BY <1>3 DEF Bytes
  <2> QED BY <1>1, <1>3, <2>1, SplitAt
<1> HIDE DEF x
<1>5. /\ buffer' = [data |-> buffer.data \o x, readIndex |-> buffer.readIndex]
      /\ buffer' \in [data : Bytes, readIndex : Nat] /\ buffer'.readIndex <= Len(buffer'.data)
      /\ Unread(buffer') = Unread(buffer) \o x
  <2>1. buffer' = [buffer EXCEPT !.data = @ \o x]
    BY <1>1 DEF x
  <2> QED BY <1>3, <1>4, <2>1, UnreadGrows
<1>6. buffer'.data = buffer.data \o x /\ buffer'.readIndex = buffer.readIndex
  BY <1>5
<1>7. TypeOK'
  BY <1>2, <1>3, <1>4, <1>5 DEF TypeOK
<1>8. ASSUME codecs # <<>> PROVE Decoded'
  <2>1. Decoded
    BY <1>8 DEF IInv
  <2>2. Unread(buffer) \in Bytes
    BY <1>3, UnreadBytes
  <2>3. (Unread(buffer) \o x) \o stream' = Unread(buffer) \o (x \o stream')
    BY <1>4, <2>2, ByteConcatAssoc
  <2>4. Unread(buffer') \o stream' = Unread(buffer) \o stream
    BY <1>4, <1>5, <2>3
  <2> QED BY <1>2, <2>1, <2>4 DEF Decoded, AllWritten
<1>9. ASSUME codecs = <<>> PROVE Passed'
  <2>1. Passed
    BY <1>9 DEF IInv
  <2>2. buffer.data \in Bytes
    BY <1>3
  <2>3. (buffer.data \o x) \o stream' = buffer.data \o (x \o stream')
    BY <1>4, <2>2, ByteConcatAssoc
  <2>4. buffer'.data \o stream' = buffer.data \o stream
    BY <1>4, <1>6, <2>3
  <2> QED BY <1>2, <1>6, <2>1, <2>4 DEF Passed, AllWritten
<1> QED BY <1>2, <1>3, <1>7, <1>8, <1>9 DEF IInv

LEMMA ReadEndsIInv == ASSUME IInv, ReadEnds PROVE IInv'
<1>1. /\ reader' = "ended" /\ errors' \in {errors, errors + 1}
      /\ codecs' = codecs /\ sent' = sent /\ stream' = stream /\ buffer' = buffer /\ fired' = fired
  BY DEF ReadEnds, Reader
<1>2. TypeOK'
  <2>1. errors' \in Nat
    BY <1>1 DEF IInv, TypeOK
  <2> QED BY <1>1, <2>1 DEF IInv, TypeOK
<1>3. codecs # <<>> => Decoded'
  BY <1>1 DEF IInv, Decoded, AllWritten
<1>4. codecs = <<>> => Passed'
  BY <1>1 DEF IInv, Passed, AllWritten
<1> QED BY <1>1, <1>2, <1>3, <1>4 DEF IInv

LEMMA BytesAreIntegers == ASSUME NEW b \in Bytes PROVE b \in Seq(Int)
  BY CodecAssumption DEF Bytes

LEMMA FiredMore ==
  ASSUME NEW S, NEW s \in Seq(S), NEW m \in S
  PROVE  /\ Append(s, m) \in Seq(S) /\ Append(s, m) # <<>>
         /\ Len(Append(s, m)) = Len(s) + 1 /\ Len(s) \in Nat
         /\ Append(s, m)[Len(s) + 1] = m /\ Last(Append(s, m)) = m
         /\ \A i \in 1..Len(s) : Append(s, m)[i] = s[i]
  BY DEF Last

LEMMA PassRawIInv == ASSUME IInv, PassRaw PROVE IInv'
<1>1. /\ codecs = <<>> /\ buffer' = Compact(buffer) /\ fired' = Append(fired, Unread(buffer))
      /\ reader' \in {"reading", "ended"} /\ errors' \in {errors, errors + 2}
      /\ codecs' = codecs /\ sent' = sent /\ stream' = stream
  BY DEF PassRaw, Fire
<1>2. /\ TypeOK /\ Sendable(codecs, sent) /\ Passed
      /\ buffer \in [data : Bytes, readIndex : Nat] /\ buffer.readIndex <= Len(buffer.data)
      /\ fired \in Seq(Seq(Int)) /\ errors \in Nat
  BY <1>1 DEF IInv, TypeOK
<1>3. Unread(buffer) = buffer.data /\ Unread(buffer) \in Bytes
  BY <1>2, UnreadBytes DEF Passed
<1>4. /\ buffer' \in [data : Bytes, readIndex : Nat] /\ buffer'.readIndex <= Len(buffer'.data)
      /\ buffer'.readIndex = 0 /\ buffer'.data = buffer.data
  BY <1>1, <1>2, <1>3, UnreadCompact
<1>5. Unread(buffer) \in Seq(Int)
  BY <1>3, BytesAreIntegers
<1>6. fired' \in Seq(Seq(Int)) /\ fired' # <<>> /\ Last(fired') = buffer'.data
  BY <1>1, <1>2, <1>3, <1>4, <1>5, FiredMore
<1>7. errors' \in Nat
  BY <1>1, <1>2
<1>8. TypeOK'
  BY <1>1, <1>2, <1>4, <1>6, <1>7 DEF TypeOK
<1>9. Passed'
  BY <1>1, <1>2, <1>4, <1>6 DEF Passed, AllWritten
<1> QED BY <1>1, <1>2, <1>8, <1>9 DEF IInv

LEMMA NeedMoreIInv == ASSUME IInv, NeedMore PROVE IInv'
<1>1. /\ codecs # <<>> /\ buffer' = Compact(buffer) /\ reader' = "reading"
      /\ Unread(buffer) = <<>> \/ DecodeChain(codecs, Unread(buffer)) = More
      /\ codecs' = codecs /\ sent' = sent /\ stream' = stream /\ fired' = fired /\ errors' = errors
  BY DEF NeedMore, Reader
<1>2. /\ TypeOK /\ Sendable(codecs, sent) /\ Decoded /\ codecs \in Pipelines
      /\ buffer \in [data : Bytes, readIndex : Nat] /\ buffer.readIndex <= Len(buffer.data)
  BY <1>1 DEF IInv, TypeOK
<1>3. /\ buffer' \in [data : Bytes, readIndex : Nat] /\ buffer'.readIndex <= Len(buffer'.data)
      /\ buffer'.readIndex = 0 /\ Unread(buffer') = Unread(buffer)
  BY <1>1, <1>2, UnreadCompact
<1>4. TypeOK'
  BY <1>1, <1>2, <1>3 DEF TypeOK
<1>5. Decoded'
  BY <1>1, <1>2, <1>3 DEF Decoded, AllWritten
<1> DEFINE n == Len(fired)
           e == EncodeChain(codecs, sent[n + 1])
           u == Unread(buffer)
<1>6. ASSUME n < Len(sent) PROVE Len(u) < Len(e)
  <2>1. CASE u = <<>>
    <3>1. n + 1 \in 1..Len(sent)
      BY <1>2, <1>6 DEF TypeOK
    <3>2. sent[n + 1] \in Msgs /\ Encodable(codecs, sent[n + 1])
      BY <1>2, <3>1, ElementOfSeq DEF Sendable
    <3>3. Len(e) > 0
      BY <1>1, <1>2, <3>2, FrameIsBytes
    <3>4. Len(u) = 0
      BY <2>1
    <3> QED BY <3>3, <3>4
  <2>2. CASE u # <<>>
    <3>1. DecodeChain(codecs, u) = More
      BY <1>1, <2>2
    <3>2. Decodes(codecs, sent, n, u, stream)
      BY <1>1, <2>2, Upcoming
    <3>3. \A a, b : More # TooLarge /\ More # Message(a, b)
      BY DEF More, TooLarge, Message
    <3>4. DecodeChain(codecs, u) # (IF Fits(codecs, sent[n + 1])
                                    THEN Message(Expected(codecs, sent[n + 1]), Len(e)) ELSE TooLarge)
      BY <3>1, <3>3
    <3> QED BY <3>2, <3>4 DEF Decodes
  <2> QED BY <2>1, <2>2
<1>7. TooFew'
  BY <1>1, <1>3, <1>6 DEF TooFew
<1> QED BY <1>1, <1>2, <1>4, <1>5, <1>7 DEF IInv

LEMMA DecodeFailsIInv == ASSUME IInv, DecodeFails PROVE IInv'
<1>1. /\ codecs # <<>> /\ reader' = "ended" /\ errors' = errors + 1
      /\ codecs' = codecs /\ sent' = sent /\ stream' = stream /\ buffer' = buffer /\ fired' = fired
  BY DEF DecodeFails, Reader
<1>2. TypeOK'
  <2>1. errors' \in Nat
    BY <1>1 DEF IInv, TypeOK
  <2> QED BY <1>1, <2>1 DEF IInv, TypeOK
<1>3. Decoded'
  BY <1>1 DEF IInv, Decoded, AllWritten
<1> QED BY <1>1, <1>2, <1>3 DEF IInv

(* A message that is decoded is the next one, and the unread bytes are     *)
(* those after it.                                                         *)
LEMMA DecodedIsNext ==
  ASSUME IInv, codecs # <<>>, Unread(buffer) # <<>>,
         DecodeChain(codecs, Unread(buffer)).status = "message"
  PROVE  LET m == sent[Len(fired) + 1]
             e == EncodeChain(codecs, m)
         IN /\ DecodeChain(codecs, Unread(buffer)) = Message(Expected(codecs, m), Len(e))
            /\ Fits(codecs, m) /\ Expected(codecs, m) \in Seq(Int)
            /\ \E r \in Bytes :
                 /\ Unread(buffer) = e \o r
                 /\ AllWritten = WrittenOf(codecs, sent, Len(fired) + 1) \o (r \o stream)
<1> DEFINE n == Len(fired)
           m == sent[n + 1]
           e == EncodeChain(codecs, m)
           d == DecodeChain(codecs, Unread(buffer))
<1>1. n + 1 \in 1..Len(sent) /\ Decodes(codecs, sent, n, Unread(buffer), stream)
  BY Upcoming
<1>2. m \in Msgs /\ Encodable(codecs, m) /\ codecs \in Pipelines
  BY <1>1, ElementOfSeq DEF IInv, Sendable
<1>3. d # More /\ d # TooLarge
  <2>1. More.status # "message" /\ TooLarge.status # "message"
    BY DEF More, TooLarge
  <2> QED BY <2>1
<1>4. /\ d = IF Fits(codecs, m) THEN Message(Expected(codecs, m), Len(e)) ELSE TooLarge
      /\ \E r \in Bytes : /\ Unread(buffer) = e \o r
                          /\ AllWritten = WrittenOf(codecs, sent, n + 1) \o (r \o stream)
  BY <1>1, <1>3 DEF Decodes, AllWritten
<1>5. Fits(codecs, m)
  BY <1>3, <1>4
<1>6. d = Message(Expected(codecs, m), Len(e))
  BY <1>4, <1>5
<1>7. Expected(codecs, m) \in Seq(Int)
  <2>1. e \in Seq(Int)
    <3>1. e \in Bytes
      BY <1>2, FrameIsBytes
    <3> QED BY <3>1, BytesAreIntegers
  <2>2. m \in Seq(Int)
    BY <1>2, ConnectionAssumption
  <2> QED BY <2>1, <2>2 DEF Expected
<1> QED BY <1>4, <1>5, <1>6, <1>7

LEMMA DecodeMessageIInv == ASSUME IInv, DecodeMessage PROVE IInv'
<1> DEFINE n == Len(fired)
           m == sent[n + 1]
           e == EncodeChain(codecs, m)
           d == DecodeChain(codecs, Unread(buffer))
<1>1. /\ codecs # <<>> /\ Unread(buffer) # <<>> /\ d.status = "message"
      /\ buffer' = Skip(buffer, d.used) /\ fired' = Append(fired, d.msg)
      /\ reader' \in {"decoding", "ended"} /\ errors' \in {errors, errors + 2}
      /\ codecs' = codecs /\ sent' = sent /\ stream' = stream
  BY DEF DecodeMessage, Fire
<1>2. /\ d = Message(Expected(codecs, m), Len(e))
      /\ Fits(codecs, m) /\ Expected(codecs, m) \in Seq(Int)
      /\ \E r \in Bytes : /\ Unread(buffer) = e \o r
                          /\ AllWritten = WrittenOf(codecs, sent, n + 1) \o (r \o stream)
  BY <1>1, DecodedIsNext
<1>3. PICK r \in Bytes : /\ Unread(buffer) = e \o r
                         /\ AllWritten = WrittenOf(codecs, sent, n + 1) \o (r \o stream)
  BY <1>2
<1>4. d.used = Len(e) /\ d.msg = Expected(codecs, m)
  BY <1>2 DEF Message
<1>5. /\ TypeOK /\ Sendable(codecs, sent) /\ Decoded
      /\ buffer \in [data : Bytes, readIndex : Nat] /\ buffer.readIndex <= Len(buffer.data)
      /\ fired \in Seq(Seq(Int)) /\ errors \in Nat
  BY <1>1 DEF IInv, TypeOK
<1>6. n + 1 \in 1..Len(sent) /\ n \in Nat
  BY <1>1, Upcoming
<1>7. e \in Bytes
  <2>1. m \in Msgs /\ Encodable(codecs, m) /\ codecs \in Pipelines
    BY <1>5, <1>6, ElementOfSeq DEF Sendable
  <2> QED BY <2>1, FrameIsBytes
<1> HIDE DEF d, e, m
<1>8. /\ buffer' \in [data : Bytes, readIndex : Nat] /\ buffer'.readIndex <= Len(buffer'.data)
      /\ Unread(buffer') = r
  <2>1. buffer' = Skip(buffer, Len(e))
    BY <1>1, <1>4
  <2> QED BY <1>3, <1>5, <1>7, <2>1, UnreadSkipped
<1>9. /\ fired' \in Seq(Seq(Int)) /\ Len(fired') = n + 1
      /\ fired'[n + 1] = Expected(codecs, m) /\ \A i \in 1..n : fired'[i] = fired[i]
  BY <1>1, <1>2, <1>4, <1>5, FiredMore
<1>10. errors' \in Nat
  BY <1>1, <1>5
<1>11. TypeOK'
  BY <1>1, <1>5, <1>8, <1>9, <1>10 DEF TypeOK
<1>12. \A i \in 1..n + 1 : fired'[i] = Expected(codecs, sent[i]) /\ Fits(codecs, sent[i])
  <2> SUFFICES ASSUME NEW i \in 1..n + 1
               PROVE  fired'[i] = Expected(codecs, sent[i]) /\ Fits(codecs, sent[i])
    OBVIOUS
  <2>1. CASE i = n + 1
    BY <1>2, <1>9, <2>1 DEF m
  <2>2. CASE i # n + 1
    <3>1. i \in 1..n
      BY <1>6, <2>2
    <3> QED BY <1>5, <1>9, <3>1 DEF Decoded
  <2> QED BY <2>1, <2>2
<1>13. Decoded'
  <2>1. n + 1 <= Len(sent)
    BY <1>6
  <2> HIDE DEF n
  <2> QED BY <1>1, <1>3, <1>8, <1>9, <1>12, <2>1 DEF Decoded, AllWritten
<1> QED BY <1>1, <1>5, <1>11, <1>13 DEF IInv

LEMMA NextIInv == IInv /\ [Next]_vars => IInv'
<1> SUFFICES ASSUME IInv, [Next]_vars PROVE IInv'
  OBVIOUS
<1>1. ASSUME NEW m \in Msgs, Write(m) PROVE IInv'
  BY <1>1, WriteIInv
<1>2. CASE Read
  BY <1>2, ReadIInv
<1>3. CASE ReadEnds
  BY <1>3, ReadEndsIInv
<1>4. CASE PassRaw
  BY <1>4, PassRawIInv
<1>5. CASE NeedMore
  BY <1>5, NeedMoreIInv
<1>6. CASE DecodeFails
  BY <1>6, DecodeFailsIInv
<1>7. CASE DecodeMessage
  BY <1>7, DecodeMessageIInv
<1>8. CASE UNCHANGED vars
  BY <1>8 DEF vars, IInv, TypeOK, Decoded, TooFew, Passed, AllWritten
<1> QED BY <1>1, <1>2, <1>3, <1>4, <1>5, <1>6, <1>7, <1>8 DEF Next, DecodeAndFire

LEMMA Invariance == Spec => []IInv
  BY InitIInv, NextIInv, PTL DEF Spec

-----------------------------------------------------------------------------
(* What is received, in terms of the buffer. *)
LEMMA WrittenIs == \A k : Written(k) = WrittenOf(codecs, sent, k)
  BY DEF Written, WrittenOf

LEMMA ReceivedIs ==
  ASSUME IInv, codecs # <<>>
  PROVE  /\ Received = Boundary(Len(fired)) + Len(Unread(buffer))
         /\ Received \in Nat /\ Boundary(Len(fired)) \in Nat /\ Len(Unread(buffer)) \in Nat
<1> DEFINE W == WrittenOf(codecs, sent, Len(fired))
           u == Unread(buffer)
<1>1. /\ Sendable(codecs, sent) /\ Len(fired) \in 0..Len(sent) /\ stream \in Bytes
      /\ AllWritten = W \o (u \o stream)
  BY DEF IInv, TypeOK, Decoded
<1>2. W \in Bytes
  BY <1>1, WrittenBytes
<1>3. u \in Bytes
  BY UnreadBytes DEF IInv, TypeOK
<1> HIDE DEF W, u
<1>4. /\ u \o stream \in Bytes /\ Len(u \o stream) = Len(u) + Len(stream)
      /\ Len(u) \in Nat /\ Len(stream) \in Nat
  BY <1>1, <1>3, ByteParts
<1>5. Len(W \o (u \o stream)) = Len(W) + Len(u \o stream) /\ Len(W) \in Nat
  BY <1>2, <1>4, ByteParts
<1>6. Boundary(Len(sent)) = Len(W \o (u \o stream)) /\ Boundary(Len(fired)) = Len(W)
  BY <1>1, WrittenIs DEF Boundary, AllWritten, W
<1> QED BY <1>4, <1>5, <1>6 DEF Received, u

(* How many messages are complete is well-defined. *)
IsComplete(k) ==
  /\ k \in 0..Len(sent)
  /\ Boundary(k) <= Received
  /\ \A j \in k + 1..Len(sent) : Boundary(j) > Received

LEMMA SomeAreComplete == ASSUME IInv, codecs # <<>> PROVE IsComplete(Complete)
<1>1. Len(sent) \in Nat /\ Received \in Nat
  BY ReceivedIs DEF IInv, TypeOK
<1>2. \A j \in 0..Len(sent) : Boundary(j) \in Nat
  BY WrittenBytes, WrittenIs DEF IInv, Boundary, Bytes
<1>3. Boundary(0) = 0
  BY WrittenStep, WrittenIs DEF Boundary
<1> DEFINE Here(k, h) == k \in 0..h /\ Boundary(k) <= Received /\ \A j \in k + 1..h : Boundary(j) > Received
           G == {h \in Nat : h <= Len(sent) => \E k : Here(k, h)}
<1>4. 0 \in G
  <2>1. Here(0, 0)
    BY <1>1, <1>3
  <2> QED BY <2>1
<1>5. ASSUME NEW h \in Nat, h \in G PROVE h + 1 \in G
  <2> SUFFICES ASSUME h + 1 <= Len(sent) PROVE \E k : Here(k, h + 1)
    OBVIOUS
  <2>0. h + 1 \in 0..Len(sent) /\ h <= Len(sent)
    BY <1>1
  <2>b. Boundary(h + 1) \in Nat
    BY <1>2, <2>0
  <2>1. CASE Boundary(h + 1) <= Received
    <3>1. Here(h + 1, h + 1)
      BY <2>1
    <3> QED BY <3>1
  <2>2. CASE ~ (Boundary(h + 1) <= Received)
    <3>1. PICK k : Here(k, h)
      BY <1>5, <2>0
    <3>2. Boundary(h + 1) > Received
      BY <1>1, <2>b, <2>2
    <3>3. ASSUME NEW j \in k + 1..h + 1 PROVE Boundary(j) > Received
      <4>1. j \in k + 1..h \/ j = h + 1
        BY <3>1
      <4> QED BY <3>1, <3>2, <4>1
    <3>4. k \in 0..h + 1
      BY <3>1
    <3> QED BY <3>1, <3>3, <3>4
  <2> QED BY <2>1, <2>2
<1> HIDE DEF G
<1>6. Len(sent) \in G
  BY <1>1, <1>4, <1>5, NatInduct
<1>7. \E k \in 0..Len(sent) :
        Boundary(k) <= Received /\ \A j \in k + 1..Len(sent) : Boundary(j) > Received
  BY <1>1, <1>6 DEF G
<1> QED BY <1>7 DEF Complete, IsComplete

(* The number of complete messages is between what was given to the        *)
(* handlers and what follows the unread bytes.                             *)
LEMMA CompleteIs ==
  ASSUME IInv, codecs # <<>>
  PROVE  /\ Len(fired) <= Complete
         /\ TooFew => Len(fired) = Complete
<1> DEFINE n == Len(fired)
           N == Len(sent)
           u == Unread(buffer)
           e == EncodeChain(codecs, sent[n + 1])
<1>1. /\ Sendable(codecs, sent) /\ n \in 0..N /\ n \in Nat /\ N \in Nat /\ codecs \in Pipelines
  BY DEF IInv, TypeOK, Decoded
<1>2. /\ Received = Boundary(n) + Len(u)
      /\ Received \in Nat /\ Boundary(n) \in Nat /\ Len(u) \in Nat
  BY ReceivedIs
<1>3. /\ Complete \in 0..N /\ Boundary(Complete) <= Received
      /\ \A j \in Complete + 1..N : Boundary(j) > Received
  BY SomeAreComplete DEF IsComplete
<1>4. n <= Complete
  <2> SUFFICES ASSUME ~ (n <= Complete) PROVE FALSE
    OBVIOUS
  <2>1. n \in Complete + 1..N
    BY <1>1, <1>3
  <2>2. Boundary(n) > Received
    BY <1>3, <2>1
  <2> QED BY <1>2, <2>2
<1>5. ASSUME TooFew, n < Complete PROVE FALSE
  <2>1. n + 1 \in 1..N /\ n + 1 \in 0..N /\ Complete \in n + 1..N
    BY <1>1, <1>3, <1>5
  <2>2. Len(u) < Len(e)
    BY <1>5, <1>1, <2>1 DEF TooFew
  <2>3. e \in Bytes
    <3>1. sent[n + 1] \in Msgs /\ Encodable(codecs, sent[n + 1])
      BY <1>1, <2>1, ElementOfSeq DEF Sendable
    <3> QED BY <1>1, <3>1, FrameIsBytes
  <2>4. Boundary(n + 1) = Boundary(n) + Len(e) /\ Len(e) \in Nat
    <3>1. WrittenOf(codecs, sent, n) \in Bytes
      BY <1>1, WrittenBytes
    <3>2. WrittenOf(codecs, sent, n + 1) = WrittenOf(codecs, sent, n) \o e
      BY <1>1, WrittenStep
    <3> HIDE DEF e
    <3>3. Len(WrittenOf(codecs, sent, n) \o e) = Len(WrittenOf(codecs, sent, n)) + Len(e)
          /\ Len(e) \in Nat
      BY <2>3, <3>1, ByteParts
    <3> QED BY <3>2, <3>3, WrittenIs DEF Boundary
  <2>5. Boundary(n + 1) <= Boundary(Complete) /\ Boundary(Complete) \in Nat
    BY <1>1, <2>1, WrittenGrows, WrittenIs DEF Boundary
  <2> HIDE DEF n, N, u, e
  <2> QED BY <1>2, <1>3, <2>2, <2>4, <2>5
<1> QED BY <1>1, <1>3, <1>4, <1>5

(* The read index of the buffer stays within its data, the stream and the  *)
(* buffer hold bytes, and the handlers are given sequences of integers,    *)
(* whatever the decoders do.                                               *)
THEOREM TypeCorrect == Spec => []TypeOK
<1>1. IInv => TypeOK
  BY DEF IInv
<1> QED BY <1>1, Invariance, PTL

(* Whatever the messages, the codecs and the chunks in which conn.Read     *)
(* returns the stream, decodeAndFire gives the handlers the messages that  *)
(* the other end wrote: whole, once, in order and within the limits.       *)
THEOREM ExactlyWhatWasSent == Spec => []DeliveredAsSent
<1>1. IInv => DeliveredAsSent
  <2> SUFFICES ASSUME IInv, codecs # <<>>
               PROVE  /\ Len(fired) <= Complete
                      /\ \A i \in DOMAIN fired :
                           fired[i] = Expected(codecs, sent[i]) /\ Fits(codecs, sent[i])
    BY DEF DeliveredAsSent
  <2>1. Decoded /\ DOMAIN fired = 1..Len(fired)
    BY DEF IInv, TypeOK
  <2> QED BY <2>1, CompleteIs DEF Decoded
<1> QED BY <1>1, Invariance, PTL

(* When ReadLoop waits in conn.Read, it has given the handlers every       *)
(* message that has arrived as a whole, and keeps only the bytes of the    *)
(* next one; without codecs, the last message was all that has arrived.    *)
THEOREM NothingWaits == Spec => []NothingHeldBack
<1>1. IInv => NothingHeldBack
  <2> SUFFICES ASSUME IInv, reader = "reading" PROVE NothingHeldBack
    BY DEF NothingHeldBack
  <2>1. CASE codecs # <<>>
    <3>1. TooFew /\ buffer.readIndex = 0
      BY <2>1 DEF IInv, TooFew
    <3>2. Len(fired) = Complete
      BY <2>1, <3>1, CompleteIs
    <3>3. Unread(buffer) = buffer.data
      BY <3>1, UnreadBytes DEF IInv, TypeOK
    <3>4. Len(buffer.data) = Received - Boundary(Len(fired))
      <4>1. /\ Received = Boundary(Len(fired)) + Len(buffer.data)
            /\ Boundary(Len(fired)) \in Nat /\ Len(buffer.data) \in Nat
        BY <2>1, <3>3, ReceivedIs
      <4> QED BY <4>1
    <3> QED BY <2>1, <3>1, <3>2, <3>4 DEF NothingHeldBack
  <2>2. CASE codecs = <<>>
    <3>1. /\ AllWritten = buffer.data \o stream
          /\ buffer.data = <<>> \/ Last(fired) = buffer.data
          /\ buffer.data \in Bytes /\ stream \in Bytes
      BY <2>2 DEF IInv, TypeOK, Passed
    <3>2. /\ Len(buffer.data \o stream) = Len(buffer.data) + Len(stream)
          /\ Len(buffer.data) \in Nat /\ Len(stream) \in Nat
          /\ SubSeq(buffer.data \o stream, 1, Len(buffer.data)) = buffer.data
      BY <3>1, ByteParts
    <3>3. Written(Len(sent)) = buffer.data \o stream
      BY <3>1, WrittenIs DEF AllWritten
    <3>4. Received = Len(buffer.data)
      BY <3>2, <3>3 DEF Received, Boundary
    <3>5. Arrived = buffer.data
      BY <3>2, <3>3, <3>4 DEF Arrived
    <3>6. Received > 0 => Last(fired) = Arrived
      <4>1. buffer.data = <<>> => Received = 0
        BY <3>4
      <4>2. Received = 0 => ~ (Received > 0)
        OBVIOUS
      <4> QED BY <3>1, <3>5, <4>1, <4>2
    <3> QED BY <2>2, <3>6 DEF NothingHeldBack
  <2> QED BY <2>1, <2>2
<1> QED BY <1>1, Invariance, PTL

(* No prefix of a message, no chunk and no message before it makes a       *)
(* decoder return an error for a message that is within the limits.        *)
THEOREM OnlyTooLargeOnesFail == Spec => FailsOnTooLargeOnly
<1>1. IInv => [DecodeFails => ~ Fits(codecs, sent[Len(fired) + 1])]_vars
  <2> SUFFICES ASSUME IInv, DecodeFails PROVE ~ Fits(codecs, sent[Len(fired) + 1])
    OBVIOUS
  <2> DEFINE m == sent[Len(fired) + 1]
             e == EncodeChain(codecs, m)
  <2>1. codecs # <<>> /\ Unread(buffer) # <<>> /\ DecodeChain(codecs, Unread(buffer)) = TooLarge
    BY DEF DecodeFails
  <2>2. Decodes(codecs, sent, Len(fired), Unread(buffer), stream)
    BY <2>1, Upcoming
  <2>3. \A a, b : TooLarge # More /\ TooLarge # Message(a, b)
    BY DEF More, TooLarge, Message
  <2>4. Fits(codecs, m) => TooLarge # (IF Fits(codecs, m) THEN Message(Expected(codecs, m), Len(e)) ELSE TooLarge)
    BY <2>3
  <2> QED BY <2>1, <2>2, <2>3, <2>4 DEF Decodes
<1> QED BY <1>1, Invariance, PTL DEF FailsOnTooLargeOnly
============================================================================
