----------------------------- MODULE UpcCapsProofs -----------------------------
(***************************************************************************)
(* What the encoding of the capabilities carries across, for every list of *)
(* entries and every cut of a response: tlv::decode gives back what        *)
(* tlv::encode was given, a response that ends early is refused or         *)
(* understood as far as its whole entries go, and entries that a later     *)
(* version adds change nothing.                                            *)
(*                                                                         *)
(* UpcCaps follows the loops of the code with recursive functions.  That   *)
(* such a function is what its definition says is a lemma of its own       *)
(* (QuotientsAre, ValuesAre, BuffersAre, DecodedIs, AppliedDeviceIs and    *)
(* AppliedHostIs); the inductions are over the sets of numbers for which a *)
(* claim holds.                                                            *)
(***************************************************************************)
EXTENDS UpcCaps, SequenceTheorems, WellFoundedInduction, TLAPS

-----------------------------------------------------------------------------
(* Numbers                                                                 *)

\* A set of numbers that is not empty has a least one.
LEMMA LeastOf ==
  ASSUME NEW T \in SUBSET Nat, T # {}
  PROVE  \E n \in T : \A k \in T : n <= k
<1> DEFINE R == OpToRel(<, Nat)
<1>1. IsWellFoundedOn(R, Nat)
  BY NatLessThanWellFounded
<1>2. PICK n \in T : \A k \in T : ~(<<k, n>> \in R)
  <2> HIDE DEF R
  <2> QED
    BY <1>1, WFMin
<1>3. ASSUME NEW k \in T PROVE n <= k
  <2>1. ~(<<k, n>> \in OpToRel(<, Nat)) /\ k \in Nat /\ n \in Nat
    BY <1>2
  <2> QED
    BY <2>1 DEF OpToRel
<1> QED
  BY <1>3

\* Induction, on the set of the numbers up to n that have a property.
LEMMA UpTo ==
  ASSUME NEW n \in Nat, NEW T, 0 \in T, \A k \in 1..n : k - 1 \in T => k \in T
  PROVE  \A k \in 0..n : k \in T
<1> DEFINE U == {k \in 0..n : k \notin T}
<1> SUFFICES ASSUME U # {} PROVE FALSE
  OBVIOUS
<1>1. U \in SUBSET Nat
  OBVIOUS
<1>2. PICK m \in U : \A k \in U : m <= k
  <2> HIDE DEF U
  <2> QED
    BY <1>1, LeastOf
<1>3. m \in 1..n /\ m - 1 \in 0..n
  BY <1>2
<1>4. m - 1 \in T
  BY <1>2, <1>3
<1> QED
  BY <1>2, <1>3, <1>4

\* F leads from each value to the next, and g follows it from a on.
Leads(F, n, S) == F \in [(1..n) \X S -> S]
Follows(g, a, F, n, S) ==
    g \in [0..n -> S] /\ g[0] = a /\ \A k \in 1..n : g[k] = F[<<k, g[k - 1]>>]

\* A function on 0..n is defined by its first value and its steps.
LEMMA Recursion ==
  ASSUME NEW n \in Nat, NEW S, NEW a, a \in S, NEW F, Leads(F, n, S)
  PROVE  \E g : Follows(g, a, F, n, S)
<1>0. F \in [(1..n) \X S -> S]
  BY DEF Leads
<1> DEFINE Right(g, m) == g[0] = a /\ \A k \in 1..m : g[k] = F[<<k, g[k - 1]>>]
           T == {m \in 0..n : \E g \in [0..n -> S] : Right(g, m)}
<1>1. 0 \in T
  <2> DEFINE g == [k \in 0..n |-> a]
  <2>1. g \in [0..n -> S] /\ Right(g, 0)
    OBVIOUS
  <2> HIDE DEF g
  <2> QED
    BY <2>1
<1>2. ASSUME NEW m \in 1..n, m - 1 \in T PROVE m \in T
  <2>1. PICK g \in [0..n -> S] : Right(g, m - 1)
    BY <1>2
  <2> DEFINE b == F[<<m, g[m - 1]>>]
             h == [g EXCEPT ![m] = b]
  <2>2. g[m - 1] \in S
    OBVIOUS
  <2>3. b \in S
    BY <2>2, <1>0
  <2>4. h \in [0..n -> S] /\ h[m] = b /\ \A k \in 0..n : k # m => h[k] = g[k]
    BY <2>3
  <2> HIDE DEF b, h
  <2>5. h[0] = a
    BY <2>1, <2>4
  <2>6. ASSUME NEW k \in 1..m PROVE h[k] = F[<<k, h[k - 1]>>]
    <3>1. CASE k = m
      <4>1. m - 1 \in 0..n /\ m - 1 # m
        OBVIOUS
      <4>2. h[m - 1] = g[m - 1]
        BY <2>4, <4>1
      <4> QED
        BY <3>1, <2>4, <4>2 DEF b
    <3>2. CASE k # m
      <4>1. k \in 1..(m - 1) /\ k \in 0..n /\ k - 1 \in 0..n /\ k - 1 # m
        BY <3>2
      <4>2. h[k] = g[k] /\ h[k - 1] = g[k - 1]
        BY <2>4, <4>1
      <4> QED
        BY <2>1, <4>1, <4>2
    <3> QED
      BY <3>1, <3>2
  <2> QED
    BY <2>4, <2>5, <2>6
<1>3. n \in T
  <2> HIDE DEF T
  <2> QED
    BY <1>1, <1>2, UpTo
<1> QED
  BY <1>3 DEF Follows

-----------------------------------------------------------------------------
(* to_le_bytes and from_le_bytes                                           *)

\* Dividing by the values of a byte, and putting the rest back
LEMMA ByteOf ==
  ASSUME NEW n \in Nat
  PROVE  n \div Base \in Nat /\ n % Base \in Nat /\ n = (n % Base) + Base * (n \div Base)
  BY CapsAssumption

\* The rest of a number that is below the divisor is the number.
LEMMA Remainder ==
  ASSUME NEW n \in Nat, NEW m \in Nat, n < m
  PROVE  n % m = n
<1> DEFINE q == n \div m
           r == n % m
<1>1. q \in Nat /\ r \in Nat /\ n = m * q + r
  OBVIOUS
<1> HIDE DEF q, r
<1>2. q = 0
  <2> SUFFICES ASSUME q >= 1 PROVE FALSE
    BY <1>1
  <2>1. m * q >= m
    BY <1>1
  <2> QED
    BY <1>1, <2>1
<1>3. r = n
  BY <1>1, <1>2
<1> QED
  BY <1>3 DEF r

\* The quotient is below m when the number is below m times the values of a byte.
LEMMA Smaller ==
  ASSUME NEW n \in Nat, NEW m \in Nat, n < Base * m
  PROVE  n \div Base < m
<1> DEFINE q == n \div Base
<1>1. q \in Nat /\ Base * q <= n
  BY ByteOf, CapsAssumption
<1> HIDE DEF q
<1>2. ASSUME q >= m PROVE Base * m <= Base * q
  BY <1>1, <1>2, CapsAssumption
<1>3. Base * m \in Int /\ Base * q \in Int
  BY <1>1, CapsAssumption
<1>4. q < m
  BY <1>1, <1>2, <1>3
<1> QED
  BY <1>4 DEF q

\* Each quotient is the one before, divided once more.
LEMMA QuotientsAre ==
  ASSUME NEW n \in Nat, NEW w \in Nat
  PROVE  LET q == Quotients(n, w) IN
         /\ q[0] = n /\ \A i \in 1..w : q[i] = q[i - 1] \div Base
         /\ \A i \in 0..w : q[i] \in Nat
<1> DEFINE F == [z \in (1..w) \X Nat |-> z[2] \div Base]
           q == Quotients(n, w)
<1>1. Leads(F, w, Nat)
  BY ByteOf DEF Leads
<1>2. \E g : Follows(g, n, F, w, Nat)
  <2> HIDE DEF F
  <2> QED
    BY <1>1, Recursion
<1>3. PICK g : g \in [0..w -> Nat] /\ g[0] = n /\ \A i \in 1..w : g[i] = F[<<i, g[i - 1]>>]
  BY <1>2 DEF Follows
<1>4. g = [i \in 0..w |-> IF i = 0 THEN n ELSE g[i - 1] \div Base]
  <2>1. ASSUME NEW i \in 1..w PROVE F[<<i, g[i - 1]>>] = g[i - 1] \div Base
    <3>0. i - 1 \in 0..w
      OBVIOUS
    <3>1. i - 1 \in 0..w /\ g[i - 1] \in Nat
      <4> HIDE DEF F
      <4> QED
        BY <1>3, <3>0
    <3> QED
      BY <3>1
  <2> HIDE DEF F
  <2>2. ASSUME NEW i \in 0..w PROVE g[i] = IF i = 0 THEN n ELSE g[i - 1] \div Base
    <3>1. CASE i = 0
      BY <3>1, <1>3
    <3>2. CASE i \in 1..w
      BY <3>2, <1>3, <2>1
    <3> QED
      BY <3>1, <3>2
  <2> QED
    BY <1>3, <2>2
<1>5. q = [i \in 0..w |-> IF i = 0 THEN n ELSE q[i - 1] \div Base]
  BY <1>4, Zenon DEF Quotients
<1>6. \A i \in 0..w : q[i] \in Nat
  <2> HIDE DEF q
  <2> DEFINE T == {i \in 0..w : q[i] \in Nat}
  <2>1. 0 \in T
    BY <1>5
  <2>2. ASSUME NEW i \in 1..w, i - 1 \in T PROVE i \in T
    <3>1. q[i] = q[i - 1] \div Base
      BY <1>5
    <3>2. q[i - 1] \in Nat
      BY <2>2
    <3>3. q[i - 1] \div Base \in Nat
      BY <3>2, ByteOf
    <3> QED
      BY <3>1, <3>3
  <2> HIDE DEF T
  <2>3. \A i \in 0..w : i \in T
    BY <2>1, <2>2, UpTo
  <2> QED
    BY <2>3 DEF T
<1> HIDE DEF q, F
<1>7. q[0] = n
  BY <1>5
<1>8. ASSUME NEW i \in 1..w PROVE q[i] = q[i - 1] \div Base
  BY <1>5
<1> QED
  BY <1>6, <1>7, <1>8 DEF q

\* The bytes of a number are a sequence of numbers.
LEMMA BytesAre ==
  ASSUME NEW n \in Nat, NEW w \in Nat
  PROVE  /\ Bytes(n, w) \in Seq(Nat) /\ Len(Bytes(n, w)) = w
         /\ \A i \in 1..w : Bytes(n, w)[i] = Quotients(n, w)[i - 1] % Base
<1> DEFINE b(i) == Quotients(n, w)[i - 1] % Base
<1>1. ASSUME NEW i \in 1..w PROVE b(i) \in Nat
  <2>1. i - 1 \in 0..w /\ Quotients(n, w)[i - 1] \in Nat
    BY QuotientsAre
  <2> QED
    BY <2>1, ByteOf
<1>2. [i \in 1..w |-> b(i)] \in Seq(Nat)
  <2> HIDE DEF b
  <2> QED
    BY <1>1, IsASeq
<1>3. Bytes(n, w) \in Seq(Nat) /\ Len(Bytes(n, w)) = w
  BY <1>2 DEF Bytes
<1> QED
  BY <1>3 DEF Bytes

\* The number that the last k bytes make
LEMMA ValuesAre ==
  ASSUME NEW b \in Seq(Nat)
  PROVE  LET v == Values(b) n == Len(b) IN
         /\ v[0] = 0 /\ \A k \in 1..n : v[k] = b[n - k + 1] + Base * v[k - 1]
         /\ \A k \in 0..n : v[k] \in Nat
<1> DEFINE n == Len(b)
           F == [z \in (1..n) \X Nat |-> b[n - z[1] + 1] + Base * z[2]]
           v == Values(b)
<1>0. n \in Nat /\ \A k \in 1..n : b[n - k + 1] \in Nat
  <2>1. n \in Nat /\ \A k \in 1..n : n - k + 1 \in 1..Len(b)
    BY LenProperties
  <2> QED
    BY <2>1, ElementOfSeq
<1>n. \A x, y \in Nat : x + Base * y \in Nat
  BY CapsAssumption
<1> HIDE DEF n
<1>1. Leads(F, n, Nat)
  <2>1. ASSUME NEW k \in 1..n, NEW x \in Nat PROVE b[n - k + 1] + Base * x \in Nat
    BY <1>0, <1>n
  <2> QED
    BY <2>1 DEF Leads
<1>2. \E g : Follows(g, 0, F, n, Nat)
  <2> HIDE DEF F
  <2> QED
    BY <1>0, <1>1, Recursion
<1>3. PICK g : g \in [0..n -> Nat] /\ g[0] = 0 /\ \A k \in 1..n : g[k] = F[<<k, g[k - 1]>>]
  BY <1>2 DEF Follows
<1>4. g = [k \in 0..n |-> IF k = 0 THEN 0 ELSE b[n - k + 1] + Base * g[k - 1]]
  <2>1. ASSUME NEW k \in 1..n PROVE F[<<k, g[k - 1]>>] = b[n - k + 1] + Base * g[k - 1]
    <3>0. k - 1 \in 0..n
      BY <1>0
    <3>1. g[k - 1] \in Nat
      <4> HIDE DEF F
      <4> QED
        BY <1>3, <3>0
    <3> QED
      BY <3>1
  <2> HIDE DEF F
  <2>2. ASSUME NEW k \in 0..n
        PROVE  g[k] = IF k = 0 THEN 0 ELSE b[n - k + 1] + Base * g[k - 1]
    <3>1. CASE k = 0
      BY <3>1, <1>3
    <3>2. CASE k \in 1..n
      BY <3>2, <1>3, <2>1
    <3> QED
      BY <3>1, <3>2, <1>0
  <2> QED
    BY <1>3, <2>2
<1>5. v = [k \in 0..n |-> IF k = 0 THEN 0 ELSE b[n - k + 1] + Base * v[k - 1]]
  BY <1>4, Zenon DEF Values, n
<1>6. \A k \in 0..n : v[k] \in Nat
  <2> HIDE DEF v, F
  <2> DEFINE T == {k \in 0..n : v[k] \in Nat}
  <2>1. 0 \in T
    BY <1>0, <1>5
  <2>2. ASSUME NEW k \in 1..n, k - 1 \in T PROVE k \in T
    <3>1. v[k] = b[n - k + 1] + Base * v[k - 1]
      BY <1>0, <1>5
    <3>2. v[k - 1] \in Nat /\ b[n - k + 1] \in Nat
      BY <1>0, <2>2
    <3>3. b[n - k + 1] + Base * v[k - 1] \in Nat
      BY <3>2, <1>n
    <3> QED
      BY <3>1, <3>3
  <2> HIDE DEF T
  <2>3. \A k \in 0..n : k \in T
    BY <1>0, <2>1, <2>2, UpTo
  <2> QED
    BY <2>3 DEF T
<1> HIDE DEF v, F
<1>7. v[0] = 0
  BY <1>0, <1>5
<1>8. ASSUME NEW k \in 1..n PROVE v[k] = b[n - k + 1] + Base * v[k - 1]
  BY <1>0, <1>5
<1> QED
  BY <1>6, <1>7, <1>8 DEF n, v

\* Bytes make a number.
LEMMA NumberIs ==
  ASSUME NEW b \in Seq(Nat)
  PROVE  Number(b) \in Nat
  BY ValuesAre, LenProperties DEF Number

\* The bytes of a number that fits into them give it back.
LEMMA NumberOfBytes ==
  ASSUME NEW n \in Nat, NEW w \in Nat, Quotients(n, w)[w] = 0
  PROVE  Number(Bytes(n, w)) = n
<1> DEFINE q == Quotients(n, w)
           b == Bytes(n, w)
           v == Values(b)
           T == {k \in 0..w : v[k] = q[w - k]}
<1>1. /\ q[0] = n /\ q[w] = 0 /\ \A i \in 0..w : q[i] \in Nat
      /\ \A i \in 1..w : q[i] = q[i - 1] \div Base
  BY QuotientsAre
<1>2. /\ b \in Seq(Nat) /\ Len(b) = w
      /\ \A i \in 1..w : b[i] = q[i - 1] % Base
  BY BytesAre
<1>3. v[0] = 0 /\ \A k \in 1..w : v[k] = b[w - k + 1] + Base * v[k - 1]
  <2> HIDE DEF b
  <2>1. b \in Seq(Nat) /\ Len(b) = w
    BY <1>2
  <2> QED
    BY <2>1, ValuesAre
<1> HIDE DEF q, b, v
<1>4. 0 \in T
  BY <1>1, <1>3
<1>5. ASSUME NEW k \in 1..w, k - 1 \in T PROVE k \in T
  <2> DEFINE m == w - k
  <2>1. m \in 0..w /\ m + 1 \in 1..w /\ w - (k - 1) = m + 1 /\ (m + 1) - 1 = m
    OBVIOUS
  <2>2. v[k] = b[m + 1] + Base * v[k - 1]
    BY <1>3
  <2>3. v[k - 1] = q[m + 1]
    BY <1>5, <2>1
  <2> HIDE DEF m
  <2>4. q[m + 1] = q[m] \div Base /\ b[m + 1] = q[m] % Base
    BY <1>1, <1>2, <2>1
  <2>5. q[m] \in Nat
    BY <1>1, <2>1
  <2>6. q[m] = (q[m] % Base) + Base * (q[m] \div Base)
    BY <2>5, ByteOf
  <2>7. v[k] = q[m]
    BY <2>2, <2>3, <2>4, <2>6
  <2> QED
    BY <2>7 DEF m
<1> HIDE DEF T
<1>6. \A k \in 0..w : k \in T
  BY <1>4, <1>5, UpTo
<1>7. v[w] = q[w - w]
  BY <1>6 DEF T
<1> QED
  BY <1>1, <1>2, <1>7 DEF Number, b, v

\* A quotient is below m when the one before is below m times the values of a byte.
LEMMA Shrinks ==
  ASSUME NEW n \in Nat, NEW w \in Nat, NEW i \in 1..w, NEW m \in Nat,
         Quotients(n, w)[i - 1] < Base * m
  PROVE  Quotients(n, w)[i] < m
<1> DEFINE q == Quotients(n, w)
<1>1. q[i] = q[i - 1] \div Base /\ q[i - 1] \in Nat
  <2>1. i - 1 \in 0..w
    OBVIOUS
  <2> QED
    BY <2>1, QuotientsAre
<1> HIDE DEF q
<1>2. ASSUME NEW x \in Nat, x < Base * m PROVE x \div Base < m
  BY <1>2, Smaller
<1>3. q[i - 1] < Base * m
  BY DEF q
<1>4. q[i] < m
  BY <1>1, <1>2, <1>3
<1> QED
  BY <1>4 DEF q

\* Two, four and eight bytes hold a u16, a u32 and a u64.
LEMMA TwoBytes ==
  ASSUME NEW n \in Nat, n < Base * Base
  PROVE  Quotients(n, 2)[2] = 0
<1> DEFINE q == Quotients(n, 2)
<1>1. q[0] = n /\ \A i \in 0..2 : q[i] \in Nat
  BY QuotientsAre
<1>2. Base \in Nat /\ 1 \in 1..2 /\ 2 \in 1..2 /\ 1 - 1 = 0 /\ 2 - 1 = 1 /\ Base = Base * 1
  BY CapsAssumption
<1>3. q[1] < Base
  BY <1>1, <1>2, Shrinks
<1>4. q[2] < 1
  BY <1>2, <1>3, Shrinks
<1> HIDE DEF q
<1>5. q[2] = 0
  BY <1>1, <1>4
<1> QED
  BY <1>5 DEF q

\* What four bytes leave over of four that are followed by others
LEMMA FourLess ==
  ASSUME NEW n \in Nat, NEW w \in Nat, NEW i \in 0..w, i + 4 <= w, NEW m \in Nat,
         Quotients(n, w)[i] < Base * (Base * (Base * (Base * m)))
  PROVE  Quotients(n, w)[i + 4] < m
<1> DEFINE m1 == Base * m
           m2 == Base * m1
           m3 == Base * m2
           q == Quotients(n, w)
<1>1. m1 \in Nat /\ m2 \in Nat /\ m3 \in Nat
  <2>1. \A x \in Nat : Base * x \in Nat
    BY CapsAssumption
  <2> QED
    BY <2>1
<1>2. /\ i + 1 \in 1..w /\ i + 2 \in 1..w /\ i + 3 \in 1..w /\ i + 4 \in 1..w
      /\ (i + 1) - 1 = i /\ (i + 2) - 1 = i + 1 /\ (i + 3) - 1 = i + 2 /\ (i + 4) - 1 = i + 3
  OBVIOUS
<1>3. q[i] < Base * m3
  OBVIOUS
<1>4. \A k \in 1..w, x \in Nat : q[k - 1] < Base * x => q[k] < x
  BY Shrinks
<1> HIDE DEF q, m1, m2, m3
<1>5. q[i + 1] < m3
  BY <1>1, <1>2, <1>3, <1>4
<1>6. q[i + 2] < m2
  BY <1>1, <1>2, <1>4, <1>5 DEF m3
<1>7. q[i + 3] < m1
  BY <1>1, <1>2, <1>4, <1>6 DEF m2
<1>8. q[i + 4] < m
  BY <1>1, <1>2, <1>4, <1>7 DEF m1
<1> QED
  BY <1>8 DEF q

\* The largest u32, and what it is one less than
LEMMA LargestIs ==
  /\ Largest \in Nat /\ LargestSize \in Nat
  /\ Largest + 1 = Base * (Base * (Base * (Base * 1)))
  /\ LargestSize + 1 = Base * (Base * (Base * (Base * (Largest + 1))))
<1> DEFINE x == Largest + 1
<1>0. Base \in Int /\ Base >= 1
  BY CapsAssumption
<1>1. Base * Base \in Int /\ Base * Base >= 1
  BY <1>0
<1>2. Base * Base * Base \in Int /\ Base * Base * Base >= 1
  BY <1>0, <1>1
<1>3. Base * Base * Base * Base \in Int /\ Base * Base * Base * Base >= 1
  BY <1>0, <1>2
<1>4. Largest \in Nat /\ x = Base * Base * Base * Base /\ x \in Int /\ x >= 1
  BY <1>3 DEF Largest
<1>5. x = Base * (Base * (Base * (Base * 1)))
  BY <1>0, <1>4
<1>6. LargestSize + 1 = x * x
  BY <1>4 DEF LargestSize
<1> HIDE DEF x
<1>7. x * x = Base * (Base * (Base * (Base * x)))
  <2>1. \A y \in Int : (Base * (Base * (Base * (Base * 1)))) * y = Base * (Base * (Base * (Base * y)))
    BY <1>0
  <2> QED
    BY <1>4, <1>5, <2>1
<1>8. x * x \in Int /\ x * x >= 1
  BY <1>4
<1>9. LargestSize = x * x - 1
  BY DEF LargestSize, x
<1> QED
  BY <1>4, <1>5, <1>6, <1>7, <1>8, <1>9 DEF x

\* Four bytes hold a u32.
LEMMA FourBytes ==
  ASSUME NEW n \in Nat, n <= Largest
  PROVE  Quotients(n, 4)[4] = 0
<1> DEFINE q == Quotients(n, 4)
<1>1. q[0] = n /\ \A i \in 0..4 : q[i] \in Nat
  BY QuotientsAre
<1>2. n < Base * (Base * (Base * (Base * 1)))
  BY LargestIs
<1>3. q[0 + 4] < 1
  BY <1>1, <1>2, FourLess
<1> HIDE DEF q
<1>4. q[4] = 0
  BY <1>1, <1>3
<1> QED
  BY <1>4 DEF q

\* Eight bytes hold a u64.
LEMMA EightBytes ==
  ASSUME NEW n \in Nat, n <= LargestSize
  PROVE  Quotients(n, 8)[8] = 0
<1> DEFINE q == Quotients(n, 8)
           x == Largest + 1
<1>1. q[0] = n /\ \A i \in 0..8 : q[i] \in Nat
  BY QuotientsAre
<1>2. n < Base * (Base * (Base * (Base * x))) /\ x \in Nat
  BY LargestIs
<1>3. q[0 + 4] < x
  BY <1>1, <1>2, FourLess
<1>4. q[4] < Base * (Base * (Base * (Base * 1)))
  BY <1>3, LargestIs
<1>5. q[4 + 4] < 1
  BY <1>4, FourLess
<1> HIDE DEF q
<1>6. q[8] = 0
  BY <1>1, <1>5
<1> QED
  BY <1>6 DEF q

-----------------------------------------------------------------------------
(* tlv::encode                                                             *)

\* Entries, and those whose length fits 16 bits
Item == [tag : Nat, value : Seq(Nat)]
Short == {e \in Item : Len(e.value) < Base * Base}

\* What an entry becomes: its tag, its length and its value.
LEMMA EncodeEntryIs ==
  ASSUME NEW e \in Short
  PROVE  LET x == EncodeEntry(e) n == Len(e.value) IN
         /\ n \in Nat /\ x \in Seq(Nat) /\ Len(x) = n + 3
         /\ x[1] = e.tag /\ x[2] = Bytes(n, 2)[1] /\ x[3] = Bytes(n, 2)[2]
         /\ \A i \in 1..n : x[i + 3] = e.value[i]
         /\ Number(Bytes(n, 2)) = n
<1> DEFINE n == Len(e.value)
           v == e.value
           b == Bytes(n, 2)
           t == <<e.tag>>
           x == EncodeEntry(e)
<1>1. e.tag \in Nat /\ v \in Seq(Nat) /\ n \in Nat /\ n < Base * Base
  BY LenProperties DEF Short, Item
<1>2. n % (Base * Base) = n
  <2> DEFINE m == Base * Base
  <2>1. m \in Nat /\ n < m
    BY <1>1, CapsAssumption
  <2> HIDE DEF m, n
  <2>2. n % m = n
    BY <1>1, <2>1, Remainder
  <2> QED
    BY <2>2 DEF m
<1>3. x = (t \o b) \o v
  BY <1>2 DEF EncodeEntry
<1>4. b \in Seq(Nat) /\ Len(b) = 2
  BY <1>1, BytesAre
<1>5. t \in Seq(Nat) /\ Len(t) = 1 /\ t[1] = e.tag
  BY <1>1
<1>6. Number(b) = n
  BY <1>1, TwoBytes, NumberOfBytes
<1> HIDE DEF b, t, x, n, v
<1> DEFINE u == t \o b
<1>7. u \in Seq(Nat) /\ Len(u) = 3 /\ u[1] = e.tag /\ u[2] = b[1] /\ u[3] = b[2]
  <2>1. /\ u \in Seq(Nat) /\ Len(u) = Len(t) + Len(b)
        /\ \A i \in 1..(Len(t) + Len(b)) : u[i] = IF i <= Len(t) THEN t[i] ELSE b[i - Len(t)]
    BY <1>4, <1>5, ConcatProperties
  <2> QED
    BY <1>4, <1>5, <2>1
<1> HIDE DEF u
<1>8. /\ x \in Seq(Nat) /\ Len(x) = Len(u) + Len(v)
      /\ \A i \in 1..(Len(u) + Len(v)) : x[i] = IF i <= Len(u) THEN u[i] ELSE v[i - Len(u)]
  BY <1>1, <1>3, <1>7, ConcatProperties DEF u
<1>9. Len(v) = n
  BY DEF n, v
<1>10. /\ Len(x) = n + 3 /\ x[1] = u[1] /\ x[2] = u[2] /\ x[3] = u[3]
       /\ \A i \in 1..n : x[i + 3] = v[i]
  BY <1>1, <1>7, <1>8, <1>9
<1> QED
  BY <1>1, <1>6, <1>7, <1>8, <1>10 DEF n, v, b, x

\* The buffer after k entries is the one before and the k-th entry.
LEMMA BuffersAre ==
  ASSUME NEW es \in Seq(Short)
  PROVE  LET buf == Buffers(es) n == Len(es) IN
         /\ buf[0] = <<>> /\ \A k \in 1..n : buf[k] = buf[k - 1] \o EncodeEntry(es[k])
         /\ \A k \in 0..n : buf[k] \in Seq(Nat)
<1> DEFINE n == Len(es)
           x(k) == EncodeEntry(es[k])
           S == Seq(Nat)
           F == [z \in (1..n) \X S |-> z[2] \o x(z[1])]
           buf == Buffers(es)
<1>0. n \in Nat /\ <<>> \in S
  BY LenProperties
<1>n. ASSUME NEW k \in 1..n PROVE x(k) \in S
  <2>1. es[k] \in Short
    BY ElementOfSeq
  <2> QED
    BY <2>1, EncodeEntryIs
<1>c. \A a, b \in S : a \o b \in S
  BY ConcatProperties
<1> HIDE DEF n, x, S
<1>1. Leads(F, n, S)
  <2>1. ASSUME NEW k \in 1..n, NEW a \in S PROVE a \o x(k) \in S
    BY <1>n, <1>c
  <2> QED
    BY <2>1 DEF Leads
<1>2. \E g : Follows(g, <<>>, F, n, S)
  <2> HIDE DEF F
  <2> QED
    BY <1>0, <1>1, Recursion
<1>3. PICK g : g \in [0..n -> S] /\ g[0] = <<>> /\ \A k \in 1..n : g[k] = F[<<k, g[k - 1]>>]
  BY <1>2 DEF Follows
<1>4. g = [k \in 0..n |-> IF k = 0 THEN <<>> ELSE g[k - 1] \o x(k)]
  <2>1. ASSUME NEW k \in 1..n PROVE F[<<k, g[k - 1]>>] = g[k - 1] \o x(k)
    <3>0. k - 1 \in 0..n
      BY <1>0
    <3>1. g[k - 1] \in S
      <4> HIDE DEF F
      <4> QED
        BY <1>3, <3>0
    <3> QED
      BY <3>1
  <2> HIDE DEF F
  <2>2. ASSUME NEW k \in 0..n PROVE g[k] = IF k = 0 THEN <<>> ELSE g[k - 1] \o x(k)
    <3>1. CASE k = 0
      BY <3>1, <1>3
    <3>2. CASE k \in 1..n
      BY <3>2, <1>3, <2>1
    <3> QED
      BY <3>1, <3>2, <1>0
  <2> QED
    BY <1>3, <2>2
<1>5. buf = [k \in 0..n |-> IF k = 0 THEN <<>> ELSE buf[k - 1] \o x(k)]
  BY <1>4, Zenon DEF Buffers, n, x
<1> HIDE DEF buf, F
<1>6. buf[0] = <<>>
  BY <1>0, <1>5
<1>7. ASSUME NEW k \in 1..n PROVE buf[k] = buf[k - 1] \o x(k)
  <2>1. k \in 0..n /\ k # 0
    BY <1>0
  <2>2. PICK f : f = buf /\ f = [i \in 0..n |-> IF i = 0 THEN <<>> ELSE buf[i - 1] \o x(i)]
    BY <1>5
  <2>3. f[k] = buf[k - 1] \o x(k)
    BY <2>1, <2>2, Zenon
  <2> QED
    BY <2>2, <2>3
<1>8. \A k \in 0..n : buf[k] \in S
  <2> DEFINE T == {k \in 0..n : buf[k] \in S}
  <2>1. 0 \in T
    BY <1>0, <1>6
  <2>2. ASSUME NEW k \in 1..n, k - 1 \in T PROVE k \in T
    <3>1. buf[k - 1] \in S /\ x(k) \in S
      BY <2>2, <1>n
    <3>2. buf[k - 1] \o x(k) \in S
      BY <3>1, <1>c
    <3>3. k \in 0..n
      BY <1>0
    <3> QED
      BY <1>7, <3>2, <3>3
  <2> HIDE DEF T
  <2>3. \A k \in 0..n : k \in T
    BY <1>0, <2>1, <2>2, UpTo
  <2> QED
    BY <2>3 DEF T
<1> QED
  BY <1>6, <1>7, <1>8 DEF n, x, S, buf

\* Where the k-th entry ends in the data
End(es, k) == Len(Buffers(es)[k])

\* Each entry takes its value and three bytes more.
LEMMA EndsAre ==
  ASSUME NEW es \in Seq(Short)
  PROVE  /\ Len(es) \in Nat /\ End(es, 0) = 0
         /\ \A k \in 0..Len(es) : End(es, k) \in Nat
         /\ \A k \in 1..Len(es) : /\ es[k] \in Short /\ Len(es[k].value) \in Nat
                                  /\ End(es, k) = End(es, k - 1) + 3 + Len(es[k].value)
<1> DEFINE n == Len(es)
           buf == Buffers(es)
<1>1. n \in Nat
  BY LenProperties
<1>2. /\ buf[0] = <<>> /\ \A k \in 1..n : buf[k] = buf[k - 1] \o EncodeEntry(es[k])
      /\ \A k \in 0..n : buf[k] \in Seq(Nat)
  BY BuffersAre
<1>3. \A k \in 0..n : Len(buf[k]) \in Nat
  BY <1>2, LenProperties
<1>4. Len(buf[0]) = 0
  BY <1>2
<1>5. ASSUME NEW k \in 1..n
      PROVE  /\ es[k] \in Short /\ Len(es[k].value) \in Nat
             /\ Len(buf[k]) = Len(buf[k - 1]) + 3 + Len(es[k].value)
  <2> HIDE DEF buf
  <2>1. es[k] \in Short
    BY ElementOfSeq
  <2> DEFINE x == EncodeEntry(es[k])
             m == Len(es[k].value)
  <2>2. x \in Seq(Nat) /\ Len(x) = m + 3 /\ m \in Nat
    BY <2>1, EncodeEntryIs
  <2>3. k - 1 \in 0..n /\ buf[k - 1] \in Seq(Nat) /\ Len(buf[k - 1]) \in Nat
    <3>1. k - 1 \in 0..n
      BY <1>1
    <3> QED
      BY <3>1, <1>2, <1>3
  <2>4. buf[k] = buf[k - 1] \o x
    BY <1>2
  <2> HIDE DEF x, m
  <2>5. Len(buf[k]) = Len(buf[k - 1]) + Len(x)
    BY <2>2, <2>3, <2>4, ConcatProperties
  <2>6. Len(buf[k]) = Len(buf[k - 1]) + 3 + m
    <3> DEFINE a == Len(buf[k])
               b == Len(buf[k - 1])
               c == Len(x)
    <3>1. a = b + c /\ c = m + 3 /\ b \in Nat /\ m \in Nat
      BY <2>2, <2>3, <2>5
    <3> HIDE DEF a, b, c
    <3>2. a = b + 3 + m
      BY <3>1
    <3> QED
      BY <3>2 DEF a, b
  <2> QED
    BY <2>1, <2>2, <2>6 DEF m
<1> QED
  BY <1>1, <1>3, <1>4, <1>5 DEF End

\* What is in the buffer stays there.
LEMMA BuffersGrow ==
  ASSUME NEW es \in Seq(Short), NEW k \in 0..Len(es), NEW j \in 0..k
  PROVE  /\ End(es, j) <= End(es, k) /\ (j < k => End(es, j) + 3 <= End(es, k))
         /\ \A i \in 1..End(es, j) : Buffers(es)[k][i] = Buffers(es)[j][i]
<1> DEFINE n == Len(es)
           buf == Buffers(es)
           e(m) == End(es, m)
           Grown(m) == /\ e(j) <= e(m) /\ (j < m => e(j) + 3 <= e(m))
                       /\ \A i \in 1..e(j) : buf[m][i] = buf[j][i]
           T == {m \in 0..n : j <= m => Grown(m)}
<1>1. /\ n \in Nat /\ \A m \in 0..n : e(m) \in Nat
      /\ \A m \in 1..n : e(m) >= e(m - 1) + 3
  <2>1. n \in Nat /\ \A m \in 0..n : e(m) \in Nat
    BY EndsAre
  <2>2. ASSUME NEW m \in 1..n PROVE e(m) >= e(m - 1) + 3
    <3>1. m - 1 \in 0..n
      BY <2>1
    <3>2. e(m - 1) \in Nat /\ Len(es[m].value) \in Nat /\ e(m) = e(m - 1) + 3 + Len(es[m].value)
      BY <2>1, <3>1, EndsAre
    <3> HIDE DEF e
    <3> QED
      BY <3>2
  <2> QED
    BY <2>1, <2>2
<1>2. /\ \A m \in 1..n : buf[m] = buf[m - 1] \o EncodeEntry(es[m])
      /\ \A m \in 0..n : buf[m] \in Seq(Nat) /\ Len(buf[m]) = e(m)
  BY BuffersAre DEF End
<1> HIDE DEF e, buf
<1>3. j \in 0..n /\ k \in 0..n
  BY <1>1
<1>4. Grown(j)
  BY <1>1, <1>3
<1>5. 0 \in T
  <2>1. j <= 0 => j = 0
    OBVIOUS
  <2> HIDE DEF Grown
  <2> QED
    BY <1>1, <1>4, <2>1
<1>6. ASSUME NEW m \in 1..n, m - 1 \in T PROVE m \in T
  <2>1. CASE j = m
    <3> HIDE DEF Grown
    <3> QED
      BY <2>1, <1>3, <1>4
  <2>2. CASE j > m
    BY <2>2, <1>1, <1>3
  <2>3. CASE j <= m - 1
    <3>1. Grown(m - 1) /\ m - 1 \in 0..n /\ m \in 0..n
      BY <2>3, <1>1, <1>6
    <3>2. e(m) >= e(m - 1) + 3 /\ e(m) \in Nat /\ e(m - 1) \in Nat /\ e(j) \in Nat
      BY <1>1, <1>3, <3>1
    <3>3. ASSUME NEW i \in 1..e(j) PROVE buf[m][i] = buf[j][i]
      <4> DEFINE x == EncodeEntry(es[m])
                 b == buf[m - 1]
      <4>1. b \in Seq(Nat) /\ x \in Seq(Nat) /\ Len(b) = e(m - 1)
        <5>1. es[m] \in Short
          BY EndsAre
        <5> QED
          BY <1>2, <3>1, <5>1, EncodeEntryIs
      <4>2. Len(x) \in Nat /\ buf[m] = b \o x
        <5>1. buf[m] = b \o x
          BY <1>2, <3>1
        <5> HIDE DEF x, b
        <5> QED
          BY <4>1, <5>1, LenProperties
      <4>3. i \in 1..Len(b) /\ b[i] = buf[j][i]
        BY <3>1, <3>2, <4>1
      <4> HIDE DEF x, b
      <4>4. \A l \in 1..(Len(b) + Len(x)) : buf[m][l] = IF l <= Len(b) THEN b[l] ELSE x[l - Len(b)]
        <5>1. \A l \in 1..(Len(b) + Len(x)) : (b \o x)[l] = IF l <= Len(b) THEN b[l] ELSE x[l - Len(b)]
          BY <4>1, ConcatProperties, Zenon
        <5> QED
          BY <4>2, <5>1, Zenon
      <4>5. i \in 1..(Len(b) + Len(x)) /\ i <= Len(b)
        BY <4>1, <4>2, <4>3, <3>2
      <4> QED
        BY <4>3, <4>4, <4>5
    <3> QED
      BY <3>1, <3>2, <3>3
  <2> QED
    BY <2>1, <2>2, <2>3, <1>1, <1>3
<1>7. k \in T
  <2> HIDE DEF T
  <2> QED
    BY <1>1, <1>3, <1>5, <1>6, UpTo
<1>8. Grown(k)
  <2> HIDE DEF Grown
  <2> QED
    BY <1>1, <1>7
<1> QED
  BY <1>8 DEF e, buf

\* Where the bytes of the k-th entry are
LEMMA Layout ==
  ASSUME NEW es \in Seq(Short)
  PROVE  LET data == EncodeAll(es) IN
         /\ data \in Seq(Nat) /\ Len(data) = End(es, Len(es))
         /\ \A k \in 1..Len(es) :
              LET p == End(es, k - 1) v == es[k].value IN
              /\ data[p + 1] = es[k].tag
              /\ data[p + 2] = Bytes(Len(v), 2)[1] /\ data[p + 3] = Bytes(Len(v), 2)[2]
              /\ \A i \in 1..Len(v) : data[p + 3 + i] = v[i]
<1> DEFINE n == Len(es)
           buf == Buffers(es)
           data == EncodeAll(es)
<1>0. n \in Nat /\ n \in 0..n /\ data = buf[n]
  BY LenProperties DEF EncodeAll
<1>1. data \in Seq(Nat) /\ Len(data) = End(es, n)
  BY <1>0, BuffersAre DEF End
<1>2. ASSUME NEW k \in 1..n
      PROVE  LET p == End(es, k - 1) v == es[k].value IN
             /\ data[p + 1] = es[k].tag
             /\ data[p + 2] = Bytes(Len(v), 2)[1] /\ data[p + 3] = Bytes(Len(v), 2)[2]
             /\ \A i \in 1..Len(v) : data[p + 3 + i] = v[i]
  <2> DEFINE p == End(es, k - 1)
             e == es[k]
             v == e.value
             m == Len(v)
             b == buf[k - 1]
             x == EncodeEntry(e)
             y == buf[k]
  <2>1. e \in Short /\ m \in Nat /\ p \in Nat /\ End(es, k) = p + 3 + m
    <3>1. k - 1 \in 0..n
      BY <1>0
    <3> QED
      BY <3>1, EndsAre
  <2>2. /\ x \in Seq(Nat) /\ Len(x) = m + 3
        /\ x[1] = e.tag /\ x[2] = Bytes(m, 2)[1] /\ x[3] = Bytes(m, 2)[2]
        /\ \A i \in 1..m : x[i + 3] = v[i]
    BY <2>1, EncodeEntryIs
  <2>3. b \in Seq(Nat) /\ Len(b) = p /\ y = b \o x
    <3>1. k - 1 \in 0..n
      BY <1>0
    <3> QED
      BY <3>1, BuffersAre DEF End
  <2>4. \A i \in 1..(p + m + 3) : data[i] = y[i]
    <3>1. k \in 0..n /\ k \in 0..n /\ End(es, k) = p + m + 3
      BY <1>0, <2>1
    <3>2. \A i \in 1..End(es, k) : buf[n][i] = buf[k][i]
      BY <1>0, <3>1, BuffersGrow
    <3> QED
      BY <1>0, <3>1, <3>2
  <2> HIDE DEF p, e, v, m, b, x, y, data, n, buf
  <2>5. \A i \in 1..(p + (m + 3)) : y[i] = IF i <= p THEN b[i] ELSE x[i - p]
    <3>1. \A i \in 1..(Len(b) + Len(x)) : (b \o x)[i] = IF i <= Len(b) THEN b[i] ELSE x[i - Len(b)]
      BY <2>2, <2>3, ConcatProperties
    <3>2. Len(b) = p /\ Len(x) = m + 3 /\ y = b \o x
      BY <2>2, <2>3
    <3> QED
      BY <3>1, <3>2
  <2>6. ASSUME NEW i \in 1..(m + 3) PROVE data[p + i] = x[i]
    <3>1. p + i \in 1..(p + m + 3) /\ p + i \in 1..(p + (m + 3)) /\ ~(p + i <= p) /\ (p + i) - p = i
      BY <2>1
    <3> QED
      BY <2>4, <2>5, <3>1
  <2>7. 1 \in 1..(m + 3) /\ 2 \in 1..(m + 3) /\ 3 \in 1..(m + 3)
    BY <2>1
  <2>8. data[p + 1] = e.tag /\ data[p + 2] = Bytes(m, 2)[1] /\ data[p + 3] = Bytes(m, 2)[2]
    BY <2>2, <2>6, <2>7
  <2>9. ASSUME NEW i \in 1..m PROVE data[p + 3 + i] = v[i]
    <3>1. i + 3 \in 1..(m + 3) /\ p + (i + 3) = p + 3 + i
      BY <2>1
    <3>2. data[p + (i + 3)] = x[i + 3]
      BY <2>6, <3>1
    <3> QED
      BY <2>2, <3>1, <3>2
  <2> QED
    BY <2>8, <2>9 DEF p, e, v, m
<1> QED
  BY <1>1, <1>2

-----------------------------------------------------------------------------
(* tlv::decode                                                             *)

\* Where the entry at position p ends, and what it is
EndAt(data, p) == p + 3 + LengthAt(data, p)
EntryAt(data, p) == Entry(data[p + 1], SubSeq(data, p + 4, EndAt(data, p)))

\* An entry that is whole ends behind its header and within the data.
LEMMA EndAtIs ==
  ASSUME NEW data \in Seq(Nat), NEW p \in 0..Len(data), ~Truncated(data, p)
  PROVE  EndAt(data, p) \in (p + 3)..Len(data)
<1>0. Len(data) \in Nat
  BY LenProperties
<1>1. p \in Nat /\ p + 3 <= Len(data)
  BY <1>0 DEF Truncated
<1> DEFINE s == SubSeq(data, p + 2, p + 3)
<1>2. s \in Seq(Nat)
  <2>1. \A i \in (p + 2)..(p + 3) : data[i] \in Nat
    BY <1>0, <1>1, ElementOfSeq
  <2>2. p + 2 \in Int /\ p + 3 \in Int
    BY <1>1
  <2> QED
    BY <2>1, <2>2, SubSeqProperties
<1>3. LengthAt(data, p) \in Nat
  BY <1>2, NumberIs DEF LengthAt
<1>4. EndAt(data, p) <= Len(data)
  BY <1>0, <1>1, <1>3 DEF Truncated, EndAt
<1> QED
  BY <1>0, <1>1, <1>3, <1>4 DEF EndAt

\* What is decoded from a position on is the entry there and what is decoded from
\* its end on.
LEMMA DecodedIs ==
  ASSUME NEW data \in Seq(Nat)
  PROVE  LET f == Decoded(data) n == Len(data) IN
         /\ f[n] = [ok |-> TRUE, entries |-> <<>>]
         /\ \A p \in 0..(n - 1) : Truncated(data, p) => f[p] = [ok |-> FALSE, entries |-> <<>>]
         /\ \A p \in 0..(n - 1) : ~Truncated(data, p) =>
               f[p] = [ok |-> f[EndAt(data, p)].ok,
                       entries |-> <<EntryAt(data, p)>> \o f[EndAt(data, p)].entries]
<1> DEFINE n == Len(data)
           cut(p) == Truncated(data, p)
           next(p) == EndAt(data, p)
           a(x, p) == [ok |-> x.ok, entries |-> <<EntryAt(data, p)>> \o x.entries]
           none == [ok |-> TRUE, entries |-> <<>>]
           bad == [ok |-> FALSE, entries |-> <<>>]
           E(g, p) == IF p = n THEN none ELSE IF cut(p) THEN bad ELSE a(g[next(p)], p)
           f == Decoded(data)
           Right(g, m) == \A p \in (n - m)..n : g[p] = E(g, p)
           T == {m \in 0..n : \E g : Right(g, m)}
<1>1. n \in Nat /\ \A p \in 0..n : ~cut(p) => next(p) \in (p + 3)..n
  BY LenProperties, EndAtIs
<1>2. \E g : Right(g, n)
  <2> HIDE DEF n, cut, next, a, none, bad
  <2>1. 0 \in T
    <3> DEFINE g == [p \in 0..n |-> none]
    <3>1. \A p \in (n - 0)..n : p = n /\ p \in 0..n
      BY <1>1
    <3>2. Right(g, 0)
      BY <3>1
    <3> HIDE DEF Right, g
    <3> QED
      BY <1>1, <3>2
  <2>2. ASSUME NEW m \in 1..n, m - 1 \in T PROVE m \in T
    <3>1. PICK g : Right(g, m - 1)
      BY <2>2
    <3> DEFINE k == n - m
               h == [p \in 0..n |-> IF p = k THEN E(g, k) ELSE g[p]]
    <3>2. k \in 0..n /\ k \in Nat /\ n - (m - 1) = k + 1
      BY <1>1
    <3>3. \A p \in k..n : p \in 0..n /\ (~cut(p) => next(p) \in 0..n /\ next(p) # k)
      BY <1>1, <3>2
    <3> HIDE DEF k
    <3>4. \A p \in 0..n : h[p] = IF p = k THEN E(g, k) ELSE g[p]
      <4> HIDE DEF E
      <4> QED
        OBVIOUS
    <3> HIDE DEF h
    <3>5. \A p \in k..n : ~cut(p) => h[next(p)] = g[next(p)]
      <4> HIDE DEF E
      <4> QED
        BY <3>3, <3>4
    <3>6. ASSUME NEW p \in k..n PROVE E(h, p) = E(g, p)
      BY <3>5
    <3>7. ASSUME NEW p \in k..n PROVE h[p] = E(h, p)
      <4>1. h[p] = E(g, p)
        <5>1. CASE p = k
          <6> HIDE DEF E
          <6> QED
            BY <5>1, <3>3, <3>4
        <5>2. CASE p # k
          <6>1. p \in (n - (m - 1))..n /\ p \in 0..n
            BY <5>2, <1>1, <3>2, <3>3
          <6> HIDE DEF E
          <6>2. g[p] = E(g, p)
            BY <6>1, <3>1
          <6> QED
            BY <5>2, <6>1, <6>2, <3>4
        <5> QED
          BY <5>1, <5>2
      <4> HIDE DEF E
      <4> QED
        BY <4>1, <3>6
    <3>8. Right(h, m)
      <4> HIDE DEF E
      <4> QED
        BY <3>7 DEF k
    <3>9. m \in 0..n
      BY <1>1
    <3> HIDE DEF Right
    <3> QED
      BY <3>8, <3>9
  <2> HIDE DEF T
  <2>3. n \in T
    <3>1. n \in 0..n
      BY <1>1
    <3> QED
      BY <1>1, <2>1, <2>2, <3>1, UpTo
  <2> HIDE DEF Right
  <2> QED
    BY <2>3 DEF T
<1>3. PICK g : \A p \in 0..n : g[p] = E(g, p)
  <2>1. n - n = 0
    BY <1>1
  <2> HIDE DEF n, E
  <2> QED
    BY <1>2, <2>1
<1> DEFINE h == [p \in 0..n |-> g[p]]
<1>4. h = [p \in 0..n |-> E(h, p)]
  <2> HIDE DEF n, cut, next, a, none, bad
  <2>1. ASSUME NEW p \in 0..n PROVE g[p] = E(h, p)
    <3>1. ~cut(p) => next(p) \in 0..n
      BY <1>1
    <3>2. ~cut(p) => h[next(p)] = g[next(p)]
      BY <3>1
    <3> HIDE DEF h
    <3>3. E(h, p) = E(g, p)
      BY <3>2
    <3> HIDE DEF E
    <3> QED
      BY <1>3, <3>3
  <2> HIDE DEF E
  <2> QED
    BY <2>1, Zenon
<1>5. f = [p \in 0..n |-> E(f, p)]
  <2> HIDE DEF h
  <2> QED
    BY <1>4, Zenon DEF Decoded, EndAt, EntryAt
<1> HIDE DEF n, cut, next, a, none, bad, f
<1>6. ASSUME NEW p \in 0..n PROVE f[p] = E(f, p)
  <2> HIDE DEF E
  <2>1. PICK x : x = f /\ x = [q \in 0..n |-> E(f, q)]
    BY <1>5
  <2>2. x[p] = E(f, p)
    BY <2>1, Zenon
  <2> QED
    BY <2>1, <2>2
<1>7. n \in 0..n /\ \A p \in 0..(n - 1) : p \in 0..n /\ p # n
  BY <1>1
<1>8. f[n] = none
  BY <1>6, <1>7
<1>9. ASSUME NEW p \in 0..(n - 1) PROVE f[p] = IF cut(p) THEN bad ELSE a(f[next(p)], p)
  <2>1. f[p] = E(f, p) /\ p # n
    <3> HIDE DEF E
    <3> QED
      BY <1>6, <1>7
  <2> QED
    BY <2>1
<1>10. \A p \in 0..(n - 1) : cut(p) => f[p] = bad
  BY <1>9
<1>11. \A p \in 0..(n - 1) : ~cut(p) => f[p] = a(f[next(p)], p)
  BY <1>9
<1> QED
  BY <1>8, <1>10, <1>11 DEF n, cut, next, a, none, bad, f

\* The first n bytes of the data
LEMMA CutIs ==
  ASSUME NEW data \in Seq(Nat), NEW n \in 0..Len(data)
  PROVE  LET d == SubSeq(data, 1, n) IN
         d \in Seq(Nat) /\ Len(d) = n /\ \A i \in 1..n : d[i] = data[i]
<1>1. Len(data) \in Nat /\ n \in Int /\ 1 \in Int /\ n >= 0
  BY LenProperties
<1>2. \A i \in 1..n : data[i] \in Nat
  BY <1>1, ElementOfSeq
<1> DEFINE d == SubSeq(data, 1, n)
<1>3. /\ d \in Seq(Nat) /\ Len(d) = IF 1 <= n THEN n - 1 + 1 ELSE 0
      /\ \A i \in 1..(n - 1 + 1) : d[i] = data[1 + i - 1]
  BY <1>1, <1>2, SubSeqProperties
<1> HIDE DEF d
<1>4. Len(d) = n
  BY <1>1, <1>3
<1>5. ASSUME NEW i \in 1..n PROVE d[i] = data[i]
  <2>1. i \in 1..(n - 1 + 1) /\ 1 + i - 1 = i
    BY <1>1
  <2> QED
    BY <1>3, <2>1
<1> QED
  BY <1>3, <1>4, <1>5 DEF d

\* A part of a sequence that is like another sequence is that sequence.
LEMMA PartIs ==
  ASSUME NEW d \in Seq(Nat), NEW s \in Seq(Nat), NEW p \in Nat, p + Len(s) <= Len(d),
         \A i \in 1..Len(s) : d[p + i] = s[i]
  PROVE  SubSeq(d, p + 1, p + Len(s)) = s
<1> DEFINE m == Len(s)
           x == SubSeq(d, p + 1, p + m)
<1>1. m \in Nat /\ Len(d) \in Nat /\ p + m <= Len(d)
  BY LenProperties
<1> HIDE DEF m
<1>2. \A i \in (p + 1)..(p + m) : d[i] \in Nat
  BY <1>1, ElementOfSeq
<1>3. /\ x \in Seq(Nat) /\ Len(x) = IF p + 1 <= p + m THEN (p + m) - (p + 1) + 1 ELSE 0
      /\ \A i \in 1..((p + m) - (p + 1) + 1) : x[i] = d[(p + 1) + i - 1]
  <2>1. p + 1 \in Int /\ p + m \in Int
    BY <1>1
  <2> QED
    BY <1>2, <2>1, SubSeqProperties
<1> HIDE DEF x
<1>4. Len(x) = m
  BY <1>1, <1>3
<1>5. ASSUME NEW i \in 1..m PROVE x[i] = s[i]
  <2>1. i \in 1..((p + m) - (p + 1) + 1) /\ (p + 1) + i - 1 = p + i
    BY <1>1
  <2>2. d[p + i] = s[i]
    BY DEF m
  <2> QED
    BY <1>3, <2>1, <2>2
<1>6. x = s
  <2>1. Len(x) = Len(s) /\ \A i \in 1..Len(x) : x[i] = s[i]
    BY <1>4, <1>5 DEF m
  <2> QED
    BY <1>3, <2>1, SeqEqual
<1> QED
  BY <1>6 DEF x, m

\* An entry of which three bytes came has its length in them.
LEMMA LengthIs ==
  ASSUME NEW es \in Seq(Short), NEW n \in 0..Len(EncodeAll(es)), NEW k \in 1..Len(es),
         End(es, k - 1) + 3 <= n
  PROVE  LengthAt(SubSeq(EncodeAll(es), 1, n), End(es, k - 1)) = Len(es[k].value)
<1> DEFINE data == EncodeAll(es)
           d == SubSeq(data, 1, n)
           p == End(es, k - 1)
           m == Len(es[k].value)
           b == Bytes(m, 2)
<1>1. p \in Nat /\ m \in Nat /\ es[k] \in Short
  <2>1. k - 1 \in 0..Len(es)
    BY EndsAre
  <2> QED
    BY <2>1, EndsAre
<1>2. data \in Seq(Nat) /\ data[p + 2] = b[1] /\ data[p + 3] = b[2]
  BY Layout
<1>3. d \in Seq(Nat) /\ Len(d) = n /\ \A i \in 1..n : d[i] = data[i]
  BY <1>2, CutIs
<1>4. b \in Seq(Nat) /\ Len(b) = 2 /\ Number(b) = m
  BY <1>1, BytesAre, EncodeEntryIs
<1>5. n \in Nat /\ p + 3 <= n
  BY <1>2, LenProperties
<1> HIDE DEF data, d, p, m, b
<1>6. (p + 1) + Len(b) <= Len(d) /\ p + 1 \in Nat
  BY <1>1, <1>3, <1>4, <1>5
<1>7. d[(p + 1) + 1] = b[1] /\ d[(p + 1) + 2] = b[2]
  <2>1. p + 2 \in 1..n /\ p + 3 \in 1..n /\ (p + 1) + 1 = p + 2 /\ (p + 1) + 2 = p + 3
    BY <1>1, <1>5
  <2> QED
    BY <1>2, <1>3, <2>1
<1>8. \A i \in 1..Len(b) : d[(p + 1) + i] = b[i]
  <2>1. \A i \in 1..2 : i = 1 \/ i = 2
    OBVIOUS
  <2> QED
    BY <1>4, <1>7, <2>1
<1>9. SubSeq(d, (p + 1) + 1, (p + 1) + Len(b)) = b
  BY <1>3, <1>4, <1>6, <1>8, PartIs
<1>10. (p + 1) + 1 = p + 2 /\ (p + 1) + Len(b) = p + 3
  BY <1>1, <1>4
<1>11. LengthAt(d, p) = m
  BY <1>4, <1>9, <1>10 DEF LengthAt
<1> QED
  BY <1>11 DEF data, d, p, m

\* An entry that came whole is read as it was written.
LEMMA ReadsEntry ==
  ASSUME NEW es \in Seq(Short), NEW n \in 0..Len(EncodeAll(es)), NEW k \in 1..Len(es),
         End(es, k) <= n
  PROVE  LET d == SubSeq(EncodeAll(es), 1, n) p == End(es, k - 1) IN
         ~Truncated(d, p) /\ EndAt(d, p) = End(es, k) /\ EntryAt(d, p) = es[k]
<1> DEFINE data == EncodeAll(es)
           d == SubSeq(data, 1, n)
           p == End(es, k - 1)
           q == End(es, k)
           e == es[k]
           v == e.value
           m == Len(v)
<1>1. p \in Nat /\ q \in Nat /\ m \in Nat /\ e \in Short /\ q = p + 3 + m
  <2>1. k - 1 \in 0..Len(es) /\ k \in 0..Len(es)
    BY EndsAre
  <2> QED
    BY <2>1, EndsAre
<1>2. data \in Seq(Nat) /\ data[p + 1] = e.tag /\ \A i \in 1..m : data[p + 3 + i] = v[i]
  BY Layout
<1>3. d \in Seq(Nat) /\ Len(d) = n /\ \A i \in 1..n : d[i] = data[i]
  BY <1>2, CutIs
<1>4. n \in Nat /\ q <= n
  BY <1>2, LenProperties
<1>5. LengthAt(d, p) = m
  <2>1. p + 3 <= n
    <3> HIDE DEF p, q, m
    <3> QED
      BY <1>1, <1>4
  <2> QED
    BY <2>1, LengthIs
<1>6. v \in Seq(Nat) /\ e = [tag |-> e.tag, value |-> v]
  BY <1>1 DEF Short, Item
<1>m. m = Len(v)
  OBVIOUS
<1> HIDE DEF data, d, p, q, e, v, m
<1>7. ~Truncated(d, p)
  BY <1>1, <1>3, <1>4, <1>5 DEF Truncated
<1>8. EndAt(d, p) = q
  BY <1>1, <1>5 DEF EndAt
<1>9. d[p + 1] = e.tag /\ \A i \in 1..m : d[(p + 3) + i] = v[i]
  <2>1. p + 1 \in 1..n /\ \A i \in 1..m : p + 3 + i \in 1..n /\ (p + 3) + i = p + 3 + i
    BY <1>1, <1>4
  <2> QED
    BY <1>2, <1>3, <2>1
<1>10. SubSeq(d, p + 4, q) = v
  <2>1. p + 3 \in Nat /\ (p + 3) + Len(v) <= Len(d) /\ (p + 3) + 1 = p + 4 /\ (p + 3) + Len(v) = q
    BY <1>1, <1>3, <1>4, <1>m
  <2>2. \A i \in 1..Len(v) : d[(p + 3) + i] = v[i]
    BY <1>9, <1>m
  <2>3. SubSeq(d, (p + 3) + 1, (p + 3) + Len(v)) = v
    BY <1>3, <1>6, <2>1, <2>2, PartIs
  <2> QED
    BY <2>1, <2>3
<1>11. EntryAt(d, p) = e
  BY <1>6, <1>8, <1>9, <1>10 DEF EntryAt, Entry
<1> QED
  BY <1>7, <1>8, <1>11 DEF data, d, p, q, e

\* An entry of which some bytes are missing is noticed.
LEMMA Breaks ==
  ASSUME NEW es \in Seq(Short), NEW n \in 0..Len(EncodeAll(es)), NEW k \in 1..Len(es),
         End(es, k - 1) < n, n < End(es, k)
  PROVE  Truncated(SubSeq(EncodeAll(es), 1, n), End(es, k - 1))
<1> DEFINE data == EncodeAll(es)
           d == SubSeq(data, 1, n)
           p == End(es, k - 1)
           q == End(es, k)
           m == Len(es[k].value)
<1>1. p \in Nat /\ q \in Nat /\ m \in Nat /\ q = p + 3 + m
  <2>1. k - 1 \in 0..Len(es) /\ k \in 0..Len(es)
    BY EndsAre
  <2> QED
    BY <2>1, EndsAre
<1>2. data \in Seq(Nat)
  BY Layout
<1>3. Len(d) = n /\ n \in Nat
  BY <1>2, CutIs, LenProperties
<1>4. p < n /\ n < q
  OBVIOUS
<1>5. p + 3 <= n => LengthAt(d, p) = m
  BY LengthIs
<1> HIDE DEF data, d, p, q, m
<1>6. ASSUME p + 3 > n PROVE Truncated(d, p)
  BY <1>3, <1>6 DEF Truncated
<1>7. ASSUME p + 3 <= n PROVE Truncated(d, p)
  BY <1>1, <1>3, <1>4, <1>5, <1>7 DEF Truncated
<1>8. Truncated(d, p)
  BY <1>1, <1>3, <1>6, <1>7
<1> QED
  BY <1>8 DEF data, d, p

\* Of a part of the data that ends with the j-th entry, the first j are decoded.
LEMMA DecodesPart ==
  ASSUME NEW es \in Seq(Short), NEW j \in 0..Len(es)
  PROVE  DecodeAll(SubSeq(EncodeAll(es), 1, End(es, j))) = [ok |-> TRUE, entries |-> SubSeq(es, 1, j)]
<1> DEFINE n == End(es, j)
           data == EncodeAll(es)
           d == SubSeq(data, 1, n)
           f == Decoded(d)
           x(k) == [ok |-> TRUE, entries |-> SubSeq(es, k + 1, j)]
           T == {m \in 0..j : f[End(es, j - m)] = x(j - m)}
<1>1. Len(es) \in Nat /\ j \in Nat /\ j <= Len(es) /\ End(es, 0) = 0
  BY EndsAre
<1>2. /\ n \in 0..Len(data) /\ \A k \in 0..j : End(es, k) \in 0..n
      /\ \A k \in 1..j : End(es, k - 1) < n
  <2>1. data \in Seq(Nat) /\ Len(data) = End(es, Len(es))
    BY Layout
  <2>2. \A k \in 0..Len(es) : End(es, k) \in Nat
    BY EndsAre
  <2>3. End(es, j) <= End(es, Len(es))
    <3>1. Len(es) \in 0..Len(es) /\ j \in 0..Len(es)
      BY <1>1
    <3> QED
      BY <3>1, BuffersGrow
  <2>4. ASSUME NEW k \in 0..j PROVE End(es, k) <= n /\ (k < j => End(es, k) + 3 <= n)
    BY BuffersGrow
  <2>5. \A k \in 0..j : k \in 0..Len(es)
    BY <1>1
  <2>6. ASSUME NEW k \in 1..j PROVE End(es, k - 1) < n
    <3>1. k - 1 \in 0..j /\ k - 1 < j
      BY <1>1
    <3>2. End(es, k - 1) \in Nat /\ n \in Nat /\ End(es, k - 1) + 3 <= n
      BY <1>1, <2>2, <2>4, <2>5, <3>1
    <3> QED
      BY <3>2
  <2> QED
    BY <2>1, <2>2, <2>3, <2>4, <2>5, <2>6
<1>3. d \in Seq(Nat) /\ Len(d) = n
  BY <1>2, CutIs, Layout
<1>4. 0 \in T
  <2>1. f[n] = [ok |-> TRUE, entries |-> <<>>]
    BY <1>3, DecodedIs
  <2>2. SubSeq(es, j + 1, j) = <<>>
    BY <1>1, SubSeqEmpty
  <2>3. j - 0 = j /\ 0 \in 0..j
    BY <1>1
  <2> QED
    BY <2>1, <2>2, <2>3
<1>5. ASSUME NEW m \in 1..j, m - 1 \in T PROVE m \in T
  <2> DEFINE k == j - m
             p == End(es, k)
             q == End(es, k + 1)
  <2>1. k \in 0..j /\ k + 1 \in 1..j /\ k + 1 \in 0..j /\ j - (m - 1) = k + 1 /\ (k + 1) - 1 = k
    BY <1>1
  <2>2. f[q] = x(k + 1)
    <3> HIDE DEF k, f, x
    <3> QED
      BY <1>5, <2>1
  <2>3. ~Truncated(d, p) /\ EndAt(d, p) = q /\ EntryAt(d, p) = es[k + 1]
    <3>1. k + 1 \in 1..Len(es) /\ q <= n
      BY <1>1, <1>2, <2>1
    <3> QED
      BY <1>2, <2>1, <3>1, ReadsEntry
  <2>4. p \in 0..(n - 1)
    <3>1. p \in 0..n /\ p < n /\ n \in Nat
      BY <1>2, <2>1
    <3> HIDE DEF p, n
    <3> QED
      BY <3>1
  <2>5. f[p] = [ok |-> f[q].ok, entries |-> <<es[k + 1]>> \o f[q].entries]
    BY <1>3, <2>3, <2>4, DecodedIs
  <2>6. SubSeq(es, k + 1, j) = <<es[k + 1]>> \o SubSeq(es, (k + 1) + 1, j)
    <3>1. k + 1 \in 1..Len(es) /\ j \in (k + 1)..Len(es)
      BY <1>1, <2>1
    <3> QED
      BY <3>1, SubSeqRecursiveFirst
  <2>7. f[p] = x(k)
    <3> DEFINE r == SubSeq(es, (k + 1) + 1, j)
               s == SubSeq(es, k + 1, j)
    <3>1. f[q] = [ok |-> TRUE, entries |-> r]
      BY <2>2
    <3>2. s = <<es[k + 1]>> \o r
      BY <2>6
    <3> HIDE DEF f, p, q, k, r, s
    <3>3. f[q].ok = TRUE /\ f[q].entries = r
      BY <3>1
    <3>4. f[p] = [ok |-> TRUE, entries |-> s]
      BY <2>5, <3>2, <3>3, Zenon
    <3> QED
      BY <3>4 DEF s
  <2>8. m \in 0..j
    BY <1>1
  <2> HIDE DEF f, x
  <2> QED
    BY <2>7, <2>8
<1> HIDE DEF T
<1>6. j \in T
  <2>1. j \in 0..j
    BY <1>1
  <2> QED
    BY <1>1, <1>4, <1>5, <2>1, UpTo
<1>7. f[0] = x(0)
  <2>1. j - j = 0
    BY <1>1
  <2> HIDE DEF f, x
  <2> QED
    BY <1>1, <1>6, <2>1 DEF T
<1>8. 0 + 1 = 1
  OBVIOUS
<1> QED
  BY <1>7, <1>8 DEF DecodeAll

\* A part of the data that ends within an entry is not decoded.
LEMMA RefusesPart ==
  ASSUME NEW es \in Seq(Short), NEW j \in 1..Len(es), NEW n \in 0..Len(EncodeAll(es)),
         End(es, j - 1) < n, n < End(es, j)
  PROVE  DecodeAll(SubSeq(EncodeAll(es), 1, n)).ok = FALSE
<1> DEFINE i == j - 1
           data == EncodeAll(es)
           d == SubSeq(data, 1, n)
           f == Decoded(d)
           T == {m \in 0..i : f[End(es, i - m)].ok = FALSE}
<1>1. /\ Len(es) \in Nat /\ i \in Nat /\ j \in Nat /\ i <= Len(es) /\ j <= Len(es) /\ j = i + 1
      /\ End(es, 0) = 0
  BY EndsAre
<1>2. \A k \in 0..i : End(es, k) \in 0..(n - 1)
  <2>1. \A k \in 0..Len(es) : End(es, k) \in Nat
    BY EndsAre
  <2>2. \A k \in 0..i : End(es, k) <= End(es, i)
    <3>1. i \in 0..Len(es)
      BY <1>1
    <3> QED
      BY <3>1, BuffersGrow
  <2>3. \A k \in 0..i : k \in 0..Len(es)
    BY <1>1
  <2>4. End(es, i) < n /\ n \in Nat /\ i \in 0..i
    <3>1. Len(data) \in Nat
      BY Layout, LenProperties
    <3> QED
      BY <1>1, <3>1
  <2> QED
    BY <2>1, <2>2, <2>3, <2>4
<1>3. d \in Seq(Nat) /\ Len(d) = n
  BY CutIs, Layout
<1>4. 0 \in T
  <2>1. i \in 0..i /\ i - 0 = i /\ 0 \in 0..i
    BY <1>1
  <2>2. End(es, i) \in 0..(n - 1)
    BY <1>2, <2>1
  <2>3. Truncated(d, End(es, i))
    BY Breaks
  <2>4. f[End(es, i)] = [ok |-> FALSE, entries |-> <<>>]
    BY <1>3, <2>2, <2>3, DecodedIs
  <2>5. f[End(es, i)].ok = FALSE
    BY <2>4
  <2> HIDE DEF f, i
  <2> QED
    BY <2>1, <2>5
<1>5. ASSUME NEW m \in 1..i, m - 1 \in T PROVE m \in T
  <2> DEFINE k == i - m
             p == End(es, k)
             q == End(es, k + 1)
  <2>1. k \in 0..i /\ k + 1 \in 1..i /\ k + 1 \in 0..i /\ i - (m - 1) = k + 1 /\ (k + 1) - 1 = k
    BY <1>1
  <2>2. f[q].ok = FALSE
    <3> HIDE DEF k, f
    <3> QED
      BY <1>5, <2>1
  <2>3. p \in 0..(n - 1) /\ q \in 0..(n - 1)
    <3> HIDE DEF k
    <3> QED
      BY <1>2, <2>1
  <2>4. ~Truncated(d, p) /\ EndAt(d, p) = q
    <3>1. k + 1 \in 1..Len(es) /\ q <= n
      BY <1>1, <2>1, <2>3
    <3> QED
      BY <2>1, <3>1, ReadsEntry
  <2>5. f[p] = [ok |-> f[q].ok, entries |-> <<EntryAt(d, p)>> \o f[q].entries]
    BY <1>3, <2>3, <2>4, DecodedIs
  <2>6. f[p].ok = FALSE
    <3> HIDE DEF f, p, q
    <3> QED
      BY <2>2, <2>5
  <2>7. m \in 0..i
    BY <1>1
  <2> HIDE DEF f, i
  <2> QED
    BY <2>6, <2>7
<1> HIDE DEF T
<1>6. i \in T
  <2>1. i \in 0..i
    BY <1>1
  <2> HIDE DEF i
  <2> QED
    BY <1>1, <1>4, <1>5, <2>1, UpTo
<1>7. f[0].ok = FALSE
  <2>1. i - i = 0
    BY <1>1
  <2> HIDE DEF f, i
  <2> QED
    BY <1>1, <1>6, <2>1 DEF T
<1> QED
  BY <1>7 DEF DecodeAll

\* tlv::decode of what tlv::encode wrote gives the entries back, whatever their number,
\* tags and values.
THEOREM RoundTrip ==
  ASSUME NEW es \in Seq(Short)
  PROVE  DecodeAll(EncodeAll(es)) = [ok |-> TRUE, entries |-> es]
<1> DEFINE n == Len(es)
           data == EncodeAll(es)
<1>1. n \in Nat /\ n \in 0..n /\ data \in Seq(Nat) /\ Len(data) = End(es, n)
  BY Layout, LenProperties
<1>2. SubSeq(data, 1, End(es, n)) = data /\ SubSeq(es, 1, n) = es
  <2> HIDE DEF data
  <2>1. SubSeq(data, 1, Len(data)) = data
    BY <1>1, SubSeqFull
  <2>2. SubSeq(es, 1, Len(es)) = es
    BY SubSeqFull
  <2> QED
    BY <1>1, <2>1, <2>2
<1>3. DecodeAll(SubSeq(data, 1, End(es, n))) = [ok |-> TRUE, entries |-> SubSeq(es, 1, n)]
  BY <1>1, DecodesPart
<1> QED
  BY <1>2, <1>3, Zenon

\* tlv::decode of data that ends early: it is refused, unless it ends with an entry, and
\* then the entries up to that one are what is decoded.
THEOREM CutIsNoticed ==
  ASSUME NEW es \in Seq(Short), NEW n \in 0..Len(EncodeAll(es))
  PROVE  LET d == DecodeAll(SubSeq(EncodeAll(es), 1, n)) IN
         \/ d.ok = FALSE /\ n # Len(EncodeAll(es))
         \/ \E j \in 0..Len(es) : /\ n = End(es, j) /\ d = [ok |-> TRUE, entries |-> SubSeq(es, 1, j)]
                                  /\ (n = Len(EncodeAll(es)) => j = Len(es))
<1> DEFINE m == Len(es)
           data == EncodeAll(es)
           d == DecodeAll(SubSeq(data, 1, n))
           U == {k \in 0..m : n <= End(es, k)}
<1>1. /\ m \in Nat /\ m \in 0..m /\ \A k \in 0..m : End(es, k) \in Nat
      /\ End(es, 0) = 0 /\ Len(data) = End(es, m) /\ n \in Nat /\ n <= End(es, m)
  <2>1. Len(data) = End(es, m) /\ m \in Nat /\ m \in 0..m
    BY Layout, LenProperties
  <2> QED
    BY <2>1, EndsAre
<1>2. PICK j \in U : \A k \in U : j <= k
  <2>1. U \in SUBSET Nat /\ m \in U
    BY <1>1
  <2> HIDE DEF U
  <2> QED
    BY <2>1, LeastOf
<1>3. j \in 0..m /\ n <= End(es, j)
  BY <1>2
<1>4. CASE n = End(es, j)
  <2>1. d = [ok |-> TRUE, entries |-> SubSeq(es, 1, j)]
    BY <1>3, <1>4, DecodesPart
  <2>2. n = Len(data) => j = m
    <3> SUFFICES ASSUME n = Len(data), j # m PROVE FALSE
      OBVIOUS
    <3>1. j < m /\ j \in 0..m
      BY <1>1, <1>3
    <3>2. End(es, j) + 3 <= End(es, m)
      BY <1>1, <3>1, BuffersGrow
    <3> QED
      BY <1>1, <1>3, <1>4, <3>2
  <2> QED
    BY <1>3, <1>4, <2>1, <2>2
<1>5. CASE n < End(es, j)
  <2>1. j \in 1..m
    BY <1>1, <1>3, <1>5
  <2>2. End(es, j - 1) < n
    <3>1. j - 1 \in 0..m /\ ~(j <= j - 1)
      BY <1>1, <2>1
    <3>2. j - 1 \notin U
      BY <1>2, <3>1
    <3> QED
      BY <1>1, <3>1, <3>2
  <2>3. d.ok = FALSE
    BY <1>5, <2>1, <2>2, RefusesPart
  <2>4. n # Len(data)
    <3>1. End(es, j) <= End(es, m)
      BY <1>1, <1>3, BuffersGrow
    <3> QED
      BY <1>1, <1>3, <1>5, <3>1
  <2> QED
    BY <2>3, <2>4
<1>6. n = End(es, j) \/ n < End(es, j)
  BY <1>1, <1>3
<1> QED
  BY <1>4, <1>5, <1>6

-----------------------------------------------------------------------------
(* DeviceCapabilities                                                      *)

Capabilities ==
    [ping_timeout : Nat \union {None}, status_supported : BOOLEAN,
     echo_supported : BOOLEAN, max_size : Nat]

\* The first bytes of a value make a number.
LEMMA FirstBytes ==
  ASSUME NEW v \in Seq(Nat), NEW n \in Nat, Len(v) >= n
  PROVE  Number(SubSeq(v, 1, n)) \in Nat
<1>1. n \in 0..Len(v)
  BY LenProperties
<1> QED
  BY <1>1, CutIs, NumberIs

\* Whatever an entry says, what becomes of the capabilities are capabilities.
LEMMA ApplyDeviceType ==
  ASSUME NEW c \in Capabilities, NEW e \in Item
  PROVE  ApplyDevice(c, e) \in Capabilities
<1> DEFINE v == e.value
           four == Number(SubSeq(v, 1, 4))
           eight == Number(SubSeq(v, 1, 8))
<1>1. v \in Seq(Nat)
  BY DEF Item
<1>2. (Len(v) >= 4 => four \in Nat) /\ (Len(v) >= 8 => eight \in Nat)
  <2> HIDE DEF v
  <2> QED
    BY <1>1, FirstBytes
<1>3. \A x \in Nat : x * PerMilli \in Nat
  BY CapsAssumption
<1> DEFINE p == IF four = 0 THEN None ELSE four * PerMilli
           r1 == [c EXCEPT !.ping_timeout = p]
           r2 == [c EXCEPT !.status_supported = v[1] # 0]
           r3 == [c EXCEPT !.max_size = eight]
           r4 == [c EXCEPT !.echo_supported = v[1] # 0]
<1>4. Len(v) >= 4 => r1 \in Capabilities
  <2> SUFFICES ASSUME Len(v) >= 4 PROVE r1 \in Capabilities
    OBVIOUS
  <2> HIDE DEF four, v
  <2>1. p \in Nat \union {None}
    BY <1>2, <1>3
  <2> HIDE DEF p
  <2> QED
    BY <2>1 DEF Capabilities
<1>5. r2 \in Capabilities /\ r4 \in Capabilities
  <2> DEFINE b == v[1] # 0
  <2>1. b \in BOOLEAN
    OBVIOUS
  <2> HIDE DEF b
  <2>2. [c EXCEPT !.status_supported = b] \in Capabilities
    BY <2>1 DEF Capabilities
  <2>3. [c EXCEPT !.echo_supported = b] \in Capabilities
    BY <2>1 DEF Capabilities
  <2> QED
    BY <2>2, <2>3 DEF b
<1>6. Len(v) >= 8 => r3 \in Capabilities
  <2> HIDE DEF eight
  <2> QED
    BY <1>2 DEF Capabilities
<1>7. ApplyDevice(c, e) =
        IF e.tag = TagPingTimeout /\ Len(v) >= 4 THEN r1
        ELSE IF e.tag = TagStatusSupported /\ v # <<>> THEN r2
        ELSE IF e.tag = TagMaxPacketSize /\ Len(v) >= 8 THEN r3
        ELSE IF e.tag = TagEchoSupported /\ v # <<>> THEN r4 ELSE c
  <2> HIDE DEF v
  <2> QED
    BY DEF ApplyDevice, TagPingTimeout, TagStatusSupported, TagMaxPacketSize, TagEchoSupported, v
<1> HIDE DEF r1, r2, r3, r4, v
<1> QED
  BY <1>4, <1>5, <1>6, <1>7

\* The capabilities after k entries are those before, with the k-th entry applied.
LEMMA AppliedDeviceIs ==
  ASSUME NEW es \in Seq(Short)
  PROVE  LET dev == AppliedDevice(es) n == Len(es) IN
         dev[0] = DeviceDefault /\ \A k \in 1..n : dev[k] = ApplyDevice(dev[k - 1], es[k])
<1> DEFINE n == Len(es)
           S == Capabilities
           a == DeviceDefault
           Step(c, k) == ApplyDevice(c, es[k])
           F == [z \in (1..n) \X S |-> Step(z[2], z[1])]
           dev == AppliedDevice(es)
<1>0. n \in Nat
  BY LenProperties
<1>a. a \in S
  <2>1. DefaultMaxSize \in Nat
    BY CapsAssumption DEF DefaultMaxSize
  <2> QED
    BY <2>1 DEF DeviceDefault, Capabilities
<1>n. ASSUME NEW k \in 1..n, NEW c \in S PROVE Step(c, k) \in S
  <2>1. es[k] \in Item
    BY ElementOfSeq DEF Short
  <2> QED
    BY <2>1, ApplyDeviceType
<1> HIDE DEF n, Step, S, a
<1>1. Leads(F, n, S)
  <2>1. \A k \in 1..n : \A c \in S : Step(c, k) \in S
    BY <1>n
  <2> QED
    BY <2>1 DEF Leads
<1>2. \E g : Follows(g, a, F, n, S)
  <2> HIDE DEF F
  <2> QED
    BY <1>0, <1>a, <1>1, Recursion
<1>3. PICK g : g \in [0..n -> S] /\ g[0] = a /\ \A k \in 1..n : g[k] = F[<<k, g[k - 1]>>]
  BY <1>2 DEF Follows
<1>4. g = [k \in 0..n |-> IF k = 0 THEN a ELSE Step(g[k - 1], k)]
  <2>1. ASSUME NEW k \in 1..n PROVE F[<<k, g[k - 1]>>] = Step(g[k - 1], k)
    <3>0. k - 1 \in 0..n
      BY <1>0
    <3>1. g[k - 1] \in S
      <4> HIDE DEF F
      <4> QED
        BY <1>3, <3>0
    <3> QED
      BY <3>1
  <2> HIDE DEF F
  <2>2. ASSUME NEW k \in 0..n PROVE g[k] = IF k = 0 THEN a ELSE Step(g[k - 1], k)
    <3>1. CASE k = 0
      BY <3>1, <1>3
    <3>2. CASE k \in 1..n
      BY <3>2, <1>3, <2>1
    <3> QED
      BY <3>1, <3>2, <1>0
  <2> QED
    BY <1>3, <2>2
<1>5. dev = [k \in 0..n |-> IF k = 0 THEN a ELSE Step(dev[k - 1], k)]
  BY <1>4, Zenon DEF AppliedDevice, n, Step, a
<1> HIDE DEF dev, F
<1>6. dev[0] = a
  BY <1>0, <1>5
<1>7. ASSUME NEW k \in 1..n PROVE dev[k] = Step(dev[k - 1], k)
  <2>1. k \in 0..n /\ k # 0
    BY <1>0
  <2>2. PICK f : f = dev /\ f = [i \in 0..n |-> IF i = 0 THEN a ELSE Step(dev[i - 1], i)]
    BY <1>5
  <2>3. f[k] = Step(dev[k - 1], k)
    BY <2>1, <2>2, Zenon
  <2> QED
    BY <2>2, <2>3
<1> QED
  BY <1>6, <1>7 DEF n, Step, a, dev

\* The first j entries
LEMMA FirstEntries ==
  ASSUME NEW es \in Seq(Short), NEW j \in 0..Len(es)
  PROVE  LET d == SubSeq(es, 1, j) IN
         d \in Seq(Short) /\ Len(d) = j /\ \A i \in 1..j : d[i] = es[i]
<1>1. Len(es) \in Nat /\ j \in Int /\ 1 \in Int /\ j >= 0
  BY LenProperties
<1>2. \A i \in 1..j : es[i] \in Short
  BY <1>1, ElementOfSeq
<1> DEFINE d == SubSeq(es, 1, j)
<1>3. /\ d \in Seq(Short) /\ Len(d) = IF 1 <= j THEN j - 1 + 1 ELSE 0
      /\ \A i \in 1..(j - 1 + 1) : d[i] = es[1 + i - 1]
  BY <1>1, <1>2, SubSeqProperties
<1> HIDE DEF d
<1>4. Len(d) = j
  BY <1>1, <1>3
<1>5. ASSUME NEW i \in 1..j PROVE d[i] = es[i]
  <2>1. i \in 1..(j - 1 + 1) /\ 1 + i - 1 = i
    BY <1>1
  <2> QED
    BY <1>3, <2>1
<1> QED
  BY <1>3, <1>4, <1>5 DEF d

\* What the host makes of the first j entries: later ones are not known to it.
Known(o, j) ==
    [ping_timeout     |-> IF j >= 1 THEN Told(o).ping_timeout ELSE None,
     status_supported |-> IF j >= 2 THEN o.status_supported ELSE FALSE,
     echo_supported   |-> IF j >= 4 THEN o.echo_supported ELSE FALSE,
     max_size         |-> IF j >= 3 THEN o.max_size ELSE DefaultMaxSize]

\* The capabilities that a device can be set to, and the entries of a later version
Offered == {o \in Capabilities : o.max_size <= LargestSize}
Unknown == {e \in Short : e.tag \notin 1..4}

\* The milliseconds that are told fit a u32.
LEMMA MillisFit ==
  ASSUME NEW d \in Nat \union {None}
  PROVE  Millis(d) \in Nat /\ Millis(d) <= Largest
<1>1. Largest \in Nat
  BY LargestIs
<1>2. d \in Nat => d \div PerMilli \in Nat
  BY CapsAssumption
<1>3. None \notin Nat
  BY DEF None
<1> QED
  BY <1>1, <1>2, <1>3 DEF Millis

\* What is told of a device: the timeout of at least a millisecond, and the rest as it is
LEMMA ToldIs ==
  ASSUME NEW o \in Capabilities
  PROVE  Told(o) = [ping_timeout |-> IF Millis(o.ping_timeout) = 0 THEN None
                                     ELSE Millis(o.ping_timeout) * PerMilli,
                    status_supported |-> o.status_supported, echo_supported |-> o.echo_supported,
                    max_size |-> o.max_size]
  BY DEF Told, Capabilities

\* The entries of a device, those of a later version behind them
LEMMA EntriesAre ==
  ASSUME NEW o \in Offered, NEW newer \in Seq(Unknown)
  PROVE  LET es == DeviceEntries(o) \o newer IN
         /\ es \in Seq(Short) /\ Len(es) \in Nat /\ Len(es) >= 4
         /\ \A i \in 1..4 : es[i] = DeviceEntries(o)[i]
         /\ \A i \in 5..Len(es) : es[i] \in Unknown
<1> DEFINE ds == DeviceEntries(o)
           es == ds \o newer
           m == Millis(o.ping_timeout)
<1>1. /\ m \in Nat /\ o.max_size \in Nat /\ o.status_supported \in BOOLEAN
      /\ o.echo_supported \in BOOLEAN
  BY MillisFit DEF Offered, Capabilities
<1>2. Base * Base > 8
  <2>1. Base * Base >= 5 * Base
    BY CapsAssumption
  <2> QED
    BY <2>1, CapsAssumption
<1>3. /\ Bytes(m, 4) \in Seq(Nat) /\ Len(Bytes(m, 4)) = 4
      /\ Bytes(o.max_size, 8) \in Seq(Nat) /\ Len(Bytes(o.max_size, 8)) = 8
  BY <1>1, BytesAre
<1>4. \A b \in BOOLEAN : Bit(b) \in Seq(Nat) /\ Len(Bit(b)) = 1
  BY DEF Bit
<1>5. ASSUME NEW t \in Nat, NEW v \in Seq(Nat), NEW w \in 0..8, Len(v) = w PROVE Entry(t, v) \in Short
  <2> DEFINE x == Base * Base
  <2>1. x \in Int /\ Len(v) < x
    BY <1>2, <1>5, CapsAssumption
  <2> HIDE DEF x
  <2> QED
    BY <2>1 DEF Entry, Short, Item, x
<1>6. /\ Entry(TagPingTimeout, Bytes(m, 4)) \in Short
      /\ Entry(TagStatusSupported, Bit(o.status_supported)) \in Short
      /\ Entry(TagMaxPacketSize, Bytes(o.max_size, 8)) \in Short
      /\ Entry(TagEchoSupported, Bit(o.echo_supported)) \in Short
  BY <1>1, <1>3, <1>4, <1>5
     DEF TagPingTimeout, TagStatusSupported, TagMaxPacketSize, TagEchoSupported
<1>7. ds \in Seq(Short) /\ Len(ds) = 4
  BY <1>6 DEF DeviceEntries
<1>8. newer \in Seq(Short) /\ Len(newer) \in Nat
  <2>1. \A i \in 1..Len(newer) : newer[i] \in Unknown
    BY ElementOfSeq
  <2>2. \A i \in 1..Len(newer) : newer[i] \in Short
    BY <2>1 DEF Unknown
  <2>3. Len(newer) \in Nat /\ newer = [i \in 1..Len(newer) |-> newer[i]]
    BY LenProperties
  <2>4. [i \in 1..Len(newer) |-> newer[i]] \in Seq(Short)
    BY <2>2, <2>3, IsASeq
  <2> QED
    BY <2>3, <2>4
<1> HIDE DEF ds
<1>9. /\ es \in Seq(Short) /\ Len(es) = Len(ds) + Len(newer)
      /\ \A i \in 1..(Len(ds) + Len(newer)) : es[i] = IF i <= Len(ds) THEN ds[i] ELSE newer[i - Len(ds)]
  BY <1>7, <1>8, ConcatProperties
<1> HIDE DEF es
<1>10. ASSUME NEW i \in 1..4 PROVE es[i] = ds[i]
  BY <1>7, <1>8, <1>9
<1>11. ASSUME NEW i \in 5..Len(es) PROVE es[i] \in Unknown
  <2>1. i - 4 \in 1..Len(newer) /\ es[i] = newer[i - 4]
    BY <1>7, <1>8, <1>9
  <2> QED
    BY <2>1, ElementOfSeq
<1> QED
  BY <1>7, <1>8, <1>9, <1>10, <1>11 DEF es, ds

\* The four entries of a device of this version, each understood as it was meant
LEMMA KnownStep ==
  ASSUME NEW o \in Offered
  PROVE  LET ds == DeviceEntries(o) IN
         /\ ApplyDevice(Known(o, 0), ds[1]) = Known(o, 1)
         /\ ApplyDevice(Known(o, 1), ds[2]) = Known(o, 2)
         /\ ApplyDevice(Known(o, 2), ds[3]) = Known(o, 3)
         /\ ApplyDevice(Known(o, 3), ds[4]) = Known(o, 4)
<1> DEFINE m == Millis(o.ping_timeout)
           s == o.max_size
           b4 == Bytes(m, 4)
           b8 == Bytes(s, 8)
           ds == DeviceEntries(o)
<1>1. /\ m \in Nat /\ m <= Largest /\ s \in Nat /\ s <= LargestSize
      /\ o.status_supported \in BOOLEAN /\ o.echo_supported \in BOOLEAN
  BY MillisFit DEF Offered, Capabilities
<1>2. Len(b4) = 4 /\ Number(SubSeq(b4, 1, 4)) = m
  <2>1. b4 \in Seq(Nat) /\ Len(b4) = 4 /\ Number(b4) = m
    BY <1>1, BytesAre, FourBytes, NumberOfBytes
  <2> HIDE DEF b4, m
  <2>2. SubSeq(b4, 1, Len(b4)) = b4
    BY <2>1, SubSeqFull
  <2> QED
    BY <2>1, <2>2
<1>3. Len(b8) = 8 /\ Number(SubSeq(b8, 1, 8)) = s
  <2>1. b8 \in Seq(Nat) /\ Len(b8) = 8 /\ Number(b8) = s
    BY <1>1, BytesAre, EightBytes, NumberOfBytes
  <2> HIDE DEF b8, s
  <2>2. SubSeq(b8, 1, Len(b8)) = b8
    BY <2>1, SubSeqFull
  <2> QED
    BY <2>1, <2>2
<1>4. /\ ds[1].tag = 1 /\ ds[1].value = b4
      /\ ds[2].tag = 2 /\ ds[2].value = Bit(o.status_supported)
      /\ ds[3].tag = 3 /\ ds[3].value = b8
      /\ ds[4].tag = 4 /\ ds[4].value = Bit(o.echo_supported)
  BY DEF DeviceEntries, Entry, TagPingTimeout, TagStatusSupported, TagMaxPacketSize, TagEchoSupported
<1>5. Told(o).ping_timeout = IF m = 0 THEN None ELSE m * PerMilli
  BY ToldIs DEF Offered
<1> HIDE DEF m, s, b4, b8, ds
<1>6. \A b \in BOOLEAN : Bit(b) # <<>> /\ (Bit(b)[1] # 0) = b
  BY DEF Bit
<1> DEFINE t == Told(o).ping_timeout
           st == o.status_supported
           ec == o.echo_supported
           K(p, b, e, n) == [ping_timeout |-> p, status_supported |-> b, echo_supported |-> e, max_size |-> n]
<1>7. /\ Known(o, 0) = K(None, FALSE, FALSE, DefaultMaxSize)
      /\ Known(o, 1) = K(t, FALSE, FALSE, DefaultMaxSize)
      /\ Known(o, 2) = K(t, st, FALSE, DefaultMaxSize)
      /\ Known(o, 3) = K(t, st, FALSE, s)
      /\ Known(o, 4) = K(t, st, ec, s)
  BY DEF Known, s
<1> HIDE DEF t, st, ec
<1>p. ASSUME NEW p, NEW b, NEW e, NEW n, NEW x
      PROVE  /\ [K(p, b, e, n) EXCEPT !.ping_timeout = x] = K(x, b, e, n)
             /\ [K(p, b, e, n) EXCEPT !.status_supported = x] = K(p, x, e, n)
             /\ [K(p, b, e, n) EXCEPT !.echo_supported = x] = K(p, b, x, n)
             /\ [K(p, b, e, n) EXCEPT !.max_size = x] = K(p, b, e, x)
  OBVIOUS
<1>8. ASSUME NEW c, NEW e, e.tag = 1, Len(e.value) >= 4
      PROVE  LET x == Number(SubSeq(e.value, 1, 4)) IN
             ApplyDevice(c, e) = [c EXCEPT !.ping_timeout = IF x = 0 THEN None ELSE x * PerMilli]
  BY <1>8 DEF ApplyDevice, TagPingTimeout, TagStatusSupported, TagMaxPacketSize, TagEchoSupported
<1>9. ASSUME NEW c, NEW e, e.tag = 2, e.value # <<>>
      PROVE  ApplyDevice(c, e) = [c EXCEPT !.status_supported = e.value[1] # 0]
  BY <1>9 DEF ApplyDevice, TagPingTimeout, TagStatusSupported, TagMaxPacketSize, TagEchoSupported
<1>10. ASSUME NEW c, NEW e, e.tag = 3, Len(e.value) >= 8
       PROVE  ApplyDevice(c, e) = [c EXCEPT !.max_size = Number(SubSeq(e.value, 1, 8))]
  BY <1>10 DEF ApplyDevice, TagPingTimeout, TagStatusSupported, TagMaxPacketSize, TagEchoSupported
<1>11. ASSUME NEW c, NEW e, e.tag = 4, e.value # <<>>
       PROVE  ApplyDevice(c, e) = [c EXCEPT !.echo_supported = e.value[1] # 0]
  BY <1>11 DEF ApplyDevice, TagPingTimeout, TagStatusSupported, TagMaxPacketSize, TagEchoSupported
<1>12. ApplyDevice(Known(o, 0), ds[1]) = Known(o, 1)
  <2>0. Len(b4) >= 4
    BY <1>2
  <2>1. ds[1].tag = 1 /\ Len(ds[1].value) >= 4 /\ Number(SubSeq(ds[1].value, 1, 4)) = m
    BY <1>2, <1>4, <2>0, Zenon
  <2>2. ApplyDevice(Known(o, 0), ds[1])
          = [Known(o, 0) EXCEPT !.ping_timeout = IF m = 0 THEN None ELSE m * PerMilli]
    BY <1>8, <2>1, Zenon
  <2>3. ApplyDevice(Known(o, 0), ds[1]) = [K(None, FALSE, FALSE, DefaultMaxSize) EXCEPT !.ping_timeout = t]
    BY <1>5, <1>7, <2>2, Zenon DEF t
  <2> QED
    BY <1>7, <1>p, <2>3, Zenon
<1>13. ApplyDevice(Known(o, 1), ds[2]) = Known(o, 2)
  <2>1. Bit(st) # <<>> /\ (Bit(st)[1] # 0) = st
    BY <1>1, <1>6 DEF st
  <2>2. ApplyDevice(Known(o, 1), ds[2]) = [Known(o, 1) EXCEPT !.status_supported = Bit(st)[1] # 0]
    BY <1>4, <1>9, <2>1 DEF st
  <2>3. ApplyDevice(Known(o, 1), ds[2]) = [Known(o, 1) EXCEPT !.status_supported = st]
    BY <2>1, <2>2, Zenon
  <2>4. ApplyDevice(Known(o, 1), ds[2]) = [K(t, FALSE, FALSE, DefaultMaxSize) EXCEPT !.status_supported = st]
    BY <1>7, <2>3, Zenon
  <2> QED
    BY <1>7, <1>p, <2>4, Zenon
<1>14. ApplyDevice(Known(o, 2), ds[3]) = Known(o, 3)
  <2>0. Len(b8) >= 8
    BY <1>3
  <2>1. ds[3].tag = 3 /\ Len(ds[3].value) >= 8 /\ Number(SubSeq(ds[3].value, 1, 8)) = s
    BY <1>3, <1>4, <2>0, Zenon
  <2>2. ApplyDevice(Known(o, 2), ds[3]) = [Known(o, 2) EXCEPT !.max_size = s]
    BY <1>10, <2>1, Zenon
  <2>3. ApplyDevice(Known(o, 2), ds[3]) = [K(t, st, FALSE, DefaultMaxSize) EXCEPT !.max_size = s]
    BY <1>7, <2>2, Zenon
  <2> QED
    BY <1>7, <1>p, <2>3, Zenon
<1>15. ApplyDevice(Known(o, 3), ds[4]) = Known(o, 4)
  <2>1. Bit(ec) # <<>> /\ (Bit(ec)[1] # 0) = ec
    BY <1>1, <1>6 DEF ec
  <2>2. ApplyDevice(Known(o, 3), ds[4]) = [Known(o, 3) EXCEPT !.echo_supported = Bit(ec)[1] # 0]
    BY <1>4, <1>11, <2>1 DEF ec
  <2>3. ApplyDevice(Known(o, 3), ds[4]) = [Known(o, 3) EXCEPT !.echo_supported = ec]
    BY <2>1, <2>2, Zenon
  <2>4. ApplyDevice(Known(o, 3), ds[4]) = [K(t, st, FALSE, s) EXCEPT !.echo_supported = ec]
    BY <1>7, <2>3, Zenon
  <2> QED
    BY <1>7, <1>p, <2>4, Zenon
<1> QED
  BY <1>12, <1>13, <1>14, <1>15 DEF ds

\* Entries of a later version change nothing.
LEMMA UnknownStep ==
  ASSUME NEW c, NEW e \in Unknown
  PROVE  ApplyDevice(c, e) = c
<1>1. e.tag # 1 /\ e.tag # 2 /\ e.tag # 3 /\ e.tag # 4
  BY DEF Unknown
<1> QED
  BY <1>1 DEF ApplyDevice, TagPingTimeout, TagStatusSupported, TagMaxPacketSize, TagEchoSupported

\* Of the first j entries of a device the host knows as many as there are known ones.
LEMMA KnownIs ==
  ASSUME NEW o \in Offered, NEW newer \in Seq(Unknown),
         NEW j \in 0..Len(DeviceEntries(o) \o newer)
  PROVE  LET es == SubSeq(DeviceEntries(o) \o newer, 1, j) IN
         AppliedDevice(es)[Len(es)] = Known(o, j)
<1> DEFINE ds == DeviceEntries(o)
           all == ds \o newer
           es == SubSeq(all, 1, j)
           f == AppliedDevice(es)
           T == {k \in 0..j : f[k] = Known(o, k)}
<1>1. /\ all \in Seq(Short) /\ Len(all) \in Nat /\ Len(all) >= 4
      /\ \A i \in 1..4 : all[i] = ds[i]
      /\ \A i \in 5..Len(all) : all[i] \in Unknown
  BY EntriesAre
<1>2. j \in 0..Len(all) /\ j \in Nat
  BY <1>1
<1> HIDE DEF all
<1>3. es \in Seq(Short) /\ Len(es) = j /\ \A i \in 1..j : es[i] = all[i]
  BY <1>1, <1>2, FirstEntries
<1> HIDE DEF es
<1>4. f[0] = DeviceDefault /\ \A k \in 1..j : f[k] = ApplyDevice(f[k - 1], es[k])
  BY <1>3, AppliedDeviceIs
<1> HIDE DEF f
<1>5. 0 \in T
  <2>1. Known(o, 0) = DeviceDefault
    BY DEF Known, DeviceDefault
  <2> QED
    BY <1>2, <1>4, <2>1
<1>6. ASSUME NEW k \in 1..j, k - 1 \in T PROVE k \in T
  <2>1. f[k] = ApplyDevice(Known(o, k - 1), all[k]) /\ k \in 0..j
    BY <1>2, <1>3, <1>4, <1>6
  <2>2. CASE k \in 5..Len(all)
    <3>1. f[k] = Known(o, k - 1)
      BY <1>1, <2>1, <2>2, UnknownStep
    <3>2. Known(o, k - 1) = Known(o, k)
      <4>1. /\ k - 1 >= 1 /\ k - 1 >= 2 /\ k - 1 >= 3 /\ k - 1 >= 4
            /\ k >= 1 /\ k >= 2 /\ k >= 3 /\ k >= 4
        BY <2>2
      <4> QED
        BY <4>1, Zenon DEF Known
    <3> QED
      BY <2>1, <3>1, <3>2
  <2>3. CASE k \in 1..4
    <3>1. f[k] = ApplyDevice(Known(o, k - 1), ds[k])
      BY <1>1, <2>1, <2>3
    <3>2. \/ (k = 1 /\ k - 1 = 0) \/ (k = 2 /\ k - 1 = 1)
          \/ (k = 3 /\ k - 1 = 2) \/ (k = 4 /\ k - 1 = 3)
      BY <2>3
    <3>3. f[k] = Known(o, k)
      BY <3>1, <3>2, KnownStep, Zenon
    <3> QED
      BY <2>1, <3>3
  <2> QED
    BY <1>1, <1>2, <2>2, <2>3
<1>7. j \in T
  <2> HIDE DEF T
  <2>1. \A k \in 1..j : k - 1 \in T => k \in T
    BY <1>6
  <2>2. \A k \in 0..j : k \in T
    BY <1>2, <1>5, <2>1, UpTo
  <2> QED
    BY <1>2, <2>2
<1>8. f[Len(es)] = Known(o, j)
  <2>1. f[j] = Known(o, j)
    BY <1>7
  <2> QED
    BY <1>3, <2>1
<1> QED
  BY <1>8 DEF f, es, all

\* The host, whatever the device offers, whatever a later version adds, and however
\* short the response is cut: either it refuses the response, or each value is the one that was
\* told or the default; and a whole response tells all of them.
THEOREM CapsAreUnderstood ==
  ASSUME NEW o \in Offered, NEW newer \in Seq(Unknown), NEW n \in Nat
  PROVE  LET data == EncodeDevice(o, newer)
             heard == DecodeDevice(SubSeq(data, 1, Lesser(n, Len(data)))) IN
         /\ heard # Refusal =>
              \A f \in DOMAIN DeviceDefault : heard[f] \in {DeviceDefault[f], Told(o)[f]}
         /\ n >= Len(data) => heard = Told(o)
<1> DEFINE es == DeviceEntries(o) \o newer
           data == EncodeDevice(o, newer)
           m == Lesser(n, Len(data))
           d == DecodeAll(SubSeq(data, 1, m))
           heard == DecodeDevice(SubSeq(data, 1, m))
<1>1. es \in Seq(Short) /\ Len(es) \in Nat /\ Len(es) >= 4
  BY EntriesAre
<1>2. data = EncodeAll(es)
  BY DEF EncodeDevice
<1> HIDE DEF es
<1>3. Len(data) \in Nat
  BY <1>1, <1>2, Layout, LenProperties
<1>4. m \in 0..Len(data) /\ (n >= Len(data) => m = Len(data))
  BY <1>3 DEF Lesser
<1> HIDE DEF data, m
<1>5. \/ d.ok = FALSE /\ m # Len(data)
      \/ \E j \in 0..Len(es) : /\ d = [ok |-> TRUE, entries |-> SubSeq(es, 1, j)]
                               /\ (m = Len(data) => j = Len(es))
  BY <1>1, <1>2, <1>4, CutIsNoticed
<1>6. heard = IF d.ok THEN AppliedDevice(d.entries)[Len(d.entries)] ELSE Refusal
  BY DEF DecodeDevice
<1> HIDE DEF d, heard
<1>7. CASE d.ok = FALSE /\ m # Len(data)
  BY <1>4, <1>6, <1>7 DEF heard, data, m
<1>8. ASSUME NEW j \in 0..Len(es), d = [ok |-> TRUE, entries |-> SubSeq(es, 1, j)],
             m = Len(data) => j = Len(es)
      PROVE  /\ \A f \in DOMAIN DeviceDefault : heard[f] \in {DeviceDefault[f], Told(o)[f]}
             /\ n >= Len(data) => heard = Told(o)
  <2>1. heard = Known(o, j)
    <3>1. heard = AppliedDevice(SubSeq(es, 1, j))[Len(SubSeq(es, 1, j))]
      BY <1>6, <1>8
    <3> QED
      BY <3>1, KnownIs DEF es
  <2> DEFINE t == Told(o).ping_timeout
  <2>2. /\ Told(o) = [ping_timeout |-> t, status_supported |-> o.status_supported,
                      echo_supported |-> o.echo_supported, max_size |-> o.max_size]
    BY ToldIs DEF Offered
  <2>3. \A f \in DOMAIN DeviceDefault : heard[f] \in {DeviceDefault[f], Told(o)[f]}
    <3> HIDE DEF t
    <3>1. DOMAIN DeviceDefault = {"ping_timeout", "status_supported", "echo_supported", "max_size"}
      BY DEF DeviceDefault
    <3>2. /\ Told(o).ping_timeout = t /\ Told(o).status_supported = o.status_supported
          /\ Told(o).echo_supported = o.echo_supported /\ Told(o).max_size = o.max_size
      BY <2>2
    <3>3. heard.ping_timeout \in {DeviceDefault.ping_timeout, Told(o).ping_timeout}
      BY <2>1 DEF Known, DeviceDefault
    <3>4. heard.status_supported \in {DeviceDefault.status_supported, Told(o).status_supported}
      BY <2>1, <3>2 DEF Known, DeviceDefault
    <3>5. heard.echo_supported \in {DeviceDefault.echo_supported, Told(o).echo_supported}
      BY <2>1, <3>2 DEF Known, DeviceDefault
    <3>6. heard.max_size \in {DeviceDefault.max_size, Told(o).max_size}
      BY <2>1, <3>2 DEF Known, DeviceDefault
    <3> QED
      BY <3>1, <3>3, <3>4, <3>5, <3>6
  <2>4. n >= Len(data) => heard = Told(o)
    <3> SUFFICES ASSUME n >= Len(data) PROVE heard = Told(o)
      OBVIOUS
    <3>1. j >= 1 /\ j >= 2 /\ j >= 3 /\ j >= 4
      BY <1>1, <1>4, <1>8
    <3>2. heard = [ping_timeout |-> t, status_supported |-> o.status_supported,
                   echo_supported |-> o.echo_supported, max_size |-> o.max_size]
      BY <2>1, <3>1, Zenon DEF Known
    <3> QED
      BY <2>2, <3>2, Zenon
  <2> QED
    BY <2>3, <2>4
<1> QED
  BY <1>5, <1>7, <1>8 DEF heard, data, m

-----------------------------------------------------------------------------
(* HostCapabilities                                                        *)

\* Whatever an entry says, the limit stays a number.
LEMMA ApplyHostType ==
  ASSUME NEW s \in Nat, NEW e \in Item
  PROVE  ApplyHost(s, e) \in Nat
<1> DEFINE v == e.value
<1>1. v \in Seq(Nat)
  BY DEF Item
<1>2. Len(v) >= 8 => Number(SubSeq(v, 1, 8)) \in Nat
  <2> HIDE DEF v
  <2> QED
    BY <1>1, FirstBytes
<1> QED
  BY <1>2 DEF ApplyHost

\* The host's limit after k entries is the one before, with the k-th entry applied.
LEMMA AppliedHostIs ==
  ASSUME NEW es \in Seq(Short)
  PROVE  LET size == AppliedHost(es) n == Len(es) IN
         size[0] = DefaultMaxSize /\ \A k \in 1..n : size[k] = ApplyHost(size[k - 1], es[k])
<1> DEFINE n == Len(es)
           S == Nat
           a == DefaultMaxSize
           Step(c, k) == ApplyHost(c, es[k])
           F == [z \in (1..n) \X S |-> Step(z[2], z[1])]
           size == AppliedHost(es)
<1>0. n \in Nat
  BY LenProperties
<1>a. a \in S
  BY CapsAssumption DEF DefaultMaxSize
<1>n. ASSUME NEW k \in 1..n, NEW c \in S PROVE Step(c, k) \in S
  <2>1. es[k] \in Item
    BY ElementOfSeq DEF Short
  <2> QED
    BY <2>1, ApplyHostType
<1> HIDE DEF n, Step, S, a
<1>1. Leads(F, n, S)
  <2>1. \A k \in 1..n : \A c \in S : Step(c, k) \in S
    BY <1>n
  <2> QED
    BY <2>1 DEF Leads
<1>2. \E g : Follows(g, a, F, n, S)
  <2> HIDE DEF F
  <2> QED
    BY <1>0, <1>a, <1>1, Recursion
<1>3. PICK g : g \in [0..n -> S] /\ g[0] = a /\ \A k \in 1..n : g[k] = F[<<k, g[k - 1]>>]
  BY <1>2 DEF Follows
<1>4. g = [k \in 0..n |-> IF k = 0 THEN a ELSE Step(g[k - 1], k)]
  <2>1. ASSUME NEW k \in 1..n PROVE F[<<k, g[k - 1]>>] = Step(g[k - 1], k)
    <3>0. k - 1 \in 0..n
      BY <1>0
    <3>1. g[k - 1] \in S
      <4> HIDE DEF F
      <4> QED
        BY <1>3, <3>0
    <3> QED
      BY <3>1
  <2> HIDE DEF F
  <2>2. ASSUME NEW k \in 0..n PROVE g[k] = IF k = 0 THEN a ELSE Step(g[k - 1], k)
    <3>1. CASE k = 0
      BY <3>1, <1>3
    <3>2. CASE k \in 1..n
      BY <3>2, <1>3, <2>1
    <3> QED
      BY <3>1, <3>2, <1>0
  <2> QED
    BY <1>3, <2>2
<1>5. size = [k \in 0..n |-> IF k = 0 THEN a ELSE Step(size[k - 1], k)]
  BY <1>4, Zenon DEF AppliedHost, n, Step, a
<1> HIDE DEF size, F
<1>6. size[0] = a
  BY <1>0, <1>5
<1>7. ASSUME NEW k \in 1..n PROVE size[k] = Step(size[k - 1], k)
  <2>1. k \in 0..n /\ k # 0
    BY <1>0
  <2>2. PICK f : f = size /\ f = [i \in 0..n |-> IF i = 0 THEN a ELSE Step(size[i - 1], i)]
    BY <1>5
  <2>3. f[k] = Step(size[k - 1], k)
    BY <2>1, <2>2, Zenon
  <2> QED
    BY <2>2, <2>3
<1> QED
  BY <1>6, <1>7 DEF n, Step, a, size

\* The device, of a host of this version: the limit that a u64 holds arrives as it is.
THEOREM LimitIsUnderstood ==
  ASSUME NEW s \in Nat, s <= LargestSize
  PROVE  DecodeHost(EncodeHost(s)) = s
<1> DEFINE b == Bytes(s, 8)
           e == Entry(TagMaxPacketSize, b)
           es == HostEntries(s)
<1>1. b \in Seq(Nat) /\ Len(b) = 8 /\ Number(b) = s
  BY BytesAre, EightBytes, NumberOfBytes
<1>2. Base * Base > 8
  <2>1. Base * Base >= 5 * Base
    BY CapsAssumption
  <2> QED
    BY <2>1, CapsAssumption
<1> HIDE DEF b
<1>3. e \in Short
  <2> DEFINE x == Base * Base
  <2>1. x \in Int /\ Len(b) < x
    BY <1>1, <1>2, CapsAssumption
  <2> HIDE DEF x
  <2> QED
    BY <1>1, <2>1 DEF Entry, Short, Item, x, TagMaxPacketSize
<1>4. es = <<e>>
  BY DEF HostEntries, b
<1>5. ApplyHost(DefaultMaxSize, e) = s
  <2>1. SubSeq(b, 1, Len(b)) = b
    BY <1>1, SubSeqFull
  <2>a. SubSeq(b, 1, 8) = b /\ Number(b) = s
    BY <1>1, <2>1, Zenon
  <2>b. Len(b) >= 8
    BY <1>1
  <2>2. Number(SubSeq(b, 1, 8)) = s /\ Len(b) >= 8
    BY <2>a, <2>b, Zenon
  <2>3. e.tag = TagMaxPacketSize /\ e.value = b
    BY DEF Entry
  <2> HIDE DEF e
  <2> QED
    BY <2>2, <2>3, Zenon DEF ApplyHost
<1> HIDE DEF e, es
<1>6. es \in Seq(Short) /\ Len(es) = 1 /\ es[1] = e
  BY <1>3, <1>4
<1>7. AppliedHost(es)[1] = s
  <2> DEFINE f == AppliedHost(es)
  <2>1. f[0] = DefaultMaxSize /\ \A k \in 1..Len(es) : f[k] = ApplyHost(f[k - 1], es[k])
    BY <1>6, AppliedHostIs
  <2> HIDE DEF f
  <2>2. f[1] = ApplyHost(f[1 - 1], es[1])
    BY <1>6, <2>1
  <2>3. f[1] = ApplyHost(f[0], e)
    BY <1>6, <2>2
  <2>4. f[1] = s
    BY <1>5, <2>1, <2>3, Zenon
  <2> QED
    BY <2>4 DEF f
<1>8. DecodeAll(EncodeAll(es)) = [ok |-> TRUE, entries |-> es]
  BY <1>6, RoundTrip
<1>9. DecodeHost(EncodeAll(es)) = AppliedHost(es)[Len(es)]
  BY <1>8 DEF DecodeHost
<1> QED
  BY <1>6, <1>7, <1>9 DEF EncodeHost, es
================================================================================
