---------------------------- MODULE UpcFramingProofs ----------------------------
(***************************************************************************)
(* Chains of pieces, and what the operators of UpcFraming do to them.      *)
(*                                                                         *)
(* A stage of a direction of UPC holds pieces that follow one another in   *)
(* the stream of packets s: they were cut with a unit m (the USB packet or *)
(* the transfer buffer), so one that is shorter than the unit is the last  *)
(* of its packet.  A position of the stream is a packet and a byte of it.  *)
(* The stages of a direction hang together when each begins at the         *)
(* position where the one before ends.                                     *)
(***************************************************************************)
EXTENDS UpcFraming, SequenceTheorems, WellFoundedInduction, TLAPS

Pos(i, o) == [of |-> i, at |-> o]
Start(x) == Pos(x.of, x.from)
After(x, m) == IF x.len = m THEN Pos(x.of, x.from + m) ELSE Pos(x.of + 1, 0)

\* x is what a cut with unit m makes of its packet at its place.
Fits(x, m, s) ==
    /\ x.of \in DOMAIN s /\ x.from \in Nat /\ x.len \in Nat /\ x.from <= s[x.of].len
    /\ x.len = IF s[x.of].len - x.from >= m THEN m ELSE s[x.of].len - x.from

Chain(p, q, m, s) ==
    /\ \A j \in 1..Len(q) : Fits(q[j], m, s)
    /\ \A j \in 1..(Len(q) - 1) : Start(q[j + 1]) = After(q[j], m)
    /\ q # <<>> => Start(q[1]) = p

Behind(p, q, m) == IF q = <<>> THEN p ELSE After(q[Len(q)], m)

\* The packets s, numbered in the order in which they were sent
Stream(s) == \A i \in DOMAIN s : s[i].of = i /\ s[i].from = 0 /\ s[i].len \in Nat

-----------------------------------------------------------------------------
(* Numbers                                                                 *)

\* A set of numbers that is not empty has a least one.
LEMMA LeastNumber ==
  ASSUME NEW T \in SUBSET Nat, T # {}
  PROVE  \E n \in T : \A k \in T : n <= k
<1>1. PICK n \in T : \A k \in T : ~(<<k, n>> \in OpToRel(<, Nat))
  <2> DEFINE R == OpToRel(<, Nat)
  <2>1. IsWellFoundedOn(R, Nat)
    BY NatLessThanWellFounded
  <2> HIDE DEF R
  <2>2. \E n \in T : \A k \in T : ~(<<k, n>> \in R)
    BY <2>1, WFMin
  <2> QED
    BY <2>2 DEF R
<1>2. ASSUME NEW k \in T PROVE n <= k
  <2>1. ~(<<k, n>> \in OpToRel(<, Nat))
    BY <1>1
  <2>2. k \in Nat /\ n \in Nat
    OBVIOUS
  <2> QED
    BY <2>1, <2>2 DEF OpToRel
<1> QED
  BY <1>2

\* Multiples of a number, and what one more of them is.
LEMMA Multiples ==
  ASSUME NEW a \in Nat, NEW b \in Nat, NEW m \in Nat
  PROVE  /\ a * m \in Nat /\ (a + 1) * m = a * m + m /\ 0 * m = 0 /\ 1 * m = m
         /\ a <= b => a * m <= b * m
         /\ a < b => a * m + m <= b * m
<1>1. a * m \in Nat /\ (a + 1) * m = a * m + m /\ 0 * m = 0 /\ 1 * m = m
  OBVIOUS
<1>2. a <= b => a * m <= b * m
  OBVIOUS
<1>3. a < b => a * m + m <= b * m
  <2> SUFFICES ASSUME a < b PROVE (a + 1) * m <= b * m
    BY <1>1
  <2> QED
    OBVIOUS
<1> QED
  BY <1>1, <1>2, <1>3

\* The quotient and the rest.
LEMMA Division ==
  ASSUME NEW n \in Nat, NEW m \in Nat \ {0}
  PROVE  /\ n \div m \in Nat /\ n % m \in 0..(m - 1)
         /\ n % m = n - (n \div m) * m
<1>1. n % m = n - m * (n \div m)
  OBVIOUS
<1>2. n \div m \in Nat /\ n % m \in 0..(m - 1)
  OBVIOUS
<1>3. \A d \in Nat : m * d = d * m
  OBVIOUS
<1> QED
  BY <1>1, <1>2, <1>3

\* The empty sequence is the one without elements.
LEMMA EmptyLen ==
  ASSUME NEW D, NEW q \in Seq(D)
  PROVE  Len(q) \in Nat /\ (q = <<>> <=> Len(q) = 0)
  OBVIOUS

-----------------------------------------------------------------------------
(* Chains                                                                  *)

\* The empty chain is anywhere.
LEMMA ChainEmpty ==
  ASSUME NEW p, NEW m, NEW s
  PROVE  Chain(p, <<>>, m, s) /\ Behind(p, <<>>, m) = p
  BY DEF Chain, Behind

\* One piece is a chain.
LEMMA ChainOne ==
  ASSUME NEW p, NEW x, NEW m, NEW s, Fits(x, m, s), Start(x) = p
  PROVE  Chain(p, <<x>>, m, s) /\ Behind(p, <<x>>, m) = After(x, m)
<1> DEFINE q == <<x>>
<1>1. Len(q) = 1 /\ q[1] = x /\ q # <<>>
  OBVIOUS
<1> HIDE DEF q
<1>2. Chain(p, q, m, s) /\ Behind(p, q, m) = After(x, m)
  BY <1>1 DEF Chain, Behind
<1> QED
  BY <1>2 DEF q

\* A piece that is put behind a chain begins where the chain ends.
LEMMA ChainAppend ==
  ASSUME NEW p, NEW D, NEW q \in Seq(D), NEW x \in D, NEW m, NEW s,
         Chain(p, q, m, s), Fits(x, m, s), Start(x) = Behind(p, q, m)
  PROVE  Chain(p, Append(q, x), m, s) /\ Behind(p, Append(q, x), m) = After(x, m)
<1> DEFINE r == Append(q, x)
<1>1. /\ Len(r) = Len(q) + 1 /\ Len(q) \in Nat /\ r # <<>> /\ r[Len(q) + 1] = x
      /\ \A j \in 1..Len(q) : r[j] = q[j]
  OBVIOUS
<1> HIDE DEF r
<1>2. \A j \in 1..Len(r) : Fits(r[j], m, s)
  BY <1>1 DEF Chain
<1>3. ASSUME NEW j \in 1..(Len(r) - 1) PROVE Start(r[j + 1]) = After(r[j], m)
  <2>1. CASE j < Len(q)
    BY <2>1, <1>1 DEF Chain
  <2>2. CASE j = Len(q)
    <3>1. q # <<>> /\ r[j] = q[Len(q)] /\ r[j + 1] = x
      BY <2>2, <1>1
    <3> QED
      BY <3>1 DEF Behind
  <2> QED
    BY <2>1, <2>2, <1>1
<1>4. Start(r[1]) = p
  <2>1. CASE q = <<>>
    BY <2>1, <1>1 DEF Behind
  <2>2. CASE q # <<>>
    BY <2>2, <1>1 DEF Chain
  <2> QED
    BY <2>1, <2>2
<1>5. Chain(p, r, m, s)
  BY <1>2, <1>3, <1>4 DEF Chain
<1>6. Behind(p, r, m) = After(x, m)
  BY <1>1 DEF Behind
<1> QED
  BY <1>5, <1>6 DEF r

\* The first piece of a chain is where the chain begins, and the rest of the
\* chain is behind it.
LEMMA ChainTail ==
  ASSUME NEW p, NEW D, NEW q \in Seq(D), NEW m, NEW s, q # <<>>, Chain(p, q, m, s)
  PROVE  /\ Fits(Head(q), m, s) /\ Start(Head(q)) = p
         /\ Chain(After(Head(q), m), Tail(q), m, s)
         /\ Behind(After(Head(q), m), Tail(q), m) = Behind(p, q, m)
<1> DEFINE r == Tail(q)
<1>1. /\ Len(q) \in Nat \ {0} /\ Len(r) = Len(q) - 1 /\ Head(q) = q[1] /\ r \in Seq(D)
      /\ \A j \in 1..Len(r) : r[j] = q[j + 1]
      /\ r = <<>> <=> Len(q) = 1
  <2>1. /\ Len(q) \in Nat \ {0} /\ Head(q) = q[1] /\ r \in Seq(D) /\ Len(r) = Len(q) - 1
    OBVIOUS
  <2>2. \A j \in 1..Len(r) : r[j] = q[j + 1]
    BY HeadTailProperties
  <2> HIDE DEF r
  <2>3. r = <<>> <=> Len(q) = 1
    <3>1. r = <<>> <=> Len(r) = 0
      BY <2>1, EmptyLen
    <3> QED
      BY <2>1, <3>1
  <2> QED
    BY <2>1, <2>2, <2>3
<1> HIDE DEF r
<1>2. Fits(Head(q), m, s) /\ Start(Head(q)) = p
  BY <1>1 DEF Chain
<1>3. Chain(After(Head(q), m), r, m, s)
  <2>1. \A j \in 1..Len(r) : Fits(r[j], m, s)
    BY <1>1 DEF Chain
  <2>2. ASSUME NEW j \in 1..(Len(r) - 1) PROVE Start(r[j + 1]) = After(r[j], m)
    <3>1. r[j] = q[j + 1] /\ r[j + 1] = q[j + 1 + 1] /\ j + 1 \in 1..(Len(q) - 1)
      BY <1>1
    <3> QED
      BY <3>1 DEF Chain
  <2>3. r # <<>> => Start(r[1]) = After(q[1], m)
    <3> SUFFICES ASSUME r # <<>> PROVE Start(r[1]) = After(q[1], m)
      OBVIOUS
    <3>1. 1 \in 1..(Len(q) - 1) /\ r[1] = q[1 + 1]
      BY <1>1
    <3> QED
      BY <3>1 DEF Chain
  <2> QED
    BY <1>1, <2>1, <2>2, <2>3 DEF Chain
<1>4. Behind(After(Head(q), m), r, m) = Behind(p, q, m)
  <2>1. CASE r = <<>>
    BY <2>1, <1>1 DEF Behind
  <2>2. CASE r # <<>>
    <3>1. r[Len(r)] = q[Len(q)] /\ q # <<>>
      BY <2>2, <1>1
    <3> QED
      BY <3>1, <2>2 DEF Behind
  <2> QED
    BY <2>1, <2>2
<1> QED
  BY <1>2, <1>3, <1>4 DEF r

\* Two chains of which the second begins where the first ends are one.
LEMMA ChainConcat ==
  ASSUME NEW p, NEW D, NEW q \in Seq(D), NEW r \in Seq(D), NEW m, NEW s,
         Chain(p, q, m, s), Chain(Behind(p, q, m), r, m, s)
  PROVE  /\ Chain(p, q \o r, m, s)
         /\ Behind(p, q \o r, m) = Behind(Behind(p, q, m), r, m)
<1> DEFINE t == q \o r
<1>1. /\ Len(q) \in Nat /\ Len(r) \in Nat /\ Len(t) = Len(q) + Len(r) /\ t \in Seq(D)
      /\ \A j \in 1..Len(q) : t[j] = q[j]
      /\ \A j \in 1..Len(r) : t[Len(q) + j] = r[j]
      /\ q = <<>> => t = r
      /\ r = <<>> => t = q
      /\ (q = <<>> <=> Len(q) = 0) /\ (r = <<>> <=> Len(r) = 0) /\ (t = <<>> <=> Len(t) = 0)
  OBVIOUS
<1> HIDE DEF t
<1>2. CASE q = <<>>
  BY <1>2, <1>1 DEF Behind, t
<1>3. CASE r = <<>>
  BY <1>3, <1>1 DEF Behind, t
<1>4. CASE q # <<>> /\ r # <<>>
  <2>1. ASSUME NEW j \in 1..Len(t) PROVE Fits(t[j], m, s)
    <3>1. CASE j <= Len(q)
      BY <3>1, <1>1 DEF Chain
    <3>2. CASE j > Len(q)
      <4>1. j - Len(q) \in 1..Len(r) /\ t[j] = r[j - Len(q)]
        <5>1. j - Len(q) \in 1..Len(r) /\ Len(q) + (j - Len(q)) = j
          BY <3>2, <1>1
        <5> QED
          BY <5>1, <1>1
      <4> QED
        BY <4>1 DEF Chain
    <3> QED
      BY <3>1, <3>2, <1>1
  <2>2. ASSUME NEW j \in 1..(Len(t) - 1) PROVE Start(t[j + 1]) = After(t[j], m)
    <3>1. CASE j < Len(q)
      BY <3>1, <1>1 DEF Chain
    <3>2. CASE j = Len(q)
      <4>1. t[j] = q[Len(q)] /\ t[j + 1] = r[1]
        BY <3>2, <1>1, <1>4
      <4> QED
        BY <4>1, <1>4 DEF Chain, Behind
    <3>3. CASE j > Len(q)
      <4> DEFINE i == j - Len(q)
      <4>1. i \in 1..(Len(r) - 1) /\ Len(q) + i = j /\ Len(q) + (i + 1) = j + 1 /\ i + 1 \in 1..Len(r) /\ i \in 1..Len(r)
        BY <3>3, <1>1
      <4> HIDE DEF i
      <4>2. t[j] = r[i] /\ t[j + 1] = r[i + 1]
        BY <4>1, <1>1
      <4> QED
        BY <4>1, <4>2 DEF Chain
    <3> QED
      BY <3>1, <3>2, <3>3, <1>1
  <2>3. t[1] = q[1] /\ t # <<>> /\ t[Len(t)] = r[Len(r)]
    BY <1>1, <1>4
  <2>4. Chain(p, t, m, s)
    BY <2>1, <2>2, <2>3, <1>4 DEF Chain
  <2>5. Behind(p, t, m) = Behind(Behind(p, q, m), r, m)
    BY <2>3, <1>4 DEF Behind
  <2> QED
    BY <2>4, <2>5 DEF t
<1> QED
  BY <1>2, <1>3, <1>4

\* A chain may be cut anywhere.
LEMMA ChainSplit ==
  ASSUME NEW p, NEW D, NEW q \in Seq(D), NEW k \in 1..Len(q), NEW m, NEW s,
         Chain(p, q, m, s)
  PROVE  /\ SubSeq(q, 1, k) \in Seq(D) /\ SubSeq(q, k + 1, Len(q)) \in Seq(D)
         /\ Chain(p, SubSeq(q, 1, k), m, s)
         /\ Behind(p, SubSeq(q, 1, k), m) = After(q[k], m)
         /\ Chain(After(q[k], m), SubSeq(q, k + 1, Len(q)), m, s)
         /\ Behind(After(q[k], m), SubSeq(q, k + 1, Len(q)), m) = Behind(p, q, m)
<1> DEFINE a == SubSeq(q, 1, k)
           b == SubSeq(q, k + 1, Len(q))
<1>1. /\ Len(q) \in Nat /\ k \in Nat /\ a \in Seq(D) /\ b \in Seq(D)
      /\ Len(a) = k /\ Len(b) = Len(q) - k
      /\ \A j \in 1..k : a[j] = q[j]
      /\ \A j \in 1..(Len(q) - k) : b[j] = q[k + j]
      /\ a # <<>> /\ q # <<>> /\ (b = <<>> <=> k = Len(q))
  <2>1. Len(q) \in Nat /\ k \in Nat \ {0} /\ k <= Len(q) /\ \A j \in 1..Len(q) : q[j] \in D
    OBVIOUS
  <2>2. /\ a \in Seq(D) /\ Len(a) = k
        /\ \A j \in 1..k : a[j] = q[j]
    <3>1. \A j \in 1..k : q[j] \in D
      BY <2>1
    <3>2. /\ a \in Seq(D) /\ Len(a) = IF 1 <= k THEN k - 1 + 1 ELSE 0
          /\ \A j \in 1..(k - 1 + 1) : a[j] = q[1 + j - 1]
      BY <2>1, <3>1, SubSeqProperties
    <3> HIDE DEF a
    <3>3. \A j \in 1..k : j \in 1..(k - 1 + 1) /\ 1 + j - 1 = j
      BY <2>1
    <3> QED
      BY <2>1, <3>2, <3>3
  <2>3. /\ b \in Seq(D) /\ Len(b) = Len(q) - k
        /\ \A j \in 1..(Len(q) - k) : b[j] = q[k + j]
    <3>1. \A j \in (k + 1)..Len(q) : q[j] \in D
      BY <2>1
    <3>2. /\ b \in Seq(D) /\ Len(b) = IF k + 1 <= Len(q) THEN Len(q) - (k + 1) + 1 ELSE 0
          /\ \A j \in 1..(Len(q) - (k + 1) + 1) : b[j] = q[k + 1 + j - 1]
      BY <2>1, <3>1, SubSeqProperties
    <3> HIDE DEF b
    <3>3. \A j \in 1..(Len(q) - k) : j \in 1..(Len(q) - (k + 1) + 1) /\ k + 1 + j - 1 = k + j
      BY <2>1
    <3> QED
      BY <2>1, <3>2, <3>3
  <2> HIDE DEF a, b
  <2>4. a # <<>> /\ q # <<>> /\ (b = <<>> <=> k = Len(q))
    BY <2>1, <2>2, <2>3, EmptyLen
  <2> QED
    BY <2>1, <2>2, <2>3, <2>4
<1> HIDE DEF a, b
<1>2. Chain(p, a, m, s) /\ Behind(p, a, m) = After(q[k], m)
  <2>1. \A j \in 1..k : Fits(a[j], m, s)
    BY <1>1, SMTT(40) DEF Chain
  <2>2. \A j \in 1..(k - 1) : Start(a[j + 1]) = After(a[j], m)
    BY <1>1, SMTT(40) DEF Chain
  <2>3. a[1] = q[1] /\ a[Len(a)] = q[k]
    BY <1>1
  <2> QED
    BY <1>1, <2>1, <2>2, <2>3 DEF Chain, Behind
<1>3. Chain(After(q[k], m), b, m, s)
  <2>1. ASSUME NEW j \in 1..Len(b) PROVE Fits(b[j], m, s)
    BY <1>1, SMTT(40) DEF Chain
  <2>2. ASSUME NEW j \in 1..(Len(b) - 1) PROVE Start(b[j + 1]) = After(b[j], m)
    <3>1. b[j] = q[k + j] /\ b[j + 1] = q[(k + j) + 1] /\ k + j \in 1..(Len(q) - 1)
      <4>1. j \in 1..(Len(q) - k) /\ j + 1 \in 1..(Len(q) - k) /\ k + (j + 1) = (k + j) + 1
        BY <1>1
      <4>2. b[j] = q[k + j] /\ b[j + 1] = q[k + (j + 1)]
        BY <4>1, <1>1
      <4> QED
        BY <4>1, <4>2, <1>1
    <3> QED
      BY <3>1 DEF Chain
  <2>3. b # <<>> => Start(b[1]) = After(q[k], m)
    <3> SUFFICES ASSUME b # <<>> PROVE Start(b[1]) = After(q[k], m)
      OBVIOUS
    <3>1. b[1] = q[k + 1] /\ k \in 1..(Len(q) - 1)
      BY <1>1
    <3> QED
      BY <3>1 DEF Chain
  <2> QED
    BY <2>1, <2>2, <2>3 DEF Chain
<1>4. Behind(After(q[k], m), b, m) = Behind(p, q, m)
  <2>1. CASE b = <<>>
    BY <2>1, <1>1 DEF Behind
  <2>2. CASE b # <<>>
    <3>1. b[Len(b)] = q[Len(q)]
      <4>1. Len(b) \in 1..(Len(q) - k) /\ k + Len(b) = Len(q)
        BY <2>2, <1>1
      <4> QED
        BY <4>1, <1>1
    <3> QED
      BY <3>1, <2>2, <1>1, SMTT(40) DEF Behind
  <2> QED
    BY <2>1, <2>2
<1> QED
  BY <1>1, <1>2, <1>3, <1>4 DEF a, b

\* Packets that are sent later do not change where the earlier ones are.
LEMMA ChainGrows ==
  ASSUME NEW p, NEW D, NEW q \in Seq(D), NEW m, NEW E, NEW s \in Seq(E), NEW x \in E,
         Chain(p, q, m, s)
  PROVE  Chain(p, q, m, Append(s, x))
<1>1. \A i \in DOMAIN s : i \in DOMAIN Append(s, x) /\ Append(s, x)[i] = s[i]
  OBVIOUS
<1>2. \A y : Fits(y, m, s) => Fits(y, m, Append(s, x))
  BY <1>1 DEF Fits
<1> QED
  BY <1>2 DEF Chain

\* While its pieces fill the unit, a chain goes on in the packet it began with.
LEMMA ChainRun ==
  ASSUME NEW p, p.of \in Nat, p.at \in Nat, NEW D, NEW q \in Seq(D), NEW k \in 1..Len(q),
         NEW m \in Nat, NEW s, Chain(p, q, m, s), \A j \in 1..(k - 1) : q[j].len = m
  PROVE  /\ \A j \in 1..(k - 1) : Adjacent(q[j], q[j + 1])
         /\ q[k].of = p.of /\ p.at <= q[k].from
<1>1. \A j \in 1..(k - 1) : q[j + 1].of = q[j].of /\ q[j + 1].from = q[j].from + m
  <2> SUFFICES ASSUME NEW j \in 1..(k - 1)
               PROVE  q[j + 1].of = q[j].of /\ q[j + 1].from = q[j].from + m
    OBVIOUS
  <2>1. j \in 1..(Len(q) - 1) /\ q[j].len = m
    OBVIOUS
  <2>2. Start(q[j + 1]) = Pos(q[j].of, q[j].from + m)
    BY <2>1 DEF Chain, After
  <2> QED
    BY <2>2 DEF Start, Pos
<1>2. q[1].of = p.of /\ q[1].from = p.at
  BY DEF Chain, Start, Pos
<1>3. \A j \in 1..k : q[j].from \in Nat
  BY DEF Chain, Fits
<1> DEFINE T == {j \in 1..k : ~(q[j].of = p.of /\ p.at <= q[j].from)}
<1>4. T = {}
  <2> SUFFICES ASSUME T # {} PROVE FALSE
    OBVIOUS
  <2>1. PICK n \in T : \A j \in T : n <= j
    <3>1. T \in SUBSET Nat
      OBVIOUS
    <3> HIDE DEF T
    <3> QED
      BY <3>1, LeastNumber
  <2>2. n \in 1..k /\ n # 1
    BY <1>2, <1>3
  <2>3. n - 1 \in 1..(k - 1) /\ n - 1 \notin T /\ (n - 1) + 1 = n
    BY <2>1, <2>2
  <2>4. q[n].of = q[n - 1].of /\ q[n].from = q[n - 1].from + m
    BY <2>3, <1>1
  <2>5. q[n - 1].of = p.of /\ p.at <= q[n - 1].from
    BY <2>3
  <2> QED
    BY <2>1, <2>2, <2>3, <2>4, <2>5, <1>3, SMTT(40)
<1>5. q[k].of = p.of /\ p.at <= q[k].from
  BY <1>4
<1> QED
  BY <1>1, <1>5 DEF Adjacent

-----------------------------------------------------------------------------
(* The senders                                                             *)

\* The number and the sizes of the USB packets of n bytes
LEMMA UsbSizes ==
  ASSUME NEW n \in Nat \ {0}
  PROVE  /\ UsbCount(n) \in Nat \ {0}
         /\ \A k \in 1..UsbCount(n) :
              /\ (k - 1) * Mps \in Nat /\ (k - 1) * Mps < n /\ k * Mps = (k - 1) * Mps + Mps
              /\ n < k * Mps => k = UsbCount(n) /\ n % Mps = n - (k - 1) * Mps
              /\ k = UsbCount(n) => n <= k * Mps
              /\ k = UsbCount(n) /\ n = k * Mps => n % Mps = 0
         /\ n % Mps = 0 => n = UsbCount(n) * Mps
<1> USE FramingAssumption
<1> DEFINE d == n \div Mps
           r == n % Mps
           c == UsbCount(n)
<1>1. d \in Nat /\ r \in 0..(Mps - 1) /\ n = d * Mps + r /\ d * Mps \in Nat
  <2>1. d \in Nat /\ r \in 0..(Mps - 1) /\ r = n - d * Mps
    BY Division
  <2>2. d * Mps \in Nat
    BY <2>1, Multiples
  <2> HIDE DEF d, r
  <2>3. \A e \in Nat : r = n - e => n = e + r
    BY <2>1
  <2> QED
    BY <2>1, <2>2, <2>3
<1>2. c = (n + Mps - 1) \div Mps
  BY DEF UsbCount
<1>3. (n + Mps - 1) \div Mps = IF r = 0 THEN d ELSE d + 1
  <2>1. CASE r = 0
    <3>1. d * Mps <= n + Mps - 1 /\ n + Mps - 1 < d * Mps + Mps
      BY <2>1, <1>1
    <3>2. \A a \in Nat, e \in Nat : e * Mps <= a /\ a < e * Mps + Mps => a \div Mps = e
      OBVIOUS
    <3> QED
      BY <3>1, <3>2, <1>1, <2>1
  <2>2. CASE r # 0
    <3>1. (d + 1) * Mps <= n + Mps - 1 /\ n + Mps - 1 < (d + 1) * Mps + Mps
      BY <2>2, <1>1, Multiples
    <3>2. \A a \in Nat, e \in Nat : e * Mps <= a /\ a < e * Mps + Mps => a \div Mps = e
      OBVIOUS
    <3> QED
      BY <3>1, <3>2, <1>1, <2>2
  <2> QED
    BY <2>1, <2>2
<1> HIDE DEF d, r, c
<1>4. c = IF r = 0 THEN d ELSE d + 1
  BY <1>2, <1>3
<1>5. c \in Nat \ {0}
  <2>1. r = 0 => d # 0
    BY <1>1, Multiples
  <2> QED
    BY <2>1, <1>1, <1>4
<1>6. ASSUME NEW k \in 1..c
      PROVE  /\ (k - 1) * Mps \in Nat /\ (k - 1) * Mps < n /\ k * Mps = (k - 1) * Mps + Mps
             /\ n < k * Mps => k = c /\ r = n - (k - 1) * Mps
             /\ k = c => n <= k * Mps
             /\ k = c /\ n = k * Mps => r = 0
  <2>1. k - 1 \in Nat /\ k \in Nat /\ (k - 1) + 1 = k
    BY <1>5
  <2>2. (k - 1) * Mps \in Nat /\ k * Mps = (k - 1) * Mps + Mps
    BY <2>1, Multiples
  <2>3. CASE k <= d
    <3>1. k * Mps <= d * Mps
      BY <2>1, <2>3, <1>1, Multiples
    <3>2. k = c => r = 0 /\ k = d
      BY <1>4, <2>3, <1>1, <2>1
    <3> QED
      BY <3>1, <3>2, <2>2, <1>1
  <2>4. CASE k > d
    <3>1. k = d + 1 /\ r # 0 /\ k = c /\ k - 1 = d
      BY <2>4, <1>1, <1>4, <2>1
    <3> QED
      BY <3>1, <2>2, <1>1
  <2> QED
    BY <2>3, <2>4, <2>1, <1>1
<1>7. r = 0 => n = c * Mps
  BY <1>1, <1>4
<1> QED
  BY <1>5, <1>6, <1>7 DEF r, c

\* The pieces [(k - 1) * Mps, k * Mps) of a packet are a chain through all of
\* its data, which goes on in the packet if its last piece is full.
LEMMA CutChain ==
  ASSUME NEW s, Stream(s), NEW i \in DOMAIN s, s[i].len # 0,
         NEW D, NEW q \in Seq(D), Len(q) = UsbCount(s[i].len),
         \A k \in 1..Len(q) :
            /\ q[k].of = i /\ q[k].from = (k - 1) * Mps
            /\ q[k].len = IF k * Mps <= s[i].len THEN Mps ELSE s[i].len % Mps
  PROVE  /\ q # <<>> /\ Chain(Pos(i, 0), q, Mps, s)
         /\ \A k \in 1..Len(q) : q[k].from \in Nat /\ q[k].len \in 0..Mps
         /\ Behind(Pos(i, 0), q, Mps) =
               IF s[i].len % Mps = 0 THEN Pos(i, s[i].len) ELSE Pos(i + 1, 0)
<1> USE FramingAssumption
<1> DEFINE n == s[i].len
           c == UsbCount(n)
<1>1. n \in Nat \ {0} /\ s[i].of = i
  BY DEF Stream
<1> HIDE DEF n
<1>2. /\ c \in Nat \ {0}
      /\ \A k \in 1..c :
           /\ (k - 1) * Mps \in Nat /\ (k - 1) * Mps < n /\ k * Mps = (k - 1) * Mps + Mps
           /\ n < k * Mps => k = c /\ n % Mps = n - (k - 1) * Mps
           /\ k = c => n <= k * Mps
           /\ k = c /\ n = k * Mps => n % Mps = 0
      /\ n % Mps = 0 => n = c * Mps
  BY <1>1, UsbSizes
<1>3. Len(q) = c /\ q # <<>>
  BY <1>2 DEF n
<1>4. \A k \in 1..c : /\ q[k].of = i /\ q[k].from = (k - 1) * Mps
                      /\ q[k].len = IF k * Mps <= n THEN Mps ELSE n % Mps
  BY <1>3 DEF n
<1> HIDE DEF c
<1>5. n % Mps \in 0..(Mps - 1)
  BY <1>1, Division
<1>6. ASSUME NEW k \in 1..c
      PROVE  Fits(q[k], Mps, s) /\ q[k].from \in Nat /\ q[k].len \in 0..Mps
  <2> DEFINE o == (k - 1) * Mps
             e == k * Mps
  <2>1. /\ o \in Nat /\ o < n /\ e = o + Mps
        /\ n < e => n % Mps = n - o
    BY <1>2
  <2>2. q[k].of = i /\ q[k].from = o /\ q[k].len = IF e <= n THEN Mps ELSE n % Mps
    BY <1>4
  <2> HIDE DEF o, e
  <2>3. q[k].len = (IF n - o >= Mps THEN Mps ELSE n - o) /\ q[k].len \in 0..Mps
    BY <2>1, <2>2, <1>1, <1>5
  <2> QED
    BY <2>1, <2>2, <2>3, <1>1 DEF Fits, n
<1>7. ASSUME NEW k \in 1..(c - 1) PROVE Start(q[k + 1]) = After(q[k], Mps)
  <2> DEFINE o == (k - 1) * Mps
             e == k * Mps
  <2>1. k \in 1..c /\ k + 1 \in 1..c /\ k # c /\ (k + 1) - 1 = k
    BY <1>2
  <2>2. o \in Nat /\ e = o + Mps /\ e <= n
    BY <1>1, <1>2, <2>1
  <2>3. q[k].of = i /\ q[k].from = o /\ q[k].len = Mps
    BY <1>4, <2>1, <2>2
  <2>4. q[k + 1].of = i /\ q[k + 1].from = e
    BY <1>4, <2>1
  <2> HIDE DEF o, e
  <2> QED
    BY <2>2, <2>3, <2>4 DEF Start, After
<1>8. Start(q[1]) = Pos(i, 0)
  BY <1>2, <1>4, Multiples DEF Start
<1>9. Chain(Pos(i, 0), q, Mps, s)
  BY <1>3, <1>6, <1>7, <1>8 DEF Chain
<1>10. After(q[c], Mps) = IF n % Mps = 0 THEN Pos(i, n) ELSE Pos(i + 1, 0)
  <2> DEFINE o == (c - 1) * Mps
             e == c * Mps
  <2>1. /\ o \in Nat /\ o < n /\ e = o + Mps /\ n <= e
        /\ n < e => n % Mps = n - o
        /\ n = e => n % Mps = 0
        /\ n % Mps = 0 => n = e
    BY <1>2
  <2>2. q[c].of = i /\ q[c].from = o /\ q[c].len = IF e <= n THEN Mps ELSE n % Mps
    BY <1>2, <1>4
  <2> HIDE DEF o, e
  <2>3. CASE n = e
    BY <2>1, <2>2, <2>3 DEF After
  <2>4. CASE n # e
    <3>1. n < e /\ n % Mps # 0 /\ q[c].len = n % Mps /\ n % Mps # Mps
      BY <2>1, <2>2, <2>4, <1>1, <1>5, SMTT(40)
    <3> QED
      BY <3>1, <2>2 DEF After
  <2> QED
    BY <2>3, <2>4
<1> QED
  BY <1>3, <1>6, <1>9, <1>10 DEF Behind, n

\* The terminator is what the cut makes of the end of a packet.
LEMMA TerminatorFits ==
  ASSUME NEW s, Stream(s), NEW i \in DOMAIN s
  PROVE  /\ Fits(Terminator(s[i]), Mps, s)
         /\ Start(Terminator(s[i])) = Pos(i, s[i].len)
         /\ After(Terminator(s[i]), Mps) = Pos(i + 1, 0)
         /\ Terminator(s[i]).ends
<1>1. s[i].of = i /\ s[i].len \in Nat
  BY DEF Stream
<1> QED
  BY <1>1, FramingAssumption DEF Fits, Terminator, Start, After

\* What a sender of packet i puts on the bus
SentOf(i) == [of : {i}, from : Nat, len : 0..Mps, ends : BOOLEAN]

\* A packet and its transfers are the same data; their last USB packet ends
\* the last transfer.
Covers(q, i, s) ==
    /\ q \in Seq(SentOf(i)) /\ q # <<>> /\ q[Len(q)].ends
    /\ Chain(Pos(i, 0), q, Mps, s) /\ Behind(Pos(i, 0), q, Mps) = Pos(i + 1, 0)

\* The two ways to mark the USB packets of a packet that is not empty
LEMMA MarkedChain ==
  ASSUME NEW s, Stream(s), NEW i \in DOMAIN s, s[i].len # 0,
         NEW q, q \in {UsbPackets(s[i]), DeviceParts(s[i])}
  PROVE  /\ q \in Seq(SentOf(i)) /\ q # <<>> /\ q[Len(q)].ends
         /\ Chain(Pos(i, 0), q, Mps, s)
         /\ Behind(Pos(i, 0), q, Mps) =
               IF s[i].len % Mps = 0 THEN Pos(i, s[i].len) ELSE Pos(i + 1, 0)
<1> DEFINE n == s[i].len
           c == UsbCount(n)
           E == [of : {i}, from : {(k - 1) * Mps : k \in 1..c}, len : {Mps, n % Mps}, ends : BOOLEAN]
<1>1. n \in Nat \ {0} /\ s[i].of = i /\ c \in Nat \ {0}
  BY UsbSizes DEF Stream
<1>2. /\ DOMAIN q = 1..c
      /\ \A k \in 1..c :
           /\ q[k] \in E /\ q[k].from = (k - 1) * Mps
           /\ q[k].len = IF k * Mps <= n THEN Mps ELSE n % Mps
           /\ k = c => q[k].ends
  <2>1. CASE q = UsbPackets(s[i])
    BY <2>1, <1>1 DEF UsbPackets, UsbPacket
  <2>2. CASE q = DeviceParts(s[i])
    <3>1. q = [k \in 1..c |->
                 [UsbPacket(s[i], k) EXCEPT !.ends = @ \/ k % TransferPackets = 0]]
      BY <2>2, <1>1 DEF DeviceParts
    <3>2. ASSUME NEW k \in 1..c
          PROVE  q[k] = [of |-> i, from |-> (k - 1) * Mps,
                         len |-> IF k * Mps <= n THEN Mps ELSE n % Mps,
                         ends |-> (k = c) \/ k % TransferPackets = 0]
      BY <3>1, <1>1 DEF UsbPacket
    <3>3. ASSUME NEW k \in 1..c
          PROVE  /\ q[k] \in E /\ q[k].from = (k - 1) * Mps
                 /\ q[k].len = IF k * Mps <= n THEN Mps ELSE n % Mps
                 /\ k = c => q[k].ends
      <4> DEFINE o == (k - 1) * Mps
                 l == IF k * Mps <= n THEN Mps ELSE n % Mps
                 e == (k = c) \/ k % TransferPackets = 0
      <4>1. q[k] = [of |-> i, from |-> o, len |-> l, ends |-> e]
        BY <3>2
      <4>2. /\ o \in {(j - 1) * Mps : j \in 1..c} /\ l \in {Mps, n % Mps} /\ e \in BOOLEAN
            /\ k = c => e
        OBVIOUS
      <4> HIDE DEF o, l, e
      <4>3. q[k] \in E /\ q[k].from = o /\ q[k].len = l /\ q[k].ends = e
        BY <4>1, <4>2
      <4> QED
        BY <4>2, <4>3 DEF o, l
    <3>4. DOMAIN q = 1..c
      BY <3>1
    <3> QED
      BY <3>3, <3>4
  <2> QED
    BY <2>1, <2>2
<1>3. q \in Seq(E) /\ Len(q) = c
  <2>1. q = [k \in 1..c |-> q[k]]
    <3>1. CASE q = UsbPackets(s[i])
      BY <3>1 DEF UsbPackets
    <3>2. CASE q = DeviceParts(s[i])
      BY <3>2, <1>1 DEF DeviceParts
    <3> QED
      BY <3>1, <3>2
  <2>2. \A k \in 1..c : q[k] \in E
    BY <1>2
  <2> HIDE DEF E, c
  <2>3. [k \in 1..c |-> q[k]] \in Seq(E)
    BY <2>2, <1>1
  <2> QED
    BY <2>1, <2>3, <1>2, <1>1
<1>4. \A k \in 1..c : q[k].of = i
  BY <1>2
<1>5. /\ q # <<>> /\ Chain(Pos(i, 0), q, Mps, s)
      /\ \A k \in 1..Len(q) : q[k].from \in Nat /\ q[k].len \in 0..Mps
      /\ Behind(Pos(i, 0), q, Mps) = IF n % Mps = 0 THEN Pos(i, n) ELSE Pos(i + 1, 0)
  <2>1. Len(q) = UsbCount(s[i].len)
    BY <1>3
  <2>2. \A k \in 1..Len(q) :
           /\ q[k].of = i /\ q[k].from = (k - 1) * Mps
           /\ q[k].len = IF k * Mps <= s[i].len THEN Mps ELSE s[i].len % Mps
    BY <1>2, <1>3, <1>4
  <2> HIDE DEF E
  <2>3. q \in Seq(E)
    BY <1>3
  <2> HIDE DEF n, c
  <2>4. /\ q # <<>> /\ Chain(Pos(i, 0), q, Mps, s)
        /\ \A k \in 1..Len(q) : q[k].from \in Nat /\ q[k].len \in 0..Mps
        /\ Behind(Pos(i, 0), q, Mps) =
               IF s[i].len % Mps = 0 THEN Pos(i, s[i].len) ELSE Pos(i + 1, 0)
    BY <2>1, <2>2, <2>3, CutChain
  <2> QED
    BY <2>4 DEF n
<1>6. \A k \in 1..Len(q) : q[k] \in SentOf(i)
  BY <1>2, <1>3, <1>5 DEF SentOf
<1>7. q \in Seq(SentOf(i))
  <2> HIDE DEF E
  <2> QED
    BY <1>3, <1>6
<1>8. q[Len(q)].ends
  <2> HIDE DEF E, n
  <2> QED
    BY <1>1, <1>2, <1>3
<1> QED
  BY <1>5, <1>7, <1>8

\* With a terminator the data of a packet is complete.
LEMMA Terminated ==
  ASSUME NEW s, Stream(s), NEW i \in DOMAIN s, NEW q \in Seq(SentOf(i)),
         Chain(Pos(i, 0), q, Mps, s), Behind(Pos(i, 0), q, Mps) = Pos(i, s[i].len)
  PROVE  Covers(Append(q, Terminator(s[i])), i, s)
<1> DEFINE x == Terminator(s[i])
<1>1. /\ Fits(x, Mps, s) /\ Start(x) = Pos(i, s[i].len) /\ After(x, Mps) = Pos(i + 1, 0)
      /\ x.ends
  BY TerminatorFits
<1>2. x \in SentOf(i)
  BY FramingAssumption DEF SentOf, Terminator, Stream
<1> HIDE DEF x
<1>3. /\ Append(q, x) \in Seq(SentOf(i)) /\ Append(q, x) # <<>>
      /\ Append(q, x)[Len(Append(q, x))] = x
  BY <1>2
<1>4. Chain(Pos(i, 0), Append(q, x), Mps, s) /\ Behind(Pos(i, 0), Append(q, x), Mps) = Pos(i + 1, 0)
  BY <1>1, <1>2, ChainAppend
<1> QED
  BY <1>1, <1>3, <1>4 DEF Covers, x

\* out_task of the device
LEMMA DeviceCovers ==
  ASSUME NEW s, Stream(s), NEW i \in DOMAIN s
  PROVE  Covers(DeviceTransfers(s[i]), i, s)
<1>1. s[i].len \in Nat
  BY DEF Stream
<1>2. CASE s[i].len = 0
  <2>1. DeviceTransfers(s[i]) = Append(<<>>, Terminator(s[i]))
    <3>1. s[i].len % Mps = 0
      BY <1>2, FramingAssumption
    <3> QED
      BY <1>2, <3>1 DEF DeviceTransfers, DeviceParts
  <2>2. <<>> \in Seq(SentOf(i)) /\ Pos(i, 0) = Pos(i, s[i].len)
    BY <1>2
  <2> QED
    BY <2>1, <2>2, ChainEmpty, Terminated
<1>3. CASE s[i].len # 0
  BY <1>3, MarkedChain, Terminated DEF DeviceTransfers, Covers
<1> QED
  BY <1>2, <1>3

\* out_task of both hosts
LEMMA HostCovers ==
  ASSUME NEW s, Stream(s), NEW i \in DOMAIN s
  PROVE  Covers(HostTransfers(s[i]), i, s)
<1>1. s[i].len \in Nat /\ s[i].of = i
  BY DEF Stream
<1>2. CASE s[i].len = 0
  <2> DEFINE x == UsbPacket(s[i], 1)
  <2>1. HostTransfers(s[i]) = [k \in 1..1 |-> UsbPacket(s[i], k)]
    BY <1>2 DEF HostTransfers, UsbPackets, UsbCount
  <2>2. x = Terminator(s[i])
    <3>1. (1 - 1) * Mps = 0 /\ ~(1 * Mps <= 0) /\ 0 % Mps = 0 /\ UsbCount(0) = 1
      BY FramingAssumption DEF UsbCount
    <3> QED
      BY <1>1, <1>2, <3>1 DEF UsbPacket, Terminator
  <2>3. HostTransfers(s[i]) = Append(<<>>, x)
    <3> HIDE DEF x
    <3>1. [k \in 1..1 |-> UsbPacket(s[i], k)] = <<x>>
      BY DEF x
    <3> QED
      BY <2>1, <3>1
  <2>4. <<>> \in Seq(SentOf(i)) /\ Pos(i, 0) = Pos(i, s[i].len)
    BY <1>2
  <2> QED
    BY <2>2, <2>3, <2>4, ChainEmpty, Terminated
<1>3. CASE s[i].len # 0
  BY <1>1, <1>3, MarkedChain, Terminated DEF HostTransfers, Covers
<1> QED
  BY <1>2, <1>3

-----------------------------------------------------------------------------
(* Transfer buffers                                                        *)

\* A buffer that is being filled holds full USB packets, but not as many as
\* it has room for.
WholePackets(f) == \E k \in 0..(TransferPackets - 1) : f.len = k * Mps

\* The data in a buffer that is being filled begins at p.
FilledFrom(p, f, s) ==
    f # Empty =>
        /\ Start(f) = p /\ f.of \in DOMAIN s /\ f.from \in Nat /\ f.len \in Nat
        /\ f.from + f.len <= s[f.of].len

\* The position behind data in a buffer, of which the first byte is at p
FilledTo(p, f) == IF f.of = Nothing THEN p ELSE Pos(f.of, f.from + f.len)

\* A buffer that is being filled has room for a USB packet, and is full with
\* it or can go on being filled.
LEMMA Filling ==
  ASSUME NEW f, WholePackets(f), NEW u, u.len \in 0..Mps
  PROVE  /\ f.len \in Nat /\ f.len < Mts /\ f.len + u.len <= Mts /\ Mps <= Mts /\ Mts \in Nat
         /\ u.len < Mps => f.len + u.len < Mts
         /\ ~Completes(f, u) => u.len = Mps /\ WholePackets([len |-> f.len + u.len])
<1> USE FramingAssumption
<1>1. PICK k \in 0..(TransferPackets - 1) : f.len = k * Mps
  BY DEF WholePackets
<1> DEFINE t == TransferPackets * Mps
<1>2. /\ k \in Nat /\ TransferPackets \in Nat /\ k < TransferPackets /\ 1 <= TransferPackets
      /\ k + 1 \in Nat
  OBVIOUS
<1>3. /\ k * Mps \in Nat /\ (k + 1) * Mps = k * Mps + Mps /\ k * Mps + Mps <= t
      /\ 1 * Mps = Mps /\ 1 * Mps <= t
  BY <1>2, Multiples
<1>4. t \in Nat /\ Mts = t
  BY <1>2, Multiples DEF Mts
<1>5. k + 1 = TransferPackets => k * Mps + Mps = t
  BY <1>3
<1> DEFINE a == k * Mps
<1> HIDE DEF t, a
<1>6. a \in Nat /\ a + Mps <= t /\ Mps <= t /\ f.len = a
  BY <1>1, <1>3 DEF a
<1>7. ASSUME ~Completes(f, u) PROVE u.len = Mps /\ WholePackets([len |-> f.len + u.len])
  <2>1. u.len = Mps /\ a + Mps # t
    BY <1>4, <1>6, <1>7 DEF Completes
  <2>2. k + 1 \in 0..(TransferPackets - 1)
    BY <2>1, <1>2, <1>5 DEF a
  <2>3. f.len + u.len = (k + 1) * Mps
    BY <2>1, <1>6, <1>3 DEF a
  <2> QED
    BY <2>1, <2>2, <2>3 DEF WholePackets
<1> QED
  BY <1>4, <1>6, <1>7

\* The USB packet that continues the data of a buffer completes a piece of
\* the stream of transfers, or the buffer goes on being filled.
LEMMA FillStep ==
  ASSUME NEW s, Stream(s), DOMAIN s \subseteq Nat \ {0},
         NEW p, NEW f, WholePackets(f), FilledFrom(p, f, s),
         NEW u, u.of # Nothing, Fits(u, Mps, s), Start(u) = FilledTo(p, f)
  PROVE  /\ Completes(f, u) =>
              /\ Fits(Filled(f, u), Mts, s) /\ Start(Filled(f, u)) = p
              /\ After(Filled(f, u), Mts) = After(u, Mps)
         /\ ~Completes(f, u) =>
              /\ FilledFrom(p, Filled(f, u), s)
              /\ FilledTo(p, Filled(f, u)) = After(u, Mps)
<1> USE FramingAssumption
<1> DEFINE g == Filled(f, u)
           n == s[u.of].len
<1>1. /\ u.of \in DOMAIN s /\ u.from \in Nat /\ u.len \in Nat /\ u.from <= n /\ n \in Nat
      /\ u.len = IF n - u.from >= Mps THEN Mps ELSE n - u.from
  BY DEF Fits, Stream
<1>2. u.len \in 0..Mps
  BY <1>1
<1>3. /\ f.len \in Nat /\ f.len < Mts /\ f.len + u.len <= Mts /\ Mps <= Mts /\ Mts \in Nat
      /\ u.len < Mps => f.len + u.len < Mts
      /\ ~Completes(f, u) => u.len = Mps
  BY <1>2, Filling
<1>4. /\ Start(g) = p /\ g.of = u.of /\ g.from \in Nat /\ g.len = f.len + u.len
      /\ g.from + f.len = u.from
  <2>1. CASE f = Empty
    <3>1. f.of = Nothing /\ f.len = 0
      BY <2>1 DEF Empty, Data
    <3>2. g = Data(u.of, u.from, u.len)
      BY <3>1 DEF Filled, Join
    <3> QED
      BY <3>1, <3>2, <1>1 DEF Data, FilledTo, Start
  <2>2. CASE f # Empty
    <3>1. Start(f) = p /\ f.of \in DOMAIN s /\ f.from \in Nat
      BY <2>2 DEF FilledFrom
    <3>2. f.of # Nothing
      BY <3>1 DEF Nothing
    <3>3. u.of = f.of /\ u.from = f.from + f.len
      BY <3>2 DEF FilledTo, Start, Pos
    <3>4. g = Data(f.of, f.from, f.len + u.len)
      BY <3>2, <3>3 DEF Filled, Join, Adjacent, Data
    <3> QED
      BY <3>1, <3>3, <3>4, <1>3 DEF Data, Start
  <2> QED
    BY <2>1, <2>2
<1> HIDE DEF g
<1>5. ASSUME Completes(f, u)
      PROVE  Fits(g, Mts, s) /\ After(g, Mts) = After(u, Mps)
  <2>1. CASE u.len < Mps
    <3>1. u.len = n - u.from /\ g.len < Mts /\ g.len = n - g.from /\ g.from <= n
      BY <2>1, <1>1, <1>3, <1>4
    <3> QED
      BY <2>1, <3>1, <1>1, <1>3, <1>4 DEF Fits, After
  <2>2. CASE ~(u.len < Mps)
    <3>1. u.len = Mps /\ g.len = Mts /\ n - g.from >= Mts /\ g.from <= n
          /\ u.from + Mps = g.from + Mts
      BY <2>2, <1>1, <1>2, <1>3, <1>4, <1>5 DEF Completes
    <3> QED
      BY <3>1, <1>1, <1>3, <1>4 DEF Fits, After
  <2> QED
    BY <2>1, <2>2
<1>6. ASSUME ~Completes(f, u)
      PROVE  FilledFrom(p, g, s) /\ FilledTo(p, g) = After(u, Mps)
  <2>1. u.len = Mps /\ u.from + Mps <= n /\ u.from + Mps = g.from + g.len
    BY <1>1, <1>3, <1>4, <1>6
  <2> QED
    BY <2>1, <1>1, <1>3, <1>4 DEF FilledFrom, FilledTo, After
<1> QED
  BY <1>4, <1>5, <1>6 DEF g

-----------------------------------------------------------------------------
(* Places in the stream                                                    *)

\* p is a place in s, or the one behind it.
Within(p, s) ==
    /\ p.of \in 1..(Len(s) + 1) /\ p.at \in Nat
    /\ p.of <= Len(s) => p.at <= s[p.of].len
    /\ p.of = Len(s) + 1 => p.at = 0

\* A piece ends in the stream, and so does a chain that begins in it.
LEMMA BehindWithin ==
  ASSUME NEW E, NEW s \in Seq(E), Stream(s), NEW D, NEW q \in Seq(D), NEW m \in Nat,
         NEW p, Within(p, s), Chain(p, q, m, s)
  PROVE  Within(Behind(p, q, m), s)
<1>1. CASE q = <<>>
  BY <1>1 DEF Behind
<1>2. CASE q # <<>>
  <2> DEFINE x == q[Len(q)]
  <2>1. Fits(x, m, s)
    <3>1. Len(q) \in 1..Len(q)
      BY <1>2, EmptyLen
    <3> QED
      BY <3>1 DEF Chain
  <2>2. /\ x.of \in 1..Len(s) /\ x.from \in Nat /\ x.len \in Nat /\ s[x.of].len \in Nat
        /\ x.from + x.len <= s[x.of].len
    BY <2>1, SMTT(40) DEF Fits, Stream
  <2> HIDE DEF x
  <2>3. Within(After(x, m), s)
    <3>1. Len(s) \in Nat
      OBVIOUS
    <3>2. CASE x.len = m
      <4>1. After(x, m).of = x.of /\ After(x, m).at = x.from + x.len
        BY <3>2 DEF After, Pos
      <4> QED
        BY <2>2, <3>1, <4>1, SMTT(40) DEF Within
    <3>3. CASE x.len # m
      <4>1. After(x, m).of = x.of + 1 /\ After(x, m).at = 0
        BY <3>3 DEF After, Pos
      <4>2. x.of + 1 <= Len(s) => s[x.of + 1].len \in Nat
        BY <2>2, <3>1 DEF Stream
      <4> QED
        BY <2>2, <3>1, <4>1, <4>2, SMTT(40) DEF Within
    <3> QED
      BY <3>2, <3>3
  <2> QED
    BY <1>2, <2>3 DEF Behind, x
<1> QED
  BY <1>1, <1>2

\* The data in a buffer ends in the stream.
LEMMA FilledWithin ==
  ASSUME NEW E, NEW s \in Seq(E), Stream(s), NEW p, Within(p, s), NEW f, FilledFrom(p, f, s)
  PROVE  Within(FilledTo(p, f), s)
<1>1. CASE f.of = Nothing
  BY <1>1 DEF FilledTo
<1>2. CASE f.of # Nothing
  <2>1. /\ f.of \in 1..Len(s) /\ f.from \in Nat /\ f.len \in Nat
        /\ f.from + f.len <= s[f.of].len /\ s[f.of].len \in Nat
    BY <1>2 DEF FilledFrom, Empty, Data, Stream
  <2> QED
    BY <1>2, <2>1, SMTT(40) DEF Within, FilledTo, Pos
<1> QED
  BY <1>1, <1>2

\* b[i] is the number of bytes of the first i packets of s.
Sums(b, s) ==
    /\ b \in [0..Len(s) -> Nat] /\ b[0] = 0
    /\ \A i \in 1..Len(s) : b[i] = b[i - 1] + s[i].len

\* More packets have no fewer bytes.
LEMMA SumsGrow ==
  ASSUME NEW E, NEW s \in Seq(E), Stream(s), NEW b, Sums(b, s), NEW i \in 0..Len(s)
  PROVE  \A k \in i..Len(s) : b[i] <= b[k]
<1> DEFINE T == {k \in i..Len(s) : ~(b[i] <= b[k])}
<1>1. \A k \in 0..Len(s) : b[k] \in Nat
  BY DEF Sums
<1>2. T = {}
  <2> SUFFICES ASSUME T # {} PROVE FALSE
    OBVIOUS
  <2>1. PICK n \in T : \A k \in T : n <= k
    <3>1. T \in SUBSET Nat
      OBVIOUS
    <3> HIDE DEF T
    <3> QED
      BY <3>1, LeastNumber
  <2>2. n \in 1..Len(s) /\ n - 1 \in i..Len(s) /\ n - 1 \notin T
    BY <1>1, <2>1
  <2>3. b[n] = b[n - 1] + s[n].len /\ s[n].len \in Nat
    BY <2>2 DEF Sums, Stream
  <2> QED
    BY <1>1, <2>1, <2>2, <2>3
<1> QED
  BY <1>2

\* One more packet
LEMMA SumsAppend ==
  ASSUME NEW E, NEW s \in Seq(E), NEW b, Sums(b, s), NEW x \in E, x.len \in Nat
  PROVE  \E c : Sums(c, Append(s, x)) /\ \A i \in 0..Len(s) : c[i] = b[i]
<1> DEFINE r == Append(s, x)
           c == [i \in 0..(Len(s) + 1) |-> IF i <= Len(s) THEN b[i] ELSE b[Len(s)] + x.len]
<1>1. /\ Len(s) \in Nat /\ Len(r) = Len(s) + 1 /\ r[Len(s) + 1] = x
      /\ \A i \in 1..Len(s) : r[i] = s[i]
  OBVIOUS
<1> HIDE DEF r
<1>2. \A i \in 0..Len(s) : c[i] = b[i] /\ b[i] \in Nat
  BY <1>1, SMTT(40) DEF Sums
<1>3. c[Len(s) + 1] = b[Len(s)] + x.len
  BY <1>1
<1>4. c \in [0..Len(r) -> Nat]
  <2>1. b[Len(s)] \in Nat
    <3>1. Len(s) \in 0..Len(s)
      BY <1>1
    <3> QED
      BY <3>1 DEF Sums
  <2>2. \A i \in 0..(Len(s) + 1) : (IF i <= Len(s) THEN b[i] ELSE b[Len(s)] + x.len) \in Nat
    BY <1>1, <2>1 DEF Sums
  <2> QED
    BY <1>1, <2>2
<1> HIDE DEF c
<1>5. \A i \in 1..Len(r) : c[i] = c[i - 1] + r[i].len
  <2> SUFFICES ASSUME NEW i \in 1..Len(r) PROVE c[i] = c[i - 1] + r[i].len
    OBVIOUS
  <2>1. CASE i = Len(s) + 1
    BY <2>1, <1>1, <1>2, <1>3
  <2>2. CASE i # Len(s) + 1
    <3>1. i \in 1..Len(s) /\ i - 1 \in 0..Len(s) /\ i \in 0..Len(s)
      BY <2>2, <1>1
    <3> QED
      BY <3>1, <1>1, <1>2 DEF Sums
  <2> QED
    BY <2>1, <2>2
<1>6. Sums(c, r)
  BY <1>1, <1>2, <1>4, <1>5 DEF Sums
<1> QED
  BY <1>2, <1>6 DEF r
=============================================================================
