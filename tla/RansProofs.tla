----------------------------- MODULE RansProofs -----------------------------
(***************************************************************************)
(* Proofs about Rans: the decoder goes back through every state of the     *)
(* encoder, as long as the table has no more units than slots.             *)
(***************************************************************************)
EXTENDS Rans, FiniteSetTheorems, SequenceTheorems, WellFoundedInduction, TLAPS

-----------------------------------------------------------------------------
(* The inductive invariant. *)

Fits == cdf[Radix] <= TableSize

\* The symbols share the slots out among them, each behind the one before.
CdfInv ==
  /\ apc = "idle" => ci = 0
  /\ apc \notin {"idle", "cdf"} => ci = Radix
  /\ \A s \in 0 .. ci - 1 : cdf[s + 1] = cdf[s] + freq[s]
  /\ \A s, t \in 0 .. ci : s <= t => cdf[s] <= cdf[t]

Entry == [x : Nat, left : Nat, depth : Nat]

\* From a to b the encoder pushed a byte, which is still on the stack.
PushedTo(a, b) ==
  /\ b.x = a.x \div Radix /\ b.x < TableSize
  /\ b.left = a.left
  /\ b.depth = a.depth + 1 /\ b.depth <= Len(stream)
  /\ stream[b.depth] = a.x % Radix

Codable(x, s) == freq[s] <= x /\ x < freq[s] * Radix

\* From a to b the encoder encoded a symbol.
CodedTo(a, b) ==
  /\ a.left \in 1 .. Len(symbols) /\ b.left = a.left - 1
  /\ b.depth = a.depth
  /\ Codable(a.x, symbols[a.left]) /\ b.x = Encoded(a.x, symbols[a.left])

\* The way that leads from L to where the coder stands.
Trail ==
  /\ trace \in Seq(Entry) /\ trace # <<>>
  /\ trace[1] = Here(TableSize, Len(symbols), 0)
  /\ \A i \in 1 .. Len(trace) :
       trace[i].x < TableSize * Radix /\ trace[i].left <= Len(symbols)
  /\ \A i, j \in 1 .. Len(trace) : i <= j => trace[i].depth <= trace[j].depth
  /\ \A i \in 1 .. Len(trace) - 1 :
       PushedTo(trace[i], trace[i + 1]) \/ CodedTo(trace[i], trace[i + 1])

EncodeInv ==
  /\ Trail
  /\ trace[Len(trace)] = Here(state, left, Len(stream))
  /\ state >= TableSize \/ (left > 0 /\ state >= freq[NextSymbol])

RetraceInv ==
  /\ Trail
  /\ trace[Len(trace)] = Here(state, Len(output), Len(stream))
  /\ apc = "decode" => state >= TableSize

CoderInv ==
  /\ apc \in {"idle", "cdf"} => stream = <<>> /\ left = 0
  /\ apc \in {"idle", "cdf", "encode"} => output = <<>>
  /\ apc \in {"decode", "refill", "decoded"} => Fits
  /\ apc = "encode" /\ Fits => EncodeInv
  /\ apc \in {"decode", "refill"} => RetraceInv
  /\ Len(output) <= Len(symbols) /\ \A k \in 1 .. Len(output) : output[k] = symbols[k]
  /\ apc = "decoded" => Len(output) = Len(symbols) /\ state = TableSize /\ stream = <<>>

RansInv == RansTypeOK /\ CdfInv /\ CoderInv
-----------------------------------------------------------------------------
(* Arithmetic. *)

LEMMA DivMod ==
  ASSUME NEW n \in Nat, NEW w \in Nat \ {0}
  PROVE  n \div w \in Nat /\ n % w \in 0 .. w - 1 /\ n = w * (n \div w) + (n % w)
OBVIOUS

LEMMA MonotoneProduct ==
  ASSUME NEW w \in Nat, NEW i \in Nat, NEW j \in Nat, i <= j
  PROVE  w * i <= w * j /\ w * i \in Nat
OBVIOUS

\* The quotient and the remainder are the only ones.
LEMMA DivModUnique ==
  ASSUME NEW w \in Nat \ {0}, NEW q \in Nat, NEW r \in 0 .. w - 1
  PROVE  (q * w + r) \div w = q /\ (q * w + r) % w = r
OBVIOUS

\* A quotient is below a bound when the number is below its multiple.
LEMMA DivBelow ==
  ASSUME NEW n \in Nat, NEW w \in Nat \ {0}, NEW k \in Nat, n < w * k
  PROVE  n \div w < k
<1> DEFINE q == n \div w
<1>1. q \in Nat /\ n % w \in Nat /\ n = w * q + (n % w)
  BY DivMod
<1> HIDE DEF q
<1>2. CASE k <= q
  <2>1. w * k <= w * q
    BY <1>1, <1>2, MonotoneProduct
  <2> QED
    BY <2>1, <1>1
<1> QED
  BY <1>1, <1>2 DEF q

\* And no less than a bound when the number is no less than its multiple.
LEMMA DivAtLeast ==
  ASSUME NEW n \in Nat, NEW w \in Nat \ {0}, NEW k \in Nat, w * k <= n
  PROVE  k <= n \div w
<1> DEFINE q == n \div w
<1>1. q \in Nat /\ n % w \in 0 .. w - 1 /\ n = w * q + (n % w)
  BY DivMod
<1> HIDE DEF q
<1>2. CASE q + 1 <= k
  <2>1. w * (q + 1) <= w * k
    BY <1>1, <1>2, MonotoneProduct
  <2>2. w * (q + 1) = w * q + w
    BY <1>1
  <2> QED
    BY <2>1, <2>2, <1>1
<1> QED
  BY <1>1, <1>2 DEF q

\* What encoding with frequency f at c makes of x ...
Moved(T, f, c, x) == (x \div f) * T + c + (x % f)

\* ... and decoding of y.
MovedBack(T, f, c, y) == f * (y \div T) + (y % T) - c

LEMMA MovedUp ==
  ASSUME NEW T \in Nat \ {0}, NEW f \in Nat \ {0}, NEW c \in Nat, c + f <= T,
         NEW x \in Nat, f <= x
  PROVE  Moved(T, f, c, x) \in Nat /\ T <= Moved(T, f, c, x)
<1> DEFINE q == x \div f
           r == x % f
<1>1. q \in Nat /\ 1 <= q /\ r \in 0 .. f - 1
  BY DivMod, DivAtLeast
<1>2. Moved(T, f, c, x) = q * T + c + r
  BY DEF Moved
<1> HIDE DEF q, r
<1>3. T * 1 <= T * q /\ T * q = q * T /\ T * q \in Nat
  BY <1>1, MonotoneProduct
<1> QED
  BY <1>1, <1>2, <1>3

LEMMA MovedBelow ==
  ASSUME NEW T \in Nat \ {0}, NEW f \in Nat \ {0}, NEW c \in Nat, c + f <= T,
         NEW x \in Nat, NEW k \in Nat, x < f * k
  PROVE  Moved(T, f, c, x) < T * k
<1> DEFINE q == x \div f
           r == x % f
<1>1. q \in Nat /\ q < k /\ r \in 0 .. f - 1
  BY DivMod, DivBelow
<1>2. Moved(T, f, c, x) = q * T + c + r
  BY DEF Moved
<1> HIDE DEF q, r
<1>3. T * (q + 1) <= T * k /\ T * (q + 1) = q * T + T
      /\ q * T \in Nat /\ T * k \in Nat
  BY <1>1, MonotoneProduct
<1> QED
  BY <1>1, <1>2, <1>3

\* The remainder of y is in the slots of the symbol, and y leads back to x.
LEMMA MovedAndBack ==
  ASSUME NEW T \in Nat \ {0}, NEW f \in Nat \ {0}, NEW c \in Nat, c + f <= T,
         NEW x \in Nat
  PROVE  /\ Moved(T, f, c, x) % T \in c .. c + f - 1
         /\ MovedBack(T, f, c, Moved(T, f, c, x)) = x
<1> DEFINE q == x \div f
           r == x % f
           z == c + r
           y == Moved(T, f, c, x)
<1>1. q \in Nat /\ r \in 0 .. f - 1 /\ x = f * q + r
  BY DivMod
<1>2. y = q * T + c + r
  BY DEF Moved
<1> HIDE DEF q, r, y
<1>3. z \in 0 .. T - 1 /\ y = q * T + z
  BY <1>1, <1>2
<1> HIDE DEF z
<1>4. (q * T + z) \div T = q /\ (q * T + z) % T = z
  BY <1>1, <1>3, DivModUnique
<1>5. y \div T = q /\ y % T = c + r
  BY <1>3, <1>4 DEF z
<1>6. f * (y \div T) + (y % T) - c = x
  BY <1>1, <1>5
<1>7. y % T \in c .. c + f - 1
  BY <1>1, <1>5
<1> QED
  BY <1>6, <1>7 DEF MovedBack, y

-----------------------------------------------------------------------------
(* The table. *)

LEMMA TableConstants ==
  /\ Radix \in Nat \ {0} /\ Radix \in Nat /\ Radix >= 2 /\ TableSize \in Nat \ {0}
  /\ TableSize * Radix \in Nat /\ TableSize <= TableSize * Radix
<1>1. Radix \in Nat /\ Radix >= 2 /\ TableSize \in Nat \ {0}
  BY RadixAssumption, TableSizeAssumption
<1>2. TableSize * 1 <= TableSize * Radix
  BY <1>1, MonotoneProduct
<1> QED
  BY <1>1, <1>2

LEMMA ScaledType ==
  ASSUME NEW count \in Nat, NEW total \in Nat \ {0}
  PROVE  Scaled(count, total) \in Nat /\ (count > 0 => Scaled(count, total) > 0)
<1> DEFINE n == count * TableSize
<1>1. n \in Nat
  BY TableConstants
<1>2. n \div total \in Nat
  BY <1>1, DivMod
<1>3. ASSUME total <= n PROVE 1 <= n \div total
  <2>1. total * 1 <= n
    BY <1>3
  <2> QED
    BY <2>1, <1>1, DivAtLeast
<1>4. Scaled(count, total) = IF count > 0 /\ n < total THEN 1 ELSE n \div total
  BY DEF Scaled
<1> HIDE DEF n
<1> QED
  BY <1>1, <1>2, <1>3, <1>4

LEMMA CountFreqType ==
  ASSUME NEW data \in Seq(Octet), NEW s \in Octet
  PROVE  /\ CountFreq(data)[s] \in Nat
         /\ \A i \in DOMAIN data : data[i] = s => CountFreq(data)[s] > 0
<1> DEFINE places == {i \in DOMAIN data : data[i] = s}
<1>1. CountFreq(data)[s] = Cardinality(places)
  BY DEF CountFreq
<1>2. IsFiniteSet(DOMAIN data)
  BY FS_Interval
<1>3. IsFiniteSet(places)
  BY <1>2, FS_Subset
<1>4. Cardinality(places) \in Nat
  BY <1>3, FS_CardinalityType
<1>5. places # {} => Cardinality(places) # 0
  BY <1>3, FS_EmptySet
<1>6. Cardinality(places) # 0 => Cardinality(places) > 0
  BY <1>4
<1>7. \A i \in DOMAIN data : data[i] = s => places # {}
  OBVIOUS
<1> HIDE DEF places
<1> QED
  BY <1>1, <1>4, <1>5, <1>6, <1>7

\* Normalising keeps every symbol that occurs.
LEMMA NormaliseType ==
  ASSUME NEW raw \in [Octet -> Nat], NEW total \in Nat \ {0}
  PROVE  /\ Normalise(raw, total) \in [Octet -> Nat]
         /\ \A s \in Octet : raw[s] > 0 => Normalise(raw, total)[s] > 0
<1> DEFINE floor == [s \in Octet |-> Scaled(raw[s], total)]
<1>1. \A s \in Octet : floor[s] \in Nat /\ (raw[s] > 0 => floor[s] > 0)
  BY ScaledType
<1>2. \A s \in Octet : Normalise(raw, total)[s] \in {floor[s], floor[s] + 1, floor[s] - 1}
                       /\ (Normalise(raw, total)[s] = floor[s] - 1 => floor[s] > 1)
  BY <1>1 DEF Normalise
<1>3. Normalise(raw, total) = [s \in Octet |-> Normalise(raw, total)[s]]
  BY DEF Normalise
<1> HIDE DEF floor
<1>4. \A s \in Octet : Normalise(raw, total)[s] \in Nat
                       /\ (raw[s] > 0 => Normalise(raw, total)[s] > 0)
  BY <1>1, <1>2
<1> QED
  BY <1>3, <1>4

-----------------------------------------------------------------------------
(* Sums over the octets.  Induction is up to a number, for a set of them.   *)

LEMMA LeastOf ==
  ASSUME NEW S \in SUBSET Nat, S # {}
  PROVE  \E m \in S : \A k \in S : m <= k
<1> DEFINE R == {ss \in Nat \X Nat : ss[1] < ss[2]}
<1>1. IsWellFoundedOn(R, Nat)
  BY NatLessThanWellFounded DEF OpToRel
<1>2. \A x, y \in Nat : x < y => <<x, y>> \in R
  OBVIOUS
<1> HIDE DEF R
<1>3. PICK x \in S : \A y \in S : ~ (<<y, x>> \in R)
  BY <1>1, WFMin
<1>4. \A y \in S : ~ (y < x)
  BY <1>2, <1>3
<1> QED
  BY <1>4

LEMMA UpTo ==
  ASSUME NEW n \in Nat, NEW S, 0 \in S, \A i \in 1 .. n : i - 1 \in S => i \in S
  PROVE  n \in S
<1> DEFINE Missed == {i \in 0 .. n : i \notin S}
<1> SUFFICES ASSUME n \in Missed PROVE FALSE
  OBVIOUS
<1>1. PICK m \in Missed : \A k \in Missed : m <= k
  <2>1. Missed \in SUBSET Nat /\ Missed # {}
    OBVIOUS
  <2> HIDE DEF Missed
  <2> QED
    BY <2>1, LeastOf
<1>2. m \in 1 .. n /\ m - 1 \in 0 .. n
  OBVIOUS
<1>3. m - 1 \in S
  BY <1>1, <1>2
<1> QED
  BY <1>2, <1>3

\* h is such a function, up to n.
AddsUpTo(h, f, n) ==
  h = [i \in 0 .. n |-> IF i = 0 THEN 0 ELSE h[i - 1] + f[i - 1]]

\* What is to be known of the sums of f.
Adds(f) ==
  /\ SumsTo(f)[0] = 0
  /\ \A i \in 0 .. Radix : SumsTo(f)[i] \in Nat
  /\ \A i \in 1 .. Radix : SumsTo(f)[i] = SumsTo(f)[i - 1] + f[i - 1]
  /\ \A s \in Octet : f[s] \in Nat

LEMMA SumsToUnfold ==
  ASSUME NEW f, \A s \in Octet : f[s] \in Nat
  PROVE  Adds(f)
<1> USE TableConstants
<1> DEFINE K == {m \in 0 .. Radix : \E h : AddsUpTo(h, f, m)}
<1>1. Radix \in K
  <2>1. 0 \in K
    <3> DEFINE h == [i \in 0 .. 0 |-> 0]
    <3>1. AddsUpTo(h, f, 0)
      BY DEF AddsUpTo
    <3> QED
      BY <3>1
  <2>2. ASSUME NEW m \in 1 .. Radix, m - 1 \in K PROVE m \in K
    <3>1. PICK g : AddsUpTo(g, f, m - 1)
      BY <2>2
    <3> DEFINE h == [i \in 0 .. m |-> IF i = m THEN g[m - 1] + f[m - 1] ELSE g[i]]
    <3>2. AddsUpTo(h, f, m)
      <4>1. ASSUME NEW i \in 0 .. m
            PROVE  h[i] = IF i = 0 THEN 0 ELSE h[i - 1] + f[i - 1]
        <5>1. CASE i = m
          BY <5>1
        <5>2. CASE i # m
          <6>1. i \in 0 .. m - 1 /\ h[i] = g[i] /\ (i # 0 => h[i - 1] = g[i - 1])
            BY <5>2
          <6>2. g[i] = IF i = 0 THEN 0 ELSE g[i - 1] + f[i - 1]
            BY <3>1, <6>1 DEF AddsUpTo
          <6> QED
            BY <6>1, <6>2
        <5> QED
          BY <5>1, <5>2
      <4> QED
        BY <4>1 DEF AddsUpTo
    <3> QED
      BY <3>2
  <2> HIDE DEF K
  <2> QED
    BY <2>1, <2>2, UpTo
<1>2. AddsUpTo(SumsTo(f), f, Radix)
  BY <1>1 DEF SumsTo, AddsUpTo
<1>3. /\ SumsTo(f)[0] = 0
      /\ \A i \in 1 .. Radix : SumsTo(f)[i] = SumsTo(f)[i - 1] + f[i - 1]
  <2> DEFINE h == SumsTo(f)
  <2>1. h = [i \in 0 .. Radix |-> IF i = 0 THEN 0 ELSE h[i - 1] + f[i - 1]]
    BY <1>2 DEF AddsUpTo
  <2> HIDE DEF h, K
  <2>2. \A i \in 0 .. Radix : h[i] = IF i = 0 THEN 0 ELSE h[i - 1] + f[i - 1]
    BY <2>1
  <2>3. h[0] = 0 /\ \A i \in 1 .. Radix : h[i] = h[i - 1] + f[i - 1]
    BY <2>2
  <2> QED
    BY <2>3 DEF h
<1>4. ASSUME NEW n \in 0 .. Radix PROVE SumsTo(f)[n] \in Nat
  <2> DEFINE J == {m \in 0 .. n : SumsTo(f)[m] \in Nat}
  <2>1. 0 \in J
    BY <1>3
  <2>2. ASSUME NEW m \in 1 .. n, m - 1 \in J PROVE m \in J
    BY <1>3, <2>2 DEF Octet
  <2> HIDE DEF J
  <2>3. n \in J
    BY <2>1, <2>2, UpTo
  <2> QED
    BY <2>3 DEF J
<1> QED
  BY <1>3, <1>4 DEF Adds

\* One step of the sums.
LEMMA NextSum ==
  ASSUME NEW f, Adds(f), NEW m \in 1 .. Radix
  PROVE  /\ m - 1 \in Octet /\ m - 1 \in 0 .. Radix
         /\ SumsTo(f)[m - 1] \in Nat /\ f[m - 1] \in Nat /\ SumsTo(f)[m] \in Nat
         /\ SumsTo(f)[m] = SumsTo(f)[m - 1] + f[m - 1]
<1>1. m - 1 \in Octet /\ m - 1 \in 0 .. Radix /\ m \in 0 .. Radix
  BY TableConstants DEF Octet
<1> QED
  BY <1>1 DEF Adds

LEMMA SumsOfSum ==
  ASSUME NEW f, NEW g, NEW h, Adds(f), Adds(g), Adds(h),
         \A s \in Octet : h[s] = f[s] + g[s]
  PROVE  SumsTo(h)[Radix] = SumsTo(f)[Radix] + SumsTo(g)[Radix]
<1> DEFINE K == {m \in 0 .. Radix : SumsTo(h)[m] = SumsTo(f)[m] + SumsTo(g)[m]}
<1>1. 0 \in K
  BY TableConstants DEF Adds
<1>2. ASSUME NEW m \in 1 .. Radix, m - 1 \in K PROVE m \in K
  BY <1>2, NextSum
<1> HIDE DEF K
<1>3. Radix \in K
  BY <1>1, <1>2, UpTo, TableConstants
<1> QED
  BY <1>3 DEF K

LEMMA SumsInOrder ==
  ASSUME NEW f, NEW g, Adds(f), Adds(g), \A s \in Octet : f[s] <= g[s]
  PROVE  SumsTo(f)[Radix] <= SumsTo(g)[Radix]
<1> DEFINE K == {m \in 0 .. Radix : SumsTo(f)[m] <= SumsTo(g)[m]}
<1>1. 0 \in K
  BY TableConstants DEF Adds
<1>2. ASSUME NEW m \in 1 .. Radix, m - 1 \in K PROVE m \in K
  <2>1. f[m - 1] <= g[m - 1]
    BY NextSum
  <2> QED
    BY <1>2, <2>1, NextSum
<1> HIDE DEF K
<1>3. Radix \in K
  BY <1>1, <1>2, UpTo, TableConstants
<1> QED
  BY <1>3 DEF K

LEMMA SumsOfMultiple ==
  ASSUME NEW f, NEW h, NEW c \in Nat, Adds(f), Adds(h), \A s \in Octet : h[s] = c * f[s]
  PROVE  SumsTo(h)[Radix] = c * SumsTo(f)[Radix]
<1> DEFINE K == {m \in 0 .. Radix : SumsTo(h)[m] = c * SumsTo(f)[m]}
<1>1. 0 \in K
  BY TableConstants DEF Adds
<1>2. ASSUME NEW m \in 1 .. Radix, m - 1 \in K PROVE m \in K
  <2> DEFINE a == SumsTo(f)[m - 1]
             b == f[m - 1]
  <2>1. /\ a \in Nat /\ b \in Nat /\ SumsTo(f)[m] = a + b
        /\ SumsTo(h)[m] = c * a + c * b
    BY <1>2, NextSum
  <2> HIDE DEF a, b
  <2>2. c * (a + b) = c * a + c * b
    BY <2>1
  <2> QED
    BY <2>1, <2>2
<1> HIDE DEF K
<1>3. Radix \in K
  BY <1>1, <1>2, UpTo, TableConstants
<1> QED
  BY <1>3 DEF K

\* The sum of a set's marks is how many it has.
Marks(A) == [s \in Octet |-> IF s \in A THEN 1 ELSE 0]

LEMMA SumsOfMarks ==
  ASSUME NEW A \in SUBSET Octet
  PROVE  /\ Adds(Marks(A)) /\ IsFiniteSet(A) /\ Cardinality(A) \in Nat
         /\ SumsTo(Marks(A))[Radix] = Cardinality(A)
<1>1. Adds(Marks(A))
  BY SumsToUnfold DEF Marks
<1>0. \A s \in A : s \in Int /\ 0 <= s /\ s < Radix
  BY TableConstants DEF Octet
<1>2. ASSUME NEW m \in 0 .. Radix PROVE IsFiniteSet({s \in A : s < m})
  <2>1. IsFiniteSet(0 .. Radix - 1)
    BY FS_Interval, TableConstants
  <2>2. {s \in A : s < m} \in SUBSET (0 .. Radix - 1)
    BY DEF Octet
  <2> QED
    BY <2>1, <2>2, FS_Subset
<1> DEFINE K == {m \in 0 .. Radix : SumsTo(Marks(A))[m] = Cardinality({s \in A : s < m})}
<1>3. 0 \in K
  <2>1. {s \in A : s < 0} = {}
    BY <1>0
  <2>2. Cardinality({s \in A : s < 0}) = 0
    BY <2>1, FS_EmptySet
  <2> QED
    BY <1>1, <2>2, TableConstants DEF Adds
<1>4. ASSUME NEW m \in 1 .. Radix, m - 1 \in K PROVE m \in K
  <2> DEFINE B == {s \in A : s < m - 1}
             C == {s \in A : s < m}
  <2>1. IsFiniteSet(B) /\ m - 1 \notin B
    <3>1. m - 1 \in 0 .. Radix
      BY TableConstants
    <3> QED
      BY <1>2, <3>1
  <2>2. SumsTo(Marks(A))[m - 1] = Cardinality(B)
    BY <1>4
  <2>3. SumsTo(Marks(A))[m] = Cardinality(B) + (IF m - 1 \in A THEN 1 ELSE 0)
    BY <1>1, <2>2, NextSum DEF Marks
  <2>4. C = IF m - 1 \in A THEN B \cup {m - 1} ELSE B
    <3>1. \A s \in A : s < m <=> s < m - 1 \/ s = m - 1
      BY <1>0
    <3> QED
      BY <3>1
  <2> HIDE DEF B
  <2>5. Cardinality(B) \in Nat
    BY <2>1, FS_CardinalityType
  <2>6. Cardinality(B \cup {m - 1}) = Cardinality(B) + 1
    BY <2>1, FS_AddElement
  <2>7. SumsTo(Marks(A))[m] = Cardinality(C)
    <3> HIDE DEF C
    <3>1. CASE m - 1 \in A
      BY <2>3, <2>4, <2>5, <2>6, <3>1
    <3>2. CASE m - 1 \notin A
      BY <2>3, <2>4, <2>5, <3>2
    <3> QED
      BY <3>1, <3>2
  <2> QED
    BY <2>7
<1> HIDE DEF K
<1>5. Radix \in K
  BY <1>3, <1>4, UpTo, TableConstants
<1>6. {s \in A : s < Radix} = A
  BY <1>0
<1>7. Radix \in 0 .. Radix
  BY TableConstants
<1> QED
  BY <1>1, <1>2, <1>5, <1>6, <1>7, FS_CardinalityType DEF K

\* Every place of the data is counted once.
LEMMA CountsAddUp ==
  ASSUME NEW data \in Seq(Octet)
  PROVE  Adds(CountFreq(data)) /\ SumsTo(CountFreq(data))[Radix] = Len(data)
<1> DEFINE raw == CountFreq(data)
           At(s) == {i \in DOMAIN data : data[i] = s}
           Below(m) == {i \in DOMAIN data : data[i] < m}
<1>1. Adds(raw)
  BY CountFreqType, SumsToUnfold
<1>2. IsFiniteSet(DOMAIN data) /\ Cardinality(DOMAIN data) = Len(data)
  <2>1. Len(data) \in Nat /\ DOMAIN data = 1 .. Len(data)
    OBVIOUS
  <2>2. Len(data) \in Int /\ 1 \in Int
    BY <2>1
  <2>3. /\ IsFiniteSet(1 .. Len(data))
        /\ Cardinality(1 .. Len(data)) = IF 1 > Len(data) THEN 0 ELSE Len(data) - 1 + 1
    BY <2>2, FS_Interval
  <2> QED
    BY <2>1, <2>3
<1>0. \A i \in DOMAIN data : data[i] \in Int /\ 0 <= data[i] /\ data[i] < Radix
  <2>1. \A i \in DOMAIN data : data[i] \in Octet
    OBVIOUS
  <2> QED
    BY <2>1, TableConstants DEF Octet
<1>3. \A s : IsFiniteSet(At(s)) /\ IsFiniteSet(Below(s))
  <2>1. \A s : At(s) \in SUBSET DOMAIN data /\ Below(s) \in SUBSET DOMAIN data
    OBVIOUS
  <2> HIDE DEF At, Below
  <2> QED
    BY <1>2, <2>1, FS_Subset
<1> DEFINE K == {m \in 0 .. Radix : SumsTo(raw)[m] = Cardinality(Below(m))}
<1>4. 0 \in K
  <2>1. Below(0) = {}
    BY <1>0
  <2>2. Cardinality(Below(0)) = 0
    BY <2>1, FS_EmptySet
  <2>3. SumsTo(raw)[0] = 0
    BY <1>1 DEF Adds
  <2> HIDE DEF raw, Below
  <2> QED
    BY <2>2, <2>3, TableConstants
<1>5. ASSUME NEW m \in 1 .. Radix, m - 1 \in K PROVE m \in K
  <2>1. Below(m) = Below(m - 1) \cup At(m - 1) /\ Below(m - 1) \cap At(m - 1) = {}
    <3>1. \A i \in DOMAIN data : /\ data[i] < m <=> data[i] < m - 1 \/ data[i] = m - 1
                                 /\ ~ (data[i] < m - 1 /\ data[i] = m - 1)
      BY <1>0
    <3> QED
      BY <3>1
  <2>2. m - 1 \in Octet
    BY <1>1, NextSum
  <2>3. raw[m - 1] = Cardinality(At(m - 1))
    BY <2>2 DEF CountFreq
  <2>4. SumsTo(raw)[m] = Cardinality(Below(m - 1)) + Cardinality(At(m - 1))
    <3> HIDE DEF raw, At, Below
    <3> QED
      BY <1>1, <1>5, <2>3, NextSum
  <2> HIDE DEF raw, At, Below
  <2>5. IsFiniteSet(Below(m - 1)) /\ IsFiniteSet(At(m - 1))
    BY <1>3
  <2>6. Cardinality(Below(m - 1)) \in Nat /\ Cardinality(At(m - 1)) \in Nat
    BY <2>5, FS_CardinalityType
  <2>7. Cardinality(Below(m)) = Cardinality(Below(m - 1)) + Cardinality(At(m - 1)) - Cardinality({})
    BY <2>1, <2>5, FS_Union
  <2>8. Cardinality({}) = 0
    BY FS_EmptySet
  <2> QED
    BY <2>4, <2>6, <2>7, <2>8
<1>6. Below(Radix) = DOMAIN data
  BY <1>0
<1> HIDE DEF K
<1>7. Radix \in K
  BY <1>4, <1>5, UpTo, TableConstants
<1> QED
  BY <1>1, <1>2, <1>6, <1>7 DEF K

-----------------------------------------------------------------------------
(* Ranks.  In a set with a strict order, at most m of its elements have     *)
(* fewer than m before them, and m do if there are as many.                 *)

Before(U, R, s) == {t \in U : <<t, s>> \in R}

Orders(R, U) ==
  /\ \A s \in U : <<s, s>> \notin R
  /\ \A s, t, u \in U : <<s, t>> \in R /\ <<t, u>> \in R => <<s, u>> \in R
  /\ \A s, t \in U : s # t => <<s, t>> \in R \/ <<t, s>> \in R

LEMMA RanksApart ==
  ASSUME NEW U, IsFiniteSet(U), NEW R, Orders(R, U)
  PROVE  \A s, t \in U :
           /\ Cardinality(Before(U, R, s)) \in 0 .. Cardinality(U) - 1
           /\ s # t => Cardinality(Before(U, R, s)) # Cardinality(Before(U, R, t))
<1> DEFINE rank(s) == Cardinality(Before(U, R, s))
<1>1. ASSUME NEW s \in U
      PROVE  /\ IsFiniteSet(Before(U, R, s)) /\ rank(s) \in Nat
             /\ rank(s) \in 0 .. Cardinality(U) - 1
  <2>1. Before(U, R, s) \in SUBSET U /\ Before(U, R, s) # U
    BY DEF Before, Orders
  <2>2. /\ IsFiniteSet(Before(U, R, s))
        /\ Cardinality(Before(U, R, s)) <= Cardinality(U)
        /\ Cardinality(U) # Cardinality(Before(U, R, s))
    BY <2>1, FS_Subset
  <2>3. Cardinality(U) \in Nat /\ rank(s) \in Nat
    BY <2>2, FS_CardinalityType
  <2> QED
    BY <2>2, <2>3
<1>2. ASSUME NEW s \in U, NEW t \in U, <<s, t>> \in R PROVE rank(s) # rank(t)
  <2>1. Before(U, R, s) \in SUBSET Before(U, R, t)
    BY <1>2 DEF Before, Orders
  <2>2. s \in Before(U, R, t) /\ s \notin Before(U, R, s)
    BY <1>2 DEF Before, Orders
  <2> QED
    BY <1>1, <2>1, <2>2, FS_Subset
<1>3. ASSUME NEW s \in U, NEW t \in U, s # t PROVE rank(s) # rank(t)
  BY <1>2, <1>3 DEF Orders
<1> QED
  BY <1>1, <1>3

\* A set whose elements have different ranks is no larger than the interval of
\* the ranks.
LEMMA RankedBelow ==
  ASSUME NEW S, NEW f, NEW a \in Int, NEW b \in Int, a <= b + 1,
         \A s \in S : f[s] \in a .. b,
         \A s, t \in S : s # t => f[s] # f[t]
  PROVE  IsFiniteSet(S) /\ Cardinality(S) <= b - a + 1
<1> DEFINE g == [s \in S |-> f[s]]
<1>1. g \in Injection(S, a .. b)
  BY DEF Injection, IsInjective
<1>2. IsFiniteSet(a .. b) /\ Cardinality(a .. b) = b - a + 1
  BY FS_Interval
<1> HIDE DEF g
<1> QED
  BY <1>1, <1>2, FS_Injection

LEMMA FirstOfOrder ==
  ASSUME NEW U, IsFiniteSet(U), NEW R, Orders(R, U), NEW m \in Nat,
         NEW First, First = {s \in U : Cardinality(Before(U, R, s)) < m}
  PROVE  /\ Cardinality(First) <= m
         /\ m <= Cardinality(U) => Cardinality(First) >= m
<1> DEFINE rank == [s \in U |-> Cardinality(Before(U, R, s))]
           n == Cardinality(U)
           Rest == U \ First
<1>1. /\ \A s \in U : rank[s] \in 0 .. n - 1
      /\ \A s, t \in U : s # t => rank[s] # rank[t]
  BY RanksApart
<1>2. First \in SUBSET U /\ Rest \in SUBSET U /\ First = {s \in U : rank[s] < m}
  OBVIOUS
<1>3. n \in Nat /\ IsFiniteSet(First) /\ IsFiniteSet(Rest)
  BY <1>2, FS_CardinalityType, FS_Subset
<1>4. Cardinality(First) \in Nat /\ Cardinality(Rest) \in Nat
  BY <1>3, FS_CardinalityType
<1>5. Cardinality(Rest) = n - Cardinality(First)
  <2>1. U \cap First = First
    BY <1>2
  <2>2. Cardinality(U \ First) = Cardinality(U) - Cardinality(U \cap First)
    BY FS_Difference
  <2> QED
    BY <2>1, <2>2
<1> HIDE DEF rank, n
<1>6. Cardinality(First) <= m
  <2>1. \A s \in First : rank[s] \in 0 .. m - 1
    BY <1>1, <1>2, <1>3
  <2>2. \A s, t \in First : s # t => rank[s] # rank[t]
    BY <1>1, <1>2
  <2>3. 0 \in Int /\ m - 1 \in Int /\ 0 <= (m - 1) + 1
    OBVIOUS
  <2>4. Cardinality(First) <= (m - 1) - 0 + 1
    BY <2>1, <2>2, <2>3, RankedBelow
  <2> QED
    BY <2>4, <1>4
<1>7. ASSUME m <= n PROVE Cardinality(Rest) <= n - m
  <2>1. \A s \in Rest : rank[s] \in m .. n - 1
    BY <1>1, <1>2, <1>3
  <2>2. \A s, t \in Rest : s # t => rank[s] # rank[t]
    BY <1>1, <1>2
  <2> HIDE DEF Rest
  <2>3. Cardinality(Rest) <= (n - 1) - m + 1
    BY <2>1, <2>2, <1>3, <1>7, RankedBelow
  <2> QED
    BY <2>3, <1>3, <1>4
<1> HIDE DEF Rest
<1> QED
  BY <1>3, <1>4, <1>5, <1>6, <1>7 DEF n

-----------------------------------------------------------------------------
(* Normalising: what is given is given to as many as are short of, and no   *)
(* more is taken than there is too much.                                    *)

\* The table before the corrections.
Floors(raw, total) == [s \in Octet |-> Scaled(raw[s], total)]

Occurring(raw) == {s \in Octet : raw[s] > 0}

LEMMA FloorsFit ==
  ASSUME NEW raw \in [Octet -> Nat], NEW total \in Nat \ {0}, NEW s \in Octet
  PROVE  /\ Floors(raw, total)[s] \in Nat
         /\ (raw[s] = 0 => Floors(raw, total)[s] = 0)
         /\ (raw[s] > 0 => TableSize * raw[s] <= total * (Floors(raw, total)[s] + 1))
<1> DEFINE n == raw[s] * TableSize
           q == n \div total
           f == Scaled(raw[s], total)
<1>1. raw[s] \in Nat /\ n \in Nat /\ TableSize \in Nat /\ n = TableSize * raw[s]
  BY TableConstants
<1>2. q \in Nat /\ n % total \in 0 .. total - 1 /\ n = total * q + (n % total)
  BY <1>1, DivMod
<1>3. f = IF raw[s] > 0 /\ n < total THEN 1 ELSE q
  BY DEF Scaled
<1>4. Floors(raw, total)[s] = f /\ f \in Nat
  BY <1>1, ScaledType DEF Floors
<1>5. raw[s] = 0 => n = 0
  BY <1>1
<1> HIDE DEF n, q, f
<1>6. ASSUME n = 0 PROVE q = 0
  <2>1. n < total * 1
    BY <1>6
  <2>2. ASSUME 1 <= q PROVE FALSE
    <3>1. total * 1 <= total * q
      BY <2>2, <1>2, MonotoneProduct
    <3> QED
      BY <3>1, <2>1, <1>2
  <2> QED
    BY <2>2, <1>2
<1>7. q <= f
  <2>1. ASSUME n < total PROVE q <= 1
    <3>1. n < total * 2
      BY <2>1, <1>1
    <3>2. q < 2
      BY <3>1, <1>1, DivBelow DEF q
    <3> QED
      BY <3>2, <1>2
  <2> QED
    BY <2>1, <1>2, <1>3
<1>8. total * (q + 1) <= total * (f + 1) /\ total * (q + 1) = total * q + total
  BY <1>2, <1>4, <1>7, MonotoneProduct
<1>9. n <= total * (f + 1)
  BY <1>1, <1>2, <1>8, <1>4
<1> QED
  BY <1>1, <1>3, <1>4, <1>5, <1>6, <1>9

\* Rounding is short of the table by no more than there are symbols.
LEMMA EnoughOccur ==
  ASSUME NEW raw \in [Octet -> Nat], NEW total \in Nat \ {0}, Adds(raw),
         SumsTo(raw)[Radix] = total
  PROVE  /\ Adds(Floors(raw, total))
         /\ TableSize <= SumsTo(Floors(raw, total))[Radix] + Cardinality(Occurring(raw))
<1> DEFINE floor   == Floors(raw, total)
           mark    == Marks(Occurring(raw))
           both    == [s \in Octet |-> floor[s] + mark[s]]
           wanted  == [s \in Octet |-> TableSize * raw[s]]
           offered == [s \in Octet |-> total * both[s]]
           F       == SumsTo(floor)[Radix]
           c       == Cardinality(Occurring(raw))
<1>0. TableSize \in Nat /\ Radix \in 0 .. Radix
  BY TableConstants
<1>1. \A s \in Octet : floor[s] \in Nat /\ mark[s] \in Nat /\ both[s] \in Nat
                       /\ both[s] = floor[s] + mark[s]
                       /\ wanted[s] = TableSize * raw[s] /\ offered[s] = total * both[s]
  BY FloorsFit DEF Marks
<1>2. \A s \in Octet : wanted[s] \in Nat /\ offered[s] \in Nat
  BY <1>0, <1>1
<1>3. \A s \in Octet : wanted[s] <= offered[s]
  <2> SUFFICES ASSUME NEW s \in Octet PROVE wanted[s] <= offered[s]
    OBVIOUS
  <2>1. raw[s] \in Nat /\ mark[s] = IF raw[s] > 0 THEN 1 ELSE 0
    BY DEF Marks, Occurring
  <2>2. CASE raw[s] > 0
    <3>1. TableSize * raw[s] <= total * (floor[s] + 1)
      BY <2>2, FloorsFit
    <3>2. both[s] = floor[s] + 1
      BY <1>1, <2>1, <2>2
    <3> QED
      BY <3>1, <3>2, <1>1
  <2>3. CASE raw[s] = 0
    <3>1. wanted[s] = 0
      BY <2>3, <1>0, <1>1
    <3> QED
      BY <3>1, <1>2
  <2> QED
    BY <2>1, <2>2, <2>3
<1>4. Adds(floor) /\ Adds(both) /\ Adds(wanted) /\ Adds(offered)
  BY <1>1, <1>2, SumsToUnfold
<1>5. /\ Occurring(raw) \in SUBSET Octet
      /\ Adds(mark) /\ SumsTo(mark)[Radix] = c /\ c \in Nat
  BY SumsOfMarks DEF Occurring
<1> HIDE DEF floor, mark, both, wanted, offered, c
<1>6. SumsTo(both)[Radix] = F + c
  BY <1>1, <1>4, <1>5, SumsOfSum
<1>7. SumsTo(wanted)[Radix] = TableSize * total
  <2>1. \A s \in Octet : wanted[s] = TableSize * raw[s]
    BY <1>1
  <2>2. SumsTo(wanted)[Radix] = TableSize * SumsTo(raw)[Radix]
    BY <2>1, <1>0, <1>4, SumsOfMultiple
  <2> QED
    BY <2>2
<1>8. SumsTo(offered)[Radix] = total * (F + c)
  <2>1. total \in Nat /\ \A s \in Octet : offered[s] = total * both[s]
    BY <1>1
  <2>2. SumsTo(offered)[Radix] = total * SumsTo(both)[Radix]
    BY <2>1, <1>4, SumsOfMultiple
  <2> QED
    BY <2>2, <1>6
<1>9. TableSize * total <= total * (F + c)
  BY <1>3, <1>4, <1>7, <1>8, SumsInOrder
<1>10. F \in Nat
  BY <1>0, <1>4 DEF Adds
<1>11. ASSUME F + c + 1 <= TableSize PROVE FALSE
  <2>1. total * (F + c + 1) <= total * TableSize
    BY <1>0, <1>5, <1>10, <1>11, MonotoneProduct
  <2>2. total * (F + c + 1) = total * (F + c) + total /\ total * TableSize = TableSize * total
    BY <1>0, <1>5, <1>10
  <2> QED
    BY <2>1, <2>2, <1>9, <1>0, <1>5, <1>10
<1>12. TableSize <= F + c
  BY <1>0, <1>5, <1>10, <1>11
<1> QED
  BY <1>4, <1>12 DEF floor, c

\* The sum that is normalised is never less than the table.
LEMMA NormaliseFills ==
  ASSUME NEW raw \in [Octet -> Nat], NEW total \in Nat \ {0}, Adds(raw),
         SumsTo(raw)[Radix] = total
  PROVE  SumsTo(Normalise(raw, total))[Radix] >= TableSize
<1> DEFINE floor == Floors(raw, total)
           norm  == Normalise(raw, total)
           rem   == [s \in Octet |-> (raw[s] * TableSize) % total]
           occ   == Occurring(raw)
           F     == SumsTo(floor)[Radix]
           miss  == TableSize - F
           Ahead == {p \in Octet \X Octet : rem[p[1]] > rem[p[2]]
                                            \/ (rem[p[1]] = rem[p[2]] /\ p[1] < p[2])}
           After == {p \in Octet \X Octet : rem[p[1]] < rem[p[2]]
                                            \/ (rem[p[1]] = rem[p[2]] /\ p[1] < p[2])}
           rich  == {s \in occ : floor[s] > 1}
           more  == {s \in occ : Cardinality(Before(occ, Ahead, s)) < miss}
           less  == {s \in rich : Cardinality(Before(rich, After, s)) < - miss}
<1>1. /\ Adds(floor) /\ F \in Nat /\ TableSize \in Nat /\ miss \in Int
      /\ TableSize <= F + Cardinality(occ)
  <2>1. Adds(floor) /\ TableSize <= F + Cardinality(occ)
    BY EnoughOccur
  <2>2. F \in Nat /\ TableSize \in Nat
    BY <2>1, TableConstants DEF Adds
  <2> QED
    BY <2>1, <2>2
<1>2. \A s \in Octet : /\ floor[s] \in Nat /\ (s \notin occ => floor[s] = 0)
                       /\ s \in Int /\ rem[s] \in Int
  <2> SUFFICES ASSUME NEW s \in Octet
               PROVE  /\ floor[s] \in Nat /\ (s \notin occ => floor[s] = 0)
                      /\ s \in Int /\ rem[s] \in Int
    OBVIOUS
  <2>1. raw[s] \in Nat /\ (s \notin occ => raw[s] = 0)
    BY DEF Occurring
  <2>2. raw[s] * TableSize \in Nat
    BY <2>1, <1>1
  <2>3. rem[s] \in Int
    BY <2>2, DivMod
  <2> QED
    BY <2>1, <2>3, FloorsFit, TableConstants, SMTT(60) DEF Octet
<1>3. occ \in SUBSET Octet /\ rich \in SUBSET occ
  BY DEF Occurring
<1>4. /\ IsFiniteSet(occ) /\ Cardinality(occ) \in Nat
      /\ IsFiniteSet(rich) /\ more \in SUBSET Octet /\ less \in SUBSET Octet
  BY <1>3, SumsOfMarks, FS_Subset
<1>5. \A s \in Octet :
        norm[s] = IF s \in more THEN floor[s] + 1
                  ELSE IF s \in less THEN floor[s] - 1 ELSE floor[s]
  <2> SUFFICES ASSUME NEW s \in Octet
               PROVE  norm[s] = IF s \in more THEN floor[s] + 1
                                ELSE IF s \in less THEN floor[s] - 1 ELSE floor[s]
    OBVIOUS
  <2> DEFINE larger == {t \in occ : rem[t] > rem[s] \/ (rem[t] = rem[s] /\ t < s)}
             below  == {t \in occ : rem[t] < rem[s] \/ (rem[t] = rem[s] /\ t < s)}
             payers == {t \in below : floor[t] > 1}
  <2>1. norm[s] = IF s \in occ /\ Cardinality(larger) < miss THEN floor[s] + 1
                  ELSE IF floor[s] > 1 /\ Cardinality(payers) < - miss THEN floor[s] - 1
                  ELSE floor[s]
    BY DEF Normalise, Missing, Floors, Occurring
  <2>2. larger = Before(occ, Ahead, s)
    BY <1>3 DEF Before
  <2>3. payers = Before(rich, After, s)
    BY <1>3 DEF Before
  <2>4. floor[s] > 1 => s \in rich
    BY <1>2
  <2> HIDE DEF larger, payers, floor, norm, miss, occ, Ahead, After
  <2> QED
    BY <2>1, <2>2, <2>3, <2>4
<1>6. Orders(Ahead, occ) /\ Orders(After, rich)
  <2>1. Orders(Ahead, Octet) /\ Orders(After, Octet)
    <3> DEFINE r(s) == rem[s]
    <3>1. \A s, t \in Octet : /\ <<s, t>> \in Ahead <=> r(s) > r(t) \/ (r(s) = r(t) /\ s < t)
                              /\ <<s, t>> \in After <=> r(s) < r(t) \/ (r(s) = r(t) /\ s < t)
      OBVIOUS
    <3> HIDE DEF Ahead, After, rem, r
    <3>2. \A s \in Octet : r(s) \in Int /\ s \in Int
      BY <1>2 DEF r
    <3> QED
      BY <3>1, <3>2 DEF Orders
  <2> HIDE DEF Ahead, After, occ, rich
  <2> QED
    BY <2>1, <1>3 DEF Orders
<1>7. norm \in [Octet -> Nat] /\ Adds(norm)
  BY NormaliseType, SumsToUnfold
<1> HIDE DEF floor, norm, occ, F, Ahead, After, rich
<1>8. CASE miss >= 0
  <2>1. miss \in Nat /\ less = {}
    <3>1. \A s \in rich : Cardinality(Before(rich, After, s)) \in Nat
      BY <1>4, <1>6, RanksApart
    <3> QED
      BY <1>1, <1>8, <3>1
  <2>2. Cardinality(more) >= miss
    BY <2>1, <1>1, <1>4, <1>6, FirstOfOrder
  <2>3. Adds(Marks(more)) /\ SumsTo(Marks(more))[Radix] = Cardinality(more)
        /\ Cardinality(more) \in Nat
    BY <1>4, SumsOfMarks
  <2>4. \A s \in Octet : norm[s] = floor[s] + Marks(more)[s]
    BY <1>2, <1>5, <2>1 DEF Marks
  <2>5. SumsTo(norm)[Radix] = F + Cardinality(more)
    <3> DEFINE mark == Marks(more)
    <3>1. /\ Adds(mark) /\ SumsTo(mark)[Radix] = Cardinality(more)
          /\ \A s \in Octet : norm[s] = floor[s] + mark[s]
      BY <2>3, <2>4
    <3> HIDE DEF mark, more
    <3>2. SumsTo(norm)[Radix] = SumsTo(floor)[Radix] + SumsTo(mark)[Radix]
      BY <3>1, <1>1, <1>7, SumsOfSum
    <3> QED
      BY <3>1, <3>2 DEF F
  <2> QED
    BY <2>2, <2>3, <2>5, <1>1 DEF norm
<1>9. CASE miss < 0
  <2>1. - miss \in Nat /\ more = {}
    <3>1. \A s \in occ : Cardinality(Before(occ, Ahead, s)) \in Nat
      BY <1>4, <1>6, RanksApart
    <3> QED
      BY <1>1, <1>9, <3>1
  <2>2. Cardinality(less) <= - miss
    BY <2>1, <1>4, <1>6, FirstOfOrder
  <2>3. Adds(Marks(less)) /\ SumsTo(Marks(less))[Radix] = Cardinality(less)
        /\ Cardinality(less) \in Nat
    BY <1>4, SumsOfMarks
  <2>4. \A s \in Octet : floor[s] = norm[s] + Marks(less)[s]
    BY <1>2, <1>5, <2>1 DEF Marks
  <2>5. F = SumsTo(norm)[Radix] + Cardinality(less)
    <3> DEFINE mark == Marks(less)
    <3>1. /\ Adds(mark) /\ SumsTo(mark)[Radix] = Cardinality(less)
          /\ \A s \in Octet : floor[s] = norm[s] + mark[s]
      BY <2>3, <2>4
    <3> HIDE DEF mark, less
    <3>2. SumsTo(floor)[Radix] = SumsTo(norm)[Radix] + SumsTo(mark)[Radix]
      BY <3>1, <1>1, <1>7, SumsOfSum
    <3> QED
      BY <3>1, <3>2 DEF F
  <2>6. SumsTo(norm)[Radix] \in Nat
    BY <1>7, TableConstants DEF Adds
  <2>7. - miss = F - TableSize
    BY <1>1
  <2> HIDE DEF less, miss
  <2>8. SumsTo(norm)[Radix] >= TableSize
    BY <2>2, <2>3, <2>5, <2>6, <2>7, <1>1
  <2> QED
    BY <2>8 DEF norm
<1>10. miss >= 0 \/ miss < 0
  BY <1>1
<1> HIDE DEF miss
<1> QED
  BY <1>8, <1>9, <1>10

-----------------------------------------------------------------------------
(* The cumulative sums. *)

\* The slots of a symbol, in a table that fits.
LEMMA FreqBounds ==
  ASSUME RansTypeOK, CdfInv, ci = Radix, Fits, NEW s \in Octet
  PROVE  cdf[s] \in Nat /\ freq[s] \in Nat /\ cdf[s] + freq[s] <= TableSize
<1>1. /\ s \in 0 .. Radix - 1 /\ s + 1 \in 0 .. Radix /\ Radix \in 0 .. Radix
      /\ s \in 0 .. Radix
  BY TableConstants DEF Octet
<1>2. cdf[s + 1] = cdf[s] + freq[s] /\ cdf[s + 1] <= cdf[Radix]
  BY <1>1 DEF CdfInv
<1>3. cdf[s] \in Nat /\ freq[s] \in Nat /\ cdf[Radix] \in Nat
  BY <1>1 DEF RansTypeOK
<1> QED
  BY <1>2, <1>3, TableConstants DEF Fits

\* No slot has two owners: build_alias finds the symbol whose slot it is.
LEMMA AliasOwner ==
  ASSUME RansTypeOK, CdfInv, ci = Radix, NEW s \in Octet, NEW slot \in Nat,
         Owns(s, slot)
  PROVE  Alias(slot) = s
<1>1. \A u \in Octet : /\ u \in 0 .. Radix - 1 /\ u + 1 \in 0 .. Radix /\ u \in 0 .. Radix
                       /\ cdf[u] \in Nat /\ freq[u] \in Nat /\ cdf[u + 1] \in Nat
  <2> SUFFICES ASSUME NEW u \in Octet
               PROVE  /\ u \in 0 .. Radix - 1 /\ u + 1 \in 0 .. Radix /\ u \in 0 .. Radix
                      /\ cdf[u] \in Nat /\ freq[u] \in Nat /\ cdf[u + 1] \in Nat
    OBVIOUS
  <2>1. u \in 0 .. Radix - 1 /\ u + 1 \in 0 .. Radix /\ u \in 0 .. Radix
    BY TableConstants DEF Octet
  <2>2. cdf \in [0 .. Radix -> Nat] /\ freq \in [Octet -> Nat]
    BY DEF RansTypeOK
  <2> QED
    BY <2>1, <2>2
<1>2. ASSUME NEW t \in Octet, NEW u \in Octet, Owns(t, slot), Owns(u, slot), t < u
      PROVE  FALSE
  <2>1. cdf[t + 1] = cdf[t] + freq[t] /\ cdf[t + 1] <= cdf[u]
    BY <1>1, <1>2 DEF CdfInv
  <2> QED
    BY <2>1, <1>1, <1>2 DEF Owns
<1>3. \A t \in Octet : Owns(t, slot) => t = s
  <2> SUFFICES ASSUME NEW t \in Octet, Owns(t, slot), t # s PROVE FALSE
    OBVIOUS
  <2>1. t < s \/ s < t
    BY <1>1
  <2> QED
    BY <2>1, <1>2
<1> QED
  BY <1>3 DEF Alias

LEMMA CdfStep ==
  ASSUME RansInv, RansNext
  PROVE  CdfInv'
<1> USE TableConstants
<1>0. RansTypeOK /\ CdfInv /\ ci \in 0 .. Radix /\ ci \in Nat
  BY DEF RansInv, RansTypeOK
<1>1. CASE \E data \in Seq(Octet) : Load(data)
  BY <1>0, <1>1 DEF Load, CdfInv
<1>2. CASE BuildCdf
  <2>1. /\ apc = "cdf" /\ apc' = "cdf" /\ ci < Radix /\ ci' = ci + 1 /\ freq' = freq
        /\ cdf' = [cdf EXCEPT ![ci + 1] = cdf[ci] + freq[ci]]
    BY <1>2 DEF BuildCdf
  <2>2. /\ cdf \in [0 .. Radix -> Nat] /\ ci \in Octet /\ freq[ci] \in Nat
        /\ cdf[ci] \in Nat /\ ci + 1 \in 0 .. Radix
    <3>1. ci \in Octet /\ ci \in 0 .. Radix /\ ci + 1 \in 0 .. Radix
      BY <2>1, <1>0 DEF Octet
    <3>2. freq \in [Octet -> Nat] /\ cdf \in [0 .. Radix -> Nat]
      BY <1>0 DEF RansTypeOK
    <3> QED
      BY <3>1, <3>2
  <2>3. cdf'[ci + 1] = cdf[ci] + freq[ci] /\ \A s \in 0 .. ci : cdf'[s] = cdf[s]
    <3>1. \A s \in 0 .. ci : s \in 0 .. Radix /\ s # ci + 1
      BY <2>2, <1>0
    <3>2. \A s \in 0 .. Radix : cdf'[s] = IF s = ci + 1 THEN cdf[ci] + freq[ci] ELSE cdf[s]
      BY <2>1, <2>2
    <3> QED
      BY <3>1, <3>2, <2>2
  <2>4. \A s \in 0 .. ci' - 1 : cdf'[s + 1] = cdf'[s] + freq'[s]
    <3> SUFFICES ASSUME NEW s \in 0 .. ci PROVE cdf'[s + 1] = cdf'[s] + freq[s]
      BY <2>1, <1>0
    <3>1. CASE s = ci
      BY <3>1, <2>3
    <3>2. CASE s # ci
      <4>1. s \in 0 .. ci - 1 /\ s + 1 \in 0 .. ci
        BY <3>2, <1>0
      <4> QED
        BY <4>1, <2>3, <1>0 DEF CdfInv
    <3> QED
      BY <3>1, <3>2
  <2>5. \A s, t \in 0 .. ci' : s <= t => cdf'[s] <= cdf'[t]
    <3> SUFFICES ASSUME NEW s \in 0 .. ci + 1, NEW t \in 0 .. ci + 1, s <= t
                 PROVE  cdf'[s] <= cdf'[t]
      BY <2>1
    <3>1. CASE t \in 0 .. ci
      BY <3>1, <2>3, <1>0 DEF CdfInv
    <3>2. CASE t = ci + 1 /\ s \in 0 .. ci
      <4>1. cdf[s] <= cdf[ci] /\ cdf[s] \in Nat
        BY <3>2, <2>2, <1>0 DEF CdfInv
      <4> QED
        BY <4>1, <3>2, <2>2, <2>3
    <3>3. CASE t = ci + 1 /\ s = ci + 1
      BY <3>3, <2>2, <2>3
    <3> QED
      BY <3>1, <3>2, <3>3, <1>0
  <2> QED
    BY <2>1, <2>4, <2>5 DEF CdfInv
<1>3. CASE UNCHANGED tables /\ apc # "idle" /\ apc' # "idle"
           /\ (ci = Radix \/ apc \notin {"cdf"})
  BY <1>0, <1>3 DEF tables, CdfInv
<1>4. CASE \/ StartEncode \/ Push \/ EncodeSymbol \/ StartDecode \/ DecodeSymbol
           \/ Refill \/ EndRefill \/ EndAnsDecode
  BY <1>3, <1>4 DEF StartEncode, Push, EncodeSymbol, StartDecode, DecodeSymbol, Refill,
     EndRefill, EndAnsDecode
<1> QED
  BY <1>1, <1>2, <1>4 DEF RansNext, Coding

-----------------------------------------------------------------------------
(* One entry more, or one less, on the trail. *)

\* The way stays while the tables and the stream do.
LEMMA TrailKept ==
  ASSUME Trail, UNCHANGED <<symbols, freq, cdf, stream, trace>>
  PROVE  Trail'
<1>1. \A a, b : PushedTo(a, b)' <=> PushedTo(a, b)
  BY DEF PushedTo
<1>2. \A x, s : Codable(x, s)' <=> Codable(x, s)
  BY DEF Codable
<1>3. \A x, s : Encoded(x, s)' = Encoded(x, s)
  BY DEF Encoded
<1>4. \A a, b : CodedTo(a, b)' <=> CodedTo(a, b)
  BY <1>2, <1>3 DEF CodedTo
<1> QED
  BY <1>1, <1>4 DEF Trail

LEMMA TrailExtend ==
  ASSUME Trail, NEW a, a = trace[Len(trace)], NEW e \in Entry,
         UNCHANGED <<symbols, freq, cdf>>, trace' = Append(trace, e),
         stream \in Seq(Octet), stream' \in Seq(Octet), Len(stream) <= Len(stream'),
         \A k \in 1 .. Len(stream) : stream'[k] = stream[k],
         a.depth = Len(stream), a.depth <= e.depth,
         e.x < TableSize * Radix, e.left <= Len(symbols),
         PushedTo(a, e)' \/ CodedTo(a, e)'
  PROVE  Trail'
<1> PICK n \in Nat : n = Len(trace)
  BY DEF Trail
<1>1. /\ trace \in Seq(Entry) /\ n >= 1 /\ Len(trace') = n + 1
      /\ trace'[n + 1] = e /\ \A i \in 1 .. n : trace'[i] = trace[i]
  BY DEF Trail
<1>2. \A i \in 1 .. n : trace[i] \in Entry
  BY <1>1
<1>3. trace' \in Seq(Entry) /\ trace' # <<>> /\ trace'[1] = Here(TableSize, Len(symbols'), 0)
  BY <1>1 DEF Trail
<1>4. \A i \in 1 .. n + 1 : i = n + 1 \/ i \in 1 .. n
  BY <1>1
<1>5. \A i \in 1 .. n + 1 :
        trace'[i].x < TableSize * Radix /\ trace'[i].left <= Len(symbols')
  BY <1>1, <1>4 DEF Trail
<1>6. \A i, j \in 1 .. n + 1 : i <= j => trace'[i].depth <= trace'[j].depth
  <2> SUFFICES ASSUME NEW i \in 1 .. n + 1, NEW j \in 1 .. n + 1, i <= j
               PROVE  trace'[i].depth <= trace'[j].depth
    OBVIOUS
  <2>1. CASE j \in 1 .. n
    <3>1. i \in 1 .. n
      BY <2>1
    <3> QED
      BY <2>1, <3>1, <1>1 DEF Trail
  <2>2. CASE j = n + 1 /\ i \in 1 .. n
    <3>1. trace[i].depth <= a.depth /\ trace[i].depth \in Nat /\ a.depth \in Nat
          /\ e.depth \in Nat
      <4>1. \A k \in 1 .. n : trace[k].depth \in Nat
        BY <1>2 DEF Entry
      <4>2. i <= n /\ n \in 1 .. n
        BY <1>1, <2>2
      <4>3. trace[i].depth <= trace[n].depth /\ trace[n] = a
        BY <2>2, <4>2 DEF Trail
      <4> QED
        BY <2>2, <4>1, <4>2, <4>3 DEF Entry
    <3> QED
      BY <3>1, <2>2, <1>1
  <2>3. CASE j = n + 1 /\ i = n + 1
    BY <2>3, <1>1 DEF Entry
  <2> QED
    BY <2>1, <2>2, <2>3, <1>4
<1>7. ASSUME NEW i \in 1 .. n
      PROVE  (PushedTo(trace[i], trace[i + 1]) \/ CodedTo(trace[i], trace[i + 1]))'
  <2>1. CASE i = n
    BY <2>1, <1>1 DEF PushedTo, CodedTo, Codable, Encoded
  <2>2. CASE i # n
    <3>1. i \in 1 .. n - 1 /\ i + 1 \in 1 .. n
      BY <2>2
    <3>2. trace'[i] = trace[i] /\ trace'[i + 1] = trace[i + 1]
      BY <3>1, <1>1
    <3>3. CASE PushedTo(trace[i], trace[i + 1])
      <4>1. /\ trace[i + 1].depth \in Nat /\ trace[i].depth \in Nat
            /\ trace[i + 1].depth = trace[i].depth + 1
            /\ trace[i + 1].depth <= Len(stream)
        BY <3>1, <3>3, <1>2 DEF PushedTo, Entry
      <4>2. trace[i + 1].depth \in 1 .. Len(stream)
        BY <4>1
      <4>3. /\ trace[i + 1].depth <= Len(stream')
            /\ stream'[trace[i + 1].depth] = stream[trace[i + 1].depth]
        BY <4>1, <4>2
      <4> QED
        BY <4>3, <3>2, <3>3 DEF PushedTo
    <3>4. CASE CodedTo(trace[i], trace[i + 1])
      BY <3>2, <3>4 DEF CodedTo, Codable, Encoded
    <3> QED
      BY <3>1, <3>3, <3>4 DEF Trail
  <2> QED
    BY <2>1, <2>2
<1>8. Len(trace') = n + 1 /\ Len(trace') - 1 = n
  BY <1>1
<1> QED
  BY <1>3, <1>5, <1>6, <1>7, <1>8 DEF Trail

LEMMA TrailBack ==
  ASSUME Trail, Len(trace) >= 2, UNCHANGED <<symbols, freq, cdf>>,
         trace' = Front(trace), stream' \in Seq(Octet),
         Len(stream') = trace[Len(trace) - 1].depth,
         \A k \in 1 .. Len(stream') : stream'[k] = stream[k]
  PROVE  Trail' /\ trace'[Len(trace')] = trace[Len(trace) - 1]
<1> PICK n \in Nat : n = Len(trace)
  BY DEF Trail
<1>1. /\ trace \in Seq(Entry) /\ n >= 2 /\ Len(trace') = n - 1
      /\ \A i \in 1 .. n - 1 : trace'[i] = trace[i]
      /\ trace' \in Seq(Entry)
  BY DEF Trail, Front
<1>2. \A i \in 1 .. n : trace[i] \in Entry
  BY <1>1
<1>3. trace' # <<>> /\ trace'[1] = Here(TableSize, Len(symbols'), 0)
  BY <1>1 DEF Trail
<1>4. ASSUME NEW i \in 1 .. n - 2
      PROVE  (PushedTo(trace[i], trace[i + 1]) \/ CodedTo(trace[i], trace[i + 1]))'
  <2>1. /\ i \in 1 .. n - 1 /\ i + 1 \in 1 .. n - 1
        /\ trace'[i] = trace[i] /\ trace'[i + 1] = trace[i + 1]
    BY <1>1
  <2>2. CASE PushedTo(trace[i], trace[i + 1])
    <3>1. /\ trace[i + 1].depth \in Nat /\ trace[i].depth \in Nat
          /\ trace[i + 1].depth = trace[i].depth + 1
      BY <2>1, <2>2, <1>2 DEF PushedTo, Entry
    <3>2. trace[i + 1].depth <= trace[n - 1].depth
      <4>1. i + 1 <= n - 1 /\ i + 1 \in 1 .. n /\ n - 1 \in 1 .. n
        BY <1>1
      <4> QED
        BY <4>1 DEF Trail
    <3>3. trace[i + 1].depth \in 1 .. Len(stream')
      BY <3>1, <3>2
    <3>4. stream'[trace[i + 1].depth] = stream[trace[i + 1].depth]
      BY <3>3
    <3> QED
      BY <3>2, <3>4, <2>1, <2>2 DEF PushedTo
  <2>3. CASE CodedTo(trace[i], trace[i + 1])
    BY <2>1, <2>3 DEF CodedTo, Codable, Encoded
  <2> QED
    BY <2>1, <2>2, <2>3 DEF Trail
<1>5. \A i \in 1 .. n - 1 :
        trace'[i].x < TableSize * Radix /\ trace'[i].left <= Len(symbols')
  BY <1>1 DEF Trail
<1>6. \A i, j \in 1 .. n - 1 : i <= j => trace'[i].depth <= trace'[j].depth
  <2> SUFFICES ASSUME NEW i \in 1 .. n - 1, NEW j \in 1 .. n - 1, i <= j
               PROVE  trace'[i].depth <= trace'[j].depth
    OBVIOUS
  <2>1. i \in 1 .. n /\ j \in 1 .. n
    BY <1>1
  <2> QED
    BY <2>1, <1>1 DEF Trail
<1>7. Len(trace') - 1 = n - 2
  BY <1>1
<1>8. Trail'
  BY <1>1, <1>3, <1>4, <1>5, <1>6, <1>7 DEF Trail
<1> QED
  BY <1>1, <1>8

-----------------------------------------------------------------------------
(* The encoder's steps. *)

\* What is known of the symbol to be encoded next.
LEMMA NextFacts ==
  ASSUME RansInv, apc = "encode", left > 0
  PROVE  /\ left \in 1 .. Len(symbols) /\ NextSymbol \in Octet
         /\ freq[NextSymbol] \in Nat \ {0} /\ cdf[NextSymbol] \in Nat
         /\ Fits => freq[NextSymbol] + cdf[NextSymbol] <= TableSize
<1>0. RansTypeOK /\ CdfInv /\ ci = Radix
  BY DEF RansInv, CdfInv
<1>1. left \in 1 .. Len(symbols) /\ left \in DOMAIN symbols
  BY <1>0 DEF RansTypeOK
<1>2. NextSymbol \in Octet /\ freq[NextSymbol] > 0
  BY <1>0, <1>1 DEF RansTypeOK, NextSymbol
<1>3. freq[NextSymbol] \in Nat \ {0}
  BY <1>0, <1>2 DEF RansTypeOK
<1>4. cdf[NextSymbol] \in Nat
  <2>1. NextSymbol \in 0 .. Radix
    BY <1>2, TableConstants DEF Octet
  <2> QED
    BY <2>1, <1>0 DEF RansTypeOK
<1>5. Fits => freq[NextSymbol] + cdf[NextSymbol] <= TableSize
  BY <1>0, <1>2, <1>3, <1>4, FreqBounds
<1> QED
  BY <1>1, <1>2, <1>3, <1>4, <1>5

LEMMA StartEncodeStep ==
  ASSUME RansInv, StartEncode
  PROVE  CoderInv'
<1>0. RansTypeOK /\ CoderInv /\ apc = "cdf" /\ stream = <<>> /\ output = <<>>
  BY DEF RansInv, CoderInv, StartEncode
<1>1. /\ UNCHANGED <<symbols, freq, cdf, stream, output>> /\ apc' = "encode"
      /\ state' = TableSize /\ left' = Len(symbols)
      /\ trace' = <<Here(TableSize, Len(symbols), 0)>>
  BY DEF StartEncode, tables
<1>2. Here(TableSize, Len(symbols), 0) \in Entry
  BY <1>0, TableConstants DEF Here, Entry, RansTypeOK
<1>3. TableSize < TableSize * Radix
  <2>1. TableSize * 2 <= TableSize * Radix
    BY TableConstants, MonotoneProduct
  <2> QED
    BY <2>1, TableConstants
<1>4. Len(trace') = 1 /\ trace'[1] = Here(TableSize, Len(symbols), 0)
      /\ trace' \in Seq(Entry) /\ trace' # <<>>
  BY <1>1, <1>2
<1>5. Len(symbols) \in Nat /\ Len(stream') = 0
  BY <1>0, <1>1 DEF RansTypeOK
<1>6. \A i \in 1 .. 1 : i = 1
  OBVIOUS
<1>7. Trail'
  BY <1>1, <1>3, <1>4, <1>5, <1>6 DEF Trail, Here
<1>8. EncodeInv'
  BY <1>1, <1>4, <1>5, <1>7, TableConstants DEF EncodeInv
<1> QED
  BY <1>0, <1>1, <1>8 DEF CoderInv

LEMMA PushStep ==
  ASSUME RansInv, Push
  PROVE  CoderInv'
<1>0. RansTypeOK /\ CoderInv /\ apc = "encode" /\ left > 0 /\ state \in Nat
      /\ stream \in Seq(Octet) /\ output = <<>>
  BY DEF RansInv, RansTypeOK, CoderInv, Push
<1>1. /\ UNCHANGED <<symbols, freq, cdf, left, output>> /\ apc' = "encode"
      /\ stream' = Append(stream, state % Radix)
      /\ state' = state \div Radix
      /\ state >= freq[NextSymbol] * Radix
      /\ trace' = Append(trace, Here(state', left, Len(stream')))
  BY <1>0 DEF Push, tables
<1>2. /\ left \in 1 .. Len(symbols) /\ NextSymbol \in Octet
      /\ freq[NextSymbol] \in Nat \ {0}
  BY <1>0, NextFacts
<1>3. /\ state % Radix \in Octet /\ stream' \in Seq(Octet)
      /\ Len(stream') = Len(stream) + 1 /\ Len(stream) \in Nat
      /\ \A k \in 1 .. Len(stream) : stream'[k] = stream[k]
      /\ stream'[Len(stream) + 1] = state % Radix
  <2>1. state % Radix \in Octet
    BY <1>0, TableConstants, DivMod DEF Octet
  <2> QED
    BY <2>1, <1>0, <1>1
<1>4. ASSUME Fits PROVE EncodeInv'
  <2>1. EncodeInv /\ state < TableSize * Radix
    BY <1>0, <1>4 DEF CoderInv, RansTypeOK, Fits
  <2>2. state' \in Nat /\ freq[NextSymbol] <= state' /\ state' < TableSize
    <3>1. state' \in Nat
      BY <1>0, <1>1, TableConstants, DivMod
    <3>2. Radix * freq[NextSymbol] <= state /\ state < Radix * TableSize
      BY <2>1, <1>1, <1>2, TableConstants
    <3>3. freq[NextSymbol] <= state \div Radix
      BY <3>2, <1>0, <1>2, TableConstants, DivAtLeast
    <3>4. state \div Radix < TableSize
      BY <3>2, <1>0, TableConstants, DivBelow
    <3> QED
      BY <3>1, <3>3, <3>4, <1>1
  <2> PICK e : e = Here(state', left, Len(stream'))
    OBVIOUS
  <2> PICK a : a = trace[Len(trace)]
    OBVIOUS
  <2>3. /\ e \in Entry /\ e.x = state' /\ e.left = left /\ e.depth = Len(stream) + 1
    BY <2>2, <1>2, <1>3 DEF Here, Entry
  <2>4. a.x = state /\ a.left = left /\ a.depth = Len(stream)
    BY <2>1 DEF EncodeInv, Here
  <2>5. PushedTo(a, e)'
    BY <2>2, <2>3, <2>4, <1>1, <1>3 DEF PushedTo
  <2>6. e.x < TableSize * Radix /\ e.left <= Len(symbols)
    BY SMTT(60), <2>2, <2>3, <1>2, TableConstants
  <2>7. Trail /\ trace' = Append(trace, e) /\ trace \in Seq(Entry)
    BY <2>1, <1>1 DEF EncodeInv, Trail
  <2>8. Trail'
    BY <2>3, <2>4, <2>5, <2>6, <2>7, <1>0, <1>1, <1>3, TrailExtend
  <2>9. trace'[Len(trace')] = Here(state', left', Len(stream'))
    BY <2>3, <2>7, <1>1
  <2>10. state' >= freq'[NextSymbol'] /\ left' > 0
    BY <2>2, <1>0, <1>1 DEF NextSymbol
  <2> QED
    BY <2>8, <2>9, <2>10 DEF EncodeInv
<1>5. Fits' <=> Fits
  BY <1>1 DEF Fits
<1> QED
  BY <1>0, <1>1, <1>4, <1>5 DEF CoderInv

LEMMA EncodeSymbolStep ==
  ASSUME RansInv, EncodeSymbol
  PROVE  CoderInv' /\ state' \in Nat
<1>0. RansTypeOK /\ CoderInv /\ apc = "encode" /\ left > 0 /\ state \in Nat
      /\ stream \in Seq(Octet) /\ output = <<>>
  BY DEF RansInv, RansTypeOK, CoderInv, EncodeSymbol
<1> PICK s : s = NextSymbol
  OBVIOUS
<1>1. /\ UNCHANGED <<symbols, freq, cdf, stream, output>> /\ apc' = "encode"
      /\ state < freq[s] * Radix
      /\ state' = Encoded(state, s) /\ left' = left - 1
      /\ trace' = Append(trace, Here(state', left', Len(stream)))
  BY DEF EncodeSymbol, tables
<1>2. /\ left \in 1 .. Len(symbols) /\ s \in Octet /\ s = symbols[left]
      /\ freq[s] \in Nat \ {0} /\ cdf[s] \in Nat
      /\ Fits => freq[s] + cdf[s] <= TableSize
  BY <1>0, NextFacts DEF NextSymbol
<1>3. state' \in Nat
  <2>1. state \div freq[s] \in Nat /\ state % freq[s] \in Nat
    <3> PICK x \in Nat : x = state
      BY <1>0
    <3> PICK f \in Nat \ {0} : f = freq[s]
      BY <1>2
    <3>1. x \div f \in Nat /\ x % f \in 0 .. f - 1
      BY DivMod
    <3> QED
      BY <3>1
  <2>2. (state \div freq[s]) * TableSize \in Nat
    BY <2>1, TableConstants
  <2> QED
    BY <2>1, <2>2, <1>1, <1>2 DEF Encoded
<1>4. ASSUME Fits PROVE EncodeInv'
  <2>1. EncodeInv
    BY <1>0, <1>4 DEF CoderInv
  <2>2. freq[s] <= state
    BY <2>1, <1>0, <1>2, <1>4, TableConstants DEF EncodeInv, NextSymbol
  <2> DEFINE y == Encoded(state, s)
  <2>3. TableSize <= y /\ y < TableSize * Radix
    <3>1. y = Moved(TableSize, freq[s], cdf[s], state)
      BY DEF Encoded, Moved
    <3>2. cdf[s] + freq[s] <= TableSize
      BY <1>2, <1>4
    <3> HIDE DEF y
    <3> QED
      BY <3>1, <3>2, <2>2, <1>0, <1>1, <1>2, TableConstants, MovedUp, MovedBelow
  <2>4. state' >= TableSize /\ state' < TableSize * Radix
    BY <2>3, <1>1
  <2> PICK e : e = Here(state', left', Len(stream))
    OBVIOUS
  <2> PICK a : a = trace[Len(trace)]
    OBVIOUS
  <2>5. /\ e \in Entry /\ e.x = state' /\ e.left = left - 1 /\ e.depth = Len(stream)
    BY <1>0, <1>1, <1>2, <1>3 DEF Here, Entry
  <2>6. a.x = state /\ a.left = left /\ a.depth = Len(stream)
    BY <2>1 DEF EncodeInv, Here
  <2>7. CodedTo(a, e)'
    BY <2>2, <2>5, <2>6, <1>1, <1>2 DEF CodedTo, Codable, Encoded
  <2>8. e.x < TableSize * Radix /\ e.left <= Len(symbols)
    BY <2>4, <2>5, <1>2
  <2>9. Trail /\ trace' = Append(trace, e) /\ trace \in Seq(Entry)
    BY <2>1, <1>1 DEF EncodeInv, Trail
  <2>10. Len(stream) <= Len(stream') /\ a.depth <= e.depth
    BY <2>5, <2>6, <1>0, <1>1
  <2>11. Trail'
    BY <2>5, <2>6, <2>7, <2>8, <2>9, <2>10, <1>0, <1>1, TrailExtend
  <2>12. trace'[Len(trace')] = Here(state', left', Len(stream'))
    BY <2>5, <2>9, <1>1
  <2> QED
    BY <2>4, <2>11, <2>12 DEF EncodeInv
<1>5. Fits' <=> Fits
  BY <1>1 DEF Fits
<1> QED
  BY <1>0, <1>1, <1>3, <1>4, <1>5 DEF CoderInv

LEMMA StartDecodeStep ==
  ASSUME RansInv, StartDecode
  PROVE  CoderInv'
<1>0. RansTypeOK /\ CoderInv /\ apc = "encode" /\ left = 0 /\ output = <<>>
  BY DEF RansInv, CoderInv, StartDecode
<1>1. UNCHANGED <<symbols, freq, cdf, left, state, stream, output, trace>>
  BY DEF StartDecode, tables
<1>2. CASE apc' = "panicked"
  BY <1>0, <1>1, <1>2 DEF CoderInv
<1>3. CASE Fits /\ apc' = "decode"
  <2>1. Trail /\ trace[Len(trace)] = Here(state, 0, Len(stream)) /\ state >= TableSize
    BY <1>0, <1>3 DEF CoderInv, EncodeInv
  <2>2. Len(output) = 0
    BY <1>0
  <2>3. Trail'
    BY <2>1, <1>1, TrailKept
  <2>4. RetraceInv'
    BY <2>1, <2>2, <2>3, <1>1 DEF RetraceInv
  <2> QED
    BY <2>4, <1>0, <1>1, <1>3 DEF CoderInv, Fits
<1> QED
  BY <1>2, <1>3 DEF StartDecode, Fits

-----------------------------------------------------------------------------
(* The decoder's steps. *)

\* A number of at least L on the trail was encoded, a smaller one pushed.
LEMMA LastLink ==
  ASSUME Trail, Len(trace) >= 2, NEW a, NEW b,
         a = trace[Len(trace) - 1], b = trace[Len(trace)]
  PROVE  /\ a \in Entry /\ b \in Entry
         /\ a.x < TableSize * Radix /\ a.left <= Len(symbols)
         /\ PushedTo(a, b) \/ CodedTo(a, b)
<1> PICK n \in Nat : n = Len(trace)
  BY DEF Trail
<1>1. n - 1 \in 1 .. n /\ n \in 1 .. n /\ n - 1 \in 1 .. n - 1 /\ (n - 1) + 1 = n
  OBVIOUS
<1>2. trace[n - 1] \in Entry /\ trace[n] \in Entry
  BY <1>1 DEF Trail
<1>3. PushedTo(trace[n - 1], trace[(n - 1) + 1]) \/ CodedTo(trace[n - 1], trace[(n - 1) + 1])
  BY <1>1 DEF Trail
<1> QED
  BY <1>1, <1>2, <1>3 DEF Trail

\* A trail of one entry has not left L.
LEMMA TrailEnd ==
  ASSUME Trail
  PROVE  Len(trace) >= 2 \/ trace[Len(trace)] = Here(TableSize, Len(symbols), 0)
<1> PICK n \in Nat : n = Len(trace)
  BY DEF Trail
<1>1. n # 0
  BY DEF Trail
<1>2. CASE n = 1
  BY <1>2 DEF Trail
<1> QED
  BY <1>1, <1>2

\* How an encoded symbol, and the state before it, are found again.
LEMMA CodedBack ==
  ASSUME RansTypeOK, CdfInv, ci = Radix, Fits, apc # "idle",
         NEW a \in Entry, NEW b, CodedTo(a, b), NEW s, s = symbols[a.left]
  PROVE  /\ s \in Octet /\ freq[s] \in Nat /\ cdf[s] \in Nat
         /\ TableSize <= b.x /\ b.x % TableSize \in Nat
         /\ Owns(s, b.x % TableSize)
         /\ freq[s] * (b.x \div TableSize) + (b.x % TableSize) - cdf[s] = a.x
<1>1. a.left \in 1 .. Len(symbols) /\ s \in Octet /\ freq[s] > 0
  BY DEF RansTypeOK, CodedTo
<1>2. cdf[s] \in Nat /\ freq[s] \in Nat /\ cdf[s] + freq[s] <= TableSize
  BY <1>1, FreqBounds
<1>3. a.x \in Nat /\ freq[s] <= a.x /\ freq[s] \in Nat \ {0} /\ TableSize \in Nat \ {0}
  BY <1>1, <1>2, TableConstants DEF CodedTo, Codable, Entry
<1>4. b.x = Moved(TableSize, freq[s], cdf[s], a.x)
  BY DEF CodedTo, Encoded, Moved
<1>5. /\ TableSize <= b.x /\ b.x % TableSize \in cdf[s] .. cdf[s] + freq[s] - 1
      /\ MovedBack(TableSize, freq[s], cdf[s], b.x) = a.x
  <2>1. cdf[s] \in Nat /\ cdf[s] + freq[s] <= TableSize
    BY <1>2
  <2>2. TableSize <= b.x
    BY <2>1, <1>3, <1>4, MovedUp, SMTT(60)
  <2>3. PICK T, f, c, x, y : /\ T = TableSize /\ f = freq[s] /\ c = cdf[s] /\ x = a.x
                            /\ y = Moved(T, f, c, x)
    OBVIOUS
  <2>4. y % T \in c .. c + f - 1 /\ MovedBack(T, f, c, y) = x
    <3>1. /\ T \in Nat \ {0} /\ f \in Nat \ {0} /\ c \in Nat /\ c + f <= T /\ x \in Nat
      BY <2>1, <2>3, <1>3
    <3>2. /\ Moved(T, f, c, x) % T \in c .. c + f - 1
          /\ MovedBack(T, f, c, Moved(T, f, c, x)) = x
      BY <3>1, MovedAndBack, ZenonT(90)
    <3> QED
      BY <2>3, <3>2
  <2>5. b.x = y
    BY <1>4, <2>3
  <2> QED
    BY <2>2, <2>3, <2>4, <2>5
<1>6. Owns(s, b.x % TableSize) /\ b.x % TableSize \in Nat
  BY <1>2, <1>5 DEF Owns
<1> QED
  BY <1>1, <1>2, <1>5, <1>6 DEF MovedBack

LEMMA DecodeSymbolStep ==
  ASSUME RansInv, DecodeSymbol
  PROVE  CoderInv' /\ output' \in Seq(Octet)
<1>0. /\ RansTypeOK /\ CdfInv /\ CoderInv /\ apc = "decode" /\ state \in Nat
      /\ stream \in Seq(Octet) /\ output \in Seq(Octet) /\ symbols \in Seq(Octet)
      /\ Len(output) < Len(symbols) /\ Fits /\ ci = Radix
  BY DEF RansInv, RansTypeOK, CdfInv, CoderInv, DecodeSymbol
<1>1. Trail /\ trace[Len(trace)] = Here(state, Len(output), Len(stream)) /\ state >= TableSize
  BY <1>0 DEF CoderInv, RetraceInv
<1>2. Len(trace) >= 2
  BY <1>0, <1>1, TrailEnd DEF Here
<1> PICK a, b : a = trace[Len(trace) - 1] /\ b = trace[Len(trace)]
  OBVIOUS
<1>3. b.x = state /\ b.left = Len(output) /\ b.depth = Len(stream)
  BY <1>1 DEF Here
<1>4. a \in Entry /\ a.left <= Len(symbols) /\ CodedTo(a, b)
  <2>1. ~PushedTo(a, b)
    <3>1. ~(state < TableSize)
      BY <1>0, <1>1, TableConstants
    <3> QED
      BY <3>1, <1>3 DEF PushedTo
  <2> QED
    BY <2>1, <1>1, <1>2, LastLink
<1> PICK s : s = symbols[a.left]
  OBVIOUS
<1>5. /\ a.left = Len(output) + 1 /\ a.left \in 1 .. Len(symbols)
      /\ a.depth = Len(stream) /\ a.x \in Nat
  BY <1>0, <1>3, <1>4 DEF CodedTo, Entry
<1>6. /\ s \in Octet /\ freq[s] \in Nat /\ cdf[s] \in Nat
      /\ state % TableSize \in Nat /\ Owns(s, state % TableSize)
      /\ freq[s] * (state \div TableSize) + (state % TableSize) - cdf[s] = a.x
  BY <1>0, <1>3, <1>4, CodedBack
<1>9. Alias(state % TableSize) = s
  BY <1>0, <1>6, AliasOwner
<1>10. /\ UNCHANGED <<symbols, freq, cdf, stream>> /\ apc' = "refill"
       /\ output' = Append(output, s)
       /\ state' = freq[s] * (state \div TableSize) + (state % TableSize) - cdf[s]
       /\ trace' = Front(trace)
  BY <1>9 DEF DecodeSymbol, tables
<1>11. state' = a.x
  BY <1>6, <1>10
<1>12. /\ output' \in Seq(Octet) /\ Len(output') = Len(output) + 1
       /\ \A k \in 1 .. Len(output) : output'[k] = output[k]
       /\ output'[Len(output) + 1] = s
  <2>1. s \in Octet /\ output \in Seq(Octet) /\ output' = Append(output, s)
    BY <1>0, <1>6, <1>10
  <2> QED
    BY <2>1
<1>13. Trail' /\ trace'[Len(trace')] = a
  BY <1>0, <1>1, <1>2, <1>5, <1>10, TrailBack
<1>14. a = Here(state', Len(output'), Len(stream'))
  BY <1>4, <1>5, <1>10, <1>11, <1>12 DEF Entry, Here
<1>15. RetraceInv'
  BY <1>10, <1>13, <1>14 DEF RetraceInv
<1>16. \A k \in 1 .. Len(output') : output'[k] = symbols[k]
  <2>1. \A k \in 1 .. Len(output') : k = Len(output) + 1 \/ k \in 1 .. Len(output)
    BY <1>12
  <2> QED
    BY <2>1, <1>0, <1>5, <1>12 DEF CoderInv
<1>17. Len(output') <= Len(symbols)
  BY <1>0, <1>12
<1> QED
  BY <1>0, <1>10, <1>12, <1>15, <1>16, <1>17 DEF CoderInv, Fits

LEMMA RefillStep ==
  ASSUME RansInv, Refill
  PROVE  CoderInv'
<1>0. /\ RansTypeOK /\ CoderInv /\ apc = "refill" /\ state \in Nat /\ state < TableSize
      /\ stream \in Seq(Octet) /\ stream # <<>> /\ Fits
  BY DEF RansInv, RansTypeOK, CoderInv, Refill, NeedsByte
<1>1. Trail /\ trace[Len(trace)] = Here(state, Len(output), Len(stream))
  BY <1>0 DEF CoderInv, RetraceInv
<1>2. Len(trace) >= 2
  BY <1>0, <1>1, TrailEnd, TableConstants DEF Here
<1> PICK a, b : a = trace[Len(trace) - 1] /\ b = trace[Len(trace)]
  OBVIOUS
<1>3. b.x = state /\ b.left = Len(output) /\ b.depth = Len(stream)
  BY <1>1 DEF Here
<1>4. a \in Entry /\ (PushedTo(a, b) \/ CodedTo(a, b))
  BY <1>1, <1>2, LastLink
<1>5. ~CodedTo(a, b)
  <2>1. ci = Radix /\ CdfInv
    BY <1>0 DEF RansInv, CdfInv
  <2>2. CodedTo(a, b) => TableSize <= state
    BY <2>1, <1>0, <1>3, <1>4, CodedBack
  <2> QED
    BY <2>2, <1>0, TableConstants
<1>6. /\ a.left = Len(output) /\ Len(stream) = a.depth + 1
      /\ stream[Len(stream)] = a.x % Radix /\ state = a.x \div Radix
      /\ a.x \in Nat /\ a.depth \in Nat
  BY <1>3, <1>4, <1>5 DEF PushedTo, Entry
<1>7. /\ UNCHANGED <<symbols, freq, cdf, output>> /\ apc' = "refill"
      /\ state' = state * Radix + Last(stream) /\ stream' = Front(stream)
      /\ trace' = Front(trace)
  BY DEF Refill, tables
<1>8. state' = a.x
  <2>1. Last(stream) = a.x % Radix
    BY <1>6 DEF Last
  <2>2. a.x = Radix * (a.x \div Radix) + (a.x % Radix) /\ a.x \div Radix \in Nat
    BY <1>6, TableConstants, DivMod
  <2>3. Radix * (a.x \div Radix) = (a.x \div Radix) * Radix
    BY <2>2, TableConstants
  <2> QED
    BY <2>1, <2>2, <2>3, <1>6, <1>7
<1>9. /\ stream' \in Seq(Octet) /\ Len(stream') = a.depth
      /\ \A k \in 1 .. Len(stream') : stream'[k] = stream[k]
  <2> PICK n \in Nat : n = Len(stream)
    BY <1>0
  <2>1. n >= 1 /\ n - 1 = a.depth /\ stream' = SubSeq(stream, 1, n - 1)
    BY <1>6, <1>7 DEF Front
  <2> QED
    BY <2>1, <1>0
<1>10. Trail' /\ trace'[Len(trace')] = a
  BY <1>1, <1>2, <1>7, <1>9, TrailBack
<1>11. a = Here(state', Len(output'), Len(stream'))
  BY <1>4, <1>6, <1>7, <1>8, <1>9 DEF Entry, Here
<1>12. RetraceInv'
  BY <1>7, <1>10, <1>11 DEF RetraceInv
<1> QED
  BY <1>0, <1>7, <1>12 DEF CoderInv, Fits

LEMMA EndRefillStep ==
  ASSUME RansInv, EndRefill
  PROVE  CoderInv'
<1>0. /\ RansTypeOK /\ CoderInv /\ apc = "refill" /\ state \in Nat /\ Fits
      /\ stream \in Seq(Octet) /\ (state >= TableSize \/ stream = <<>>)
  BY TableConstants DEF RansInv, RansTypeOK, CoderInv, EndRefill, NeedsByte
<1>1. /\ UNCHANGED <<symbols, freq, cdf, left, state, stream, output, trace>>
      /\ apc' = "decode"
  BY DEF EndRefill, tables
<1>2. Trail /\ trace[Len(trace)] = Here(state, Len(output), Len(stream))
  BY <1>0 DEF CoderInv, RetraceInv
<1>3. state >= TableSize
  <2> SUFFICES ASSUME stream = <<>>, state < TableSize PROVE FALSE
    BY <1>0, TableConstants
  <2>1. Len(trace) >= 2
    BY <1>0, <1>2, TrailEnd, TableConstants DEF Here
  <2> PICK a, b : a = trace[Len(trace) - 1] /\ b = trace[Len(trace)]
    OBVIOUS
  <2>2. b.x = state /\ b.depth = 0
    BY <1>2 DEF Here
  <2>3. a \in Entry /\ CodedTo(a, b)
    BY <1>2, <2>1, <2>2, LastLink DEF PushedTo, Entry
  <2>4. ci = Radix /\ CdfInv
    BY <1>0 DEF RansInv, CdfInv
  <2>5. TableSize <= state
    BY <2>2, <2>3, <2>4, <1>0, CodedBack
  <2> QED
    BY <2>5, <1>0, TableConstants
<1>4. Trail'
  BY <1>1, <1>2, TrailKept
<1>5. RetraceInv'
  BY <1>1, <1>2, <1>3, <1>4 DEF RetraceInv
<1> QED
  BY <1>0, <1>1, <1>5 DEF CoderInv, Fits

LEMMA EndAnsDecodeStep ==
  ASSUME RansInv, EndAnsDecode
  PROVE  CoderInv'
<1>0. /\ RansTypeOK /\ CoderInv /\ apc = "decode" /\ state \in Nat /\ Fits
      /\ stream \in Seq(Octet) /\ Len(output) = Len(symbols) /\ Len(symbols) \in Nat
  BY DEF RansInv, RansTypeOK, CoderInv, EndAnsDecode
<1>1. /\ UNCHANGED <<symbols, freq, cdf, left, state, stream, output, trace>>
      /\ apc' = "decoded"
  BY DEF EndAnsDecode, tables
<1>2. Trail /\ trace[Len(trace)] = Here(state, Len(output), Len(stream)) /\ state >= TableSize
  BY <1>0 DEF CoderInv, RetraceInv
<1>4. ~(Len(trace) >= 2)
  <2> SUFFICES ASSUME Len(trace) >= 2 PROVE FALSE
    OBVIOUS
  <2> PICK a, b : a = trace[Len(trace) - 1] /\ b = trace[Len(trace)]
    OBVIOUS
  <2>1. b.x = state /\ b.left = Len(symbols)
    BY <1>0, <1>2 DEF Here
  <2>2. a \in Entry /\ a.left <= Len(symbols) /\ CodedTo(a, b)
    <3>1. ~(state < TableSize)
      BY <1>0, <1>2, TableConstants
    <3>2. ~PushedTo(a, b)
      BY <3>1, <2>1 DEF PushedTo
    <3> QED
      BY <3>2, <1>2, LastLink
  <2> QED
    BY <2>1, <2>2, <1>0 DEF CodedTo, Entry
<1>6. state = TableSize /\ Len(stream) = 0
  BY <1>2, <1>4, TrailEnd DEF Here
<1>7. stream = <<>>
  BY <1>0, <1>6
<1> QED
  BY <1>0, <1>1, <1>6, <1>7 DEF CoderInv, Fits

-----------------------------------------------------------------------------
LEMMA CoderStep ==
  ASSUME RansInv, RansNext
  PROVE  CoderInv'
<1>1. ASSUME NEW data \in Seq(Octet), Load(data) PROVE CoderInv'
  <2>1. apc' = "cdf" /\ stream' = <<>> /\ left' = 0 /\ output' = <<>> /\ symbols' = data
    BY <1>1 DEF RansInv, CoderInv, Load
  <2> QED
    BY <2>1 DEF CoderInv
<1>2. CASE BuildCdf
  BY <1>2 DEF RansInv, CoderInv, BuildCdf
<1> QED
  BY <1>1, <1>2, StartEncodeStep, PushStep, EncodeSymbolStep, StartDecodeStep,
     DecodeSymbolStep, RefillStep, EndRefillStep, EndAnsDecodeStep
     DEF RansNext, Coding

\* Of the types, those that hold whatever the state is.
LEMMA TablesStep ==
  ASSUME RansInv, RansNext
  PROVE  /\ symbols' \in Seq(Octet) /\ freq' \in [Octet -> Nat]
         /\ cdf' \in [0 .. Radix -> Nat] /\ ci' \in 0 .. Radix
         /\ apc' \in {"cdf", "encode", "decode", "refill", "decoded", "panicked"}
         /\ \A i \in DOMAIN symbols' : freq'[symbols'[i]] > 0
<1> USE TableConstants
<1>0. RansTypeOK /\ ci \in 0 .. Radix
  BY DEF RansInv, RansTypeOK
<1>1. ASSUME NEW data \in Seq(Octet), Load(data)
      PROVE  /\ symbols' \in Seq(Octet) /\ freq' \in [Octet -> Nat]
             /\ cdf' = cdf /\ ci' = ci /\ apc' = "cdf"
             /\ \A i \in DOMAIN symbols' : freq'[symbols'[i]] > 0
  <2>1. /\ symbols' = data /\ data # <<>> /\ freq' = Normalise(CountFreq(data), Len(data))
        /\ cdf' = cdf /\ ci' = ci /\ apc' = "cdf"
    BY <1>1 DEF Load
  <2>2. Len(data) \in Nat \ {0}
    BY <2>1
  <2>3. \A s \in Octet : CountFreq(data)[s] \in Nat
    BY CountFreqType
  <2>4. CountFreq(data) \in [Octet -> Nat]
    BY <2>3 DEF CountFreq
  <2>5. freq' \in [Octet -> Nat] /\ \A s \in Octet : CountFreq(data)[s] > 0 => freq'[s] > 0
    BY <2>1, <2>2, <2>4, NormaliseType
  <2>6. \A i \in DOMAIN data : data[i] \in Octet /\ CountFreq(data)[data[i]] > 0
    BY CountFreqType
  <2> QED
    BY <2>1, <2>5, <2>6
<1>2. CASE BuildCdf
  <2>1. /\ apc = "cdf" /\ apc' = "cdf" /\ ci < Radix /\ ci' = ci + 1
        /\ symbols' = symbols /\ freq' = freq
        /\ cdf' = [cdf EXCEPT ![ci + 1] = cdf[ci] + freq[ci]]
    BY <1>2 DEF BuildCdf
  <2>2. ci \in Octet /\ ci \in 0 .. Radix /\ ci + 1 \in 0 .. Radix
    BY <2>1, <1>0 DEF Octet
  <2>3. freq[ci] \in Nat /\ cdf[ci] \in Nat /\ cdf \in [0 .. Radix -> Nat]
    BY <2>2, <1>0 DEF RansTypeOK
  <2>4. cdf' \in [0 .. Radix -> Nat]
    <3>1. cdf[ci] + freq[ci] \in Nat
      BY <2>3
    <3> QED
      BY <3>1, <2>1, <2>2, <2>3
  <2> QED
    BY <2>1, <2>2, <2>4, <1>0 DEF RansTypeOK
<1>3. CASE \/ StartEncode \/ Push \/ EncodeSymbol \/ StartDecode \/ DecodeSymbol
           \/ Refill \/ EndRefill \/ EndAnsDecode
  <2>1. /\ UNCHANGED <<symbols, freq, cdf, ci>> /\ apc # "idle"
        /\ apc' \in {"encode", "decode", "refill", "decoded", "panicked"}
    BY <1>3 DEF StartEncode, Push, EncodeSymbol, StartDecode, DecodeSymbol, Refill,
       EndRefill, EndAnsDecode, tables
  <2> QED
    BY <2>1, <1>0 DEF RansTypeOK
<1> QED
  BY <1>0, <1>1, <1>2, <1>3 DEF RansNext, Coding, RansTypeOK

LEMMA StreamsStep ==
  ASSUME RansInv, RansNext
  PROVE  /\ output' \in Seq(Octet) /\ stream' \in Seq(Octet)
         /\ left' \in 0 .. Len(symbols')
<1> USE TableConstants
<1>0. RansTypeOK /\ stream \in Seq(Octet) /\ output \in Seq(Octet)
      /\ symbols \in Seq(Octet) /\ left \in 0 .. Len(symbols)
      /\ (apc = "idle" => left = 0)
  BY DEF RansInv, RansTypeOK, CoderInv
<1>1. CASE \E data \in Seq(Octet) : Load(data)
  BY <1>0, <1>1 DEF Load
<1>2. CASE Push
  <2>1. UNCHANGED <<symbols, left, output>> /\ stream' = Append(stream, state % Radix)
    BY <1>2 DEF Push, tables
  <2>2. state % Radix \in Octet
    BY <1>0, DivMod DEF RansTypeOK, Octet
  <2> QED
    BY <2>1, <2>2, <1>0
<1>3. CASE EncodeSymbol
  BY <1>0, <1>3 DEF EncodeSymbol, tables
<1>4. CASE DecodeSymbol
  BY <1>0, <1>4, DecodeSymbolStep DEF DecodeSymbol, tables
<1>5. CASE Refill
  <2>1. UNCHANGED <<symbols, left, output>> /\ stream' = Front(stream) /\ stream # <<>>
    BY <1>5 DEF Refill, NeedsByte, tables
  <2>2. Front(stream) \in Seq(Octet)
    BY <2>1, <1>0 DEF Front
  <2> QED
    BY <2>1, <2>2, <1>0
<1>6. CASE StartEncode
  <2>1. UNCHANGED <<symbols, stream, output>> /\ left' = Len(symbols)
    BY <1>6 DEF StartEncode, tables
  <2> QED
    BY <2>1, <1>0
<1>7. CASE BuildCdf \/ StartDecode \/ EndRefill \/ EndAnsDecode
  BY <1>0, <1>7 DEF BuildCdf, StartDecode, EndRefill, EndAnsDecode, tables
<1> QED
  BY <1>1, <1>2, <1>3, <1>4, <1>5, <1>6, <1>7 DEF RansNext, Coding

LEMMA StateStep ==
  ASSUME RansInv, RansNext
  PROVE  /\ state' \in Nat
         /\ apc' \in {"encode", "decode", "refill"} /\ Fits' => state' < TableSize * Radix
<1> USE TableConstants
<1>0. RansTypeOK /\ state \in Nat /\ CoderInv'
  BY CoderStep DEF RansInv, RansTypeOK
<1>1. ASSUME apc' \in {"encode", "decode", "refill"}, Fits'
      PROVE  state' \in Nat /\ state' < TableSize * Radix
  <2>1. Trail' /\ trace'[Len(trace')].x = state'
    BY <1>0, <1>1 DEF CoderInv, EncodeInv, RetraceInv, Here
  <2> PICK n : n = Len(trace')
    OBVIOUS
  <2>2. n \in 1 .. n /\ trace'[n] \in Entry
    BY <2>1 DEF Trail
  <2>3. trace'[n].x < TableSize * Radix /\ trace'[n].x \in Nat
    BY <2>1, <2>2 DEF Trail, Entry
  <2> QED
    BY <2>1, <2>3
<1>2. state' \in Nat
  <2>1. CASE Push
    BY <2>1, <1>0, DivMod DEF Push
  <2>2. CASE EncodeSymbol
    BY <2>2, EncodeSymbolStep
  <2>3. CASE DecodeSymbol \/ Refill
    <3>1. apc' = "refill" /\ cdf' = cdf /\ Fits
      BY <2>3, <1>0 DEF DecodeSymbol, Refill, tables, RansInv, CoderInv
    <3> QED
      BY <3>1, <1>1 DEF Fits
  <2>4. CASE StartEncode
    BY <2>4 DEF StartEncode
  <2>5. CASE state' = state
    BY <2>5, <1>0
  <2>6. CASE \/ \E data \in Seq(Octet) : Load(data)
             \/ BuildCdf \/ StartDecode \/ EndRefill \/ EndAnsDecode
    BY <2>5, <2>6 DEF Load, BuildCdf, StartDecode, EndRefill, EndAnsDecode
  <2> QED
    BY <2>1, <2>2, <2>3, <2>4, <2>6 DEF RansNext, Coding
<1> QED
  BY <1>1, <1>2

LEMMA RansInitInv == RansInit => RansInv
<1> SUFFICES ASSUME RansInit PROVE RansInv
  OBVIOUS
<1> USE TableConstants
<1>1. /\ symbols = <<>> /\ stream = <<>> /\ output = <<>> /\ apc = "idle" /\ ci = 0
      /\ left = 0 /\ state = 0
      /\ freq \in [Octet -> Nat] /\ cdf \in [0 .. Radix -> Nat]
      /\ cdf[0] = 0
  BY DEF RansInit
<1>2. RansTypeOK
  BY <1>1 DEF RansTypeOK
<1>3. CdfInv
  <2>1. \A s \in 0 .. 0 : s = 0
    OBVIOUS
  <2>2. 0 .. ci - 1 = {}
    BY <1>1
  <2> QED
    BY <1>1, <2>1, <2>2 DEF CdfInv
<1>4. CoderInv
  BY <1>1 DEF CoderInv
<1> QED
  BY <1>2, <1>3, <1>4 DEF RansInv

LEMMA RansStepInv ==
  ASSUME RansInv, RansNext
  PROVE  RansInv'
<1>1. RansTypeOK'
  BY TablesStep, StreamsStep, StateStep DEF RansTypeOK, Fits
<1> QED
  BY <1>1, CdfStep, CoderStep DEF RansInv

LEMMA RansStutterInv ==
  ASSUME RansInv, UNCHANGED ransVars
  PROVE  RansInv'
<1> USE DEF ransVars, tables
<1>1. Trail => Trail'
  BY TrailKept
<1>2. CoderInv'
  BY <1>1 DEF RansInv, CoderInv, EncodeInv, RetraceInv, Fits, NextSymbol
<1>3. RansTypeOK' /\ CdfInv'
  BY DEF RansInv, RansTypeOK, CdfInv
<1> QED
  BY <1>2, <1>3 DEF RansInv

LEMMA RansInvariant == RansSpec => []RansInv
<1>1. RansInv /\ [RansNext]_ransVars => RansInv'
  BY RansStepInv, RansStutterInv
<1> QED
  BY RansInitInv, <1>1, PTL DEF RansSpec

-----------------------------------------------------------------------------
\* The types of ans.rs; no symbol that occurs is left without a slot, so that
\* the loop of ans.rs:132 ends; and the state is where "State x in [L, bL)"
\* (ans.rs:3) says.
THEOREM RansTypes == RansSpec => []RansTypeOK
<1>1. RansInv => RansTypeOK
  BY DEF RansInv
<1> QED
  BY RansInvariant, <1>1, PTL

\* The decoder goes back through the states of the encoder, byte by byte.
THEOREM DecoderGoesBack == RansSpec => []DecoderRetraces
<1>1. RansInv => DecoderRetraces
  BY DEF RansInv, CoderInv, RetraceInv, DecoderRetraces, Last
<1> QED
  BY RansInvariant, <1>1, PTL

\* ans_decode returns what ans_encode was given, whatever it was, whenever it
\* returns: the table may have fewer units than slots, but with more it panics.
LEMMA RansInvExact ==
  ASSUME RansInv
  PROVE  RansExact
<1> SUFFICES ASSUME apc = "decoded"
             PROVE  output = symbols /\ state = TableSize /\ stream = <<>>
  BY DEF RansExact
<1>1. /\ output \in Seq(Octet) /\ symbols \in Seq(Octet) /\ Len(output) = Len(symbols)
      /\ \A k \in 1 .. Len(output) : output[k] = symbols[k]
      /\ state = TableSize /\ stream = <<>>
  BY DEF RansInv, RansTypeOK, CoderInv
<1> QED
  BY <1>1, SeqEqual

THEOREM RansRoundTrip == RansSpec => []RansExact
BY RansInvariant, RansInvExact, PTL

-----------------------------------------------------------------------------
(* The table in the coder. *)

\* It is that of the data, and what is built of the cumulative sums are its sums.
FillInv ==
  /\ apc # "idle" => symbols # <<>> /\ freq = Normalise(CountFreq(symbols), Len(symbols))
  /\ \A i \in 0 .. ci : cdf[i] = SumsTo(freq)[i]

LEMMA FillInit == RansInit => FillInv
<1> SUFFICES ASSUME RansInit PROVE FillInv
  OBVIOUS
<1>1. apc = "idle" /\ ci = 0 /\ cdf[0] = 0 /\ \A s \in Octet : freq[s] \in Nat
  BY TableConstants DEF RansInit
<1>2. SumsTo(freq)[0] = 0
  BY <1>1, SumsToUnfold DEF Adds
<1>3. \A i \in 0 .. ci : i = 0
  BY <1>1
<1> QED
  BY <1>1, <1>2, <1>3 DEF FillInv

LEMMA FillStep ==
  ASSUME RansInv, FillInv, [RansNext]_ransVars
  PROVE  FillInv'
<1>0. /\ RansTypeOK /\ ci \in 0 .. Radix /\ cdf \in [0 .. Radix -> Nat]
      /\ \A s \in Octet : freq[s] \in Nat
  BY DEF RansInv, RansTypeOK
<1>1. ASSUME NEW data \in Seq(Octet), Load(data) PROVE FillInv'
  <2>1. /\ apc = "idle" /\ symbols' = data /\ data # <<>> /\ cdf' = cdf /\ ci' = ci
        /\ freq' = Normalise(CountFreq(data), Len(data))
    BY <1>1 DEF Load
  <2>2. ci = 0 /\ cdf[0] = 0
    <3>1. ci = 0
      BY <2>1 DEF RansInv, CdfInv
    <3>2. cdf[0] = SumsTo(freq)[0]
      BY <3>1 DEF FillInv
    <3> QED
      BY <3>1, <3>2, <1>0, SumsToUnfold DEF Adds
  <2>3. \A s \in Octet : freq'[s] \in Nat
    BY <1>1, TablesStep DEF RansNext, Coding
  <2>4. SumsTo(freq')[0] = 0
    BY <2>3, SumsToUnfold DEF Adds
  <2>5. \A i \in 0 .. ci' : i = 0
    BY <2>1, <2>2
  <2> QED
    BY <2>1, <2>2, <2>4, <2>5 DEF FillInv
<1>2. CASE BuildCdf
  <2>1. /\ apc = "cdf" /\ apc' = "cdf" /\ ci < Radix /\ ci' = ci + 1
        /\ symbols' = symbols /\ freq' = freq
        /\ cdf' = [cdf EXCEPT ![ci + 1] = cdf[ci] + freq[ci]]
    BY <1>2 DEF BuildCdf
  <2>2. ci \in 0 .. ci /\ ci + 1 \in 1 .. Radix /\ ci + 1 \in 0 .. Radix
        /\ (ci + 1) - 1 = ci
    BY <2>1, <1>0, TableConstants
  <2>3. SumsTo(freq)[ci + 1] = SumsTo(freq)[ci] + freq[ci]
    BY <2>2, <1>0, SumsToUnfold DEF Adds
  <2>4. cdf'[ci + 1] = SumsTo(freq)[ci + 1]
    BY <2>1, <2>2, <2>3, <1>0 DEF FillInv
  <2>5. \A i \in 0 .. ci : cdf'[i] = cdf[i]
    BY <2>1, <1>0, TableConstants
  <2>6. \A i \in 0 .. ci' : i \in 0 .. ci \/ i = ci + 1
    BY <2>1, <1>0
  <2> QED
    BY <2>1, <2>4, <2>5, <2>6 DEF FillInv
<1>3. CASE \/ StartEncode \/ Push \/ EncodeSymbol \/ StartDecode \/ DecodeSymbol
           \/ Refill \/ EndRefill \/ EndAnsDecode \/ UNCHANGED ransVars
  <2>1. UNCHANGED <<symbols, freq, cdf, ci>> /\ (apc' # "idle" => apc # "idle")
    BY <1>3 DEF StartEncode, Push, EncodeSymbol, StartDecode, DecodeSymbol, Refill,
       EndRefill, EndAnsDecode, tables, ransVars
  <2> QED
    BY <2>1 DEF FillInv
<1> QED
  BY <1>1, <1>2, <1>3 DEF RansNext, Coding

\* Rounding never leaves a slot of the table without a symbol (ans.rs:53), whatever
\* the data: the correction that adds gives as many as are missing, and the one
\* that takes stops in time.
THEOREM TableNeverShort == RansSpec => []NeverShort
<1>1. RansInv /\ FillInv => NeverShort
  <2> SUFFICES ASSUME RansInv, FillInv, apc = "encode" PROVE cdf[Radix] >= TableSize
    BY DEF NeverShort
  <2>1. /\ symbols \in Seq(Octet) /\ symbols # <<>> /\ ci = Radix
        /\ freq = Normalise(CountFreq(symbols), Len(symbols))
        /\ cdf[Radix] = SumsTo(freq)[Radix]
    BY TableConstants DEF RansInv, RansTypeOK, CdfInv, FillInv
  <2>2. Len(symbols) \in Nat \ {0}
    BY <2>1
  <2>3. CountFreq(symbols) \in [Octet -> Nat]
    <3>1. \A s \in Octet : CountFreq(symbols)[s] \in Nat
      BY <2>1, CountFreqType
    <3> QED
      BY <3>1 DEF CountFreq
  <2> QED
    BY <2>1, <2>2, <2>3, CountsAddUp, NormaliseFills
<1>2. RansInit => RansInv /\ FillInv
  BY RansInitInv, FillInit
<1>3. RansInv /\ FillInv /\ [RansNext]_ransVars => (RansInv /\ FillInv)'
  BY RansStepInv, RansStutterInv, FillStep
<1> QED
  BY <1>1, <1>2, <1>3, PTL DEF RansSpec
=============================================================================
