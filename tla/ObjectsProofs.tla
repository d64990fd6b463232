--------------------------- MODULE ObjectsProofs ---------------------------
(***************************************************************************)
(* Theorems about the algorithms of Objects: the length encoding for every *)
(* base and number, the List methods for every list and index, the ints in *)
(* hash fields for any size of int, and the table of commands for any      *)
(* number of arguments.                                                    *)
(***************************************************************************)
EXTENDS Objects, Extrema, SequenceTheorems, FunctionTheorems, FiniteSetTheorems, TLAPS

-----------------------------------------------------------------------------
(* Division.                                                               *)

\* A quotient and a remainder.
LEMMA DivMod ==
  ASSUME NEW m \in Nat, NEW d \in Nat \ {0}
  PROVE  /\ m \div d \in Nat /\ m % d \in Nat /\ m % d < d
         /\ m = d * (m \div d) + (m % d)
  OBVIOUS

\* They are the only ones.
LEMMA DivUnique ==
  ASSUME NEW m \in Nat, NEW d \in Nat \ {0}, NEW q \in Nat, NEW r \in Nat, r < d, m = d * q + r
  PROVE  m \div d = q /\ m % d = r
<1> DEFINE p == m \div d
           s == m % d
<1>1. p \in Nat /\ s \in Nat /\ s < d /\ m = d * p + s
  BY DivMod
<1> HIDE DEF p, s
<1>2. \A x, y \in Nat : x >= y + 1 => d * x >= d * y + d
  <2> TAKE x \in Nat, y \in Nat
  <2> HAVE x >= y + 1
  <2>1. PICK z \in Nat : x = y + 1 + z
    <3>1. x - (y + 1) \in Nat /\ x = y + 1 + (x - (y + 1))
      OBVIOUS
    <3> QED BY <3>1
  <2>2. d * x = d * y + d + d * z
    BY <2>1
  <2>3. d * z \in Nat /\ d * y \in Nat
    OBVIOUS
  <2> QED BY <2>2, <2>3
<1>3. d * p \in Nat /\ d * q \in Nat
  BY <1>1
<1>4. ~(p >= q + 1) /\ ~(q >= p + 1)
  <2>1. p >= q + 1 => d * p >= d * q + d
    BY <1>1, <1>2
  <2>2. q >= p + 1 => d * q >= d * p + d
    BY <1>1, <1>2
  <2> QED BY <1>1, <1>3, <2>1, <2>2
<1>5. p = q
  BY <1>1, <1>4
<1>6. s = r
  BY <1>1, <1>3, <1>5
<1> QED BY <1>5, <1>6 DEF p, s

\* Products of natural numbers.
LEMMA TimesMonotonic ==
  ASSUME NEW d \in Nat, NEW x \in Nat, NEW y \in Nat, x <= y
  PROVE  d * x \in Nat /\ d * y \in Nat /\ d * x <= d * y
<1>1. PICK z \in Nat : y = x + z
  <2>1. y - x \in Nat /\ y = x + (y - x)
    OBVIOUS
  <2> QED BY <2>1
<1>2. d * y = d * x + d * z
  BY <1>1
<1>3. d * x \in Nat /\ d * z \in Nat
  OBVIOUS
<1> QED BY <1>2, <1>3

-----------------------------------------------------------------------------
(* The length encoding.                                                    *)

\* A byte has four quarters.
LEMMA BaseFacts ==
  /\ Base \in Nat /\ Base >= 4 /\ Quarter \in Nat /\ Quarter >= 1 /\ Base = 4 * Quarter
  /\ Quarter * Base \in Nat /\ Base * Base \in Nat /\ Base * Base * Base \in Nat
  /\ Base * Base >= 1 /\ Base * Base * Base >= 1 /\ Limit \in Nat
<1>1. /\ Base \in Nat /\ Base >= 4 /\ Quarter \in Nat /\ Quarter >= 1 /\ Base = 4 * Quarter
  BY BaseAssumption DEF Quarter
<1>2. /\ Quarter * Base \in Nat /\ Base * Base \in Nat /\ Base * Base >= 1
  BY <1>1
<1>3. Base * Base * Base \in Nat /\ Base * Base * Base >= 1
  BY <1>1, <1>2
<1>4. Limit \in Nat
  BY <1>1, <1>3 DEF Limit
<1> QED BY <1>1, <1>2, <1>3, <1>4

\* A number below the limit has four digits, and they are its big-endian bytes.
LEMMA FourDigits ==
  ASSUME NEW m \in Nat, m < Limit
  PROVE  \E a, b, c, e \in 0 .. Base - 1 :
           /\ BigEndian(m) = <<a, b, c, e>>
           /\ a * (Base * Base * Base) + b * (Base * Base) + c * Base + e = m
<1> DEFINE B  == Base
           q1 == m \div B
           r0 == m % B
           q2 == q1 \div B
           r1 == q1 % B
           q3 == q2 \div B
           r2 == q2 % B
<1>0. B \in Nat \ {0} /\ m \in Nat /\ m < B * B * B * B /\ B = Base
  BY BaseFacts DEF Limit
<1>1. q1 \in Nat /\ r0 \in Nat /\ r0 < B /\ m = B * q1 + r0
  BY <1>0, DivMod
<1>2. q2 \in Nat /\ r1 \in Nat /\ r1 < B /\ q1 = B * q2 + r1
  BY <1>0, <1>1, DivMod
<1>3. q3 \in Nat /\ r2 \in Nat /\ r2 < B /\ q2 = B * q3 + r2
  BY <1>0, <1>2, DivMod
<1>4. /\ BigEndian(m) = <<(m \div (B * B * B)) % B, (m \div (B * B)) % B, r1, r0>>
      /\ r2 = q2 % B
  BY DEF BigEndian
<1> HIDE DEF B, q1, q2, q3, r0, r1, r2
<1>5. B * B \in Nat \ {0} /\ B * B * B \in Nat \ {0}
  <2>1. B * B \in Nat \ {0}
    BY <1>0
  <2> QED BY <1>0, <2>1
<1>6. m \div (B * B) = q2
  <2> DEFINE r == B * r1 + r0
  <2>1. r \in Nat /\ r < B * B
    <3>1. B * r1 \in Nat /\ B * r1 <= B * (B - 1)
      BY <1>0, <1>2, TimesMonotonic
    <3>2. B * (B - 1) = B * B - B
      BY <1>0
    <3> QED BY <1>0, <1>1, <1>5, <3>1, <3>2
  <2>2. m = (B * B) * q2 + r
    BY <1>0, <1>1, <1>2
  <2> HIDE DEF r
  <2> QED BY <1>0, <1>2, <1>5, <2>1, <2>2, DivUnique
<1>7. m \div (B * B * B) = q3
  <2> DEFINE r == B * B * r2 + (B * r1 + r0)
  <2>1. r \in Nat /\ r < B * B * B
    <3>1. B * r1 \in Nat /\ B * r1 <= B * (B - 1)
      BY <1>0, <1>2, TimesMonotonic
    <3>2. B * B * r2 \in Nat /\ B * B * r2 <= B * B * (B - 1)
      BY <1>0, <1>3, <1>5, TimesMonotonic
    <3>3. B * (B - 1) = B * B - B /\ B * B * (B - 1) = B * B * B - B * B
      BY <1>0
    <3> QED BY <1>0, <1>1, <1>5, <3>1, <3>2, <3>3
  <2>2. m = (B * B * B) * q3 + r
    BY <1>0, <1>1, <1>2, <1>3
  <2> HIDE DEF r
  <2> QED BY <1>0, <1>3, <1>5, <2>1, <2>2, DivUnique
<1>8. m = B * B * B * q3 + B * B * r2 + B * r1 + r0
  BY <1>0, <1>1, <1>2, <1>3
<1>9. q3 < B
  <2> SUFFICES ASSUME B <= q3 PROVE FALSE
    BY <1>0, <1>3
  <2>1. B * B * B * B <= B * B * B * q3
    BY <1>0, <1>3, <1>5, TimesMonotonic
  <2>2. B * B * B * q3 \in Nat /\ B * B * r2 \in Nat /\ B * r1 \in Nat /\ B * B * B * B \in Nat
    BY <1>0, <1>2, <1>3, <1>5
  <2> QED BY <1>0, <1>1, <1>8, <2>1, <2>2
<1>10. q3 % B = q3
  BY <1>0, <1>3, <1>9
<1>11. BigEndian(m) = <<q3, r2, r1, r0>>
  BY <1>4, <1>6, <1>7, <1>10
<1>12. q3 * (B * B * B) + r2 * (B * B) + r1 * B + r0 = m
  BY <1>0, <1>1, <1>2, <1>3, <1>8
<1>13. q3 \in 0 .. B - 1 /\ r2 \in 0 .. B - 1 /\ r1 \in 0 .. B - 1 /\ r0 \in 0 .. B - 1
  BY <1>0, <1>1, <1>2, <1>3, <1>9
<1> QED BY <1>0, <1>11, <1>12, <1>13

\* The first byte tells the three forms apart.
LEMMA FirstByte ==
  ASSUME NEW x \in Nat, x < Quarter
  PROVE  /\ x \div Quarter = 0 /\ x % Quarter = x
         /\ (x + Quarter) \div Quarter = 1 /\ (x + Quarter) % Quarter = x
         /\ (2 * Quarter) \div Quarter = 2
<1>1. Quarter \in Nat \ {0}
  BY BaseFacts
<1>2. x \div Quarter = 0 /\ x % Quarter = x
  BY <1>1, DivUnique
<1>3. (x + Quarter) \div Quarter = 1 /\ (x + Quarter) % Quarter = x
  BY <1>1, DivUnique
<1>4. (2 * Quarter) \div Quarter = 2
  <2>1. 2 * Quarter = Quarter * 2 + 0 /\ 2 * Quarter \in Nat
    BY <1>1
  <2> QED BY <1>1, <2>1, DivUnique
<1> QED BY <1>2, <1>3, <1>4

\* readLength on a file v that starts with each of the three kinds of byte.
LEMMA ReadsShort ==
  ASSUME NEW v \in Seq(Nat), Len(v) >= 1, v[1] < Quarter
  PROVE  readLength(v) = Length(v[1], 1)
<1>1. v # << >> /\ v[1] \in Nat
  OBVIOUS
<1>2. v[1] \div Quarter = 0 /\ v[1] % Quarter = v[1]
  BY <1>1, FirstByte
<1> QED BY <1>1, <1>2 DEF readLength, Short

\* Two bytes.
LEMMA ReadsTwo ==
  ASSUME NEW v \in Seq(Nat), NEW x \in Nat, x < Quarter, Len(v) >= 1, v[1] = x + Quarter
  PROVE  /\ Len(v) >= 2 => readLength(v) = Length(x * Base + v[2], 2)
         /\ Len(v) < 2 => readLength(v) = Length(0, 0)
<1>1. v # << >>
  OBVIOUS
<1>2. v[1] \div Quarter = 1 /\ v[1] % Quarter = x
  BY FirstByte
<1>3. readLength(v) = TwoBytes(v)
  BY <1>1, <1>2 DEF readLength
<1>4. Len(v) >= 2 => ~(Len(v) < 2)
  OBVIOUS
<1> QED BY <1>2, <1>3, <1>4 DEF TwoBytes

\* The mark and four bytes.
LEMMA ReadsFive ==
  ASSUME NEW v \in Seq(Nat), Len(v) >= 1, v[1] = 2 * Quarter
  PROVE  /\ Len(v) >= 5 => readLength(v) = Length(v[2] * (Base * Base * Base) + v[3] * (Base * Base)
                                                    + v[4] * Base + v[5], 5)
         /\ Len(v) < 5 => readLength(v) = Length(0, 0)
<1>1. v # << >>
  OBVIOUS
<1>2. v[1] \div Quarter = 2
  <2>1. 0 < Quarter /\ 0 \in Nat
    BY BaseFacts
  <2> QED BY <2>1, FirstByte
<1>3. readLength(v) = FiveBytes(v)
  BY <1>1, <1>2 DEF readLength
<1>4. Len(v) >= 5 => ~(Len(v) < 5)
  OBVIOUS
<1> QED BY <1>3, <1>4 DEF FiveBytes

\* A file w with a byte after it.
LEMMA Followed ==
  ASSUME NEW w \in Seq(Nat), NEW b \in Nat
  PROVE  /\ Append(w, b) \in Seq(Nat) /\ Len(Append(w, b)) = Len(w) + 1
         /\ \A i \in 1 .. Len(w) : Append(w, b)[i] = w[i]
  BY AppendProperties

\* A file that ends after the first k bytes of w.
LEMMA Cut ==
  ASSUME NEW w \in Seq(Nat), NEW k \in 0 .. Len(w)
  PROVE  /\ SubSeq(w, 1, k) \in Seq(Nat) /\ Len(SubSeq(w, 1, k)) = k
         /\ \A i \in 1 .. k : SubSeq(w, 1, k)[i] = w[i]
         /\ k = 0 => SubSeq(w, 1, k) = << >>
<1> DEFINE f == SubSeq(w, 1, k)
<1>1. k \in Nat /\ \A p \in 1 .. k : p \in 1 .. Len(w)
  OBVIOUS
<1>2. /\ f \in Seq(Nat) /\ Len(f) = IF 1 <= k THEN k - 1 + 1 ELSE 0
      /\ \A p \in 1 .. k - 1 + 1 : f[p] = w[1 + p - 1]
  BY <1>1, SubSeqProperties
<1> HIDE DEF f
<1>3. Len(f) = k /\ \A p \in 1 .. k : f[p] = w[p]
  BY <1>1, <1>2
<1>4. k = 0 => f = << >>
  BY <1>2, <1>3
<1> QED BY <1>2, <1>3, <1>4 DEF f

\* The five bytes of the long form.
LEMMA MarkAndFour ==
  ASSUME NEW m \in Nat, NEW a \in Nat, NEW b \in Nat, NEW c \in Nat, NEW e \in Nat,
         NEW w, w = <<m>> \o <<a, b, c, e>>
  PROVE  /\ w \in Seq(Nat) /\ Len(w) = 5 /\ w[1] = m
         /\ w[2] = a /\ w[3] = b /\ w[4] = c /\ w[5] = e
<1> DEFINE s == <<m>>
           u == <<a, b, c, e>>
<1>1. s \in Seq(Nat) /\ Len(s) = 1 /\ s[1] = m
  OBVIOUS
<1>2. u \in Seq(Nat) /\ Len(u) = 4 /\ u[1] = a /\ u[2] = b /\ u[3] = c /\ u[4] = e
  OBVIOUS
<1>3. w = s \o u
  OBVIOUS
<1> HIDE DEF s, u
<1>4. /\ w \in Seq(Nat) /\ Len(w) = Len(s) + Len(u)
      /\ \A i \in 1 .. Len(s) + Len(u) : w[i] = IF i <= Len(s) THEN s[i] ELSE u[i - Len(s)]
  BY <1>1, <1>2, <1>3, ConcatProperties
<1>5. Len(w) = 5 /\ \A i \in 1 .. 5 : w[i] = IF i <= 1 THEN s[i] ELSE u[i - 1]
  BY <1>1, <1>2, <1>4
<1>6. w[1] = s[1] /\ w[2] = u[1] /\ w[3] = u[2] /\ w[4] = u[3] /\ w[5] = u[4]
  BY <1>5
<1> QED BY <1>1, <1>2, <1>4, <1>5, <1>6

\* Any number that uint32 holds is read back, whatever byte follows it, and no
\* shorter file is taken for a length.
LEMMA RoundTrip ==
  ASSUME n \in Nat
  PROVE  LengthRoundTrip
<1> DEFINE w == writeLength(n)
<1> SUFFICES ASSUME n < Limit
             PROVE  /\ \A b \in 0 .. Base - 1 : readLength(Append(w, b)) = Length(n, Len(w))
                    /\ \A k \in 0 .. Len(w) - 1 : readLength(SubSeq(w, 1, k)).used = 0
  BY DEF LengthRoundTrip
<1>0. /\ Base \in Nat \ {0} /\ Base >= 4 /\ Quarter \in Nat \ {0} /\ Base = 4 * Quarter
      /\ Quarter * Base \in Nat
  BY BaseFacts
<1>b. \A b \in 0 .. Base - 1 : b \in Nat
  BY <1>0
<1>e. readLength(<< >>) = Length(0, 0) /\ Length(0, 0).used = 0
  BY DEF readLength, Length
<1>1. CASE n < Quarter
  <2>1. w \in Seq(Nat) /\ Len(w) = 1 /\ w[1] = n
    BY <1>1 DEF writeLength
  <2> HIDE DEF w
  <2>2. ASSUME NEW b \in 0 .. Base - 1 PROVE readLength(Append(w, b)) = Length(n, 1)
    <3> DEFINE v == Append(w, b)
    <3>1. v \in Seq(Nat) /\ Len(v) = 2 /\ v[1] = n
      <4>1. /\ v \in Seq(Nat) /\ Len(v) = Len(w) + 1
            /\ \A i \in 1 .. Len(w) : v[i] = w[i]
        BY <1>b, <2>1, Followed
      <4> HIDE DEF v
      <4> QED BY <2>1, <4>1
    <3> HIDE DEF v
    <3>2. readLength(v) = Length(v[1], 1)
      BY <1>1, <3>1, ReadsShort
    <3> QED BY <3>1, <3>2 DEF v
  <2>3. ASSUME NEW k \in 0 .. Len(w) - 1 PROVE SubSeq(w, 1, k) = << >>
    <3>1. k = 0 /\ k \in 0 .. Len(w)
      BY <2>1
    <3> QED BY <2>1, <3>1, Cut
  <2> QED BY <1>e, <2>1, <2>2, <2>3
<1>2. CASE ~(n < Quarter) /\ n < Quarter * Base
  <2> DEFINE x == n \div Base
             y == n % Base
  <2>1. x \in Nat /\ y \in Nat /\ y < Base /\ n = Base * x + y
    BY <1>0, DivMod
  <2>2. w = <<x + Quarter, y>>
    BY <1>2 DEF writeLength
  <2> HIDE DEF x, y
  <2>3. x < Quarter
    <3> SUFFICES ASSUME Quarter <= x PROVE FALSE
      BY <1>0, <2>1
    <3>1. Base * Quarter <= Base * x /\ Base * x \in Nat /\ Base * Quarter \in Nat
      BY <1>0, <2>1, TimesMonotonic
    <3>2. Base * Quarter = Quarter * Base
      BY <1>0
    <3> QED BY <1>0, <1>2, <2>1, <3>1, <3>2
  <2>4. w \in Seq(Nat) /\ Len(w) = 2 /\ w[1] = x + Quarter /\ w[2] = y
    <3>1. x + Quarter \in Nat /\ y \in Nat
      BY <1>0, <2>1
    <3> QED BY <2>2, <3>1
  <2>a. x * Base + y = n
    BY <1>0, <2>1
  <2> HIDE DEF w
  <2>5. ASSUME NEW b \in 0 .. Base - 1 PROVE readLength(Append(w, b)) = Length(n, 2)
    <3> DEFINE v == Append(w, b)
    <3>1. v \in Seq(Nat) /\ Len(v) = 3 /\ v[1] = x + Quarter /\ v[2] = y
      <4>1. /\ v \in Seq(Nat) /\ Len(v) = Len(w) + 1
            /\ \A i \in 1 .. Len(w) : v[i] = w[i]
        BY <1>b, <2>4, Followed
      <4>2. v[1] = w[1] /\ v[2] = w[2]
        BY <2>4, <4>1
      <4> HIDE DEF v
      <4> QED BY <2>4, <4>1, <4>2
    <3> HIDE DEF v
    <3>2. readLength(v) = Length(x * Base + v[2], 2)
      BY <2>1, <2>3, <3>1, ReadsTwo
    <3> QED BY <2>a, <3>1, <3>2 DEF v
  <2>6. ASSUME NEW k \in 0 .. Len(w) - 1 PROVE readLength(SubSeq(w, 1, k)) = Length(0, 0)
    <3> DEFINE v == SubSeq(w, 1, k)
    <3>1. k \in 0 .. Len(w) /\ (k = 0 \/ k = 1)
      BY <2>4
    <3>2. v \in Seq(Nat) /\ Len(v) = k /\ (k = 1 => v[1] = x + Quarter) /\ (k = 0 => v = << >>)
      BY <2>4, <3>1, Cut
    <3> HIDE DEF v
    <3>3. k = 1 => readLength(v) = Length(0, 0)
      BY <2>1, <2>3, <3>2, ReadsTwo
    <3> QED BY <1>e, <3>1, <3>2, <3>3 DEF v
  <2> QED BY <1>e, <2>4, <2>5, <2>6
<1>3. CASE ~(n < Quarter) /\ ~(n < Quarter * Base)
  <2>1. PICK a, b, c, e \in 0 .. Base - 1 :
           /\ BigEndian(n) = <<a, b, c, e>>
           /\ a * (Base * Base * Base) + b * (Base * Base) + c * Base + e = n
    BY FourDigits
  <2>2. /\ w \in Seq(Nat) /\ Len(w) = 5 /\ w[1] = 2 * Quarter
        /\ w[2] = a /\ w[3] = b /\ w[4] = c /\ w[5] = e
    <3>1. w = <<2 * Quarter>> \o <<a, b, c, e>>
      BY <1>3, <2>1 DEF writeLength
    <3>2. 2 * Quarter \in Nat /\ a \in Nat /\ b \in Nat /\ c \in Nat /\ e \in Nat
      BY <1>0, <1>b
    <3> HIDE DEF w
    <3> QED BY <3>1, <3>2, MarkAndFour
  <2> HIDE DEF w
  <2>3. ASSUME NEW d \in 0 .. Base - 1 PROVE readLength(Append(w, d)) = Length(n, 5)
    <3> DEFINE v == Append(w, d)
    <3>1. /\ v \in Seq(Nat) /\ Len(v) = 6 /\ v[1] = 2 * Quarter
          /\ v[2] = a /\ v[3] = b /\ v[4] = c /\ v[5] = e
      <4>1. /\ v \in Seq(Nat) /\ Len(v) = Len(w) + 1
            /\ \A i \in 1 .. Len(w) : v[i] = w[i]
        BY <1>b, <2>2, Followed
      <4>2. v[1] = w[1] /\ v[2] = w[2] /\ v[3] = w[3] /\ v[4] = w[4] /\ v[5] = w[5]
        BY <2>2, <4>1
      <4> HIDE DEF v
      <4> QED BY <2>2, <4>1, <4>2
    <3> HIDE DEF v
    <3>2. readLength(v) = Length(v[2] * (Base * Base * Base) + v[3] * (Base * Base)
                                   + v[4] * Base + v[5], 5)
      <4>1. Len(v) >= 1 /\ Len(v) >= 5
        BY <3>1
      <4> QED BY <3>1, <4>1, ReadsFive, Zenon
    <3> QED BY <2>1, <3>1, <3>2 DEF v
  <2>4. ASSUME NEW k \in 0 .. Len(w) - 1 PROVE readLength(SubSeq(w, 1, k)) = Length(0, 0)
    <3> DEFINE v == SubSeq(w, 1, k)
    <3>1. k \in 0 .. Len(w) /\ k < 5 /\ (k = 0 \/ k >= 1)
      BY <2>2
    <3>2. v \in Seq(Nat) /\ Len(v) = k /\ (k >= 1 => v[1] = 2 * Quarter) /\ (k = 0 => v = << >>)
      <4>1. /\ v \in Seq(Nat) /\ Len(v) = k /\ \A i \in 1 .. k : v[i] = w[i]
            /\ k = 0 => v = << >>
        BY <2>2, <3>1, Cut
      <4>2. k >= 1 => 1 \in 1 .. k
        BY <3>1
      <4> HIDE DEF v
      <4> QED BY <2>2, <4>1, <4>2
    <3> HIDE DEF v
    <3>3. k >= 1 => readLength(v) = Length(0, 0)
      BY <3>1, <3>2, ReadsFive
    <3> QED BY <1>e, <3>1, <3>2, <3>3 DEF v
  <2> QED BY <1>e, <2>2, <2>3, <2>4
<1> QED BY <1>1, <1>2, <1>3

\* For every byte size, not only the 256 values of a byte, and every number: a
\* length below the limit is read back as it was written, its bytes and no others
\* are taken off, and a file that ends inside them is an error (rdb.go:541-580).
THEOREM LengthsRoundTrip == ObjectsSpec => []LengthRoundTrip
<1>1. ObjectsInit => n \in Nat
  BY DEF ObjectsInit
<1>2. n \in Nat /\ [ObjectsNext]_vars => (n \in Nat)'
  BY DEF ObjectsNext, ListMethod, Measure, HSet, Increment, vars
<1>3. n \in Nat => LengthRoundTrip
  BY RoundTrip
<1> QED BY <1>1, <1>2, <1>3, PTL DEF ObjectsSpec

-----------------------------------------------------------------------------
(* The List methods, for every list.                                       *)

\* A list put before another.
LEMMA ConcatFacts ==
  ASSUME NEW S, NEW t \in Seq(S), NEW u \in Seq(S)
  PROVE  /\ t \o u \in Seq(S) /\ Len(t \o u) = Len(t) + Len(u)
         /\ Len(t) \in Nat /\ Len(u) \in Nat
         /\ \A i \in 1 .. Len(t) : (t \o u)[i] = t[i]
         /\ \A i \in 1 .. Len(u) : (t \o u)[Len(t) + i] = u[i]
<1>1. /\ t \o u \in Seq(S) /\ Len(t \o u) = Len(t) + Len(u)
      /\ \A i \in 1 .. Len(t) + Len(u) :
           (t \o u)[i] = IF i <= Len(t) THEN t[i] ELSE u[i - Len(t)]
      /\ Len(t) \in Nat /\ Len(u) \in Nat
  BY ConcatProperties
<1>2. ASSUME NEW i \in 1 .. Len(u) PROVE (t \o u)[Len(t) + i] = u[i]
  <2>1. /\ Len(t) + i \in 1 .. Len(t) + Len(u) /\ ~(Len(t) + i <= Len(t))
        /\ (Len(t) + i) - Len(t) = i
    BY <1>1
  <2> QED BY <1>1, <2>1
<1> QED BY <1>1, <1>2

\* All but the last element.
LEMMA FrontFacts ==
  ASSUME NEW S, NEW z \in Seq(S), Len(z) >= 1
  PROVE  /\ Front(z) \in Seq(S) /\ Len(Front(z)) = Len(z) - 1
         /\ \A i \in 1 .. Len(z) - 1 : Front(z)[i] = z[i]
<1> DEFINE m == Len(z) - 1
           f == SubSeq(z, 1, m)
<1>1. m \in Nat /\ \A p \in 1 .. m : p \in 1 .. Len(z)
  OBVIOUS
<1>2. Front(z) = f /\ m = Len(z) - 1
  BY DEF Front
<1> HIDE DEF m
<1>3. /\ f \in Seq(S) /\ Len(f) = IF 1 <= m THEN m - 1 + 1 ELSE 0
      /\ \A p \in 1 .. m - 1 + 1 : f[p] = z[1 + p - 1]
  BY <1>1, SubSeqProperties
<1> HIDE DEF f
<1>4. Len(f) = m /\ \A p \in 1 .. m : f[p] = z[p]
  BY <1>1, <1>3
<1> QED BY <1>2, <1>3, <1>4

\* Lists of no and of one element.
LEMMA ShortLists ==
  ASSUME NEW S, NEW s \in Seq(S), NEW t \in Seq(S)
  PROVE  /\ Len(s) = 0 => s = << >>
         /\ Len(s) = 1 /\ Len(t) = 1 /\ s[1] = t[1] => s = t
<1>1. Len(s) = 0 => s = << >>
  OBVIOUS
<1>2. ASSUME Len(s) = 1, Len(t) = 1, s[1] = t[1] PROVE s = t
  <2>1. \A i \in 1 .. Len(s) : s[i] = t[i]
    BY <1>2
  <2>2. Len(s) = Len(t)
    BY <1>2
  <2> QED BY <2>1, <2>2, SeqEqual
<1> QED BY <1>1, <1>2

\* The head of two lists in a row is that of the first, the last element that of
\* the second.
LEMMA EndsOfConcat ==
  ASSUME NEW S, NEW t \in Seq(S), NEW u \in Seq(S)
  PROVE  /\ t # << >> => Head(t \o u) = t[1] /\ Tail(t \o u) = Tail(t) \o u
         /\ u # << >> => Last(t \o u) = u[Len(u)] /\ Front(t \o u) = t \o Front(u)
<1>1. /\ t \o u \in Seq(S) /\ Len(t \o u) = Len(t) + Len(u) /\ Len(t) \in Nat /\ Len(u) \in Nat
      /\ \A i \in 1 .. Len(t) : (t \o u)[i] = t[i]
      /\ \A i \in 1 .. Len(u) : (t \o u)[Len(t) + i] = u[i]
  BY ConcatFacts
<1> DEFINE w == t \o u
<1> HIDE DEF w
<1>2. ASSUME t # << >> PROVE Head(w) = t[1] /\ Tail(w) = Tail(t) \o u
  <2>1. w \in Seq(S) /\ Len(t) >= 1 /\ w # << >> /\ Len(w) = Len(t) + Len(u)
    BY <1>1, <1>2 DEF w
  <2>2. Head(w) = t[1]
    BY <1>1, <2>1 DEF w
  <2>3. /\ Tail(w) \in Seq(S) /\ Len(Tail(w)) = Len(w) - 1
        /\ \A i \in 1 .. Len(Tail(w)) : Tail(w)[i] = w[i + 1]
        /\ Tail(t) \in Seq(S) /\ Len(Tail(t)) = Len(t) - 1
        /\ \A i \in 1 .. Len(Tail(t)) : Tail(t)[i] = t[i + 1]
    BY <1>2, <2>1, HeadTailProperties
  <2> DEFINE x == Tail(w)
             y == Tail(t)
  <2>4. /\ y \o u \in Seq(S) /\ Len(y \o u) = Len(y) + Len(u)
        /\ \A i \in 1 .. Len(y) : (y \o u)[i] = y[i]
        /\ \A i \in 1 .. Len(u) : (y \o u)[Len(y) + i] = u[i]
    BY <2>3, ConcatFacts
  <2> HIDE DEF x, y
  <2>5. ASSUME NEW i \in 1 .. Len(x) PROVE x[i] = (y \o u)[i]
    <3>1. x[i] = w[i + 1] /\ Len(x) = Len(t) + Len(u) - 1 /\ Len(y) = Len(t) - 1
      BY <2>1, <2>3 DEF x, y
    <3>2. CASE i <= Len(y)
      <4>1. i \in 1 .. Len(y) /\ i + 1 \in 1 .. Len(t)
        BY <1>1, <3>1, <3>2
      <4> QED BY <1>1, <2>3, <2>4, <3>1, <4>1 DEF w, y
    <3>3. CASE i > Len(y)
      <4>1. i - Len(y) \in 1 .. Len(u) /\ i + 1 = Len(t) + (i - Len(y)) /\ i = Len(y) + (i - Len(y))
        BY <1>1, <2>1, <3>1, <3>3
      <4>2. w[Len(t) + (i - Len(y))] = u[i - Len(y)]
        BY <1>1, <4>1 DEF w
      <4>3. (y \o u)[Len(y) + (i - Len(y))] = u[i - Len(y)]
        BY <2>4, <4>1
      <4> QED BY <3>1, <4>1, <4>2, <4>3
    <3>4. i <= Len(y) \/ i > Len(y)
      BY <1>1, <2>1, <3>1
    <3> QED BY <3>2, <3>3, <3>4
  <2>6. x \in Seq(S) /\ Len(x) = Len(y \o u)
    BY <1>1, <2>1, <2>3, <2>4 DEF x, y
  <2>7. x = y \o u
    BY <2>4, <2>5, <2>6, SeqEqual
  <2> QED BY <2>2, <2>7 DEF x, y
<1>3. ASSUME u # << >> PROVE Last(w) = u[Len(u)] /\ Front(w) = t \o Front(u)
  <2>1. w \in Seq(S) /\ Len(u) >= 1 /\ Len(w) = Len(t) + Len(u)
    BY <1>1, <1>3 DEF w
  <2>2. Last(w) = u[Len(u)]
    BY <1>1, <2>1 DEF Last, w
  <2> DEFINE x == Front(w)
             y == Front(u)
  <2>3. /\ x \in Seq(S) /\ Len(x) = Len(w) - 1 /\ \A i \in 1 .. Len(w) - 1 : x[i] = w[i]
        /\ y \in Seq(S) /\ Len(y) = Len(u) - 1 /\ \A i \in 1 .. Len(u) - 1 : y[i] = u[i]
    <3>0. w \in Seq(S) /\ Len(w) >= 1
      BY <1>1, <2>1
    <3>1. x \in Seq(S) /\ Len(x) = Len(w) - 1 /\ \A i \in 1 .. Len(w) - 1 : x[i] = w[i]
      BY <3>0, FrontFacts, Zenon
    <3>2. y \in Seq(S) /\ Len(y) = Len(u) - 1 /\ \A i \in 1 .. Len(u) - 1 : y[i] = u[i]
      BY <2>1, FrontFacts
    <3> QED BY <3>1, <3>2
  <2> HIDE DEF x, y
  <2>4. /\ t \o y \in Seq(S) /\ Len(t \o y) = Len(t) + Len(y)
        /\ \A i \in 1 .. Len(t) : (t \o y)[i] = t[i]
        /\ \A i \in 1 .. Len(y) : (t \o y)[Len(t) + i] = y[i]
    <3>1. y \in Seq(S)
      BY <2>3
    <3>2. \A z \in Seq(S) :
            /\ t \o z \in Seq(S) /\ Len(t \o z) = Len(t) + Len(z)
            /\ \A i \in 1 .. Len(t) : (t \o z)[i] = t[i]
            /\ \A i \in 1 .. Len(z) : (t \o z)[Len(t) + i] = z[i]
      BY ConcatFacts
    <3> QED BY <3>1, <3>2
  <2>5. ASSUME NEW i \in 1 .. Len(x) PROVE x[i] = (t \o y)[i]
    <3>1. x[i] = w[i] /\ Len(x) = Len(t) + Len(u) - 1 /\ Len(y) = Len(u) - 1
      BY <2>1, <2>3
    <3>2. CASE i <= Len(t)
      BY <1>1, <2>4, <3>1, <3>2 DEF w
    <3>3. CASE i > Len(t)
      <4>1. i - Len(t) \in 1 .. Len(y) /\ i - Len(t) \in 1 .. Len(u) /\ i = Len(t) + (i - Len(t))
        BY <1>1, <2>1, <3>1, <3>3
      <4>2. w[Len(t) + (i - Len(t))] = u[i - Len(t)] /\ y[i - Len(t)] = u[i - Len(t)]
        BY <1>1, <2>3, <3>1, <4>1 DEF w
      <4>3. (t \o y)[Len(t) + (i - Len(t))] = y[i - Len(t)]
        BY <2>4, <4>1
      <4> QED BY <3>1, <4>1, <4>2, <4>3
    <3>4. i <= Len(t) \/ i > Len(t)
      BY <1>1, <3>1, <2>1
    <3> QED BY <3>2, <3>3, <3>4
  <2>6. x \in Seq(S) /\ Len(x) = Len(t \o y)
    BY <1>1, <2>1, <2>3, <2>4
  <2>7. x = t \o y
    BY <2>4, <2>5, <2>6, SeqEqual
  <2> QED BY <2>2, <2>7 DEF x, y
<1> QED BY <1>2, <1>3 DEF w

\* What one LPUSH or RPUSH put in comes off the same end in the opposite order, and
\* the list is as it was: for every list, not only the short ones of the run
\* (List.LPush, RPush, LPop, RPop, datastruct.go).
LEMMA UndoneAt == items \in Seq(Values) => PushedValuesComeOff
<1> SUFFICES ASSUME items \in Seq(Values), NEW v \in Values, NEW w \in Values
             PROVE  /\ LPop(LPush(items, <<v, w>>)) = [value |-> w, rest |-> LPush(items, <<v>>)]
                    /\ RPop(RPush(items, <<v, w>>)) = [value |-> w, rest |-> RPush(items, <<v>>)]
                    /\ LPop(LPush(items, <<v>>)).rest = items
                    /\ RPop(RPush(items, <<v>>)).rest = items
  BY DEF PushedValuesComeOff
<1> DEFINE r1 == Reverse(<<v>>)
           r2 == Reverse(<<v, w>>)
<1>1. r1 \in Seq(Values) /\ Len(r1) = 1 /\ r1[1] = v /\ r1 # << >>
  BY DEF Reverse
<1>2. r2 \in Seq(Values) /\ Len(r2) = 2 /\ r2[1] = w /\ r2[2] = v /\ r2 # << >>
  BY DEF Reverse
<1> HIDE DEF r1, r2
<1>3. Tail(r1) = << >> /\ Tail(r2) = r1
  <2>1. Tail(r1) \in Seq(Values) /\ Len(Tail(r1)) = 0
    BY <1>1, HeadTailProperties
  <2>2. Tail(r2) \in Seq(Values) /\ Len(Tail(r2)) = 1 /\ Tail(r2)[1] = v
    <3>1. /\ Tail(r2) \in Seq(Values) /\ Len(Tail(r2)) = Len(r2) - 1
          /\ \A i \in 1 .. Len(Tail(r2)) : Tail(r2)[i] = r2[i + 1]
      BY <1>2, HeadTailProperties
    <3> DEFINE q == Tail(r2)
    <3> HIDE DEF q
    <3>2. q \in Seq(Values) /\ Len(q) = 2 - 1 /\ \A i \in 1 .. Len(q) : q[i] = r2[i + 1]
      BY <1>2, <3>1, Zenon DEF q
    <3>3. Len(q) = 1
      BY <3>2
    <3>4. q[1] = r2[1 + 1]
      BY <3>2, <3>3
    <3>5. q[1] = v
      BY <1>2, <3>4
    <3> QED BY <3>2, <3>3, <3>5 DEF q
  <2>3. Tail(r2) = r1
    BY <1>1, <2>2, ShortLists
  <2> QED BY <2>1, <2>3, ShortLists
<1> DEFINE s1 == <<v>>
           s2 == <<v, w>>
<1>4. /\ s1 \in Seq(Values) /\ s1 # << >> /\ Len(s1) = 1 /\ s1[1] = v
      /\ s2 \in Seq(Values) /\ s2 # << >> /\ Len(s2) = 2 /\ s2[1] = v /\ s2[2] = w
  OBVIOUS
<1> HIDE DEF s1, s2
<1>5. Front(s1) = << >> /\ Front(s2) = s1
  <2>1. Front(s1) \in Seq(Values) /\ Len(Front(s1)) = 0
    BY <1>4, FrontFacts
  <2>2. Front(s2) \in Seq(Values) /\ Len(Front(s2)) = 1 /\ Front(s2)[1] = v
    <3>1. /\ Front(s2) \in Seq(Values) /\ Len(Front(s2)) = Len(s2) - 1
          /\ \A i \in 1 .. Len(s2) - 1 : Front(s2)[i] = s2[i]
      <4>1. s2 \in Seq(Values) /\ Len(s2) >= 1
        BY <1>4
      <4> QED BY <4>1, FrontFacts, Zenon
    <3>2. Len(s2) - 1 = 1
      BY <1>4
    <3> QED BY <1>4, <3>1, <3>2
  <2>3. Front(s2) = s1
    BY <1>4, <2>2, ShortLists
  <2> QED BY <2>1, <2>3, ShortLists
<1>6. << >> \o items = items /\ items \o << >> = items
  BY ConcatEmptySeq
<1>7. /\ Head(r2 \o items) = w /\ Tail(r2 \o items) = r1 \o items
      /\ Tail(r1 \o items) = items
  <2>1. Head(r2 \o items) = r2[1] /\ Tail(r2 \o items) = Tail(r2) \o items
    BY <1>2, EndsOfConcat
  <2>2. Tail(r1 \o items) = Tail(r1) \o items
    BY <1>1, EndsOfConcat
  <2> QED BY <1>2, <1>3, <1>6, <2>1, <2>2
<1>8. /\ Last(items \o s2) = w /\ Front(items \o s2) = items \o s1
      /\ Front(items \o s1) = items
  <2>1. Last(items \o s2) = s2[Len(s2)] /\ Front(items \o s2) = items \o Front(s2)
    BY <1>4, EndsOfConcat
  <2>2. Front(items \o s1) = items \o Front(s1)
    BY <1>4, EndsOfConcat
  <2> QED BY <1>4, <1>5, <1>6, <2>1, <2>2
<1>9. /\ LPush(items, <<v, w>>) = r2 \o items /\ LPush(items, <<v>>) = r1 \o items
      /\ RPush(items, <<v, w>>) = items \o s2 /\ RPush(items, <<v>>) = items \o s1
  BY DEF LPush, RPush, r1, r2, s1, s2
<1> QED BY <1>7, <1>8, <1>9 DEF LPop, RPop

-----------------------------------------------------------------------------
(* Positions: what an index of LINDEX, LSET and LRANGE stands for.         *)

\* The indices clients give.
LEMMA IndicesAreInts == Indices \subseteq Int
  BY MaxLenAssumption DEF Indices

\* An index stands for one position of the list at most, the one the methods
\* compute (the index += len(l.items) of List.LIndex, LSet and LRange).
LEMMA OnePosition ==
  ASSUME items \in Seq(Values), NEW index \in Int, NEW p \in 0 .. Len(items) - 1
  PROVE  Denotes(p, index) <=> p = Absolute(index, Len(items))
<1>1. Len(items) \in Nat
  OBVIOUS
<1> QED BY <1>1 DEF Denotes, Absolute

\* LSET changes the element that LINDEX reads at an index of the same position,
\* from whichever end, and no other, in a list of any length (List.LSet and
\* LIndex, datastruct.go).
LEMMA ReadBackAt == items \in Seq(Values) => LSetReadByLIndex
<1> SUFFICES ASSUME items \in Seq(Values), NEW i \in Indices, NEW j \in Indices, NEW v \in Values
             PROVE  LIndex(LSet(items, i, v), j) =
                      IF \E p \in 0 .. Len(items) - 1 : Denotes(p, i) /\ Denotes(p, j)
                        THEN <<v>> ELSE LIndex(items, j)
  BY DEF LSetReadByLIndex
<1> DEFINE N == Len(items)
           a == Absolute(i, N)
           b == Absolute(j, N)
           after == LSet(items, i, v)
<1>1. N \in Nat /\ a \in Int /\ b \in Int
  BY IndicesAreInts DEF Absolute
<1>2. \A p \in 0 .. N - 1 : (Denotes(p, i) <=> p = a) /\ (Denotes(p, j) <=> p = b)
  BY IndicesAreInts, OnePosition
<1>3. CASE ~(a \in 0 .. N - 1)
  <2>1. after = items
    BY <1>3 DEF LSet, InRange
  <2>2. ~ \E p \in 0 .. N - 1 : Denotes(p, i) /\ Denotes(p, j)
    BY <1>2, <1>3
  <2> QED BY <2>1, <2>2
<1>4. CASE a \in 0 .. N - 1
  <2>1. after = [items EXCEPT ![a + 1] = v]
    BY <1>4 DEF LSet, InRange
  <2>2. Len(after) = N /\ a + 1 \in 1 .. N
    BY <1>1, <1>4, <2>1
  <2>3. \A k \in 1 .. N : after[k] = IF k = a + 1 THEN v ELSE items[k]
    BY <2>1, <2>2
  <2> HIDE DEF after, N, a, b
  <2>4. LIndex(after, j) = IF b \in 0 .. N - 1 THEN <<after[b + 1]>> ELSE << >>
    BY <2>2 DEF LIndex, InRange, b
  <2>5. LIndex(items, j) = IF b \in 0 .. N - 1 THEN <<items[b + 1]>> ELSE << >>
    BY DEF LIndex, InRange, b, N
  <2>6. (\E p \in 0 .. N - 1 : Denotes(p, i) /\ Denotes(p, j)) <=> b = a
    BY <1>2, <1>4
  <2>7. CASE b \in 0 .. N - 1
    <3>1. b + 1 \in 1 .. N /\ (b + 1 = a + 1 <=> b = a)
      BY <1>1, <2>7
    <3>2. after[b + 1] = IF b = a THEN v ELSE items[b + 1]
      BY <2>3, <3>1
    <3> QED BY <2>4, <2>5, <2>6, <2>7, <3>2 DEF after, N
  <2>8. CASE ~(b \in 0 .. N - 1)
    <3>1. b # a
      BY <1>4, <2>8
    <3> QED BY <2>4, <2>5, <2>6, <2>8, <3>1 DEF after, N
  <2> QED BY <2>7, <2>8
<1> QED BY <1>3, <1>4

\* The clamp of LRANGE's start.
LEMMA LargerOfTwo ==
  ASSUME NEW a \in Int, NEW b \in Int
  PROVE  Max({a, b}) = IF a >= b THEN a ELSE b
<1>1. \E x \in {a, b} : \A y \in {a, b} : x >= y
  OBVIOUS
<1>2. Max({a, b}) \in {a, b} /\ \A y \in {a, b} : Max({a, b}) >= y
  BY <1>1 DEF Max
<1> QED BY <1>2

\* The clamp of its stop.
LEMMA SmallerOfTwo ==
  ASSUME NEW a \in Int, NEW b \in Int
  PROVE  Min({a, b}) = IF a <= b THEN a ELSE b
<1>1. \E x \in {a, b} : \A y \in {a, b} : x <= y
  OBVIOUS
<1>2. Min({a, b}) \in {a, b} /\ \A y \in {a, b} : Min({a, b}) <= y
  BY <1>1 DEF Min
<1> QED BY <1>2

\* The positions LRANGE returns run from From to To, where the methods clamp the
\* two indices to the list; there are none if From lies behind To.
From(start, N) == LET a == Absolute(start, N) IN IF a >= 0 THEN a ELSE 0
To(stop, N)    == LET a == Absolute(stop, N) IN IF a <= N - 1 THEN a ELSE N - 1

\* What LRANGE returns: the elements at From to To, counted from 0.
LEMMA RangeShape ==
  ASSUME NEW S, NEW s \in Seq(S), NEW start \in Int, NEW stop \in Int,
         NEW f, f = From(start, Len(s)), NEW l, l = To(stop, Len(s))
  PROVE  /\ f \in Nat /\ l \in Int /\ l <= Len(s) - 1 /\ Len(s) \in Nat
         /\ LRange(s, start, stop) \in Seq(S)
         /\ Len(LRange(s, start, stop)) = IF f <= l THEN l - f + 1 ELSE 0
         /\ \A k \in 1 .. l - f + 1 : LRange(s, start, stop)[k] = s[f + k]
<1> DEFINE N == Len(s)
           a == Absolute(start, N)
           b == Absolute(stop, N)
<1>1. N \in Nat /\ a \in Int /\ b \in Int /\ N - 1 \in Int /\ 0 \in Int
  BY DEF Absolute
<1>2. f = Max({a, 0}) /\ l = Min({b, N - 1})
  BY <1>1, LargerOfTwo, SmallerOfTwo DEF From, To
<1>3. f \in Nat /\ l \in Int /\ l <= N - 1
  BY <1>1 DEF From, To
<1>4. LRange(s, start, stop) = IF N = 0 \/ f > l \/ f >= N THEN << >> ELSE SubSeq(s, f + 1, l + 1)
  BY <1>2 DEF LRange
<1>5. N = 0 \/ f > l \/ f >= N <=> f > l
  BY <1>1, <1>3
<1> DEFINE r == LRange(s, start, stop)
<1>6. CASE f > l
  <2>1. r = << >>
    BY <1>4, <1>6
  <2>2. l - f + 1 <= 0 /\ ~(f <= l) /\ l - f + 1 \in Int
    BY <1>3, <1>6
  <2> HIDE DEF r
  <2>3. r \in Seq(S) /\ Len(r) = 0
    BY <2>1
  <2> QED BY <1>1, <1>3, <2>2, <2>3 DEF r
<1>7. CASE f <= l
  <2>0. ~(N = 0 \/ f > l \/ f >= N)
    BY <1>3, <1>5, <1>7
  <2>1. r = SubSeq(s, f + 1, l + 1)
    BY <1>4, <2>0, Zenon
  <2>2. f + 1 \in Int /\ l + 1 \in Int /\ \A i \in f + 1 .. l + 1 : s[i] \in S
    BY <1>1, <1>3
  <2> DEFINE m == f + 1
             e == l + 1
  <2>3. m = f + 1 /\ e = l + 1
    OBVIOUS
  <2> HIDE DEF m, e
  <2>4. m \in Int /\ e \in Int /\ \A i \in m .. e : s[i] \in S
    BY <2>2, <2>3
  <2>5. /\ SubSeq(s, m, e) \in Seq(S)
        /\ Len(SubSeq(s, m, e)) = IF m <= e THEN e - m + 1 ELSE 0
        /\ \A i \in 1 .. e - m + 1 : SubSeq(s, m, e)[i] = s[m + i - 1]
    BY <2>4, SubSeqProperties
  <2>6. r = SubSeq(s, m, e)
    BY <2>1, <2>3
  <2>7. m <= e /\ e - m + 1 = l - f + 1 /\ \A k \in 1 .. l - f + 1 : m + k - 1 = f + k
    BY <1>3, <1>7, <2>3, SMTT(30)
  <2> HIDE DEF r
  <2>8. r \in Seq(S) /\ Len(r) = l - f + 1 /\ \A k \in 1 .. l - f + 1 : r[k] = s[f + k]
    BY <2>5, <2>6, <2>7
  <2> QED BY <1>1, <1>3, <1>7, <2>8 DEF r
<1> QED BY <1>3, <1>6, <1>7

\* LRANGE returns exactly the elements between its two positions, in their order,
\* for every list and every pair of indices, negative and oversized ones included,
\* and two ranges side by side are the list (List.LRange, datastruct.go).
LEMMA RangeAt == items \in Seq(Values) => LRangeCorrect
<1> SUFFICES ASSUME items \in Seq(Values), NEW start \in Indices, NEW stop \in Indices
             PROVE  LET n0  == Len(items)
                        lo  == IF start < 0 THEN n0 + start ELSE start
                        hi  == IF stop < 0 THEN n0 + stop ELSE stop
                        ps  == {p \in 0 .. n0 - 1 : lo <= p /\ p <= hi}
                        got == LRange(items, start, stop)
                    IN  /\ Len(got) = Cardinality(ps)
                        /\ \A p \in ps : got[Cardinality({q \in ps : q <= p})] = items[p + 1]
                        /\ start >= 0 /\ stop = start + 1
                             => LRange(items, 0, start) \o LRange(items, stop, -1) = items
  BY DEF LRangeCorrect
<1> DEFINE N   == Len(items)
           lo  == IF start < 0 THEN N + start ELSE start
           hi  == IF stop < 0 THEN N + stop ELSE stop
           ps  == {p \in 0 .. N - 1 : lo <= p /\ p <= hi}
           got == LRange(items, start, stop)
           f   == From(start, N)
           l   == To(stop, N)
<1>1. start \in Int /\ stop \in Int /\ N \in Nat
  BY IndicesAreInts
<1>2. /\ f \in Nat /\ l \in Int /\ l <= N - 1
      /\ got \in Seq(Values)
      /\ Len(got) = IF f <= l THEN l - f + 1 ELSE 0
      /\ \A k \in 1 .. l - f + 1 : got[k] = items[f + k]
  BY <1>1, RangeShape
<1>3. ps = f .. l
  BY <1>1, <1>2 DEF From, To, Absolute
<1> HIDE DEF f, l, ps, got
<1>4. Len(got) = Cardinality(ps)
  <2>1. Cardinality(f .. l) = IF f > l THEN 0 ELSE l - f + 1
    BY <1>2, FS_Interval
  <2> QED BY <1>2, <1>3, <2>1
<1>5. ASSUME NEW p \in ps PROVE got[Cardinality({q \in ps : q <= p})] = items[p + 1]
  <2>1. p \in Int /\ f <= p /\ p <= l
    BY <1>2, <1>3, <1>5
  <2>2. {q \in ps : q <= p} = f .. p
    BY <1>2, <1>3, <2>1
  <2>3. Cardinality(f .. p) = p - f + 1
    <3>1. Cardinality(f .. p) = IF f > p THEN 0 ELSE p - f + 1
      BY <1>2, <2>1, FS_Interval
    <3> QED BY <1>2, <2>1, <3>1
  <2>4. p - f + 1 \in 1 .. l - f + 1 /\ f + (p - f + 1) = p + 1
    BY <1>2, <2>1
  <2> QED BY <1>2, <2>2, <2>3, <2>4
<1>6. ASSUME start >= 0, stop = start + 1
      PROVE  LRange(items, 0, start) \o LRange(items, stop, -1) = items
  <2> DEFINE t  == LRange(items, 0, start)
             u  == LRange(items, stop, -1)
             f1 == From(0, N)
             l1 == To(start, N)
             f2 == From(stop, N)
             l2 == To(-1, N)
  <2>1. /\ t \in Seq(Values) /\ Len(t) = IF f1 <= l1 THEN l1 - f1 + 1 ELSE 0
        /\ \A k \in 1 .. l1 - f1 + 1 : t[k] = items[f1 + k]
    BY <1>1, RangeShape
  <2>2. /\ u \in Seq(Values) /\ Len(u) = IF f2 <= l2 THEN l2 - f2 + 1 ELSE 0
        /\ \A k \in 1 .. l2 - f2 + 1 : u[k] = items[f2 + k]
    BY <1>1, RangeShape
  <2>3. /\ f1 = 0 /\ f2 = start + 1 /\ l2 = N - 1
        /\ l1 = IF start <= N - 1 THEN start ELSE N - 1
    BY <1>1, <1>6 DEF From, To, Absolute
  <2> HIDE DEF t, u, f1, l1, f2, l2
  <2>4. /\ Len(t) = IF start <= N - 1 THEN start + 1 ELSE N
        /\ Len(u) = IF start <= N - 1 THEN N - 1 - start ELSE 0
    BY <1>1, <1>6, <2>1, <2>2, <2>3
  <2>5. /\ t \o u \in Seq(Values) /\ Len(t \o u) = Len(t) + Len(u)
        /\ \A i \in 1 .. Len(t) : (t \o u)[i] = t[i]
        /\ \A i \in 1 .. Len(u) : (t \o u)[Len(t) + i] = u[i]
    <3>1. t \in Seq(Values) /\ u \in Seq(Values)
      BY <2>1, <2>2
    <3> QED BY <3>1, ConcatFacts
  <2>6. ASSUME NEW i \in 1 .. Len(t \o u) PROVE (t \o u)[i] = items[i]
    <3>1. CASE i <= Len(t)
      <4>1. i \in 1 .. Len(t) /\ i \in 1 .. l1 - f1 + 1 /\ f1 + i = i
        BY <1>1, <1>6, <2>3, <2>4, <3>1
      <4> QED BY <2>1, <2>5, <4>1
    <3>2. CASE i > Len(t)
      <4>1. /\ i - Len(t) \in 1 .. Len(u) /\ i - Len(t) \in 1 .. l2 - f2 + 1
            /\ f2 + (i - Len(t)) = i /\ Len(t) + (i - Len(t)) = i
        BY <1>1, <1>6, <2>3, <2>4, <2>5, <3>2
      <4> QED BY <2>2, <2>5, <4>1
    <3>3. i <= Len(t) \/ i > Len(t)
      BY <1>1, <1>6, <2>4
    <3> QED BY <3>1, <3>2, <3>3
  <2>7. Len(t \o u) = N
    BY <1>1, <1>6, <2>4, <2>5
  <2> QED BY <2>5, <2>6, <2>7, SeqEqual DEF t, u
<1> QED BY <1>4, <1>5, <1>6 DEF ps, got

-----------------------------------------------------------------------------
(* Ints.                                                                   *)

\* Remainders of any integer.
LEMMA ModRange ==
  ASSUME NEW a \in Int, NEW d \in Nat \ {0}
  PROVE  a % d \in 0 .. d - 1
OBVIOUS

\* A number below the divisor is its own remainder.
LEMMA ModSmall ==
  ASSUME NEW d \in Nat \ {0}, NEW a \in 0 .. d - 1
  PROVE  a % d = a
OBVIOUS

\* Wrap gives an int, and leaves one alone.
LEMMA WrapFacts ==
  ASSUME NEW x \in Int
  PROVE  Wrap(x) \in Ints /\ Wrap(x) \in Int /\ (x \in Ints => Wrap(x) = x)
<1> DEFINE d == 2 * Half
<1>1. d \in Nat \ {0} /\ Half \in Nat \ {0} /\ x + Half \in Int
  BY HalfAssumption
<1>2. Wrap(x) = ((x + Half) % d) - Half
  BY DEF Wrap
<1>3. x \in Ints => x + Half \in 0 .. d - 1
  BY HalfAssumption DEF Ints, MinInt
<1>4. (x + Half) % d \in 0 .. d - 1
  <2> HIDE DEF d
  <2> QED BY <1>1, ModRange
<1>5. x + Half \in 0 .. d - 1 => (x + Half) % d = x + Half
  <2> HIDE DEF d
  <2> QED BY <1>1, ModSmall
<1>6. Wrap(x) \in Ints /\ Wrap(x) \in Int
  <2> DEFINE m == (x + Half) % d
  <2>1. m \in 0 .. d - 1 /\ Wrap(x) = m - Half
    BY <1>2, <1>4
  <2> HIDE DEF m
  <2> QED BY <1>1, <2>1 DEF Ints, MinInt
<1>7. x \in Ints => Wrap(x) = x
  BY <1>1, <1>2, <1>3, <1>5
<1> QED BY <1>6, <1>7

\* Wrapping an int with its sign turned.
LEMMA WrapMinus ==
  /\ Wrap(-MinInt) = MinInt
  /\ \A x \in Ints : x # MinInt => Wrap(-x) = -x /\ -x \in Ints
<1>1. \A x \in Ints : x # MinInt => -x \in Ints /\ -x \in Int
  BY HalfAssumption DEF Ints, MinInt
<1>2. Wrap(-MinInt) = MinInt
  <2> DEFINE d == 2 * Half
  <2>1. (-MinInt) + Half = d /\ d \in Nat \ {0} /\ Half \in Nat \ {0}
    BY HalfAssumption DEF MinInt
  <2>2. d % d = 0
    <3> HIDE DEF d
    <3> QED BY <2>1
  <2>3. ((-MinInt) + Half) % d = 0
    <3> HIDE DEF d
    <3> QED BY <2>1, <2>2
  <2>4. Wrap(-MinInt) = 0 - Half
    BY <2>3 DEF Wrap
  <2> QED BY <2>1, <2>4 DEF MinInt
<1> QED BY <1>1, <1>2, WrapFacts

-----------------------------------------------------------------------------
(* LREM's loops.                                                           *)

\* The two fields after one iteration.
LEMMA RemStepFields ==
  ASSUME NEW V, NEW a \in [items : Seq(V), removed : Nat], NEW x \in V, NEW v, NEW L
  PROVE  /\ RemStep(a, x, v, L) \in [items : Seq(V), removed : Nat]
         /\ x = v /\ a.removed < L =>
              RemStep(a, x, v, L).removed = a.removed + 1 /\ RemStep(a, x, v, L).items = a.items
         /\ ~(x = v /\ a.removed < L) =>
              /\ RemStep(a, x, v, L).removed = a.removed
              /\ RemStep(a, x, v, L).items = Append(a.items, x)
<1>1. a.items \in Seq(V) /\ a.removed \in Nat /\ Append(a.items, x) \in Seq(V)
  OBVIOUS
<1>2. CASE x = v /\ a.removed < L
  <2>1. RemStep(a, x, v, L) = [items |-> a.items, removed |-> a.removed + 1]
    BY <1>2 DEF RemStep
  <2> QED BY <1>1, <1>2, <2>1
<1>3. CASE ~(x = v /\ a.removed < L)
  <2>1. RemStep(a, x, v, L) = [items |-> Append(a.items, x), removed |-> a.removed]
    BY <1>3 DEF RemStep
  <2> QED BY <1>1, <1>3, <2>1
<1> QED BY <1>2, <1>3

\* f[i] is the state of RemLoop after i iterations.
IsRun(f, s, v, L) ==
  /\ f[0] = [items |-> << >>, removed |-> 0]
  /\ \A i \in 1 .. Len(s) : f[i] = RemStep(f[i - 1], s[i], v, L)
  /\ RemLoop(s, v, L) = f[Len(s)]

\* There are such states, and they have their type.
LEMMA RemLoopRuns ==
  ASSUME NEW V, NEW s \in Seq(V), NEW v, NEW L \in Int
  PROVE  \E f \in [0 .. Len(s) -> [items : Seq(V), removed : Nat]] : IsRun(f, s, v, L)
<1> DEFINE N == Len(s)
           S == [items : Seq(V), removed : Nat]
           b == [items |-> << >>, removed |-> 0]
           step == [p \in S \X (1 .. N) |-> RemStep(p[1], s[p[2]], v, L)]
           body(f) == [i \in 0 .. N |-> IF i = 0 THEN b ELSE RemStep(f[i - 1], s[i], v, L)]
           after == CHOOSE f : f = body(f)
<1>1. b \in S /\ N \in Nat
  OBVIOUS
<1>2. \A a \in S, x \in V : RemStep(a, x, v, L) \in S
  BY RemStepFields
<1>3. step \in [S \X (1 .. N) -> S]
  <2>1. ASSUME NEW p \in S \X (1 .. N)
        PROVE  RemStep(p[1], s[p[2]], v, L) \in S
    <3>1. p[1] \in S /\ s[p[2]] \in V
      OBVIOUS
    <3> HIDE DEF S
    <3> QED BY <1>2, <3>1
  <2> HIDE DEF S
  <2> QED BY <2>1
<1>4. \A a \in S, i \in 1 .. N : step[<<a, i>>] = RemStep(a, s[i], v, L)
  <2> HIDE DEF S
  <2> QED OBVIOUS
<1>5. RemLoop(s, v, L) = after[N]
  BY DEF RemLoop
<1> HIDE DEF S, b, step, N
<1>6. PICK g \in [0 .. N -> S] : IsRecursion(g, b, step, N)
  BY <1>1, <1>3, RecursionExists
<1>7. g = body(g)
  <2>1. ASSUME NEW i \in 0 .. N
        PROVE  g[i] = IF i = 0 THEN b ELSE RemStep(g[i - 1], s[i], v, L)
    <3>1. CASE i = 0
      BY <1>6, <3>1 DEF IsRecursion
    <3>2. CASE i # 0
      <4>1. i \in 1 .. N /\ i - 1 \in 0 .. N
        BY <1>1, <3>2
      <4> QED BY <1>4, <1>6, <3>2, <4>1 DEF IsRecursion
    <3> QED BY <3>1, <3>2
  <2> QED BY <2>1
<1>8. after = body(after)
  <2> HIDE DEF body
  <2> QED BY <1>7
<1> HIDE DEF after
<1>9. after[0] = b /\ \A i \in 1 .. N : after[i] = RemStep(after[i - 1], s[i], v, L)
  BY <1>1, <1>8
<1>10. DOMAIN after = 0 .. N /\ after = [i \in 0 .. N |-> after[i]]
  BY <1>8
<1>11. \A i \in 0 .. N : after[i] \in S
  <2> DEFINE T == {i \in Nat : i <= N => after[i] \in S}
  <2>1. 0 \in T
    BY <1>1, <1>9
  <2>2. ASSUME NEW i \in Nat, i \in T
        PROVE  i + 1 \in T
    <3> SUFFICES ASSUME i + 1 <= N PROVE after[i + 1] \in S
      OBVIOUS
    <3>1. after[i] \in S /\ i + 1 \in 1 .. N /\ (i + 1) - 1 = i
      BY <1>1, <2>2
    <3>2. s[i + 1] \in V
      BY <3>1 DEF N
    <3> QED BY <1>2, <1>9, <3>1, <3>2
  <2> HIDE DEF T
  <2>3. \A i \in Nat : i \in T
    BY <2>1, <2>2, InductionSet
  <2> QED BY <1>1, <2>3 DEF T
<1>12. after \in [0 .. N -> S]
  BY <1>10, <1>11
<1> QED BY <1>5, <1>9, <1>12 DEF N, S, b, IsRun

-----------------------------------------------------------------------------
(* Which positions LREM drops.                                             *)

\* The positions of A up to p, and how many they are.
UpTo(A, p) == {q \in A : q <= p}
Rank(A, p) == Cardinality(UpTo(A, p))

\* The rank grows by one at each position of A.
LEMMA RankSteps ==
  ASSUME NEW N \in Nat, NEW A \in SUBSET (1 .. N)
  PROVE  /\ IsFiniteSet(A)
         /\ Rank(A, 0) = 0 /\ Rank(A, N) = Cardinality(A)
         /\ \A i \in Nat : /\ Rank(A, i) \in Nat
                           /\ i + 1 \in A => Rank(A, i + 1) = Rank(A, i) + 1
                           /\ i + 1 \notin A => Rank(A, i + 1) = Rank(A, i)
         /\ \A i, p \in Nat : p <= i => Rank(A, p) <= Rank(A, i)
         /\ \A p \in A : p \in Nat /\ Rank(A, p) >= 1
<1>0. \A q \in A : q \in Nat /\ 1 <= q /\ q <= N
  OBVIOUS
<1>m. \A p \in Nat : \A q : q \in UpTo(A, p) <=> q \in A /\ q \in Nat /\ q <= p
  BY <1>0 DEF UpTo
<1>1. IsFiniteSet(1 .. N)
  BY FS_Interval
<1>2. \A p : UpTo(A, p) \subseteq A
  BY DEF UpTo
<1>3. IsFiniteSet(A) /\ \A p : IsFiniteSet(UpTo(A, p))
  BY <1>1, <1>2, FS_Subset
<1>4. \A p : Rank(A, p) \in Nat
  BY <1>3, FS_CardinalityType DEF Rank
<1>5. UpTo(A, 0) = {} /\ UpTo(A, N) = A
  BY <1>0, <1>m
<1>6. Rank(A, 0) = 0 /\ Rank(A, N) = Cardinality(A)
  BY <1>5, FS_EmptySet DEF Rank
<1>7. ASSUME NEW i \in Nat, i + 1 \in A
      PROVE  Rank(A, i + 1) = Rank(A, i) + 1
  <2>0. i + 1 \in Nat /\ ~(i + 1 <= i) /\ \A q \in Nat : q <= i + 1 <=> q <= i \/ q = i + 1
    OBVIOUS
  <2>1. UpTo(A, i + 1) = UpTo(A, i) \cup {i + 1} /\ i + 1 \notin UpTo(A, i)
    BY <1>7, <1>m, <2>0
  <2> QED BY <1>3, <2>1, FS_AddElement DEF Rank
<1>8. ASSUME NEW i \in Nat, i + 1 \notin A
      PROVE  Rank(A, i + 1) = Rank(A, i)
  <2>0. i + 1 \in Nat /\ \A q \in Nat : q <= i + 1 <=> q <= i \/ q = i + 1
    OBVIOUS
  <2>1. UpTo(A, i + 1) = UpTo(A, i)
    BY <1>8, <1>m, <2>0
  <2> QED BY <2>1 DEF Rank
<1>9. ASSUME NEW i \in Nat, NEW p \in Nat, p <= i
      PROVE  Rank(A, p) <= Rank(A, i)
  <2>0. ASSUME NEW q \in UpTo(A, p)
        PROVE  q \in UpTo(A, i)
    <3>1. q \in A /\ q \in Nat /\ q <= p
      BY <1>m
    <3>2. q <= i
      BY <1>9, <3>1
    <3> QED BY <1>m, <3>1, <3>2
  <2>1. UpTo(A, p) \subseteq UpTo(A, i)
    BY <2>0
  <2> QED BY <1>3, <2>1, FS_Subset DEF Rank
<1>10. ASSUME NEW p \in A
       PROVE  p \in Nat /\ Rank(A, p) >= 1
  <2>1. p - 1 \in Nat /\ (p - 1) + 1 = p
    OBVIOUS
  <2>2. Rank(A, p) = Rank(A, p - 1) + 1
    BY <1>7, <2>1
  <2> QED BY <1>4, <2>1, <2>2
<1> QED BY <1>3, <1>4, <1>6, <1>7, <1>8, <1>9, <1>10

\* The first L occurrences of v, none if L is negative, and the other positions.
Occurrences(s, v) == {p \in 1 .. Len(s) : s[p] = v}
Gone(s, v, L) == {p \in Occurrences(s, v) : Rank(Occurrences(s, v), p) <= L}
Kept(s, v, L) == 1 .. Len(s) \ Gone(s, v, L)

\* How many are dropped when r occurrences have been seen.
Reached(r, L) == IF r <= L THEN r ELSE IF L < 0 THEN 0 ELSE L

\* The loop drops the first L occurrences and keeps the rest in order.
LEMMA RemLoopCorrect ==
  ASSUME NEW V, NEW s \in Seq(V), NEW v, NEW L \in Int
  PROVE  /\ RemLoop(s, v, L) \in [items : Seq(V), removed : Nat]
         /\ RemLoop(s, v, L).removed = Cardinality(Gone(s, v, L))
         /\ Len(RemLoop(s, v, L).items) = Cardinality(Kept(s, v, L))
         /\ \A p \in Kept(s, v, L) : RemLoop(s, v, L).items[Rank(Kept(s, v, L), p)] = s[p]
<1> DEFINE N == Len(s)
           S == [items : Seq(V), removed : Nat]
           O == Occurrences(s, v)
           G == Gone(s, v, L)
           K == Kept(s, v, L)
<1>0. PICK f \in [0 .. N -> S] : IsRun(f, s, v, L)
  BY RemLoopRuns
<1>1. /\ f[0] = [items |-> << >>, removed |-> 0]
      /\ \A i \in 1 .. N : f[i] = RemStep(f[i - 1], s[i], v, L)
      /\ RemLoop(s, v, L) = f[N]
  BY <1>0 DEF IsRun
<1> DEFINE J(i) == /\ f[i].removed = Reached(Rank(O, i), L)
                   /\ f[i].removed = Rank(G, i)
                   /\ Len(f[i].items) = Rank(K, i)
                   /\ \A p \in K : p <= i => f[i].items[Rank(K, p)] = s[p]
           T == {i \in Nat : i <= N => J(i)}
<1>2. N \in Nat /\ O \in SUBSET (1 .. N) /\ G \in SUBSET (1 .. N) /\ K \in SUBSET (1 .. N)
  BY DEF Occurrences, Gone, Kept
<1>3. /\ Rank(O, 0) = 0 /\ Rank(G, 0) = 0 /\ Rank(K, 0) = 0
      /\ Rank(G, N) = Cardinality(G) /\ Rank(K, N) = Cardinality(K)
  BY <1>2, RankSteps
<1>4. \A i \in 1 .. N : /\ i \in O <=> s[i] = v
                        /\ i \in G <=> i \in O /\ Rank(O, i) <= L
                        /\ i \in K <=> i \notin G
  BY DEF Occurrences, Gone, Kept
<1> HIDE DEF O, G, K
<1>5. 0 \in T
  <2>1. f[0].removed = 0 /\ f[0].items = << >>
    BY <1>1
  <2>2. \A p \in K : ~(p <= 0)
    BY <1>2
  <2>3. Reached(0, L) = 0
    BY DEF Reached
  <2> QED BY <1>3, <2>1, <2>2, <2>3
<1>6. ASSUME NEW i \in Nat, i \in T, i + 1 <= N
      PROVE  J(i + 1)
  <2> DEFINE a == f[i]
             b == f[i + 1]
             x == s[i + 1]
  <2>1. J(i)
    BY <1>2, <1>6
  <2>2. i \in 0 .. N /\ i + 1 \in 1 .. N /\ (i + 1) - 1 = i
    BY <1>2, <1>6
  <2>3. a \in S /\ a.items \in Seq(V) /\ a.removed \in Nat
    BY <1>1, <2>2
  <2>4. b = RemStep(a, x, v, L) /\ x \in V
    BY <1>1, <2>2
  <2>5. /\ x = v /\ a.removed < L => b.removed = a.removed + 1 /\ b.items = a.items
        /\ ~(x = v /\ a.removed < L) => b.removed = a.removed /\ b.items = Append(a.items, x)
    <3> HIDE DEF a, b, x
    <3> QED BY <2>3, <2>4, RemStepFields
  <2>6. /\ Rank(O, i) \in Nat /\ Rank(G, i) \in Nat /\ Rank(K, i) \in Nat
        /\ i + 1 \in O => Rank(O, i + 1) = Rank(O, i) + 1
        /\ i + 1 \notin O => Rank(O, i + 1) = Rank(O, i)
        /\ i + 1 \in G => Rank(G, i + 1) = Rank(G, i) + 1
        /\ i + 1 \notin G => Rank(G, i + 1) = Rank(G, i)
        /\ i + 1 \in K => Rank(K, i + 1) = Rank(K, i) + 1
        /\ i + 1 \notin K => Rank(K, i + 1) = Rank(K, i)
    BY <1>2, RankSteps
  <2>7. /\ i + 1 \in O <=> x = v
        /\ i + 1 \in G <=> i + 1 \in O /\ Rank(O, i + 1) <= L
        /\ i + 1 \in K <=> i + 1 \notin G
    BY <1>4, <2>2
  <2>8. \A p \in K : p \in Nat /\ (p <= i + 1 => p <= i \/ p = i + 1)
    BY <1>2
  <2>9. \A p \in K : p <= i => Rank(K, p) \in Nat /\ 1 <= Rank(K, p) /\ Rank(K, p) <= Rank(K, i)
    BY <1>2, RankSteps
  <2>10. /\ a.removed = Reached(Rank(O, i), L)
         /\ a.removed = Rank(G, i)
         /\ Len(a.items) = Rank(K, i)
         /\ \A p \in K : p <= i => a.items[Rank(K, p)] = s[p]
    BY <2>1
  <2> HIDE DEF a, b, x, J
  <2>11. i + 1 \in G <=> x = v /\ a.removed < L
    BY <2>3, <2>6, <2>7, <2>10 DEF Reached
  <2>12. CASE i + 1 \in G
    <3>1. b.removed = a.removed + 1 /\ b.items = a.items /\ i + 1 \notin K /\ i + 1 \in O
      BY <2>5, <2>7, <2>11, <2>12
    <3>2. b.removed = Reached(Rank(O, i + 1), L)
      BY <2>6, <2>7, <2>10, <2>12, <3>1 DEF Reached
    <3>3. b.removed = Rank(G, i + 1) /\ Len(b.items) = Rank(K, i + 1)
      BY <2>6, <2>10, <2>12, <3>1
    <3>4. \A p \in K : p <= i + 1 => b.items[Rank(K, p)] = s[p]
      BY <2>8, <2>10, <3>1
    <3> QED BY <3>2, <3>3, <3>4 DEF J, b
  <2>13. CASE i + 1 \notin G
    <3>1. b.removed = a.removed /\ b.items = Append(a.items, x) /\ i + 1 \in K
      BY <2>5, <2>7, <2>11, <2>13
    <3>2. b.removed = Reached(Rank(O, i + 1), L)
      BY <2>6, <2>7, <2>10, <2>11, <2>13, <3>1 DEF Reached
    <3>3. /\ Len(b.items) = Len(a.items) + 1
          /\ \A q \in 1 .. Len(a.items) : b.items[q] = a.items[q]
          /\ b.items[Len(a.items) + 1] = x
      BY <2>3, <2>4, <3>1
    <3>4. b.removed = Rank(G, i + 1) /\ Len(b.items) = Rank(K, i + 1)
      BY <2>6, <2>10, <2>13, <3>1, <3>3
    <3>5. ASSUME NEW p \in K, p <= i + 1
          PROVE  b.items[Rank(K, p)] = s[p]
      <4>1. CASE p <= i
        <5>1. Rank(K, p) \in Nat /\ 1 <= Rank(K, p) /\ Rank(K, p) <= Rank(K, i)
          BY <2>9, <4>1
        <5>2. Rank(K, p) \in 1 .. Len(a.items)
          BY ONLY <2>6, <2>10, <5>1
        <5>3. b.items[Rank(K, p)] = a.items[Rank(K, p)]
          BY ONLY <3>3, <5>2
        <5>4. a.items[Rank(K, p)] = s[p]
          BY <2>10, <4>1
        <5> QED BY ONLY <5>3, <5>4
      <4>2. CASE p = i + 1
        <5>1. Rank(K, p) = Len(a.items) + 1
          BY <2>6, <2>10, <3>1, <4>2
        <5> QED BY <3>3, <4>2, <5>1 DEF x
      <4> QED BY <2>8, <3>5, <4>1, <4>2
    <3> QED BY <3>2, <3>4, <3>5 DEF J, b
  <2> QED BY <2>12, <2>13
<1>7. \A i \in Nat : i \in T => i + 1 \in T
  <2> HIDE DEF J
  <2> QED BY <1>6
<1>8. J(N)
  <2> HIDE DEF J, T
  <2>1. N \in T
    BY <1>2, <1>5, <1>7, InductionSet
  <2> QED BY <1>2, <2>1 DEF T
<1>9. f[N] \in S
  BY <1>1, <1>2
<1>10. \A p \in K : p <= N
  BY <1>2
<1> QED BY <1>1, <1>3, <1>8, <1>9, <1>10 DEF G, K

\* Mirroring a set of positions keeps its size.
LEMMA MirrorSize ==
  ASSUME NEW c \in Int, NEW A \in SUBSET Int, NEW B \in SUBSET Int, IsFiniteSet(A),
         \A x \in Int : x \in B <=> c - x \in A
  PROVE  IsFiniteSet(B) /\ Cardinality(B) = Cardinality(A)
<1> DEFINE f == [x \in A |-> c - x]
<1>1. \A x \in Int : c - x \in Int /\ c - (c - x) = x
  OBVIOUS
<1>2. f \in [A -> B] /\ \A a, b \in A : f[a] = f[b] => a = b
  BY <1>1
<1>3. \A t \in B : \E a \in A : f[a] = t
  BY <1>1
<1> HIDE DEF f
<1>4. f \in Bijection(A, B)
  BY <1>2, <1>3, Fun_IsBij
<1>5. ExistsBijection(A, B)
  BY <1>4, Fun_ExistsBij
<1> QED BY <1>5, FS_Bijection

\* The positions of A from p on.
Onward(A, p) == {q \in A : q >= p}

\* B is A seen from the other end of 1 .. N.
Mirrors(A, B, N) ==
  A \in SUBSET (1 .. N) /\ B \in SUBSET (1 .. N) /\ \A x \in 1 .. N : x \in B <=> (N + 1) - x \in A

\* A position counted from the tail is one counted from the head of the
\* mirrored set, and the two counts meet in the position.
LEMMA MirrorRank ==
  ASSUME NEW N \in Nat, NEW A, NEW B, Mirrors(A, B, N)
  PROVE  /\ Cardinality(B) = Cardinality(A)
         /\ \A p \in 1 .. N : Cardinality(Onward(A, p)) = Rank(B, (N + 1) - p)
         /\ \A p \in A : Cardinality(A) = (Rank(A, p) + Cardinality(Onward(A, p))) - 1
<1>0. A \in SUBSET (1 .. N) /\ B \in SUBSET (1 .. N) /\ \A x \in 1 .. N : x \in B <=> (N + 1) - x \in A
  BY DEF Mirrors
<1>1. IsFiniteSet(A) /\ \A p \in Nat : Rank(A, p) \in Nat
  BY <1>0, RankSteps
<1>2. A \in SUBSET Int /\ B \in SUBSET Int /\ N + 1 \in Int
  BY <1>0
<1>3. \A x \in Int : x \in B <=> (N + 1) - x \in A
  <2> TAKE x \in Int
  <2>1. CASE x \in 1 .. N
    BY <1>0, <2>1
  <2>2. CASE x \notin 1 .. N
    <3>1. (N + 1) - x \notin 1 .. N
      BY <2>2
    <3> QED BY <1>0, <2>2, <3>1
  <2> QED BY <2>1, <2>2
<1>4. Cardinality(B) = Cardinality(A)
  BY <1>1, <1>2, <1>3, MirrorSize
<1>5. \A p : Onward(A, p) \subseteq A
  BY DEF Onward
<1>6. \A p : IsFiniteSet(Onward(A, p)) /\ Cardinality(Onward(A, p)) \in Nat
  BY <1>1, <1>5, FS_Subset, FS_CardinalityType
<1>7. ASSUME NEW p \in 1 .. N
      PROVE  Cardinality(Onward(A, p)) = Rank(B, (N + 1) - p)
  <2> DEFINE C == UpTo(B, (N + 1) - p)
             D == Onward(A, p)
  <2>1. ASSUME NEW x \in Int
        PROVE  x \in C <=> (N + 1) - x \in D
    <3>1. x \in C <=> x \in B /\ x <= (N + 1) - p
      BY DEF UpTo
    <3>2. (N + 1) - x \in D <=> (N + 1) - x \in A /\ (N + 1) - x >= p
      BY DEF Onward
    <3>3. x <= (N + 1) - p <=> (N + 1) - x >= p
      OBVIOUS
    <3> QED BY <1>3, <3>1, <3>2, <3>3
  <2>2. C \in SUBSET Int /\ D \in SUBSET Int /\ IsFiniteSet(D)
    BY <1>2, <1>6 DEF UpTo, Onward
  <2> HIDE DEF C, D
  <2>3. Cardinality(C) = Cardinality(D)
    BY <1>2, <2>1, <2>2, MirrorSize
  <2> QED BY <2>3 DEF C, D, Rank
<1>8. ASSUME NEW p \in A
      PROVE  Cardinality(A) = (Rank(A, p) + Cardinality(Onward(A, p))) - 1
  <2>1. p \in Nat /\ \A q \in A : q \in Nat
    BY <1>0
  <2>2. \A q \in A : (q <= p \/ q >= p) /\ (q <= p /\ q >= p <=> q = p)
    BY <2>1
  <2>3. UpTo(A, p) \cup Onward(A, p) = A /\ UpTo(A, p) \cap Onward(A, p) = {p}
    BY <2>2 DEF UpTo, Onward
  <2>4. IsFiniteSet(UpTo(A, p))
    <3>1. UpTo(A, p) \subseteq A
      BY DEF UpTo
    <3> QED BY <1>1, <3>1, FS_Subset
  <2>5. Cardinality(A)
          = (Cardinality(UpTo(A, p)) + Cardinality(Onward(A, p))) - Cardinality({p})
    <3> DEFINE X == UpTo(A, p)
               Y == Onward(A, p)
    <3>1. IsFiniteSet(X) /\ IsFiniteSet(Y) /\ X \cup Y = A /\ X \cap Y = {p}
      BY <1>6, <2>3, <2>4
    <3> HIDE DEF X, Y
    <3>2. Cardinality(X \cup Y) = Cardinality(X) + Cardinality(Y) - Cardinality(X \cap Y)
      BY <3>1, FS_Union
    <3>3. Cardinality(A) = (Cardinality(X) + Cardinality(Y)) - Cardinality({p})
      <4>1. Cardinality(A) = Cardinality(X) + Cardinality(Y) - Cardinality({p})
        BY <3>1, <3>2
      <4>2. Cardinality(X) \in Nat /\ Cardinality(Y) \in Nat /\ Cardinality({p}) \in Nat
        BY <3>1, FS_CardinalityType, FS_Singleton
      <4> QED BY <4>1, <4>2
    <3> QED BY <3>3 DEF X, Y
  <2>6. Cardinality({p}) = 1
    BY FS_Singleton
  <2> QED BY <1>1, <1>6, <2>1, <2>5, <2>6 DEF Rank
<1> QED BY <1>4, <1>7, <1>8

\* Reverse turns a list round.
LEMMA ReverseAt ==
  ASSUME NEW V, NEW s \in Seq(V)
  PROVE  /\ Reverse(s) \in Seq(V) /\ Len(Reverse(s)) = Len(s)
         /\ \A i \in 1 .. Len(s) : Reverse(s)[i] = s[(Len(s) - i) + 1]
BY DEF Reverse

\* The |count| occurrences of v nearest the tail, and the other positions.
GoneBack(s, v, L) == {p \in Occurrences(s, v) : Cardinality(Onward(Occurrences(s, v), p)) <= L}
KeptBack(s, v, L) == 1 .. Len(s) \ GoneBack(s, v, L)

\* The loop over the reversed list, reversed again.
LEMMA RemBackCorrect ==
  ASSUME NEW V, NEW s \in Seq(V), NEW v, NEW L \in Int
  PROVE  LET r == RemLoop(Reverse(s), v, L)
             got == Reverse(r.items)
         IN  /\ r.removed = Cardinality(GoneBack(s, v, L)) /\ r.removed \in Nat
             /\ got \in Seq(V)
             /\ Len(got) = Cardinality(KeptBack(s, v, L))
             /\ \A p \in KeptBack(s, v, L) : got[Rank(KeptBack(s, v, L), p)] = s[p]
<1> DEFINE N == Len(s)
           t == Reverse(s)
           r == RemLoop(t, v, L)
           got == Reverse(r.items)
           O == Occurrences(s, v)
           G == GoneBack(s, v, L)
           K == KeptBack(s, v, L)
           P == Occurrences(t, v)
           H == Gone(t, v, L)
           M == Kept(t, v, L)
<1>1. /\ t \in Seq(V) /\ Len(t) = N /\ N \in Nat
      /\ \A i \in 1 .. N : (N + 1) - i \in 1 .. N /\ t[i] = s[(N + 1) - i]
  <2>1. \A i \in 1 .. N : (N - i) + 1 = (N + 1) - i /\ (N + 1) - i \in 1 .. N
    OBVIOUS
  <2> QED BY <2>1, ReverseAt
<1> HIDE DEF t
<1>2. /\ O \in SUBSET (1 .. N) /\ G \in SUBSET (1 .. N) /\ K \in SUBSET (1 .. N)
      /\ P \in SUBSET (1 .. N) /\ H \in SUBSET (1 .. N) /\ M \in SUBSET (1 .. N)
  BY <1>1 DEF Occurrences, Gone, Kept, GoneBack, KeptBack
<1>3. \A x \in 1 .. N : x \in P <=> (N + 1) - x \in O
  BY <1>1 DEF Occurrences
<1>4. \A p \in 1 .. N : Cardinality(Onward(O, p)) = Rank(P, (N + 1) - p)
  <2>1. Mirrors(O, P, N) /\ N \in Nat
    BY <1>1, <1>2, <1>3 DEF Mirrors
  <2> HIDE DEF O, P
  <2> QED BY <2>1, MirrorRank
<1>5. \A x \in 1 .. N : x \in H <=> (N + 1) - x \in G
  <2> TAKE x \in 1 .. N
  <2>1. (N + 1) - x \in 1 .. N /\ (N + 1) - ((N + 1) - x) = x
    BY <1>1
  <2>2. Cardinality(Onward(O, (N + 1) - x)) = Rank(P, x)
    BY <1>4, <2>1
  <2>3. x \in H <=> x \in P /\ Rank(P, x) <= L
    BY DEF Gone
  <2>4. (N + 1) - x \in G <=> (N + 1) - x \in O /\ Cardinality(Onward(O, (N + 1) - x)) <= L
    BY DEF GoneBack
  <2> QED BY <1>3, <2>2, <2>3, <2>4
<1>6. \A x \in 1 .. N : x \in M <=> (N + 1) - x \in K
  BY <1>1, <1>5 DEF Kept, KeptBack
<1>7. /\ r \in [items : Seq(V), removed : Nat]
      /\ r.removed = Cardinality(H)
      /\ Len(r.items) = Cardinality(M)
      /\ \A p \in M : r.items[Rank(M, p)] = t[p]
  BY <1>1, RemLoopCorrect
<1> HIDE DEF r, O, G, K, P, H, M
<1>8. Cardinality(H) = Cardinality(G)
  <2>1. Mirrors(G, H, N) /\ N \in Nat
    BY <1>1, <1>2, <1>5 DEF Mirrors
  <2> QED BY <2>1, MirrorRank
<1>9. /\ Cardinality(M) = Cardinality(K)
      /\ \A p \in 1 .. N : Cardinality(Onward(K, p)) = Rank(M, (N + 1) - p)
      /\ \A p \in K : Cardinality(K) = (Rank(K, p) + Cardinality(Onward(K, p))) - 1
  <2>1. Mirrors(K, M, N) /\ N \in Nat
    BY <1>1, <1>2, <1>6 DEF Mirrors
  <2> QED BY <2>1, MirrorRank
<1>10. /\ got \in Seq(V) /\ Len(got) = Cardinality(K) /\ Cardinality(K) \in Nat
       /\ \A i \in 1 .. Len(got) : got[i] = r.items[(Len(got) - i) + 1]
  <2>1. r.items \in Seq(V)
    BY <1>7
  <2> QED BY <1>7, <1>9, <2>1, ReverseAt
<1> HIDE DEF got
<1>11. ASSUME NEW p \in K
       PROVE  got[Rank(K, p)] = s[p]
  <2> DEFINE x == (N + 1) - p
  <2>1. p \in 1 .. N /\ x \in 1 .. N /\ (N + 1) - x = p
    BY <1>1, <1>2
  <2>2. x \in M /\ t[x] = s[p]
    BY <1>1, <1>6, <2>1
  <2>3. Rank(K, p) \in Nat /\ Rank(K, p) >= 1 /\ Rank(K, p) <= Cardinality(K)
    <3>1. Rank(K, p) <= Rank(K, N) /\ Rank(K, N) = Cardinality(K) /\ Rank(K, p) \in Nat
      BY <1>1, <1>2, <2>1, RankSteps
    <3>2. Rank(K, p) >= 1
      BY <1>1, <1>2, RankSteps
    <3> QED BY <3>1, <3>2
  <2>4. Rank(M, x) \in Nat /\ Cardinality(K) = (Rank(K, p) + Rank(M, x)) - 1
    <3>1. Rank(M, x) \in Nat
      BY <1>1, <1>2, <2>1, RankSteps
    <3> QED BY <1>9, <2>1, <3>1
  <2> HIDE DEF x
  <2>5. Rank(K, p) \in 1 .. Len(got) /\ (Len(got) - Rank(K, p)) + 1 = Rank(M, x)
    BY <1>10, <2>3, <2>4
  <2> QED BY <1>7, <1>10, <2>2, <2>5
<1> QED BY <1>7, <1>8, <1>10, <1>11 DEF r, t, got, G, K

\* What LREM drops and keeps, from either end.
Dropped(s, count, v) ==
  IF count < 0 THEN GoneBack(s, v, RemLimit(s, count)) ELSE Gone(s, v, RemLimit(s, count))
Left(s, count, v) == 1 .. Len(s) \ Dropped(s, count, v)

\* LREM, from either end.
LEMMA LRemFacts ==
  ASSUME NEW V, NEW s \in Seq(V), NEW v, NEW count \in Ints
  PROVE  /\ LRem(s, count, v).items \in Seq(V)
         /\ LRem(s, count, v).removed = Cardinality(Dropped(s, count, v))
         /\ Len(LRem(s, count, v).items) = Cardinality(Left(s, count, v))
         /\ \A p \in Left(s, count, v) : LRem(s, count, v).items[Rank(Left(s, count, v), p)] = s[p]
<1> DEFINE L == RemLimit(s, count)
           b == RemLoop(Reverse(s), v, L)
           r == RemLoop(s, v, L)
           got == LRem(s, count, v)
<1>1. L \in Int /\ count \in Int
  <2>1. count \in Int
    BY HalfAssumption DEF Ints, MinInt
  <2>2. -count \in Int
    BY <2>1
  <2>3. Wrap(-count) \in Int
    BY <2>2, WrapFacts
  <2> QED BY <2>1, <2>3 DEF RemLimit
<1>2. count >= 0 => got = r
  BY DEF LRem
<1>3. count < 0 => got = [items |-> Reverse(b.items), removed |-> b.removed]
  BY <1>1 DEF LRem
<1> HIDE DEF L, got
<1>4. CASE count < 0
  <2>1. got.items = Reverse(b.items) /\ got.removed = b.removed
    BY <1>3, <1>4
  <2>2. /\ got.items \in Seq(V)
        /\ got.removed = Cardinality(GoneBack(s, v, L))
        /\ Len(got.items) = Cardinality(KeptBack(s, v, L))
        /\ \A p \in KeptBack(s, v, L) : got.items[Rank(KeptBack(s, v, L), p)] = s[p]
    BY <1>1, <2>1, RemBackCorrect
  <2>3. Dropped(s, count, v) = GoneBack(s, v, L) /\ Left(s, count, v) = KeptBack(s, v, L)
    BY <1>4 DEF Dropped, Left, KeptBack, L
  <2> QED BY <2>2, <2>3 DEF got
<1>5. CASE count >= 0
  <2>1. /\ r \in [items : Seq(V), removed : Nat]
        /\ r.removed = Cardinality(Gone(s, v, L))
        /\ Len(r.items) = Cardinality(Kept(s, v, L))
        /\ \A p \in Kept(s, v, L) : r.items[Rank(Kept(s, v, L), p)] = s[p]
    BY <1>1, RemLoopCorrect
  <2>2. got = r /\ ~(count < 0)
    BY <1>1, <1>2, <1>5
  <2> HIDE DEF r
  <2>3. /\ got.items \in Seq(V)
        /\ got.removed = Cardinality(Gone(s, v, L))
        /\ Len(got.items) = Cardinality(Kept(s, v, L))
        /\ \A p \in Kept(s, v, L) : got.items[Rank(Kept(s, v, L), p)] = s[p]
    BY <2>1, <2>2
  <2>4. Dropped(s, count, v) = Gone(s, v, L) /\ Left(s, count, v) = Kept(s, v, L)
    BY <2>2 DEF Dropped, Left, Kept, L
  <2> QED BY <2>3, <2>4 DEF got
<1>6. count < 0 \/ count >= 0
  BY <1>1
<1> QED BY <1>4, <1>5, <1>6

\* LREM drops what LRemCorrect says.
LEMMA RemovalAt == items \in Seq(Values) => LRemCorrect
<1> SUFFICES ASSUME items \in Seq(Values), NEW count \in Ints, NEW v \in Values
             PROVE  LET N      == Len(items)
                        occ    == {p \in 1 .. N : items[p] = v}
                        rank(p) == IF count < 0 THEN Cardinality({q \in occ : q >= p})
                                                ELSE Cardinality({q \in occ : q <= p})
                        limit  == IF count < 0 THEN -count ELSE count
                        gone   == {p \in occ : count # MinInt /\ (count = 0 \/ rank(p) <= limit)}
                        kept   == 1 .. N \ gone
                        got    == LRem(items, count, v)
                    IN  /\ got.removed = Cardinality(gone)
                        /\ Len(got.items) = Cardinality(kept)
                        /\ \A p \in kept : got.items[Cardinality({q \in kept : q <= p})] = items[p]
  BY DEF LRemCorrect
<1> DEFINE N == Len(items)
           occ == {p \in 1 .. N : items[p] = v}
           rank(p) == IF count < 0 THEN Cardinality({q \in occ : q >= p})
                                   ELSE Cardinality({q \in occ : q <= p})
           limit == IF count < 0 THEN -count ELSE count
           gone == {p \in occ : count # MinInt /\ (count = 0 \/ rank(p) <= limit)}
           kept == 1 .. N \ gone
           got == LRem(items, count, v)
           L == RemLimit(items, count)
           lost == Dropped(items, count, v)
           rest == Left(items, count, v)
<1>1. count \in Int /\ MinInt \in Int /\ MinInt < 0
  BY HalfAssumption DEF Ints, MinInt
<1>2. /\ got.removed = Cardinality(lost)
      /\ Len(got.items) = Cardinality(rest)
      /\ \A p \in rest : got.items[Rank(rest, p)] = items[p]
  BY LRemFacts
<1>3. gone = lost
  <2>1. occ = Occurrences(items, v) /\ occ \in SUBSET (1 .. N) /\ N \in Nat
    BY DEF Occurrences
  <2>2. \A p : Rank(occ, p) = Cardinality({q \in occ : q <= p})
    BY DEF Rank, UpTo
  <2>3. \A p : Cardinality(Onward(occ, p)) = Cardinality({q \in occ : q >= p})
    BY DEF Onward
  <2> HIDE DEF occ
  <2>4. CASE count < 0
    <3>1. L = Wrap(-count) /\ limit = -count /\ ~(count = 0)
      BY <1>1, <2>4 DEF RemLimit
    <3>2. CASE count # MinInt
      <4>1. L = -count
        BY <3>1, <3>2, WrapMinus
      <4> QED BY <2>1, <2>3, <2>4, <3>1, <3>2, <4>1 DEF GoneBack, Dropped
    <3>3. CASE count = MinInt
      <4>1. L = MinInt
        BY <3>1, <3>3, WrapMinus
      <4>2. \A p \in occ : Cardinality(Onward(occ, p)) \in Nat
        <5>1. IsFiniteSet(occ) /\ \A p : Onward(occ, p) \subseteq occ
          BY <2>1, RankSteps DEF Onward
        <5> QED BY <5>1, FS_Subset, FS_CardinalityType
      <4>3. \A p \in occ : ~(Cardinality(Onward(occ, p)) <= L)
        BY <1>1, <4>1, <4>2
      <4> QED BY <2>1, <2>4, <3>3, <4>3 DEF GoneBack, Dropped
    <3> QED BY <3>2, <3>3
  <2>5. CASE count > 0
    <3>1. L = count /\ limit = count /\ ~(count = 0) /\ ~(count < 0) /\ count # MinInt
      BY <1>1, <2>5 DEF RemLimit
    <3> QED BY <2>1, <2>2, <3>1 DEF Gone, Dropped
  <2>6. CASE count = 0
    <3>1. L = N /\ ~(count < 0)
      BY <1>1, <2>6 DEF RemLimit
    <3>2. Cardinality(occ) <= N
      <4>1. IsFiniteSet(1 .. N) /\ Cardinality(1 .. N) = N
        BY <2>1, FS_Interval
      <4> QED BY <2>1, <4>1, FS_Subset
    <3>3. ASSUME NEW p \in occ
          PROVE  Rank(occ, p) <= L
      <4>1. p \in Nat /\ p <= N
        BY <2>1
      <4>2. /\ Rank(occ, p) <= Rank(occ, N) /\ Rank(occ, N) = Cardinality(occ)
            /\ Rank(occ, p) \in Nat /\ Rank(occ, N) \in Nat
        BY <2>1, <4>1, RankSteps
      <4> QED BY <2>1, <3>1, <3>2, <4>2
    <3>4. gone = occ
      BY <1>1, <2>6
    <3>5. lost = occ
      BY <2>1, <3>1, <3>3 DEF Gone, Dropped
    <3> QED BY <3>4, <3>5
  <2>7. count < 0 \/ count > 0 \/ count = 0
    BY <1>1
  <2> HIDE DEF gone, lost
  <2> QED BY <2>4, <2>5, <2>6, <2>7
<1>r. kept = rest
  BY <1>3 DEF Left
<1> HIDE DEF gone, lost, got, L, kept, rest
<1>4. /\ got.removed = Cardinality(gone)
      /\ Len(got.items) = Cardinality(kept)
      /\ \A p \in kept : got.items[Rank(kept, p)] = items[p]
  BY <1>2, <1>3, <1>r
<1>5. \A p \in kept : got.items[Cardinality({q \in kept : q <= p})] = items[p]
  BY <1>4 DEF Rank, UpTo
<1> QED BY <1>4, <1>5 DEF gone, got, kept

-----------------------------------------------------------------------------
(* A List through its methods.                                             *)

\* The methods keep a list of values.
LEMMA MethodsKeepType ==
  ASSUME items \in Seq(Values), Next
  PROVE  items' \in Seq(Values)
<1>1. CASE Pushing
  <2>1. PICK values \in {<<x>> : x \in Values} \cup (Values \X Values) :
          items' \in {LPush(items, values), RPush(items, values)}
    BY <1>1 DEF Pushing
  <2>2. values \in Seq(Values)
    <3>1. CASE values \in {<<x>> : x \in Values}
      <4>1. PICK x \in Values : values = <<x>>
        BY <3>1
      <4>2. <<x>> \in Seq(Values)
        OBVIOUS
      <4> QED BY <4>1, <4>2
    <3>2. CASE values \in Values \X Values
      <4>1. PICK x \in Values, y \in Values : values = <<x, y>>
        BY <3>2
      <4>2. <<x, y>> \in Seq(Values)
        OBVIOUS
      <4> QED BY <4>1, <4>2
    <3> QED BY <3>1, <3>2
  <2>3. Reverse(values) \in Seq(Values)
    BY <2>2, ReverseAt
  <2>4. \A x, y \in Seq(Values) : x \o y \in Seq(Values)
    BY ConcatProperties
  <2>5. LPush(items, values) \in Seq(Values) /\ RPush(items, values) \in Seq(Values)
    BY <2>2, <2>3, <2>4 DEF LPush, RPush
  <2> QED BY <2>1, <2>5
<1>2. CASE Popping
  <2>1. items # << >> /\ items' \in {Tail(items), Front(items)}
    BY <1>2 DEF Popping, LPop, RPop
  <2>2. Tail(items) \in Seq(Values) /\ Front(items) \in Seq(Values)
    BY <2>1 DEF Front
  <2> QED BY <2>1, <2>2
<1>3. CASE Setting
  <2>1. PICK i \in Indices, v \in Values : items' = LSet(items, i, v)
    BY <1>3 DEF Setting
  <2>2. \A j \in 1 .. Len(items) : [items EXCEPT ![j] = v] \in Seq(Values)
    BY ExceptSeq
  <2>3. InRange(items, i) => Absolute(i, Len(items)) + 1 \in 1 .. Len(items)
    BY DEF InRange
  <2> QED BY <2>1, <2>2, <2>3 DEF LSet
<1>4. CASE Removing
  <2>1. PICK i \in Ints, v \in Values : items' = LRem(items, i, v).items
    BY <1>4 DEF Removing
  <2>2. LRem(items, i, v).items \in Seq(Values)
    BY LRemFacts
  <2> QED BY <2>1, <2>2
<1> QED BY <1>1, <1>2, <1>3, <1>4 DEF Next

\* A List only ever holds values.
LEMMA ListTyped == ObjectsSpec => [](items \in Seq(Values))
<1>1. ObjectsInit => items \in Seq(Values)
  BY DEF ObjectsInit, Init
<1>2. items \in Seq(Values) /\ [ObjectsNext]_vars => (items \in Seq(Values))'
  <2> SUFFICES ASSUME items \in Seq(Values), [ObjectsNext]_vars
               PROVE  items' \in Seq(Values)
    OBVIOUS
  <2>1. CASE ListMethod
    BY <2>1, MethodsKeepType DEF ListMethod
  <2>2. CASE Measure \/ HSet \/ Increment \/ UNCHANGED vars
    BY <2>2 DEF Measure, HSet, Increment, vars
  <2> QED BY <2>1, <2>2 DEF ObjectsNext
<1> QED BY <1>1, <1>2, PTL DEF ObjectsSpec

\* LREM keeps the order of what it keeps and drops the |count| occurrences
\* nearest the head or the tail, all for 0 and none for the smallest int
\* (List.LRem), for any list and any int.
THEOREM RemovalIsExact == ObjectsSpec => []LRemCorrect
BY ListTyped, RemovalAt, PTL

\* LRANGE returns exactly the elements between the two positions (List.LRange).
THEOREM RangeIsExact == ObjectsSpec => []LRangeCorrect
BY ListTyped, RangeAt, PTL

\* LSET changes the element that LINDEX reads at the same index (List.LSet).
THEOREM SetIsReadBack == ObjectsSpec => []LSetReadByLIndex
BY ListTyped, ReadBackAt, PTL

\* Pops take off what a push put on (List.LPush, RPush, LPop, RPop).
THEOREM PushesAreUndone == ObjectsSpec => []PushedValuesComeOff
BY ListTyped, UndoneAt, PTL

-----------------------------------------------------------------------------
(* Integers in hash fields.                                                *)

\* A positive int has its digits, and they are its quotient's with one more.
LEMMA DigitsFacts ==
  ASSUME NEW m \in 0 .. Half - 1
  PROVE  /\ Digits[m] \in Seq(0 .. 9)
         /\ m = 0 => Digits[m] = << >>
         /\ m > 0 => /\ m \div 10 \in 0 .. m - 1 /\ m % 10 \in 0 .. 9
                     /\ m = (m \div 10) * 10 + (m % 10)
                     /\ Digits[m \div 10] \in Seq(0 .. 9)
                     /\ Digits[m] = Append(Digits[m \div 10], m % 10)
<1> DEFINE N == Half - 1
           D == 0 .. 9
           q(x) == x \div 10
           r(x) == x % 10
           next(f, x) == IF x = 0 THEN << >> ELSE Append(f[q(x)], r(x))
           body(f) == [x \in 0 .. N |-> next(f, x)]
           Good(f, M) == f \in [0 .. M -> Seq(D)] /\ \A x \in 0 .. M : f[x] = next(f, x)
           T == {M \in Nat : \E f : Good(f, M)}
<1>1. N \in Nat
  BY HalfAssumption
<1>2. \A x \in Nat : /\ r(x) \in D
                     /\ x > 0 => q(x) \in 0 .. x - 1 /\ x = q(x) * 10 + r(x)
  OBVIOUS
<1>3. Digits = CHOOSE f : f = body(f)
  BY DEF Digits
<1> HIDE DEF q, r, D
<1>4. 0 \in T
  <2> DEFINE f == [x \in 0 .. 0 |-> << >>]
  <2>1. f \in [0 .. 0 -> Seq(D)] /\ \A x \in 0 .. 0 : x = 0 /\ f[x] = << >>
    OBVIOUS
  <2>2. Good(f, 0)
    BY <2>1
  <2> QED BY <2>2
<1>5. ASSUME NEW M \in Nat, M \in T
      PROVE  M + 1 \in T
  <2>1. PICK f : Good(f, M)
    BY <1>5
  <2> DEFINE y == Append(f[q(M + 1)], r(M + 1))
             g == [x \in 0 .. M + 1 |-> IF x <= M THEN f[x] ELSE y]
  <2>2. q(M + 1) \in 0 .. M /\ r(M + 1) \in D
    <3>1. M + 1 \in Nat /\ M + 1 > 0 /\ (M + 1) - 1 = M
      OBVIOUS
    <3> QED BY <1>2, <3>1
  <2>3. f[q(M + 1)] \in Seq(D) /\ y \in Seq(D)
    BY <2>1, <2>2
  <2>4. g \in [0 .. M + 1 -> Seq(D)]
    <3> HIDE DEF y
    <3> QED BY <2>1, <2>3
  <2>5. \A x \in 0 .. M : g[x] = f[x]
    OBVIOUS
  <2>6. g[M + 1] = y
    OBVIOUS
  <2> HIDE DEF g
  <2>7. ASSUME NEW x \in 0 .. M + 1
        PROVE  g[x] = next(g, x)
    <3>1. CASE x = M + 1
      <4>1. M + 1 # 0
        OBVIOUS
      <4>2. g[q(M + 1)] = f[q(M + 1)]
        BY <2>2, <2>5
      <4> QED BY <2>6, <3>1, <4>1, <4>2, Zenon
    <3>2. CASE x \in 0 .. M
      <4>1. x # 0 => q(x) \in 0 .. M
        BY <1>2, <3>2
      <4>2. f[x] = next(f, x)
        BY <2>1, <3>2
      <4> QED BY <2>5, <3>2, <4>1, <4>2
    <3> QED BY <3>1, <3>2
  <2>8. Good(g, M + 1)
    BY <2>4, <2>7
  <2> HIDE DEF Good
  <2> QED BY <2>8
<1>6. \E f : Good(f, N)
  <2> HIDE DEF T, Good
  <2>1. N \in T
    BY <1>1, <1>4, <1>5, InductionSet
  <2> QED BY <2>1 DEF T
<1>7. PICK h : Good(h, N)
  BY <1>6
<1>8. h = body(h)
  BY <1>7
<1>9. Digits = body(Digits)
  <2> HIDE DEF body
  <2> QED BY <1>3, <1>8
<1>10. \A x \in 0 .. N : Digits[x] = next(Digits, x)
  BY <1>9
<1> HIDE DEF body, next, Good, T
<1> DEFINE U == {x \in Nat : \A z \in 0 .. x : z <= N => Digits[z] \in Seq(D)}
<1>11. 0 \in U
  <2>1. Digits[0] = << >>
    BY <1>1, <1>10 DEF next
  <2>2. << >> \in Seq(D) /\ \A z \in 0 .. 0 : z = 0
    OBVIOUS
  <2> QED BY <2>1, <2>2
<1>12. ASSUME NEW x \in Nat, x \in U
       PROVE  x + 1 \in U
  <2> SUFFICES ASSUME x + 1 <= N
               PROVE  Digits[x + 1] \in Seq(D)
    BY <1>12
  <2>1. x + 1 \in 0 .. N /\ x + 1 \in Nat /\ x + 1 > 0 /\ (x + 1) - 1 = x
    BY <1>1
  <2>2. q(x + 1) \in 0 .. x /\ r(x + 1) \in D /\ q(x + 1) <= N
    BY <1>1, <1>2, <2>1
  <2>3. Digits[q(x + 1)] \in Seq(D)
    BY <1>12, <2>2
  <2>4. Digits[x + 1] = Append(Digits[q(x + 1)], r(x + 1))
    <3>1. x + 1 # 0
      OBVIOUS
    <3> QED BY <1>10, <2>1, <3>1, Zenon DEF next
  <2> QED BY <2>2, <2>3, <2>4
<1> HIDE DEF U
<1>13. \A x \in Nat : x \in U
  BY <1>11, <1>12, InductionSet
<1>14. \A z \in 0 .. N : Digits[z] \in Seq(D)
  BY <1>1, <1>13 DEF U
<1>15. m \in 0 .. N /\ m \in Nat
  BY <1>1
<1>16. m > 0 => q(m) \in 0 .. m - 1 /\ q(m) \in 0 .. N /\ r(m) \in D /\ m = q(m) * 10 + r(m)
  BY <1>1, <1>2, <1>15
<1>17. m > 0 => Digits[m] = Append(Digits[q(m)], r(m))
  <2>1. m > 0 => m # 0
    OBVIOUS
  <2> QED BY <1>10, <1>15, <2>1, Zenon DEF next
<1>18. m = 0 => Digits[m] = << >>
  BY <1>10, <1>15 DEF next
<1> QED BY <1>14, <1>15, <1>16, <1>17, <1>18 DEF q, r, D

\* f[i] is the result of parseInt's loop after i digits.
IsParse(f, d) ==
  /\ f[0] = 0
  /\ \A i \in 1 .. Len(d) : f[i] = Wrap(f[i - 1] * 10 + d[i])
  /\ Accumulate(d) = f[Len(d)]

\* There are such results, and they are integers.
LEMMA ParseRuns ==
  ASSUME NEW d \in Seq(Int)
  PROVE  \E f \in [0 .. Len(d) -> Int] : IsParse(f, d)
<1> DEFINE N == Len(d)
           one(x, i) == Wrap(x * 10 + d[i])
           step == [p \in Int \X (1 .. N) |-> one(p[1], p[2])]
           body(f) == [i \in 0 .. N |-> IF i = 0 THEN 0 ELSE one(f[i - 1], i)]
           after == CHOOSE f : f = body(f)
<1>1. N \in Nat
  OBVIOUS
<1>2. \A x \in Int, i \in 1 .. N : one(x, i) \in Int
  <2> TAKE x \in Int, i \in 1 .. N
  <2>1. x * 10 + d[i] \in Int
    OBVIOUS
  <2> QED BY <2>1, WrapFacts
<1>3. Accumulate(d) = after[N]
  BY DEF Accumulate
<1> HIDE DEF one
<1>4. step \in [Int \X (1 .. N) -> Int]
  BY <1>2
<1>5. \A x \in Int, i \in 1 .. N : step[<<x, i>>] = one(x, i)
  OBVIOUS
<1> HIDE DEF step, N
<1>6. PICK g \in [0 .. N -> Int] : IsRecursion(g, 0, step, N)
  <2> DEFINE S == Int
             b == 0
  <2>1. b \in S /\ step \in [S \X (1 .. N) -> S]
    BY <1>4
  <2> HIDE DEF S, b
  <2>2. \E g \in [0 .. N -> S] : IsRecursion(g, b, step, N)
    BY <1>1, <2>1, RecursionExists
  <2> QED BY <2>2 DEF S, b
<1>7. g = body(g)
  <2>1. ASSUME NEW i \in 0 .. N
        PROVE  g[i] = IF i = 0 THEN 0 ELSE one(g[i - 1], i)
    <3>1. CASE i = 0
      BY <1>6, <3>1 DEF IsRecursion
    <3>2. CASE i # 0
      <4>1. i \in 1 .. N /\ i - 1 \in 0 .. N
        BY <1>1, <3>2
      <4> QED BY <1>5, <1>6, <3>2, <4>1 DEF IsRecursion
    <3> QED BY <3>1, <3>2
  <2> QED BY <2>1
<1>8. after = body(after)
  <2> HIDE DEF body
  <2> QED BY <1>7
<1> HIDE DEF after
<1>9. after[0] = 0 /\ \A i \in 1 .. N : after[i] = one(after[i - 1], i)
  BY <1>1, <1>8
<1>10. after = [i \in 0 .. N |-> after[i]]
  BY <1>8
<1>11. \A i \in 0 .. N : after[i] \in Int
  <2> DEFINE T == {i \in Nat : i <= N => after[i] \in Int}
  <2>1. 0 \in T
    BY <1>9
  <2>2. ASSUME NEW i \in Nat, i \in T
        PROVE  i + 1 \in T
    <3> SUFFICES ASSUME i + 1 <= N PROVE after[i + 1] \in Int
      OBVIOUS
    <3>1. after[i] \in Int /\ i + 1 \in 1 .. N /\ (i + 1) - 1 = i
      BY <1>1, <2>2
    <3> QED BY <1>2, <1>9, <3>1
  <2> HIDE DEF T
  <2>3. \A i \in Nat : i \in T
    BY <2>1, <2>2, InductionSet
  <2> QED BY <1>1, <2>3 DEF T
<1>12. after \in [0 .. N -> Int]
  BY <1>10, <1>11
<1> QED BY <1>3, <1>9, <1>12 DEF N, one, IsParse

\* One more digit is one more iteration.
LEMMA ParseAppend ==
  ASSUME NEW d \in Seq(Int), NEW x \in Int
  PROVE  /\ Accumulate(d) \in Int
         /\ d = << >> => Accumulate(d) = 0
         /\ Accumulate(Append(d, x)) = Wrap(Accumulate(d) * 10 + x)
<1> DEFINE e == Append(d, x)
           N == Len(d)
<1>1. /\ e \in Seq(Int) /\ Len(e) = N + 1 /\ N \in Nat
      /\ e[N + 1] = x /\ \A i \in 1 .. N : e[i] = d[i]
  OBVIOUS
<1> HIDE DEF e
<1>2. PICK f \in [0 .. Len(d) -> Int] : IsParse(f, d)
  BY ParseRuns
<1>3. PICK g \in [0 .. Len(e) -> Int] : IsParse(g, e)
  BY <1>1, ParseRuns
<1>4. /\ f[0] = 0 /\ (\A i \in 1 .. N : f[i] = Wrap(f[i - 1] * 10 + d[i])) /\ Accumulate(d) = f[N]
  BY <1>2 DEF IsParse
<1>5. /\ g[0] = 0 /\ (\A i \in 1 .. N + 1 : g[i] = Wrap(g[i - 1] * 10 + e[i]))
      /\ Accumulate(e) = g[N + 1]
  BY <1>1, <1>3 DEF IsParse
<1>6. f[N] \in Int /\ (d = << >> => N = 0)
  BY <1>1, <1>2
<1> HIDE DEF N
<1> DEFINE T == {i \in Nat : i <= N => g[i] = f[i]}
<1>7. 0 \in T
  BY <1>4, <1>5
<1>8. ASSUME NEW i \in Nat, i \in T
      PROVE  i + 1 \in T
  <2> SUFFICES ASSUME i + 1 <= N PROVE g[i + 1] = f[i + 1]
    OBVIOUS
  <2>1. i + 1 \in 1 .. N /\ i + 1 \in 1 .. N + 1 /\ (i + 1) - 1 = i /\ g[i] = f[i]
    BY <1>1, <1>8
  <2>2. e[i + 1] = d[i + 1]
    BY <1>1, <2>1
  <2>3. g[i + 1] = Wrap(g[i] * 10 + e[i + 1]) /\ f[i + 1] = Wrap(f[i] * 10 + d[i + 1])
    BY <1>4, <1>5, <2>1
  <2> QED BY <2>1, <2>2, <2>3
<1> HIDE DEF T
<1>9. N \in T
  BY <1>1, <1>7, <1>8, InductionSet
<1>10. g[N] = f[N]
  BY <1>1, <1>9 DEF T
<1>11. g[N + 1] = Wrap(g[N] * 10 + x)
  <2>1. N + 1 \in 1 .. N + 1 /\ (N + 1) - 1 = N
    BY <1>1
  <2> QED BY <1>1, <1>5, <2>1
<1>12. Accumulate(e) = Wrap(Accumulate(d) * 10 + x)
  BY <1>4, <1>5, <1>10, <1>11
<1> QED BY <1>4, <1>6, <1>12 DEF e

\* parseInt of no digits, and of a zero.
LEMMA ParseShort ==
  /\ Accumulate(<< >>) = 0
  /\ Accumulate(<<0>>) = 0
<1> DEFINE d == << >>
           x == 0
<1>1. d \in Seq(Int) /\ x \in Int /\ d = << >> /\ x = 0 /\ <<0>> = Append(d, x)
  OBVIOUS
<1>2. 0 \in Ints /\ 0 \in Int
  BY HalfAssumption DEF Ints, MinInt
<1>3. Wrap(0) = 0
  BY <1>2, WrapFacts
<1> HIDE DEF d, x
<1>4. /\ d = << >> => Accumulate(d) = 0
      /\ Accumulate(Append(d, x)) = Wrap(Accumulate(d) * 10 + x)
  BY <1>1, ParseAppend
<1>5. Accumulate(d) = 0
  BY <1>1, <1>4
<1>6. Accumulate(d) * 10 + x = 0
  BY <1>1, <1>5
<1>7. Accumulate(Append(d, x)) = 0
  BY <1>3, <1>4, <1>6
<1> QED BY <1>1, <1>5, <1>7, Zenon

\* Digits are integers.
LEMMA DigitsAreInts == \A d \in Seq(0 .. 9) : d \in Seq(Int)
<1> TAKE d \in Seq(0 .. 9)
<1>1. Len(d) \in Nat /\ d \in [1 .. Len(d) -> 0 .. 9]
  OBVIOUS
<1>2. d \in [1 .. Len(d) -> Int]
  BY <1>1
<1> QED BY <1>1, <1>2

\* The digits of a positive int are read back.
LEMMA DigitsReadBack ==
  ASSUME NEW m \in 0 .. Half - 1
  PROVE  Accumulate(Digits[m]) = m
<1> DEFINE N == Half - 1
           T == {x \in Nat : \A z \in 0 .. x : z <= N => Accumulate(Digits[z]) = z}
<1>1. N \in Nat
  BY HalfAssumption
<1>2. Accumulate(Digits[0]) = 0
  <2>1. Digits[0] = << >>
    BY <1>1, DigitsFacts
  <2> QED BY <2>1, ParseShort
<1>3. 0 \in T
  <2>1. \A z \in 0 .. 0 : z = 0
    OBVIOUS
  <2> QED BY <1>2, <2>1
<1>4. ASSUME NEW x \in Nat, x \in T
      PROVE  x + 1 \in T
  <2> SUFFICES ASSUME x + 1 <= N
               PROVE  Accumulate(Digits[x + 1]) = x + 1
    BY <1>4
  <2> DEFINE y == x + 1
             q == y \div 10
             r == y % 10
  <2>1. y \in 0 .. Half - 1 /\ y > 0 /\ y \in Nat /\ y - 1 = x
    BY <1>1
  <2> HIDE DEF y
  <2>2. /\ q \in 0 .. y - 1 /\ r \in 0 .. 9 /\ y = q * 10 + r
        /\ Digits[q] \in Seq(0 .. 9) /\ Digits[y] = Append(Digits[q], r)
    BY <2>1, DigitsFacts
  <2> HIDE DEF q, r
  <2>3. q \in 0 .. x /\ q <= N /\ q \in Nat /\ r \in Int
    BY <1>1, <2>1, <2>2
  <2>4. Accumulate(Digits[q]) = q
    BY <1>4, <2>3
  <2>5. Digits[q] \in Seq(Int)
    BY <2>2, DigitsAreInts
  <2>6. Accumulate(Append(Digits[q], r)) = Wrap(Accumulate(Digits[q]) * 10 + r)
    BY <2>3, <2>5, ParseAppend
  <2>7. Accumulate(Digits[y]) = Wrap(y)
    BY <2>2, <2>4, <2>6
  <2>8. y \in Ints /\ y \in Int
    BY <2>1, HalfAssumption DEF Ints, MinInt
  <2>9. Accumulate(Digits[y]) = y
    BY <2>7, <2>8, WrapFacts
  <2> QED BY <2>9 DEF y
<1> HIDE DEF T
<1>5. N \in T
  BY <1>1, <1>3, <1>4, InductionSet
<1> QED BY <1>1, <1>5 DEF T

\* parseInt reads what intToString wrote, and the text of the smallest int is
\* no other's.
LEMMA TextReadBack ==
  /\ \A i \in Ints : i # MinInt => parseInt(intToString(i)) = i /\ intToString(i).digits # << >>
  /\ intToString(MinInt).digits = << >>
<1>1. Half \in Nat \ {0} /\ MinInt # 0 /\ MinInt < 0 /\ MinInt \in Ints /\ 0 \in Ints
  BY HalfAssumption DEF MinInt, Ints
<1>2. ASSUME NEW m \in 0 .. Half - 1, m > 0
      PROVE  Digits[m] # << >> /\ Digits[m] \in Seq(0 .. 9)
  <2> DEFINE q == m \div 10
             r == m % 10
  <2>1. /\ Digits[q] \in Seq(0 .. 9) /\ r \in 0 .. 9 /\ Digits[m] = Append(Digits[q], r)
        /\ Digits[m] \in Seq(0 .. 9)
    BY <1>2, DigitsFacts
  <2> HIDE DEF q, r
  <2> QED BY <2>1
<1>3. intToString(MinInt).digits = << >>
  <2>1. Wrap(-MinInt) = MinInt
    BY WrapMinus
  <2>2. intToString(MinInt) = Text("-", Digits[0])
    <3>1. MinInt # 0 /\ MinInt < 0 /\ ~(MinInt > 0)
      BY <1>1 DEF MinInt
    <3> QED BY <2>1, <3>1, Zenon DEF intToString
  <2>3. Digits[0] = << >>
    BY <1>1, DigitsFacts
  <2> QED BY <2>2, <2>3 DEF Text
<1>4. ASSUME NEW i \in Ints, i # MinInt
      PROVE  parseInt(intToString(i)) = i /\ intToString(i).digits # << >>
  <2>1. i \in Int
    BY <1>1 DEF Ints, MinInt
  <2>2. CASE i = 0
    <3>1. intToString(i) = Text("", <<0>>)
      BY <2>2 DEF intToString
    <3>2. Accumulate(<<0>>) = 0
      BY ParseShort
    <3>7. parseInt(Text("", <<0>>)) = Accumulate(<<0>>) /\ Text("", <<0>>).digits = <<0>>
      BY DEF parseInt, Text
    <3>8. <<0>> # << >>
      OBVIOUS
    <3> QED BY <2>2, <3>1, <3>2, <3>7, <3>8
  <2>3. CASE i > 0
    <3>1. i \in 0 .. Half - 1 /\ ~(i < 0) /\ i # 0
      BY <1>1, <2>1, <2>3 DEF Ints, MinInt
    <3>2. intToString(i) = Text("", Digits[i])
      BY <2>3, <3>1 DEF intToString
    <3>3. Accumulate(Digits[i]) = i /\ Digits[i] # << >>
      BY <1>2, <2>3, <3>1, DigitsReadBack
    <3>4. parseInt(Text("", Digits[i])) = Accumulate(Digits[i]) /\ Text("", Digits[i]).digits = Digits[i]
      BY DEF parseInt, Text
    <3> QED BY <3>2, <3>3, <3>4
  <2>4. CASE i < 0
    <3> DEFINE m == -i
    <3>1. m \in 0 .. Half - 1 /\ m > 0 /\ i # 0 /\ -m = i /\ m \in Int
      BY <1>1, <2>1, <2>4, <1>4 DEF Ints, MinInt
    <3>2. Wrap(-i) = m
      BY <1>4, WrapMinus
    <3> HIDE DEF m
    <3>3. intToString(i) = Text("-", Digits[m])
      BY <2>4, <3>1, <3>2 DEF intToString
    <3>4. Accumulate(Digits[m]) = m /\ Digits[m] # << >>
      BY <1>2, <3>1, DigitsReadBack
    <3>5. /\ parseInt(Text("-", Digits[m])) = Wrap(-Accumulate(Digits[m]))
          /\ Text("-", Digits[m]).digits = Digits[m]
      BY DEF parseInt, Text
    <3>6. Wrap(-m) = i
      BY <1>4, <3>1, WrapFacts
    <3> QED BY <3>3, <3>4, <3>5, <3>6
  <2> QED BY <2>1, <2>2, <2>3, <2>4
<1> QED BY <1>3, <1>4

\* Texts that parseInt accepts.
Signs == {"", "+", "-"}
Texts == [sign : Signs, digits : Seq(0 .. 9)]

\* A sign and digits are a text.
LEMMA TextIsTyped ==
  /\ "" \in Signs /\ "+" \in Signs /\ "-" \in Signs
  /\ \A w \in Signs : \A d \in Seq(0 .. 9) : Text(w, d) \in Texts
<1>1. "" \in Signs /\ "+" \in Signs /\ "-" \in Signs
  BY Zenon DEF Signs
<1>2. \A w \in Signs : \A d \in Seq(0 .. 9) : Text(w, d) \in Texts
  BY DEF Text, Texts
<1> QED BY <1>1, <1>2

FieldTyped == field = NotInt \/ field \in Texts

\* Any text is read as an int.
LEMMA TextsAreRead ==
  ASSUME NEW t \in Texts
  PROVE  parseInt(t) \in Int
<1> DEFINE d == t.digits
           a == Accumulate(d)
<1>1. d \in Seq(0 .. 9) /\ 0 \in Int
  BY DEF Texts
<1> HIDE DEF d
<1>2. d \in Seq(Int)
  BY <1>1, DigitsAreInts
<1>3. a \in Int
  BY <1>1, <1>2, ParseAppend
<1>4. parseInt(t) = IF t.sign = "-" THEN Wrap(-a) ELSE a
  BY DEF parseInt, d
<1> HIDE DEF a
<1>5. -a \in Int
  BY <1>3
<1>6. Wrap(-a) \in Int
  BY <1>5, WrapFacts
<1> QED BY <1>3, <1>4, <1>6

\* intToString writes a text.
LEMMA TextsAreWritten ==
  ASSUME NEW i \in Ints
  PROVE  intToString(i) \in Texts
<1> DEFINE m == IF i < 0 THEN Wrap(-i) ELSE i
           k == IF m > 0 THEN m ELSE 0
           w == IF i < 0 THEN "-" ELSE ""
<1>1. intToString(i) = IF i = 0 THEN Text("", <<0>>) ELSE Text(w, Digits[k])
  BY DEF intToString
<1>2. Half \in Nat \ {0} /\ i \in Int /\ -i \in Int
  BY HalfAssumption DEF Ints, MinInt
<1>3. m \in Ints
  BY <1>2, WrapFacts
<1>4. w \in Signs
  BY TextIsTyped, Zenon
<1> HIDE DEF m, w
<1>5. k \in 0 .. Half - 1
  BY <1>2, <1>3 DEF Ints, MinInt
<1> HIDE DEF k
<1>6. Digits[k] \in Seq(0 .. 9)
  BY <1>5, DigitsFacts
<1>7. Text(w, Digits[k]) \in Texts
  BY <1>4, <1>6, TextIsTyped
<1>8. <<0>> \in Seq(0 .. 9)
  OBVIOUS
<1>9. Text("", <<0>>) \in Texts
  BY <1>8, TextIsTyped
<1> QED BY <1>1, <1>7, <1>9

\* An increment of a text.
LEMMA IncrementStep ==
  ASSUME FieldTyped, Increment, field # NotInt
  PROVE  reply' \in Ints /\ field' = intToString(reply')
<1>1. PICK x \in Ints : LET done == HIncrBy(field, x) IN field' = done.field /\ reply' = done.reply
  BY DEF Increment
<1> DEFINE new == Wrap(parseInt(field) + x)
<1>2. HIncrBy(field, x) = [field |-> intToString(new), reply |-> new]
  BY DEF HIncrBy
<1>3. parseInt(field) \in Int /\ x \in Int
  BY TextsAreRead, HalfAssumption DEF FieldTyped, Ints, MinInt
<1>4. parseInt(field) + x \in Int
  BY <1>3
<1>5. new \in Ints
  BY <1>4, WrapFacts
<1> HIDE DEF new
<1> QED BY <1>1, <1>2, <1>5

\* The field is always a text, or no number.
LEMMA FieldIsTyped == ObjectsSpec => []FieldTyped
<1>1. ObjectsInit => FieldTyped
  <2>1. << >> \in Seq(0 .. 9)
    OBVIOUS
  <2>2. NoField \in Texts
    BY <2>1, TextIsTyped DEF NoField
  <2> QED BY <2>2 DEF ObjectsInit, FieldTyped
<1>2. FieldTyped /\ [ObjectsNext]_vars => FieldTyped'
  <2> SUFFICES ASSUME FieldTyped, [ObjectsNext]_vars
               PROVE  FieldTyped'
    OBVIOUS
  <2>1. CASE HSet
    <3>1. /\ <<0, 7>> \in Seq(0 .. 9) /\ <<5>> \in Seq(0 .. 9) /\ << >> \in Seq(0 .. 9)
          /\ <<9, 9, 9>> \in Seq(0 .. 9)
      OBVIOUS
    <3>2. /\ Text("", <<0, 7>>) \in Texts /\ Text("+", <<5>>) \in Texts
          /\ Text("-", << >>) \in Texts /\ Text("-", <<9, 9, 9>>) \in Texts
      BY <3>1, TextIsTyped, Zenon
    <3>3. Typed \subseteq Texts \cup {NotInt}
      BY <3>2 DEF Typed
    <3> QED BY <2>1, <3>3 DEF HSet, FieldTyped
  <2>2. CASE Increment
    <3>1. CASE field = NotInt
      BY <2>2, <3>1 DEF Increment, HIncrBy, FieldTyped
    <3>2. CASE field # NotInt
      <4>1. reply' \in Ints /\ field' = intToString(reply')
        BY <2>2, <3>2, IncrementStep
      <4>2. \A i \in Ints : intToString(i) \in Texts
        BY TextsAreWritten
      <4> QED BY <4>1, <4>2 DEF FieldTyped
    <3> QED BY <3>1, <3>2
  <2>3. CASE ListMethod \/ Measure \/ UNCHANGED vars
    BY <2>3 DEF ListMethod, Measure, vars, FieldTyped
  <2> QED BY <2>1, <2>2, <2>3 DEF ObjectsNext
<1> QED BY <1>1, <1>2, PTL DEF ObjectsSpec

\* After HINCRBY the field holds what was replied, in the only spelling that
\* intToString gives to it, for ints of any size and any sequence of HSET and
\* HINCRBY: true of every int but the smallest (parseInt and intToString,
\* datastruct.go:447-499).
THEOREM CounterKept == ObjectsSpec => CounterIsKept
<1>1. FieldTyped /\ [ObjectsNext]_vars =>
        [Increment /\ field # NotInt /\ reply' # MinInt =>
           /\ reply' \in Ints
           /\ parseInt(field') = reply'
           /\ \A i \in Ints : intToString(i) = field' => i = reply']_vars
  <2> SUFFICES ASSUME FieldTyped, Increment, field # NotInt, reply' # MinInt
               PROVE  /\ reply' \in Ints
                      /\ parseInt(field') = reply'
                      /\ \A i \in Ints : intToString(i) = field' => i = reply'
    OBVIOUS
  <2>1. reply' \in Ints /\ field' = intToString(reply')
    BY IncrementStep
  <2>2. parseInt(field') = reply' /\ field'.digits # << >>
    BY <2>1, TextReadBack
  <2>3. ASSUME NEW i \in Ints, intToString(i) = field'
        PROVE  i = reply'
    <3>1. i # MinInt
      BY <2>2, <2>3, TextReadBack
    <3> QED BY <2>2, <2>3, <3>1, TextReadBack
  <2> QED BY <2>1, <2>2, <2>3
<1> QED BY <1>1, FieldIsTyped, PTL DEF ObjectsSpec, CounterIsKept

-----------------------------------------------------------------------------
(* COMMAND's table.                                                        *)

\* The names of its rows.
Singles  == {"GET", "TYPE", "INCR", "DECR", "LPOP", "RPOP", "LLEN", "SMEMBERS", "SCARD", "SPOP",
             "HGETALL", "HKEYS", "HVALS", "HLEN", "TTL", "PTTL", "PERSIST"}
Pairs    == {"SET", "INCRBY", "DECRBY", "LINDEX", "SISMEMBER", "HGET", "HEXISTS",
             "EXPIRE", "PEXPIRE"}
Triples  == {"LRANGE", "LSET", "LREM", "HSET", "HINCRBY"}
Members  == {"LPUSH", "RPUSH", "SADD", "SREM", "HDEL", "HMGET"}
ManyKeys == {"DEL", "EXISTS", "MGET", "SINTER", "SUNION", "SDIFF"}
Blocking == {"BLPOP", "BRPOP"}

\* The row a name belongs to.
Kind(name) ==
  IF name \in Singles THEN 1 ELSE IF name \in Pairs THEN 2 ELSE IF name \in Triples THEN 3
  ELSE IF name \in Members THEN 4 ELSE IF name = "HMSET" THEN 5
  ELSE IF name \in ManyKeys THEN 6 ELSE IF name = "MSET" THEN 7
  ELSE IF name \in Blocking THEN 8 ELSE 9

\* No command is in two rows.
LEMMA RowsAreDisjoint ==
  ASSUME NEW name
  PROVE  /\ name \in Singles <=> Kind(name) = 1
         /\ name \in Pairs <=> Kind(name) = 2
         /\ name \in Triples <=> Kind(name) = 3
         /\ name \in Members <=> Kind(name) = 4
         /\ name = "HMSET" <=> Kind(name) = 5
         /\ name \in ManyKeys <=> Kind(name) = 6
         /\ name = "MSET" <=> Kind(name) = 7
         /\ name \in Blocking <=> Kind(name) = 8
<1>1. ASSUME name \in Singles PROVE Kind(name) = 1
  BY <1>1 DEF Kind
<1>2. ASSUME name \in Pairs PROVE Kind(name) = 2
  BY <1>2 DEF Kind, Singles, Pairs
<1>3. ASSUME name \in Triples PROVE Kind(name) = 3
  BY <1>3 DEF Kind, Singles, Pairs, Triples
<1>4. ASSUME name \in Members PROVE Kind(name) = 4
  BY <1>4 DEF Kind, Singles, Pairs, Triples, Members
<1>5. ASSUME name = "HMSET" PROVE Kind(name) = 5
  BY <1>5 DEF Kind, Singles, Pairs, Triples, Members
<1>6. ASSUME name \in ManyKeys PROVE Kind(name) = 6
  BY <1>6 DEF Kind, Singles, Pairs, Triples, Members, ManyKeys
<1>7. ASSUME name = "MSET" PROVE Kind(name) = 7
  BY <1>7 DEF Kind, Singles, Pairs, Triples, Members, ManyKeys
<1>8. ASSUME name \in Blocking PROVE Kind(name) = 8
  BY <1>8 DEF Kind, Singles, Pairs, Triples, Members, ManyKeys, Blocking
<1> QED BY <1>1, <1>2, <1>3, <1>4, <1>5, <1>6, <1>7, <1>8 DEF Kind

\* The table in these terms.
LEMMA Table ==
  commandSpecs =
    {Row(Singles, 2, 1, 1, 1), Row(Pairs, 3, 1, 1, 1), Row(Triples, 4, 1, 1, 1),
     Row(Members, -3, 1, 1, 1), Row({"HMSET"}, -4, 1, 1, 1), Row(ManyKeys, -2, 1, -1, 1),
     Row({"MSET"}, -3, 1, -1, 2), Row(Blocking, -3, 1, -2, 1)}
  BY DEF commandSpecs, Singles, Pairs, Triples, Members, ManyKeys, Blocking

\* The rows in the order of their kinds.
RowOf(kind) ==
  IF kind = 1 THEN Row(Singles, 2, 1, 1, 1)
  ELSE IF kind = 2 THEN Row(Pairs, 3, 1, 1, 1)
  ELSE IF kind = 3 THEN Row(Triples, 4, 1, 1, 1)
  ELSE IF kind = 4 THEN Row(Members, -3, 1, 1, 1)
  ELSE IF kind = 5 THEN Row({"HMSET"}, -4, 1, 1, 1)
  ELSE IF kind = 6 THEN Row(ManyKeys, -2, 1, -1, 1)
  ELSE IF kind = 7 THEN Row({"MSET"}, -3, 1, -1, 2)
  ELSE Row(Blocking, -3, 1, -2, 1)

\* The row that findCommandSpec finds is the only one with the name.
LEMMA RowFound ==
  ASSUME NEW name, NEW row \in commandSpecs, name \in row.names
  PROVE  findCommandSpec(name) = RowOf(Kind(name)) /\ row = RowOf(Kind(name))
<1>1. ASSUME NEW r \in commandSpecs, name \in r.names PROVE r = RowOf(Kind(name))
  <2>1. CASE r = Row(Singles, 2, 1, 1, 1)
    <3>1. Kind(name) = 1
      BY <1>1, <2>1, RowsAreDisjoint DEF Row
    <3> QED BY <2>1, <3>1 DEF RowOf
  <2>2. CASE r = Row(Pairs, 3, 1, 1, 1)
    <3>1. Kind(name) = 2
      BY <1>1, <2>2, RowsAreDisjoint DEF Row
    <3> QED BY <2>2, <3>1 DEF RowOf
  <2>3. CASE r = Row(Triples, 4, 1, 1, 1)
    <3>1. Kind(name) = 3
      BY <1>1, <2>3, RowsAreDisjoint DEF Row
    <3> QED BY <2>3, <3>1 DEF RowOf
  <2>4. CASE r = Row(Members, -3, 1, 1, 1)
    <3>1. Kind(name) = 4
      BY <1>1, <2>4, RowsAreDisjoint DEF Row
    <3> QED BY <2>4, <3>1 DEF RowOf
  <2>5. CASE r = Row({"HMSET"}, -4, 1, 1, 1)
    <3>1. Kind(name) = 5
      BY <1>1, <2>5, RowsAreDisjoint DEF Row
    <3> QED BY <2>5, <3>1 DEF RowOf
  <2>6. CASE r = Row(ManyKeys, -2, 1, -1, 1)
    <3>1. Kind(name) = 6
      BY <1>1, <2>6, RowsAreDisjoint DEF Row
    <3> QED BY <2>6, <3>1 DEF RowOf
  <2>7. CASE r = Row({"MSET"}, -3, 1, -1, 2)
    <3>1. Kind(name) = 7
      BY <1>1, <2>7, RowsAreDisjoint DEF Row
    <3> QED BY <2>7, <3>1 DEF RowOf
  <2>8. CASE r = Row(Blocking, -3, 1, -2, 1)
    <3>1. Kind(name) = 8
      BY <1>1, <2>8, RowsAreDisjoint DEF Row
    <3> QED BY <2>8, <3>1 DEF RowOf
  <2> QED BY <2>1, <2>2, <2>3, <2>4, <2>5, <2>6, <2>7, <2>8, Table
<1> QED BY <1>1 DEF findCommandSpec

\* What the handlers accept and take for keys, by kind.
LEMMA Handlers ==
  ASSUME NEW name, NEW m \in Nat
  PROVE  /\ name \in Singles => (handles(name, m) <=> m = 1) /\ keysUsed(name, m) = {1}
         /\ name \in Pairs => (handles(name, m) <=> m = 2) /\ keysUsed(name, m) = {1}
         /\ name \in Triples => (handles(name, m) <=> m = 3) /\ keysUsed(name, m) = {1}
         /\ name \in Members => (handles(name, m) <=> m >= 2) /\ keysUsed(name, m) = {1}
         /\ name = "HMSET" => (handles(name, m) <=> (m >= 3 /\ m % 2 = 1)) /\ keysUsed(name, m) = {1}
         /\ name \in ManyKeys => (handles(name, m) <=> m >= 1) /\ keysUsed(name, m) = 1 .. m
         /\ name = "MSET" => (handles(name, m) <=> (m >= 2 /\ m % 2 = 0)) /\ keysUsed(name, m) = {i \in 1 .. m : i % 2 = 1}
         /\ name \in Blocking => (handles(name, m) <=> m >= 2) /\ keysUsed(name, m) = 1 .. m - 1
<1>1. ASSUME name \in Singles PROVE (handles(name, m) <=> (m = 1)) /\ keysUsed(name, m) = {1}
  BY <1>1 DEF handles, stringHandles, expireHandles, listHandles, setHandles, hashHandles, keysUsed, Singles
<1>2. ASSUME name \in Pairs PROVE (handles(name, m) <=> (m = 2)) /\ keysUsed(name, m) = {1}
  BY <1>2 DEF handles, stringHandles, expireHandles, listHandles, setHandles, hashHandles, keysUsed, Pairs
<1>3. ASSUME name \in Triples PROVE (handles(name, m) <=> (m = 3)) /\ keysUsed(name, m) = {1}
  BY <1>3 DEF handles, stringHandles, expireHandles, listHandles, setHandles, hashHandles, keysUsed, Triples
<1>4. ASSUME name \in Members PROVE (handles(name, m) <=> (m >= 2)) /\ keysUsed(name, m) = {1}
  BY <1>4 DEF handles, stringHandles, expireHandles, listHandles, setHandles, hashHandles, keysUsed, Members
<1>5. ASSUME name = "HMSET" PROVE (handles(name, m) <=> (m >= 3 /\ m % 2 = 1)) /\ keysUsed(name, m) = {1}
  BY <1>5 DEF handles, stringHandles, expireHandles, listHandles, setHandles, hashHandles, keysUsed
<1>6. ASSUME name \in ManyKeys PROVE (handles(name, m) <=> (m >= 1)) /\ keysUsed(name, m) = 1 .. m
  BY <1>6 DEF handles, stringHandles, expireHandles, listHandles, setHandles, hashHandles, keysUsed, ManyKeys
<1>7. ASSUME name = "MSET" PROVE (handles(name, m) <=> (m >= 2 /\ m % 2 = 0)) /\ keysUsed(name, m) = {i \in 1 .. m : i % 2 = 1}
  BY <1>7 DEF handles, stringHandles, expireHandles, listHandles, setHandles, hashHandles, keysUsed
<1>8. ASSUME name \in Blocking PROVE (handles(name, m) <=> (m >= 2)) /\ keysUsed(name, m) = 1 .. m - 1
  BY <1>8 DEF handles, stringHandles, expireHandles, listHandles, setHandles, hashHandles, keysUsed, Blocking
<1> QED BY <1>1, <1>2, <1>3, <1>4, <1>5, <1>6, <1>7, <1>8

\* The table agrees with the handlers for any number of arguments.
LEMMA TableIsRight ==
  ASSUME NEW m \in Nat
  PROVE  TableAgrees(m)
<1> SUFFICES ASSUME NEW name \in KeyCommands, handles(name, m)
             PROVE  /\ AdmitsArgs(findCommandSpec(name), m)
                    /\ getKeys(name, m) = keysUsed(name, m)
  BY DEF TableAgrees
<1>1. PICK row \in commandSpecs : name \in row.names
  BY DEF KeyCommands
<1>2. findCommandSpec(name) = RowOf(Kind(name)) /\ row = RowOf(Kind(name))
  BY <1>1, RowFound
<1>3. Kind(name) \in 1 .. 8
  BY <1>1, Table, RowsAreDisjoint DEF Row
<1> DEFINE spec == findCommandSpec(name)
<1>4. getKeys(name, m) = {i \in spec.firstKey .. m :
                            i <= lastPosition(spec, m) /\ (i - spec.firstKey) % spec.step = 0}
  BY DEF getKeys
<1> HIDE DEF spec
<1>5. CASE Kind(name) = 1
  <2>1. spec.arity = 2 /\ spec.firstKey = 1 /\ spec.lastKey = 1 /\ spec.step = 1
    BY <1>2, <1>5 DEF RowOf, Row, spec
  <2>2. (m = 1) /\ keysUsed(name, m) = {1}
    BY <1>5, RowsAreDisjoint, Handlers
  <2>3. lastPosition(spec, m) = 1
    BY <2>1, <2>2 DEF lastPosition
  <2>4. AdmitsArgs(spec, m)
    BY <2>1, <2>2 DEF AdmitsArgs
  <2>5. \A i \in 1 .. m : (i - 1) % 1 = 0 <=> TRUE
    OBVIOUS
  <2>6. getKeys(name, m) = {1}
    BY <1>4, <2>1, <2>2, <2>3, <2>5
  <2> QED BY <2>2, <2>4, <2>6 DEF spec
<1>6. CASE Kind(name) = 2
  <2>1. spec.arity = 3 /\ spec.firstKey = 1 /\ spec.lastKey = 1 /\ spec.step = 1
    BY <1>2, <1>6 DEF RowOf, Row, spec
  <2>2. (m = 2) /\ keysUsed(name, m) = {1}
    BY <1>6, RowsAreDisjoint, Handlers
  <2>3. lastPosition(spec, m) = 1
    BY <2>1, <2>2 DEF lastPosition
  <2>4. AdmitsArgs(spec, m)
    BY <2>1, <2>2 DEF AdmitsArgs
  <2>5. \A i \in 1 .. m : (i - 1) % 1 = 0 <=> TRUE
    OBVIOUS
  <2>6. getKeys(name, m) = {1}
    BY <1>4, <2>1, <2>2, <2>3, <2>5
  <2> QED BY <2>2, <2>4, <2>6 DEF spec
<1>7. CASE Kind(name) = 3
  <2>1. spec.arity = 4 /\ spec.firstKey = 1 /\ spec.lastKey = 1 /\ spec.step = 1
    BY <1>2, <1>7 DEF RowOf, Row, spec
  <2>2. (m = 3) /\ keysUsed(name, m) = {1}
    BY <1>7, RowsAreDisjoint, Handlers
  <2>3. lastPosition(spec, m) = 1
    BY <2>1, <2>2 DEF lastPosition
  <2>4. AdmitsArgs(spec, m)
    BY <2>1, <2>2 DEF AdmitsArgs
  <2>5. \A i \in 1 .. m : (i - 1) % 1 = 0 <=> TRUE
    OBVIOUS
  <2>6. getKeys(name, m) = {1}
    BY <1>4, <2>1, <2>2, <2>3, <2>5
  <2> QED BY <2>2, <2>4, <2>6 DEF spec
<1>8. CASE Kind(name) = 4
  <2>1. spec.arity = -3 /\ spec.firstKey = 1 /\ spec.lastKey = 1 /\ spec.step = 1
    BY <1>2, <1>8 DEF RowOf, Row, spec
  <2>2. (m >= 2) /\ keysUsed(name, m) = {1}
    BY <1>8, RowsAreDisjoint, Handlers
  <2>3. lastPosition(spec, m) = 1
    BY <2>1, <2>2 DEF lastPosition
  <2>4. AdmitsArgs(spec, m)
    BY <2>1, <2>2 DEF AdmitsArgs
  <2>5. \A i \in 1 .. m : (i - 1) % 1 = 0 <=> TRUE
    OBVIOUS
  <2>6. getKeys(name, m) = {1}
    BY <1>4, <2>1, <2>2, <2>3, <2>5
  <2> QED BY <2>2, <2>4, <2>6 DEF spec
<1>9. CASE Kind(name) = 5
  <2>1. spec.arity = -4 /\ spec.firstKey = 1 /\ spec.lastKey = 1 /\ spec.step = 1
    BY <1>2, <1>9 DEF RowOf, Row, spec
  <2>2. (m >= 3 /\ m % 2 = 1) /\ keysUsed(name, m) = {1}
    BY <1>9, RowsAreDisjoint, Handlers
  <2>3. lastPosition(spec, m) = 1
    BY <2>1, <2>2 DEF lastPosition
  <2>4. AdmitsArgs(spec, m)
    BY <2>1, <2>2 DEF AdmitsArgs
  <2>5. \A i \in 1 .. m : (i - 1) % 1 = 0 <=> TRUE
    OBVIOUS
  <2>6. getKeys(name, m) = {1}
    BY <1>4, <2>1, <2>2, <2>3, <2>5
  <2> QED BY <2>2, <2>4, <2>6 DEF spec
<1>10. CASE Kind(name) = 6
  <2>1. spec.arity = -2 /\ spec.firstKey = 1 /\ spec.lastKey = -1 /\ spec.step = 1
    BY <1>2, <1>10 DEF RowOf, Row, spec
  <2>2. (m >= 1) /\ keysUsed(name, m) = 1 .. m
    BY <1>10, RowsAreDisjoint, Handlers
  <2>3. lastPosition(spec, m) = m
    BY <2>1, <2>2 DEF lastPosition
  <2>4. AdmitsArgs(spec, m)
    BY <2>1, <2>2 DEF AdmitsArgs
  <2>5. \A i \in 1 .. m : (i - 1) % 1 = 0 <=> TRUE
    OBVIOUS
  <2>6. getKeys(name, m) = 1 .. m
    BY <1>4, <2>1, <2>2, <2>3, <2>5
  <2> QED BY <2>2, <2>4, <2>6 DEF spec
<1>11. CASE Kind(name) = 7
  <2>1. spec.arity = -3 /\ spec.firstKey = 1 /\ spec.lastKey = -1 /\ spec.step = 2
    BY <1>2, <1>11 DEF RowOf, Row, spec
  <2>2. (m >= 2 /\ m % 2 = 0) /\ keysUsed(name, m) = {i \in 1 .. m : i % 2 = 1}
    BY <1>11, RowsAreDisjoint, Handlers
  <2>3. lastPosition(spec, m) = m
    BY <2>1, <2>2 DEF lastPosition
  <2>4. AdmitsArgs(spec, m)
    BY <2>1, <2>2 DEF AdmitsArgs
  <2>5. \A i \in 1 .. m : (i - 1) % 2 = 0 <=> i % 2 = 1
    OBVIOUS
  <2>6. getKeys(name, m) = {i \in 1 .. m : i % 2 = 1}
    BY <1>4, <2>1, <2>2, <2>3, <2>5
  <2> QED BY <2>2, <2>4, <2>6 DEF spec
<1>12. CASE Kind(name) = 8
  <2>1. spec.arity = -3 /\ spec.firstKey = 1 /\ spec.lastKey = -2 /\ spec.step = 1
    BY <1>2, <1>12 DEF RowOf, Row, spec
  <2>2. (m >= 2) /\ keysUsed(name, m) = 1 .. m - 1
    BY <1>12, RowsAreDisjoint, Handlers
  <2>3. lastPosition(spec, m) = IF m - 1 <= 1 THEN 1 ELSE m - 1
    BY <2>1, <2>2 DEF lastPosition
  <2>4. AdmitsArgs(spec, m)
    BY <2>1, <2>2 DEF AdmitsArgs
  <2>5. \A i \in 1 .. m : (i - 1) % 1 = 0 <=> TRUE
    OBVIOUS
  <2>6. getKeys(name, m) = 1 .. m - 1
    BY <1>4, <2>1, <2>2, <2>3, <2>5
  <2> QED BY <2>2, <2>4, <2>6 DEF spec
<1> QED BY <1>3, <1>5, <1>6, <1>7, <1>8, <1>9, <1>10, <1>11, <1>12

\* COMMAND GETKEYS names exactly the arguments a handler takes for keys, for every
\* command and any number of arguments (commandSpecs and the handlers,
\* admin_commands.go).
THEOREM KeysAreThoseUsed == ObjectsSpec => []GetKeysAgrees
<1>1. ObjectsInit => n \in Nat
  BY DEF ObjectsInit
<1>2. n \in Nat /\ [ObjectsNext]_vars => (n \in Nat)'
  BY DEF ObjectsNext, ListMethod, Measure, HSet, Increment, vars
<1>3. n \in Nat => GetKeysAgrees
  BY TableIsRight DEF GetKeysAgrees
<1> QED BY <1>1, <1>2, <1>3, PTL DEF ObjectsSpec

=============================================================================
