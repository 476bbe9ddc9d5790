--------------------------- MODULE AppleSMC_proofs ---------------------------
(***************************************************************************)
(* Proofs about AppleSMC for every key table, every byte the guest may     *)
(* write and every size of the registers.                                  *)
(***************************************************************************)
EXTENDS AppleSMC, WellFoundedInduction, TLAPS

-----------------------------------------------------------------------------
(***************************************************************************)
(* Numbers and their bytes.  Shifted and Prefixes are functions on         *)
(* 0..KeyLen; what holds of all their values follows from the least value  *)
(* for which it would not.                                                 *)
(***************************************************************************)
LEMMA LeastOf ==
    ASSUME NEW T, T \subseteq Nat, T # {}
    PROVE  \E m \in T : \A k \in T : ~(k < m)
<1>1. PICK m \in T : \A k \in T : ~(<<k, m>> \in OpToRel(<, Nat))
  BY NatLessThanWellFounded, WFMin, Zenon
<1>. QED  BY <1>1 DEF OpToRel

\* f starts at a and takes steps.
Follows(f, a, step, n) ==
    /\ f \in [0..n -> Nat]
    /\ f[0] = a
    /\ \A k \in 1..n : f[k] = step[k][f[k - 1]]

\* Recursion over 0..n: there is a function that starts at a and takes steps.
LEMMA Recursion ==
    ASSUME NEW a \in Nat, NEW step \in [Nat -> [Nat -> Nat]], NEW n \in Nat
    PROVE  \E f : Follows(f, a, step, n)
<1>. DEFINE Good(m) == \E f : Follows(f, a, step, m)
            T == {m \in Nat : ~Good(m)}
<1>1. SUFFICES ASSUME T # {} PROVE FALSE
  BY <1>1
<1>2. PICK m \in T : \A k \in T : ~(k < m)
  BY <1>1, LeastOf
<1>3. m \in Nat /\ ~Good(m)
  OBVIOUS
<1>4. CASE m = 0
  <2>. DEFINE f == [k \in 0..0 |-> a]
  <2>1. f \in [0..0 -> Nat] /\ f[0] = a
    OBVIOUS
  <2>2. 1..0 = {}
    OBVIOUS
  <2>3. Follows(f, a, step, 0)
    BY <2>1, <2>2 DEF Follows
  <2>. QED  BY <1>3, <1>4, <2>3
<1>5. CASE m > 0
  <2>1. m - 1 \in Nat /\ m - 1 < m /\ m \in Nat
    BY <1>3, <1>5
  <2>2. Good(m - 1)
    BY <1>2, <2>1
  <2>3. PICK g \in [0..m - 1 -> Nat] : g[0] = a /\ \A k \in 1..m - 1 : g[k] = step[k][g[k - 1]]
    BY <2>2 DEF Follows
  <2>. DEFINE top == step[m][g[m - 1]]
              f == [k \in 0..m |-> IF k = m THEN top ELSE g[k]]
  <2>4. top \in Nat
    <3>1. g[m - 1] \in Nat
      <4>1. m - 1 \in 0..m - 1
        BY <2>1
      <4>. QED  BY <4>1
    <3>2. step[m] \in [Nat -> Nat]
      BY <2>1
    <3>. QED  BY <3>1, <3>2
  <2>5. f \in [0..m -> Nat]
    <3>1. \A k \in 0..m : k # m => k \in 0..m - 1
      BY <2>1
    <3>. QED  BY <2>4, <3>1
  <2>6. f[0] = a /\ f[m] = top
    BY <2>1, <2>3, <1>5
  <2>7. \A k \in 0..m - 1 : f[k] = g[k]
    BY <2>1
  <2>8. ASSUME NEW k \in 1..m PROVE f[k] = step[k][f[k - 1]]
    <3>1. k - 1 \in 0..m - 1 /\ f[k - 1] = g[k - 1]
      <4>1. k - 1 \in 0..m - 1
        BY <2>1
      <4>. QED  BY <2>7, <4>1
    <3>2. CASE k = m
      BY <2>6, <3>1, <3>2
    <3>3. CASE k # m
      <4>1. k \in 1..m - 1 /\ k \in 0..m - 1
        BY <2>1, <3>3
      <4>. QED  BY <2>3, <2>7, <3>1, <4>1
    <3>. QED  BY <3>2, <3>3
  <2>9. Follows(f, a, step, m)
    <3>. HIDE DEF f
    <3>. QED  BY <2>5, <2>6, <2>8 DEF Follows
  <2>. QED  BY <1>3, <2>9
<1>. QED  BY <1>3, <1>4, <1>5

\* Division and remainder by ByteMod.
LEMMA DivMod ==
    ASSUME NEW x \in Nat
    PROVE  /\ x \div ByteMod \in Nat
           /\ x % ByteMod \in Byte
           /\ x = (x \div ByteMod) * ByteMod + (x % ByteMod)
BY SizesAssumption DEF Byte

LEMMA DivModUnique ==
    ASSUME NEW v \in Nat, NEW d \in Byte
    PROVE  /\ v * ByteMod + d \in Nat
           /\ (v * ByteMod + d) \div ByteMod = v
           /\ (v * ByteMod + d) % ByteMod = d
<1>. DEFINE x == v * ByteMod + d
            q == x \div ByteMod
            r == x % ByteMod
<1>1. ByteMod \in Nat \ {0} /\ d \in 0..ByteMod - 1
  BY SizesAssumption DEF Byte
<1>2. x \in Nat /\ x = v * ByteMod + d
  BY <1>1
<1>. HIDE DEF x
<1>3. q \in Nat /\ r \in 0..ByteMod - 1 /\ v * ByteMod + d = q * ByteMod + r
  <2>1. q \in Nat /\ r \in Byte /\ x = q * ByteMod + r
    <3>1. x \in Nat
      BY <1>2
    <3>. QED  BY <3>1, DivMod
  <2>. QED  BY <1>2, <2>1 DEF Byte
<1>. HIDE DEF q, r
<1>4. q = v
  <2>1. CASE q >= v + 1
    <3>1. q * ByteMod >= (v + 1) * ByteMod
      BY <1>1, <1>3, <2>1
    <3>2. (v + 1) * ByteMod = v * ByteMod + ByteMod
      BY <1>1
    <3>. QED  BY <1>1, <1>3, <3>1, <3>2
  <2>2. CASE v >= q + 1
    <3>1. v * ByteMod >= (q + 1) * ByteMod
      BY <1>1, <1>3, <2>2
    <3>2. (q + 1) * ByteMod = q * ByteMod + ByteMod
      BY <1>1, <1>3
    <3>. QED  BY <1>1, <1>3, <3>1, <3>2
  <2>. QED  BY <1>3, <2>1, <2>2
<1>5. r = d
  BY <1>1, <1>3, <1>4
<1>. QED  BY <1>2, <1>4, <1>5 DEF x, q, r

LEMMA DivMonotone ==
    ASSUME NEW x \in Nat, NEW y \in Nat, x <= y
    PROVE  x \div ByteMod <= y \div ByteMod
<1>. DEFINE q == x \div ByteMod
            p == y \div ByteMod
<1>1. ByteMod \in Nat \ {0}
  BY SizesAssumption
<1>2. q \in Nat /\ x % ByteMod \in Byte /\ x = q * ByteMod + (x % ByteMod)
  BY DivMod
<1>3. p \in Nat /\ y % ByteMod \in Byte /\ y = p * ByteMod + (y % ByteMod)
  BY DivMod
<1>. HIDE DEF q, p
<1>4. CASE q >= p + 1
  <2>1. q * ByteMod >= (p + 1) * ByteMod
    BY <1>1, <1>2, <1>3, <1>4
  <2>2. (p + 1) * ByteMod = p * ByteMod + ByteMod
    BY <1>1, <1>3
  <2>. QED  BY <1>1, <1>2, <1>3, <2>1, <2>2 DEF Byte
<1>5. CASE q <= p
  BY <1>5 DEF q, p
<1>. QED  BY <1>2, <1>3, <1>4, <1>5

\* What shifting yields, byte by byte.
LEMMA ShiftedResult ==
    ASSUME NEW n \in Nat
    PROVE  /\ Shifted(n) \in [0..KeyLen -> Nat]
           /\ Shifted(n)[0] = n
           /\ \A j \in 1..KeyLen : Shifted(n)[j] = Shifted(n)[j - 1] \div ByteMod
<1>. DEFINE step == [j \in Nat |-> [x \in Nat |-> x \div ByteMod]]
            Rest(f) == f = [j \in 0..KeyLen |-> IF j = 0 THEN n ELSE f[j - 1] \div ByteMod]
<1>1. KeyLen \in Nat
  BY SizesAssumption
<1>2. step \in [Nat -> [Nat -> Nat]]
  BY DivMod
<1>3. \A j \in Nat, x \in Nat : step[j][x] = x \div ByteMod
  OBVIOUS
<1>. HIDE DEF step
<1>4. PICK f \in [0..KeyLen -> Nat] : f[0] = n /\ \A j \in 1..KeyLen : f[j] = step[j][f[j - 1]]
  <2>1. \E f : Follows(f, n, step, KeyLen)
    BY <1>1, <1>2, Recursion
  <2>. QED  BY <2>1 DEF Follows
<1>5. \A j \in 1..KeyLen : f[j] = f[j - 1] \div ByteMod
  <2>1. \A j \in 1..KeyLen : j \in Nat /\ j - 1 \in 0..KeyLen
    BY <1>1
  <2>. QED  BY <1>3, <1>4, <2>1
<1>6. Rest(f)
  <2>1. \A j \in 0..KeyLen : j # 0 => j \in 1..KeyLen
    BY <1>1
  <2>. QED  BY <1>4, <1>5, <2>1
<1>7. Rest(Shifted(n))
  <2>. DEFINE g == CHOOSE g : Rest(g)
  <2>1. Rest(g)
    BY <1>6
  <2>2. Shifted(n) = g
    BY DEF Shifted
  <2>. QED  BY <2>1, <2>2
<1>. DEFINE s == Shifted(n)
            T == {j \in 0..KeyLen : s[j] \notin Nat}
<1>8. /\ \A j \in 0..KeyLen : s[j] = IF j = 0 THEN n ELSE s[j - 1] \div ByteMod
      /\ s = [j \in 0..KeyLen |-> s[j]]
  BY <1>7
<1>. HIDE DEF s
<1>9. T = {}
  <2>1. SUFFICES ASSUME T # {} PROVE FALSE
    BY <2>1
  <2>2. T \subseteq Nat
    BY <1>1
  <2>3. PICK j \in T : \A k \in T : ~(k < j)
    BY <2>1, <2>2, LeastOf
  <2>4. j \in 0..KeyLen /\ s[j] \notin Nat /\ j # 0
    BY <1>8, <1>1
  <2>5. j - 1 \in 0..KeyLen /\ j - 1 < j
    BY <1>1, <2>4
  <2>6. s[j - 1] \in Nat
    BY <2>3, <2>5
  <2>. QED  BY <1>8, <2>4, <2>6, DivMod
<1>10. s \in [0..KeyLen -> Nat] /\ s[0] = n
  <2>1. \A j \in 0..KeyLen : s[j] \in Nat
    BY <1>9
  <2>2. s \in [0..KeyLen -> Nat]
    BY <1>8, <2>1
  <2>. QED  BY <1>1, <1>8, <2>2
<1>11. \A j \in 1..KeyLen : s[j] = s[j - 1] \div ByteMod
  <2>1. \A j \in 1..KeyLen : j \in 0..KeyLen /\ j # 0
    BY <1>1
  <2>. QED  BY <1>8, <2>1
<1>. QED  BY <1>10, <1>11 DEF s

\* What reading yields, byte by byte.
LEMMA PrefixesResult ==
    ASSUME NEW b \in [1..KeyLen -> Byte]
    PROVE  /\ Prefixes(b) \in [0..KeyLen -> Nat]
           /\ Prefixes(b)[0] = 0
           /\ \A j \in 1..KeyLen : Prefixes(b)[j] = Prefixes(b)[j - 1] * ByteMod + b[j]
<1>. DEFINE step == [j \in Nat |-> [x \in Nat |->
                        IF j \in 1..KeyLen THEN x * ByteMod + b[j] ELSE x]]
            Value(f) == f = [j \in 0..KeyLen |-> IF j = 0 THEN 0 ELSE f[j - 1] * ByteMod + b[j]]
<1>1. KeyLen \in Nat /\ ByteMod \in Nat
  BY SizesAssumption
<1>2. \A j \in 1..KeyLen, x \in Nat : x * ByteMod + b[j] \in Nat
  BY DivModUnique
<1>3. step \in [Nat -> [Nat -> Nat]]
  BY <1>2
<1>4. \A j \in 1..KeyLen, x \in Nat : step[j][x] = x * ByteMod + b[j]
  BY <1>1
<1>. HIDE DEF step
<1>5. PICK f \in [0..KeyLen -> Nat] : f[0] = 0 /\ \A j \in 1..KeyLen : f[j] = step[j][f[j - 1]]
  <2>1. \E f : Follows(f, 0, step, KeyLen)
    BY <1>1, <1>3, Recursion
  <2>. QED  BY <2>1 DEF Follows
<1>6. \A j \in 1..KeyLen : f[j] = f[j - 1] * ByteMod + b[j]
  <2>1. \A j \in 1..KeyLen : j - 1 \in 0..KeyLen
    BY <1>1
  <2>. QED  BY <1>4, <1>5, <2>1
<1>7. Value(f)
  <2>1. \A j \in 0..KeyLen : j # 0 => j \in 1..KeyLen
    BY <1>1
  <2>. QED  BY <1>5, <1>6, <2>1
<1>8. Value(Prefixes(b))
  <2>. DEFINE g == CHOOSE g : Value(g)
  <2>1. Value(g)
    BY <1>7
  <2>2. Prefixes(b) = g
    BY DEF Prefixes
  <2>. QED  BY <2>1, <2>2
<1>. DEFINE v == Prefixes(b)
            T == {j \in 0..KeyLen : v[j] \notin Nat}
<1>9. /\ \A j \in 0..KeyLen : v[j] = IF j = 0 THEN 0 ELSE v[j - 1] * ByteMod + b[j]
      /\ v = [j \in 0..KeyLen |-> v[j]]
  BY <1>8
<1>. HIDE DEF v
<1>10. T = {}
  <2>1. SUFFICES ASSUME T # {} PROVE FALSE
    BY <2>1
  <2>2. T \subseteq Nat
    BY <1>1
  <2>3. PICK j \in T : \A k \in T : ~(k < j)
    BY <2>1, <2>2, LeastOf
  <2>4. j \in 0..KeyLen /\ v[j] \notin Nat
    OBVIOUS
  <2>5. j # 0
    <3>1. 0 \in 0..KeyLen
      BY <1>1
    <3>2. v[0] = 0
      BY <1>9, <3>1
    <3>. QED  BY <2>4, <3>2
  <2>6. j - 1 \in 0..KeyLen /\ j - 1 < j /\ j \in 1..KeyLen
    BY <1>1, <2>4, <2>5
  <2>7. v[j - 1] \in Nat
    BY <2>3, <2>6
  <2>. QED  BY <1>2, <1>9, <2>4, <2>5, <2>6, <2>7
<1>11. v \in [0..KeyLen -> Nat] /\ v[0] = 0
  <2>1. \A j \in 0..KeyLen : v[j] \in Nat
    BY <1>10
  <2>2. v \in [0..KeyLen -> Nat]
    BY <1>9, <2>1
  <2>. QED  BY <1>1, <1>9, <2>2
<1>12. \A j \in 1..KeyLen : v[j] = v[j - 1] * ByteMod + b[j]
  <2>1. \A j \in 1..KeyLen : j \in 0..KeyLen /\ j # 0
    BY <1>1
  <2>. QED  BY <1>9, <2>1
<1>. QED  BY <1>11, <1>12 DEF v

LEMMA BytesType == ASSUME NEW n \in Nat PROVE BytesOf(n) \in [1..KeyLen -> Byte]
<1>1. \A i \in 1..KeyLen : KeyLen - i \in 0..KeyLen
  BY SizesAssumption
<1>2. \A i \in 1..KeyLen : Shifted(n)[KeyLen - i] % ByteMod \in Byte
  BY <1>1, ShiftedResult, DivMod
<1>. QED  BY <1>2 DEF BytesOf

\* Reading what was stored returns the number, if it fitted.
LEMMA StoreThenRead ==
    ASSUME NEW n \in Nat, Shifted(n)[KeyLen] = 0
    PROVE  BigEndian(BytesOf(n)) = n
<1>. DEFINE s == Shifted(n)
            b == BytesOf(n)
            v == Prefixes(b)
            T == {j \in 0..KeyLen : v[j] # s[KeyLen - j]}
<1>1. KeyLen \in Nat
  BY SizesAssumption
<1>2. s \in [0..KeyLen -> Nat] /\ s[0] = n /\ \A j \in 1..KeyLen : s[j] = s[j - 1] \div ByteMod
  BY ShiftedResult
<1>3. \A i \in 1..KeyLen : b[i] = s[KeyLen - i] % ByteMod
  BY DEF BytesOf
<1>4. v[0] = 0 /\ \A j \in 1..KeyLen : v[j] = v[j - 1] * ByteMod + b[j]
  BY BytesType, PrefixesResult
<1>5. s[KeyLen] = 0
  OBVIOUS
<1>. HIDE DEF s, b, v
<1>6. T = {}
  <2>1. SUFFICES ASSUME T # {} PROVE FALSE
    BY <2>1
  <2>2. T \subseteq Nat
    BY <1>1
  <2>3. PICK j \in T : \A k \in T : ~(k < j)
    BY <2>1, <2>2, LeastOf
  <2>4. j \in 0..KeyLen /\ v[j] # s[KeyLen - j]
    OBVIOUS
  <2>5. j # 0
    BY <1>1, <1>4, <1>5, <2>4
  <2>6. j - 1 \in 0..KeyLen /\ j - 1 < j /\ j \in 1..KeyLen
    BY <1>1, <2>4, <2>5
  <2>7. v[j - 1] = s[KeyLen - (j - 1)]
    BY <2>3, <2>6
  <2>. DEFINE m == KeyLen - j
  <2>8. m \in 0..KeyLen /\ m + 1 \in 1..KeyLen /\ (m + 1) - 1 = m /\ KeyLen - (j - 1) = m + 1
    BY <1>1, <2>6
  <2>9. v[j - 1] = s[m] \div ByteMod /\ b[j] = s[m] % ByteMod
    <3>1. s[m + 1] = s[(m + 1) - 1] \div ByteMod
      BY <1>2, <2>8
    <3>. QED  BY <1>3, <2>6, <2>7, <2>8, <3>1
  <2>10. s[m] \in Nat /\ v[j] = v[j - 1] * ByteMod + b[j]
    BY <1>2, <1>4, <2>6, <2>8
  <2>. HIDE DEF m
  <2>11. s[m] = (s[m] \div ByteMod) * ByteMod + (s[m] % ByteMod)
    BY <2>10, DivMod
  <2>12. v[j] = s[m]
    <3>1. v[j] = (s[m] \div ByteMod) * ByteMod + (s[m] % ByteMod)
      BY <2>9, <2>10, Zenon
    <3>. QED  BY <2>11, <3>1
  <2>. QED  BY <2>4, <2>12 DEF m
<1>7. v[KeyLen] = s[KeyLen - KeyLen]
  BY <1>1, <1>6
<1>8. KeyLen - KeyLen = 0
  BY <1>1
<1>. QED  BY <1>2, <1>7, <1>8 DEF BigEndian, v, b

\* Storing what was read returns the bytes.
LEMMA ReadThenStore ==
    ASSUME NEW b \in [1..KeyLen -> Byte]
    PROVE  BigEndian(b) \in Nat /\ BytesOf(BigEndian(b)) = b
<1>. DEFINE v == Prefixes(b)
            n == BigEndian(b)
            s == Shifted(n)
            T == {j \in 0..KeyLen : s[j] # v[KeyLen - j]}
<1>1. KeyLen \in Nat
  BY SizesAssumption
<1>2. v \in [0..KeyLen -> Nat] /\ \A j \in 1..KeyLen : v[j] = v[j - 1] * ByteMod + b[j]
  BY PrefixesResult
<1>3. n = v[KeyLen] /\ n \in Nat
  BY <1>1, <1>2 DEF BigEndian
<1>. HIDE DEF n
<1>4. s[0] = n /\ \A j \in 1..KeyLen : s[j] = s[j - 1] \div ByteMod
  BY <1>3, ShiftedResult
<1>5. \A i \in 1..KeyLen : BytesOf(n)[i] = s[KeyLen - i] % ByteMod
  BY DEF BytesOf
<1>. HIDE DEF s, v
<1>6. \A i \in 1..KeyLen : v[i] \div ByteMod = v[i - 1] /\ v[i] % ByteMod = b[i]
  <2>1. \A i \in 1..KeyLen : i - 1 \in 0..KeyLen /\ b[i] \in Byte
    BY <1>1
  <2>2. \A i \in 1..KeyLen : v[i - 1] \in Nat
    BY <1>2, <2>1
  <2>. QED  BY <1>2, <2>1, <2>2, DivModUnique
<1>7. T = {}
  <2>1. SUFFICES ASSUME T # {} PROVE FALSE
    BY <2>1
  <2>2. T \subseteq Nat
    BY <1>1
  <2>3. PICK j \in T : \A k \in T : ~(k < j)
    BY <2>1, <2>2, LeastOf
  <2>4. j \in 0..KeyLen /\ s[j] # v[KeyLen - j]
    OBVIOUS
  <2>5. j # 0
    <3>1. KeyLen - 0 = KeyLen
      BY <1>1
    <3>. QED  BY <1>3, <1>4, <2>4, <3>1
  <2>6. j - 1 \in 0..KeyLen /\ j - 1 < j /\ j \in 1..KeyLen
    BY <1>1, <2>4, <2>5
  <2>7. s[j - 1] = v[KeyLen - (j - 1)]
    BY <2>3, <2>6
  <2>. DEFINE m == KeyLen - (j - 1)
  <2>8. m \in 1..KeyLen /\ m - 1 = KeyLen - j
    BY <1>1, <2>6
  <2>9. s[j] = v[m] \div ByteMod
    BY <1>4, <2>6, <2>7
  <2>. HIDE DEF m
  <2>. QED  BY <1>6, <2>4, <2>8, <2>9
<1>8. ASSUME NEW i \in 1..KeyLen PROVE BytesOf(n)[i] = b[i]
  <2>1. KeyLen - i \in 0..KeyLen /\ KeyLen - (KeyLen - i) = i
    BY <1>1
  <2>2. s[KeyLen - i] = v[i]
    BY <1>7, <2>1
  <2>. QED  BY <1>5, <1>6, <2>2
<1>9. BytesOf(n) \in [1..KeyLen -> Byte]
  BY <1>3, BytesType
<1>. HIDE DEF T
<1>10. BytesOf(n) = b
  <2>. DEFINE c == BytesOf(n)
  <2>1. c \in [1..KeyLen -> Byte] /\ \A i \in 1..KeyLen : c[i] = b[i]
    BY <1>8, <1>9
  <2>. HIDE DEF c
  <2>2. c = [i \in 1..KeyLen |-> c[i]] /\ b = [i \in 1..KeyLen |-> b[i]]
    BY <2>1
  <2>3. c = b
    BY <2>1, <2>2, Zenon
  <2>. QED  BY <2>3 DEF c
<1>. QED  BY <1>3, <1>10 DEF n

\* What is not larger than a number that fits, fits.
LEMMA SmallerFits ==
    ASSUME NEW n \in Nat, NEW m \in Nat, m <= n, Shifted(n)[KeyLen] = 0
    PROVE  Shifted(m)[KeyLen] = 0
<1>. DEFINE s == Shifted(n)
            t == Shifted(m)
            T == {j \in 0..KeyLen : ~(t[j] <= s[j])}
<1>1. KeyLen \in Nat
  BY SizesAssumption
<1>2. s \in [0..KeyLen -> Nat] /\ s[0] = n /\ \A j \in 1..KeyLen : s[j] = s[j - 1] \div ByteMod
  BY ShiftedResult
<1>3. t \in [0..KeyLen -> Nat] /\ t[0] = m /\ \A j \in 1..KeyLen : t[j] = t[j - 1] \div ByteMod
  BY ShiftedResult
<1>4. s[KeyLen] = 0
  OBVIOUS
<1>. HIDE DEF s, t
<1>5. T = {}
  <2>1. SUFFICES ASSUME T # {} PROVE FALSE
    BY <2>1
  <2>2. T \subseteq Nat
    BY <1>1
  <2>3. PICK j \in T : \A k \in T : ~(k < j)
    BY <2>1, <2>2, LeastOf
  <2>4. j \in 0..KeyLen /\ ~(t[j] <= s[j])
    OBVIOUS
  <2>5. j # 0
    BY <1>2, <1>3, <2>4
  <2>6. j - 1 \in 0..KeyLen /\ j - 1 < j /\ j \in 1..KeyLen
    BY <1>1, <2>4, <2>5
  <2>7. t[j - 1] <= s[j - 1] /\ t[j - 1] \in Nat /\ s[j - 1] \in Nat
    BY <1>2, <1>3, <2>3, <2>6
  <2>8. t[j - 1] \div ByteMod <= s[j - 1] \div ByteMod
    BY <2>7, DivMonotone
  <2>. QED  BY <1>2, <1>3, <2>4, <2>6, <2>8
<1>6. t[KeyLen] <= s[KeyLen] /\ t[KeyLen] \in Nat
  BY <1>1, <1>3, <1>5
<1>. QED  BY <1>4, <1>6 DEF t

-----------------------------------------------------------------------------
\* A non-empty set of positions has a first one, so a lookup that matches
\* returns an entry of the list.
LEMMA FirstMatch ==
    ASSUME NEW k, Known(k)
    PROVE  \E i \in Matches(k) : \A j \in Matches(k) : i <= j
<1>1. Matches(k) \subseteq Nat /\ Matches(k) # {}
  BY TableAssumption DEF Matches, Known
<1>2. PICK i \in Matches(k) : \A j \in Matches(k) : ~(j < i)
  BY <1>1, LeastOf
<1>. QED  BY <1>1, <1>2

\* What applesmc_find_key returns for a known key: an entry with that name,
\* whose value fits the buffer.
LEMMA FindKeyEntry ==
    ASSUME NEW k, Known(k)
    PROVE  /\ FindKey(k).value \in Seq(Byte)
           /\ Len(FindKey(k).value) \in 1..DataSize
           /\ FindKey(k).key = k
<1> DEFINE i == CHOOSE i \in Matches(k) : \A j \in Matches(k) : i <= j
<1>1. i \in Matches(k)
  BY FirstMatch
<1>2. FindKey(k) = DataDef[i] /\ i \in DOMAIN DataDef /\ DataDef[i].key = k
  BY <1>1 DEF FindKey, Matches
<1>3. DataDef[i] \in Entry
  BY <1>2, TableAssumption
<1>. QED  BY <1>2, <1>3 DEF Entry

\* Copying a byte string that fits leaves a buffer of bytes that starts with it.
LEMMA OverwriteType ==
    ASSUME NEW buf \in [1..DataSize -> Byte], NEW bytes \in Seq(Byte)
    PROVE  /\ Overwrite(buf, bytes) \in [1..DataSize -> Byte]
           /\ \A i \in 1..DataSize : i <= Len(bytes) => Overwrite(buf, bytes)[i] = bytes[i]
BY SizesAssumption DEF Overwrite

LEMMA TypeReplyType == ASSUME NEW k PROVE TypeReply(k) \in Seq(Byte)
<1> DEFINE len == IF Known(k) THEN Len(FindKey(k).value) ELSE 1
<1>1. len \in Byte /\ Attributes \in Byte
  BY SizesAssumption, FindKeyEntry DEF Byte, Attributes
<1>2. TypeName(len) \in Byte
  <2>1. 1 % ByteMod \in Byte /\ 2 % ByteMod \in Byte /\ 3 % ByteMod \in Byte /\ 0 \in Byte
    BY SizesAssumption DEF Byte
  <2>. QED  BY <2>1 DEF TypeName
<1>3. [i \in 1..KeyLen |-> TypeName(len)] \in Seq(Byte)
  BY <1>2, SizesAssumption
<1>4. <<len, Attributes>> \in Seq(Byte)
  BY <1>1
<1>. QED  BY <1>3, <1>4 DEF TypeReply

\* A key name is a string of KeyLen bytes.
LEMMA EntryKey ==
    ASSUME NEW k, NEW i \in PlacesAt(k)
    PROVE  DataDef[i].key \in Seq(Byte) /\ Len(DataDef[i].key) = KeyLen
<1>1. DataDef[i] \in Entry
  BY TableAssumption DEF PlacesAt
<1>2. DataDef[i].key \in [1..KeyLen -> Byte]
  BY <1>1 DEF Entry
<1>. QED  BY <1>2, SizesAssumption

\* The inductive invariant: the typing of the registers, and the three facts
\* about the shared cursors and the shared buffer.  The queries never move
\* data_pos, which is what lets GET_KEY_BY_INDEX clear data_len without it.
QueriesDoNotMoveCursor ==
    cmd \in {"GET_KEY_TYPE", "GET_KEY_BY_INDEX", NoCommand} => data_pos = 0

IInv ==
    /\ TypeOK
    /\ TransferCanAdvance
    /\ AnswerIsTheKeys
    /\ EnumerationMatchesCount
    /\ QueriesDoNotMoveCursor

LEMMA TypeStep == TypeOK /\ [Next]_vars => TypeOK'
<1> SUFFICES ASSUME TypeOK, [Next]_vars PROVE TypeOK'
  OBVIOUS
<1> USE SizesAssumption, InputsAssumption
<1>1. ASSUME NEW c \in Commands \cup {BadCommand}, CmdWrite(c) PROVE TypeOK'
  BY <1>1 DEF CmdWrite, AcceptCmd, InterruptCmd, UnexpectedCmd, TypeOK, Byte,
              Flags, ErrorCodes
<1>2. ASSUME NEW val \in GuestBytes, DataWrite(val) PROVE TypeOK'
  <2>0. val \in Byte
    OBVIOUS
  <2>1. ASSUME Advance PROVE read_pos' \in Byte
    BY <2>1 DEF Advance, Byte, TypeOK
  <2>2. CASE IgnoreByte(val)
    BY <2>2 DEF IgnoreByte, vars, TypeOK
  <2>3. CASE KeyByte(val)
    BY <2>0, <2>1, <2>3 DEF KeyByte, TypeOK, Flags
  <2>4. CASE StrayByte(val)
    BY <2>4 DEF StrayByte, TypeOK, Flags, CMD_DONE, ErrorCodes
  <2>5. CASE ReadLength(val)
    <3>1. data' \in [1..DataSize -> Byte] /\ data_len' \in Byte
      <4>1. CASE Known(key)
        <5>1. Overwrite(data, FindKey(key).value) \in [1..DataSize -> Byte]
          BY <4>1, FindKeyEntry, OverwriteType DEF TypeOK
        <5>2. Len(FindKey(key).value) \in Byte
          BY <4>1, FindKeyEntry DEF Byte
        <5>. QED  BY <2>5, <4>1, <5>1, <5>2 DEF ReadLength
      <4>2. CASE ~Known(key)
        <5>1. [i \in 1..ZeroLen |-> 0] \in Seq(Byte)
          BY DEF Byte
        <5>2. Overwrite(data, [i \in 1..ZeroLen |-> 0]) \in [1..DataSize -> Byte]
          BY <5>1, OverwriteType DEF TypeOK
        <5>. QED  BY <2>0, <2>5, <4>2, <5>2 DEF ReadLength
      <4>. QED  BY <4>1, <4>2
    <3>2. data_pos' \in Byte /\ status' \in SUBSET Flags /\ status_1e' \in ErrorCodes
      BY <2>5 DEF ReadLength, Flags, ErrorCodes, Byte
    <3>. QED  BY <2>1, <2>5, <3>1, <3>2 DEF ReadLength, TypeOK
  <2>6. CASE ReadExcess(val)
    BY <2>1, <2>6 DEF ReadExcess, TypeOK
  <2>7. CASE WriteLength(val)
    BY <2>0, <2>1, <2>7 DEF WriteLength, TypeOK, Flags, Byte
  <2>8. CASE WritePayload(val)
    <3>1. data_pos' \in Byte
      BY <2>8 DEF WritePayload, TypeOK, Byte
    <3>2. status' \in SUBSET Flags /\ status_1e' \in ErrorCodes
      BY <2>8 DEF WritePayload, TypeOK, Flags, ErrorCodes, CMD_DONE
    <3>. QED  BY <2>0, <2>1, <2>8, <3>1, <3>2 DEF WritePayload, TypeOK
  <2>9. CASE WriteExcess(val)
    BY <2>1, <2>9 DEF WriteExcess, TypeOK
  <2>10. CASE TypeAnswer(val)
    <3>1. data' \in [1..DataSize -> Byte]
      BY <2>10, TypeReplyType, OverwriteType DEF TypeAnswer, TypeOK
    <3>2. data_len' \in Byte /\ data_pos' \in Byte
      BY <2>10 DEF TypeAnswer, Byte
    <3>3. status' \in SUBSET Flags /\ status_1e' \in ErrorCodes
      BY <2>10 DEF TypeAnswer, Flags, ErrorCodes
    <3>. QED  BY <2>0, <2>1, <2>10, <3>1, <3>2, <3>3 DEF TypeAnswer, TypeOK
  <2>11. CASE IndexAnswer(val)
    <3>1. data' \in [1..DataSize -> Byte]
      <4>1. PICK i \in PlacesAt(key') : data' = Overwrite(data, DataDef[i].key)
        BY <2>11 DEF IndexAnswer
      <4>2. DataDef[i].key \in Seq(Byte) /\ data \in [1..DataSize -> Byte]
        BY EntryKey DEF TypeOK
      <4>. QED  BY <4>1, <4>2, OverwriteType
    <3>2. key' \in [1..KeyLen -> Byte] /\ read_pos' \in Byte
      BY <2>0, <2>1, <2>11 DEF IndexAnswer, TypeOK
    <3>3. data_len' \in Byte /\ data_pos' \in Byte /\ status' \in SUBSET Flags /\ status_1e' \in ErrorCodes
      BY <2>11 DEF IndexAnswer, Flags, ErrorCodes, Byte
    <3>. QED  BY <2>11, <3>1, <3>2, <3>3 DEF IndexAnswer, TypeOK
  <2>12. CASE IndexPastEnd(val)
    BY <2>0, <2>1, <2>12 DEF IndexPastEnd, TypeOK, Flags, ErrorCodes, Byte, CMD_DONE
  <2>13. CASE QueryExcess(val)
    BY <2>1, <2>13 DEF QueryExcess, TypeOK
  <2>. QED  BY <1>2, <2>2, <2>3, <2>4, <2>5, <2>6, <2>7, <2>8, <2>9, <2>10, <2>11,
                <2>12, <2>13 DEF DataWrite
<1>3. CASE DataRead
  <2>1. CASE ReadAnswer
    <3>1. data_pos + 1 \in 1..DataSize /\ data_pos' \in Byte
      BY <2>1 DEF ReadAnswer, TypeOK, Byte
    <3>2. last_ret' \in Byte
      BY <2>1, <3>1 DEF ReadAnswer, TypeOK
    <3>3. status' \in SUBSET Flags
      BY <2>1 DEF ReadAnswer, Flags, CMD_DONE
    <3>. QED  BY <2>1, <3>1, <3>2, <3>3 DEF ReadAnswer, TypeOK
  <2>2. CASE ReadNothing
    BY <2>2 DEF ReadNothing, vars, TypeOK
  <2>3. CASE ReadUnsupported
    BY <2>3 DEF ReadUnsupported, TypeOK, Flags, ErrorCodes, CMD_DONE
  <2>. QED  BY <1>3, <2>1, <2>2, <2>3 DEF DataRead
<1>4. CASE Reset
  BY <1>4 DEF Reset, TypeOK, Byte, Flags, ErrorCodes, CMD_DONE
<1>5. CASE UNCHANGED vars
  BY <1>5 DEF vars, TypeOK
<1>. QED  BY <1>1, <1>2, <1>3, <1>4, <1>5 DEF Next
\* Each action keeps the cursors inside the payload and the queries' cursor at 0.
LEMMA CursorStep ==
    TypeOK /\ TransferCanAdvance /\ QueriesDoNotMoveCursor /\ [Next]_vars
        => TransferCanAdvance' /\ QueriesDoNotMoveCursor'
<1> SUFFICES ASSUME TypeOK, TransferCanAdvance, QueriesDoNotMoveCursor, [Next]_vars
             PROVE  TransferCanAdvance' /\ QueriesDoNotMoveCursor'
  OBVIOUS
<1> USE SizesAssumption, InputsAssumption
    DEF TransferCanAdvance, QueriesDoNotMoveCursor, Ready, CMD_DONE
<1>1. ASSUME NEW c \in Commands \cup {BadCommand}, CmdWrite(c)
      PROVE  TransferCanAdvance' /\ QueriesDoNotMoveCursor'
  BY <1>1 DEF CmdWrite, AcceptCmd, InterruptCmd, UnexpectedCmd, TypeOK, Byte
<1>2. ASSUME NEW val \in GuestBytes, DataWrite(val)
      PROVE  TransferCanAdvance' /\ QueriesDoNotMoveCursor'
  <2>1. CASE IgnoreByte(val)
    BY <2>1 DEF IgnoreByte, vars
  <2>2. CASE KeyByte(val)
    <3>1. read_pos \in Nat /\ read_pos + 1 <= KeyLen /\ read_pos + 1 < ByteMod
      BY <2>2 DEF KeyByte, TypeOK, Byte
    <3>2. \A x \in Nat : x < ByteMod => x % ByteMod = x
      OBVIOUS
    <3>3. read_pos' = read_pos + 1
      BY <2>2, <3>1, <3>2 DEF KeyByte, Advance
    <3>4. ~(read_pos' > KeyLen)
      BY <3>1, <3>3
    <3>5. "DATA_READY" \notin status'
      BY <2>2 DEF KeyByte
    <3>6. data_pos' = data_pos /\ data_len' = data_len /\ cmd' = cmd
      BY <2>2 DEF KeyByte
    <3>. QED  BY <3>4, <3>5, <3>6
  <2>3. CASE StrayByte(val)
    BY <2>3 DEF StrayByte, NoCommand
  <2>4. CASE ReadLength(val)
    <3>1. data_len' \in Nat
      BY <2>4, TypeStep DEF TypeOK, Byte
    <3>. QED  BY <2>4, <3>1 DEF ReadLength, NoCommand
  <2>5. CASE ReadExcess(val)
    BY <2>5 DEF ReadExcess, NoCommand
  <2>6. CASE WriteLength(val)
    BY <2>6 DEF WriteLength, NoCommand, Byte
  <2>7. CASE WritePayload(val)
    BY <2>7 DEF WritePayload, NoCommand, TypeOK, Byte
  <2>8. CASE WriteExcess(val)
    BY <2>8 DEF WriteExcess, NoCommand, TypeOK, Byte
  <2>9. CASE TypeAnswer(val)
    BY <2>9 DEF TypeAnswer
  <2>10. CASE IndexAnswer(val)
    BY <2>10 DEF IndexAnswer
  <2>11. CASE IndexPastEnd(val)
    BY <2>11 DEF IndexPastEnd
  <2>12. CASE QueryExcess(val)
    BY <2>12 DEF QueryExcess
  <2>. QED  BY <1>2, <2>1, <2>2, <2>3, <2>4, <2>5, <2>6, <2>7, <2>8, <2>9, <2>10,
                <2>11, <2>12 DEF DataWrite
<1>3. CASE DataRead
  <2>1. CASE ReadAnswer
    BY <2>1 DEF ReadAnswer, NoCommand, TypeOK, Byte
  <2>2. CASE ReadNothing
    BY <2>2 DEF ReadNothing, vars
  <2>3. CASE ReadUnsupported
    BY <2>3 DEF ReadUnsupported
  <2>. QED  BY <1>3, <2>1, <2>2, <2>3 DEF DataRead
<1>4. CASE Reset
  BY <1>4 DEF Reset
<1>5. CASE UNCHANGED vars
  BY <1>5 DEF vars
<1>. QED  BY <1>1, <1>2, <1>3, <1>4, <1>5 DEF Next

\* Whatever sequence of commands came before, the buffer a READ answers from
\* holds the value of the key that was named: the only actions that touch the
\* buffer or the key either fill it for that key or clear DATA_READY.
LEMMA AnswerStep ==
    TypeOK /\ AnswerIsTheKeys /\ [Next]_vars => AnswerIsTheKeys'
<1> SUFFICES ASSUME TypeOK, AnswerIsTheKeys, [Next]_vars, Ready("READ")'
             PROVE  AnswerIsTheKeys'
  BY DEF AnswerIsTheKeys
<1>1. CASE Ready("READ") /\ UNCHANGED <<key, data_len, data>>
  BY <1>1 DEF AnswerIsTheKeys
<1>2. ASSUME NEW c \in Commands \cup {BadCommand}, CmdWrite(c) PROVE FALSE
  BY <1>2 DEF CmdWrite, AcceptCmd, InterruptCmd, UnexpectedCmd, Ready
<1>3. ASSUME NEW val \in GuestBytes, DataWrite(val)
      PROVE  \/ Ready("READ") /\ UNCHANGED <<key, data_len, data>>
             \/ ReadLength(val)
  <2>1. IgnoreByte(val) \/ ReadExcess(val) \/ WriteExcess(val) \/ QueryExcess(val)
          => Ready("READ") /\ UNCHANGED <<key, data_len, data>>
    BY DEF IgnoreByte, ReadExcess, WriteExcess, QueryExcess, vars, Ready
  <2>2. ~KeyByte(val) /\ ~StrayByte(val) /\ ~WriteLength(val) /\ ~WritePayload(val)
    BY DEF KeyByte, StrayByte, WriteLength, WritePayload, Ready, CMD_DONE
  <2>3. ~TypeAnswer(val) /\ ~IndexAnswer(val) /\ ~IndexPastEnd(val)
    BY DEF TypeAnswer, IndexAnswer, IndexPastEnd, Ready
  <2>. QED  BY <1>3, <2>1, <2>2, <2>3 DEF DataWrite
<1>4. ASSUME NEW val \in GuestBytes, ReadLength(val), Known(key) PROVE AnswerIsTheKeys'
  <2>1. key' = key
    BY <1>4 DEF ReadLength
  <2>2. data_len' = Len(FindKey(key).value) /\ data' = Overwrite(data, FindKey(key).value)
    BY <1>4 DEF ReadLength
  <2>3. FindKey(key).value \in Seq(Byte) /\ Len(FindKey(key).value) \in 1..DataSize
    BY <1>4, FindKeyEntry
  <2>4. \A i \in 1..DataSize : i <= Len(FindKey(key).value)
            => Overwrite(data, FindKey(key).value)[i] = FindKey(key).value[i]
    BY <2>3, OverwriteType DEF TypeOK
  <2>5. DataSize \in Nat
    BY SizesAssumption
  <2>6. \A i \in 1..data_len' : data'[i] = FindKey(key).value[i]
    BY <2>2, <2>3, <2>4, <2>5
  <2>. QED  BY <1>4, <2>1, <2>2, <2>6 DEF AnswerIsTheKeys, Known
<1>5. ASSUME NEW val \in GuestBytes, ReadLength(val), ~Known(key) PROVE AnswerIsTheKeys'
  BY <1>5 DEF ReadLength, AnswerIsTheKeys, Known, Matches
<1>6. ASSUME DataRead PROVE Ready("READ") /\ UNCHANGED <<key, data_len, data>>
  BY <1>6 DEF DataRead, ReadAnswer, ReadNothing, ReadUnsupported, vars, Ready
<1>7. ASSUME Reset PROVE FALSE
  BY <1>7 DEF Reset, Ready, CMD_DONE
<1>8. ASSUME UNCHANGED vars PROVE Ready("READ") /\ UNCHANGED <<key, data_len, data>>
  BY <1>8 DEF vars, Ready
<1>. QED  BY <1>1, <1>2, <1>3, <1>4, <1>5, <1>6, <1>7, <1>8 DEF Next

-----------------------------------------------------------------------------
(***************************************************************************)
(* The enumeration of the keys.                                            *)
(***************************************************************************)

\* The only place with index k is the one its bytes say.
LEMMA PlaceOfIndex ==
    ASSUME NEW k \in [1..KeyLen -> Byte]
    PROVE  PlacesAt(k) = {i \in 1..Len(DataDef) : i = BigEndian(k) + 1}
<1>. DEFINE l == Len(DataDef)
<1>1. l \in Nat /\ DOMAIN DataDef = 1..l /\ Shifted(l)[KeyLen] = 0
  BY TableAssumption
<1>. HIDE DEF l
<1>2. BigEndian(k) \in Nat /\ BytesOf(BigEndian(k)) = k
  BY ReadThenStore
<1>3. ASSUME NEW i \in 1..l, BytesOf(i - 1) = k PROVE i = BigEndian(k) + 1
  <2>1. i - 1 \in Nat /\ i - 1 <= l
    BY <1>1
  <2>2. Shifted(i - 1)[KeyLen] = 0
    BY <1>1, <2>1, SmallerFits
  <2>3. BigEndian(BytesOf(i - 1)) = i - 1
    BY <2>1, <2>2, StoreThenRead
  <2>. QED  BY <1>1, <1>3, <2>3
<1>4. ASSUME NEW i \in 1..l, i = BigEndian(k) + 1 PROVE BytesOf(i - 1) = k
  <2>1. i - 1 = BigEndian(k)
    BY <1>2, <1>4
  <2>. QED  BY <1>2, <2>1
<1>. QED  BY <1>1, <1>3, <1>4 DEF PlacesAt, l

\* #KEY is at the head of the list and holds the length of the list.
LEMMA CountIsLength == BigEndian(FindKey(NumKey).value) = Len(DataDef)
<1>. DEFINE head == [key |-> NumKey, value |-> BytesOf(Len(Table) + 1)]
            l == Len(DataDef)
            first == CHOOSE i \in Matches(NumKey) : \A j \in Matches(NumKey) : i <= j
<1>1. l \in Nat /\ DOMAIN DataDef = 1..l /\ Shifted(l)[KeyLen] = 0
  BY TableAssumption
<1>2. DataDef = <<head>> \o Table
  BY DEF DataDef
<1>3. DataDef[1] = head /\ l = Len(Table) + 1 /\ 1 \in 1..l
  BY <1>1, <1>2
<1>. HIDE DEF l
<1>4. 1 \in Matches(NumKey) /\ Matches(NumKey) \subseteq 1..l
  BY <1>1, <1>3 DEF Matches
<1>5. first \in Matches(NumKey) /\ \A j \in Matches(NumKey) : first <= j
  <2>1. Known(NumKey)
    BY <1>4 DEF Known
  <2>2. \E i \in Matches(NumKey) : \A j \in Matches(NumKey) : i <= j
    BY <2>1, FirstMatch
  <2>. QED  BY <2>2
<1>6. first = 1
  <2>. HIDE DEF first
  <2>. QED  BY <1>1, <1>4, <1>5
<1>7. FindKey(NumKey).value = BytesOf(l)
  <2>1. FindKey(NumKey) = DataDef[first]
    BY DEF FindKey
  <2>2. FindKey(NumKey) = head
    BY <1>3, <1>6, <2>1
  <2>3. head.value = BytesOf(Len(Table) + 1)
    OBVIOUS
  <2>. HIDE DEF head
  <2>. QED  BY <1>3, <2>2, <2>3
<1>8. BigEndian(BytesOf(l)) = l
  BY <1>1, StoreThenRead
<1>. QED  BY <1>7, <1>8 DEF l

\* What EnumerationMatchesCount says of a key and the buffer.
LEMMA EnumerationMeans ==
    ASSUME key \in [1..KeyLen -> Byte]
    PROVE  EnumerationMatchesCount <=>
              /\ Ready("GET_KEY_BY_INDEX") =>
                    /\ BigEndian(key) < Len(DataDef)
                    /\ \A i \in 1..KeyLen : data[i] = DataDef[BigEndian(key) + 1].key[i]
              /\ cmd = "GET_KEY_BY_INDEX" /\ status_1e = "BAD_INDEX" /\ read_pos = KeyLen
                    => BigEndian(key) >= Len(DataDef)
BY CountIsLength DEF EnumerationMatchesCount

\* A byte counter wraps.
LEMMA AdvanceResult ==
    ASSUME read_pos \in Byte, Advance
    PROVE  read_pos' = IF read_pos + 1 = ByteMod THEN 0 ELSE read_pos + 1
BY SizesAssumption DEF Advance, Byte

\* The answer to an index is the key at that place, and stays in the buffer while it
\* is on offer; BAD_INDEX stands until the next key byte moves read_pos.
LEMMA EnumerationStep ==
    TypeOK /\ EnumerationMatchesCount /\ [Next]_vars => EnumerationMatchesCount'
<1>. SUFFICES ASSUME TypeOK, EnumerationMatchesCount, [Next]_vars
              PROVE  EnumerationMatchesCount'
  OBVIOUS
<1>. DEFINE l == Len(DataDef)
            Answered(k, buf) == BigEndian(k) < l /\ \A i \in 1..KeyLen : buf[i] = DataDef[BigEndian(k) + 1].key[i]
            Refused == cmd = "GET_KEY_BY_INDEX" /\ status_1e = "BAD_INDEX" /\ read_pos = KeyLen
<1>1. TypeOK'
  BY TypeStep
<1>2. /\ Ready("GET_KEY_BY_INDEX") => Answered(key, data)
      /\ Refused => BigEndian(key) >= l
  BY EnumerationMeans DEF TypeOK
<1>3. SUFFICES /\ Ready("GET_KEY_BY_INDEX")' => Answered(key', data')
               /\ Refused' => BigEndian(key') >= l
  <2>1. key' \in [1..KeyLen -> Byte]
    BY <1>1 DEF TypeOK
  <2>2. BigEndian(FindKey(NumKey).value)' = l
    BY CountIsLength DEF FindKey, Matches
  <2>. QED  BY <1>3, <2>1, <2>2 DEF EnumerationMatchesCount, Ready
<1>. HIDE DEF l, Answered
<1>. USE DEF Ready
<1>4. CASE UNCHANGED <<cmd, status, key, data>> /\ (Refused' => Refused)
  BY <1>2, <1>4
<1>5. CASE ~Ready("GET_KEY_BY_INDEX")' /\ ~Refused'
  BY <1>5
<1>6. ASSUME NEW c \in Commands \cup {BadCommand}, CmdWrite(c)
      PROVE  ~Ready("GET_KEY_BY_INDEX")' /\ ~Refused'
  BY <1>6, SizesAssumption DEF CmdWrite, AcceptCmd, InterruptCmd, UnexpectedCmd
<1>7. ASSUME NEW val \in GuestBytes, KeyByte(val)
      PROVE  ~Ready("GET_KEY_BY_INDEX")' /\ ~Refused'
  <2>1. status' = {"ACK"} /\ cmd' = cmd /\ Advance
    BY <1>7 DEF KeyByte
  <2>2. cmd = "GET_KEY_BY_INDEX" => read_pos < KeyLen - 1
    BY <1>7 DEF KeyByte
  <2>3. read_pos' = IF read_pos + 1 = ByteMod THEN 0 ELSE read_pos + 1
    BY <2>1, AdvanceResult DEF TypeOK
  <2>. QED  BY <2>1, <2>2, <2>3, SizesAssumption DEF TypeOK, Byte
<1>8. ASSUME NEW val \in GuestBytes, IgnoreByte(val) \/ ReadExcess(val) \/ WriteExcess(val) \/ QueryExcess(val)
      PROVE  UNCHANGED <<cmd, status, key, data>> /\ (Refused' => Refused)
  <2>1. CASE IgnoreByte(val) \/ ReadExcess(val) \/ WriteExcess(val)
    BY <2>1 DEF IgnoreByte, ReadExcess, WriteExcess, vars
  <2>2. CASE QueryExcess(val)
    <3>1. UNCHANGED <<cmd, status, status_1e, key, data>> /\ read_pos >= KeyLen /\ Advance
      BY <2>2 DEF QueryExcess
    <3>2. read_pos' = IF read_pos + 1 = ByteMod THEN 0 ELSE read_pos + 1
      BY <3>1, AdvanceResult DEF TypeOK
    <3>3. read_pos' # KeyLen
      BY <3>1, <3>2, SizesAssumption DEF TypeOK, Byte
    <3>. QED  BY <3>1, <3>3
  <2>. QED  BY <1>8, <2>1, <2>2
<1>9. ASSUME NEW val \in GuestBytes,
             StrayByte(val) \/ ReadLength(val) \/ WriteLength(val) \/ WritePayload(val) \/ TypeAnswer(val)
      PROVE  ~Ready("GET_KEY_BY_INDEX")' /\ ~Refused'
  BY <1>9 DEF StrayByte, ReadLength, WriteLength, WritePayload, TypeAnswer, NoCommand
<1>10. ASSUME NEW val \in GuestBytes, IndexAnswer(val)
       PROVE  Answered(key', data') /\ ~Refused'
  <2>1. key' \in [1..KeyLen -> Byte] /\ data \in [1..DataSize -> Byte]
    BY <1>1 DEF TypeOK
  <2>2. PICK i \in PlacesAt(key') : data' = Overwrite(data, DataDef[i].key)
    BY <1>10 DEF IndexAnswer
  <2>3. i \in 1..l /\ i = BigEndian(key') + 1 /\ BigEndian(key') \in Nat /\ l \in Nat
    <3>1. PlacesAt(key') = {j \in 1..l : j = BigEndian(key') + 1}
      BY <2>1, PlaceOfIndex DEF l
    <3>2. BigEndian(key') \in Nat
      BY <2>1, ReadThenStore
    <3>. QED  BY <2>2, <3>1, <3>2, TableAssumption DEF l
  <2>4. DataDef[i].key \in Seq(Byte) /\ Len(DataDef[i].key) = KeyLen
    BY <2>2, EntryKey
  <2>5. \A j \in 1..KeyLen : data'[j] = DataDef[i].key[j]
    <3>1. \A j \in 1..DataSize : j <= KeyLen => data'[j] = DataDef[i].key[j]
      BY <2>1, <2>2, <2>4, OverwriteType
    <3>2. \A j \in 1..KeyLen : j \in 1..DataSize /\ j <= KeyLen
      BY SizesAssumption
    <3>. QED  BY <3>1, <3>2
  <2>6. BigEndian(key') < l
    BY <2>3
  <2>7. Answered(key', data')
    BY <2>3, <2>5, <2>6 DEF Answered
  <2>. QED  BY <1>10, <2>7 DEF IndexAnswer
<1>11. ASSUME NEW val \in GuestBytes, IndexPastEnd(val)
       PROVE  ~Ready("GET_KEY_BY_INDEX")' /\ BigEndian(key') >= l
  <2>1. key' \in [1..KeyLen -> Byte] /\ PlacesAt(key') = {}
    BY <1>1, <1>11 DEF TypeOK, IndexPastEnd
  <2>2. {j \in 1..l : j = BigEndian(key') + 1} = {}
    BY <2>1, PlaceOfIndex DEF l
  <2>3. BigEndian(key') \in Nat /\ l \in Nat
    BY <2>1, ReadThenStore, TableAssumption DEF l
  <2>4. BigEndian(key') + 1 \notin 1..l
    BY <2>2
  <2>5. BigEndian(key') >= l
    BY <2>3, <2>4
  <2>. QED  BY <1>11, <2>5 DEF IndexPastEnd, CMD_DONE
<1>12. CASE \E val \in GuestBytes : DataWrite(val)
  BY <1>4, <1>5, <1>7, <1>8, <1>9, <1>10, <1>11, <1>12 DEF DataWrite
<1>13. CASE DataRead
  <2>1. ReadAnswer => ~Ready("GET_KEY_BY_INDEX")' /\ ~Refused'
    BY DEF ReadAnswer
  <2>2. ReadNothing \/ ReadUnsupported =>
            \/ UNCHANGED <<cmd, status, key, data>> /\ (Refused' => Refused)
            \/ ~Ready("GET_KEY_BY_INDEX")' /\ ~Refused'
    BY DEF ReadNothing, ReadUnsupported, vars, CMD_DONE
  <2>. QED  BY <1>4, <1>5, <1>13, <2>1, <2>2 DEF DataRead
<1>14. CASE Reset
  BY <1>5, <1>14 DEF Reset, CMD_DONE
<1>15. CASE UNCHANGED vars
  BY <1>4, <1>15 DEF vars
<1>. QED  BY <1>5, <1>6, <1>12, <1>13, <1>14, <1>15 DEF Next

LEMMA InitIInv == Init => IInv
BY SizesAssumption
   DEF Init, IInv, TypeOK, TransferCanAdvance, AnswerIsTheKeys, QueriesDoNotMoveCursor,
       EnumerationMatchesCount,
       Ready, Byte, Flags, ErrorCodes, CMD_DONE, NoCommand

\* IInv holds of every behaviour: Init establishes it and each step keeps it.
THEOREM Invariance == Spec => []IInv
<1>1. IInv /\ [Next]_vars => IInv'
  BY TypeStep, CursorStep, AnswerStep, EnumerationStep DEF IInv
<1>. QED  BY InitIInv, <1>1, PTL DEF Spec

\* Type correctness: with it, every index the handlers use is inside its array,
\* since read_pos, data_pos and data_len are bytes and data has a cell for each.
THEOREM TypeCorrect == Spec => []TypeOK
BY Invariance, PTL DEF IInv

\* The cursor stays in the payload and no transfer is stuck before CMD_DONE
\* (applesmc_io_data_write, applesmc_io_data_read).
THEOREM TransferProgress == Spec => []TransferCanAdvance
BY Invariance, PTL DEF IInv

\* What a guest reads for a known key is that key's value (applesmc_io_data_read).
THEOREM AnswerCorrect == Spec => []AnswerIsTheKeys
BY Invariance, PTL DEF IInv

\* A guest that counts to #KEY meets every key by its index and no BAD_INDEX
\* (applesmc_io_data_write, applesmc_isa_realize's #KEY).
THEOREM EnumerationCorrect == Spec => []EnumerationMatchesCount
BY Invariance, PTL DEF IInv

\* Only a write to the command port leaves CMD_DONE.
THEOREM DoneIsStable == Spec => DoneUntilNextCommand
<1>1. [Next]_vars => [status = CMD_DONE /\ status' # CMD_DONE
          => \E c \in Commands \cup {BadCommand} : CmdWrite(c)]_vars
  <2> SUFFICES ASSUME Next, status = CMD_DONE, status' # CMD_DONE
               PROVE  \E c \in Commands \cup {BadCommand} : CmdWrite(c)
    BY DEF vars
  <2>1. ASSUME NEW val \in GuestBytes, DataWrite(val) PROVE FALSE
    <3>1. ~IgnoreByte(val) /\ ~StrayByte(val)
      BY DEF IgnoreByte, StrayByte, vars
    <3>2. ~KeyByte(val) /\ ~ReadLength(val) /\ ~ReadExcess(val) /\ ~WriteLength(val)
      BY DEF KeyByte, ReadLength, ReadExcess, WriteLength
    <3>3. ~WritePayload(val) /\ ~WriteExcess(val) /\ ~TypeAnswer(val)
      BY DEF WritePayload, WriteExcess, TypeAnswer
    <3>4. ~IndexAnswer(val) /\ ~IndexPastEnd(val) /\ ~QueryExcess(val)
      BY DEF IndexAnswer, IndexPastEnd, QueryExcess
    <3>. QED  BY <2>1, <3>1, <3>2, <3>3, <3>4 DEF DataWrite
  <2>2. ~DataRead
    BY DEF DataRead, ReadAnswer, ReadNothing, ReadUnsupported, CMD_DONE, vars
  <2>3. ~Reset
    BY DEF Reset
  <2>. QED  BY <2>1, <2>2, <2>3 DEF Next
<1>. QED  BY <1>1, PTL DEF Spec, DoneUntilNextCommand
=============================================================================
