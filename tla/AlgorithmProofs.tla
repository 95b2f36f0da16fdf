---------------------------- MODULE AlgorithmProofs ----------------------------
(***************************************************************************)
(* Proofs about the functions that compute on numbers, keys and memory and *)
(* about the chain's time, for words, bytes, memories and blocks of any    *)
(* size: the 64-bit halves of the code among them, which are beyond        *)
(* enumeration.                                                            *)
(*                                                                         *)
(* The argument.  A quotient and a remainder in range determine a number   *)
(* and are determined by it (QuotientExists, QuotientUnique).  Hence two   *)
(* halves are a number below the square of a word, what is written in      *)
(* halves is read modulo that square (HalvesOf), and numbers with a high   *)
(* part and a low part are in lexicographic order (PairsOrdered).  Loops   *)
(* and recursive functions are followed round by round (SetInduction,      *)
(* FiniteLoop, Loop).                                                      *)
(***************************************************************************)
EXTENDS Int128, SecondaryKeys, ChainTime, ModExp, Blake2, Builtins,
        SequenceTheorems, WellFoundedInduction, TLAPS

-----------------------------------------------------------------------------
(* Division.                                                               *)

(* A number is given by its quotient and remainder.                        *)
LEMMA QuotientUnique ==
  ASSUME NEW n \in Nat, n > 0, NEW q \in Int, NEW r \in 0 .. n - 1
  PROVE  (q * n + r) \div n = q /\ (q * n + r) % n = r
  OBVIOUS

(* Every number has them.                                                  *)
LEMMA QuotientExists ==
  ASSUME NEW n \in Nat, n > 0, NEW v \in Int
  PROVE  /\ v \div n \in Int /\ v % n \in 0 .. n - 1
         /\ v = (v \div n) * n + (v % n)
  OBVIOUS

(* Products grow with a factor.                                            *)
LEMMA TimesMonotone ==
  ASSUME NEW a \in Int, NEW b \in Int, NEW c \in Nat, a <= b
  PROVE  a * c <= b * c
  OBVIOUS

(* A number of two digits.                                                 *)
LEMMA PairInRange ==
  ASSUME NEW n \in Nat, n > 0, NEW q \in 0 .. n - 1, NEW r \in 0 .. n - 1
  PROVE  q * n + r \in 0 .. n * n - 1
<1>1. q * n <= (n - 1) * n
  BY TimesMonotone
<1>2. (n - 1) * n = n * n - n
  OBVIOUS
<1>3. 0 * n <= q * n
  BY TimesMonotone
<1>4. q * n \in Int /\ n * n \in Int
  OBVIOUS
<1> QED BY <1>1, <1>2, <1>3, <1>4

(* The two lowest digits of a number are the number modulo the square of   *)
(* the base.                                                               *)
LEMMA HalvesOf ==
  ASSUME NEW n \in Nat, n > 0, NEW v \in Nat
  PROVE  ((v \div n) % n) * n + (v % n) = v % (n * n)
<1> DEFINE q == v \div n
           r == v % n
           h == q \div n
           l == q % n
<1>1. /\ q \in Int /\ r \in 0 .. n - 1 /\ v = q * n + r
  BY QuotientExists
<1>2. /\ h \in Int /\ l \in 0 .. n - 1 /\ q = h * n + l
  BY <1>1, QuotientExists
<1> HIDE DEF q, r, h, l
<1>3. v = h * (n * n) + (l * n + r)
  BY <1>1, <1>2
<1>4. l * n + r \in 0 .. n * n - 1
  BY <1>1, <1>2, PairInRange
<1>5. n * n \in Nat /\ n * n > 0
  OBVIOUS
<1>6. v % (n * n) = l * n + r
  <2> DEFINE m == n * n
             x == l * n + r
  <2>1. m \in Nat /\ m > 0 /\ x \in 0 .. m - 1 /\ v = h * m + x
    BY <1>3, <1>4, <1>5
  <2> HIDE DEF m, x
  <2>2. (h * m + x) % m = x
    BY <1>2, <2>1, QuotientUnique
  <2>3. v % m = x
    BY <2>1, <2>2
  <2> QED BY <2>3 DEF m, x
<1> QED BY <1>6 DEF q, r, l

(* A division does not make numbers larger.                                *)
LEMMA DivideSmaller ==
  ASSUME NEW a \in Nat, NEW b \in Nat, b > 0
  PROVE  a \div b \in 0 .. a /\ a % b \in 0 .. a
  OBVIOUS

-----------------------------------------------------------------------------
(* 128-bit integers.                                                      *)

(* 2^128 in the code.                                                      *)
Size == Word * Word

(* What is known of words.                                                 *)
LEMMA WordSize ==
  /\ Word \in Nat /\ Word > 1 /\ Word > 0
  /\ Size \in Nat /\ Size > 0
  BY WordAssumption DEF Size

(* A signed half as BigInt.asUintN has it.                                 *)
LEMMA HalvesMakeNumber ==
  ASSUME NEW low \in Int, NEW high \in Int
  PROVE  Wide(low % Word, high % Word) \in 0 .. Size - 1
<1>1. low % Word \in 0 .. Word - 1 /\ high % Word \in 0 .. Word - 1
  BY WordSize
<1> QED BY <1>1, WordSize, PairInRange DEF Wide, Size

(* The contract reads what was written modulo 2^128.                       *)
LEMMA ReadsWritten ==
  ASSUME NEW v \in Nat
  PROVE  Wide(write128(v).low, write128(v).high) = v % Size
<1>1. ((v \div Word) % Word) * Word + (v % Word) = v % (Word * Word)
  BY WordSize, HalvesOf, Zenon
<1>2. write128(v).low = v % Word /\ write128(v).high = (v \div Word) % Word
  BY DEF write128
<1> QED BY <1>1, <1>2, Zenon DEF Wide, Size

(* Nothing is lost of a number of 128 bits.                                *)
LEMMA SmallIsItself ==
  ASSUME NEW v \in 0 .. Size - 1
  PROVE  v % Size = v
<1>1. (0 * Size + v) % Size = v
  BY WordSize, QuotientUnique
<1> QED BY <1>1, WordSize

(* BigInt.asIntN takes 2^128 away or nothing, the latter of numbers that   *)
(* are not negative.                                                       *)
LEMMA AsSigned ==
  ASSUME NEW v \in 0 .. Size - 1
  PROVE  /\ asIntN128(v) \in Int
         /\ \E e \in {0, 1} : asIntN128(v) = v - e * Size
         /\ asIntN128(v) >= 0 => asIntN128(v) = v /\ v < Size \div 2
  BY WordSize DEF asIntN128, Size

(* The lower half of the numbers are not negative.                         *)
LEMMA LessThanHalf ==
  ASSUME NEW v \in Nat, v < Size \div 2
  PROVE  v \in 0 .. Size - 1 /\ asIntN128(v) = v
<1>1. Size \div 2 <= Size
  BY WordSize
<1> QED BY <1>1, WordSize DEF asIntN128, Size

(* Products: signs do not matter modulo 2^128.                             *)
LEMMA ProductRead ==
  ASSUME NEW x \in 0 .. Size - 1, NEW y \in 0 .. Size - 1
  PROVE  (asIntN128((x * y) % Size) - asIntN128(x) * asIntN128(y)) % Size = 0
<1> DEFINE v == x * y
           u == v % Size
           q == v \div Size
           a == asIntN128(x)
           b == asIntN128(y)
           read == asIntN128(u)
<1>1. v \in Int /\ u \in 0 .. Size - 1 /\ q \in Int /\ v = q * Size + u
  <2>1. v \in Int
    OBVIOUS
  <2> HIDE DEF v
  <2> QED BY <2>1, WordSize, QuotientExists
<1>2. PICK e \in {0, 1} : read = u - e * Size
  BY <1>1, AsSigned
<1>3. PICK f \in {0, 1} : a = x - f * Size
  BY AsSigned
<1>4. PICK g \in {0, 1} : b = y - g * Size
  BY AsSigned
<1>5. v = x * y
  OBVIOUS
<1> HIDE DEF v, u, q, a, b, read
<1> DEFINE k == g * x + f * y - e - q - f * g * Size
<1>6. read - a * b = k * Size
  BY <1>1, <1>2, <1>3, <1>4, <1>5, WordSize
<1>7. k \in Int
  BY <1>1, WordSize
<1> HIDE DEF k
<1>8. (k * Size + 0) % Size = 0
  BY <1>7, WordSize, QuotientUnique
<1>9. k * Size + 0 = k * Size
  BY <1>7, WordSize
<1>10. (read - a * b) % Size = 0
  BY <1>6, <1>8, <1>9
<1> QED BY <1>10 DEF v, u, read, a, b

(* The magnitudes are the numbers themselves.                              *)
LEMMA QuotientOfNumbers ==
  ASSUME NEW a \in Nat, NEW b \in Nat, b > 0
  PROVE  Quotient(a, b) = a \div b /\ Remainder(a, b) = a % b
<1>1. Sign(a) = 1 /\ Sign(b) = 1 /\ Magnitude(a) = a /\ Magnitude(b) = b
  BY DEF Sign, Magnitude
<1>2. a \div b \in Int /\ a = (a \div b) * b + (a % b) /\ a % b \in Int
  BY QuotientExists
<1>3. Quotient(a, b) = a \div b
  BY <1>1, <1>2 DEF Quotient
<1>4. a - b * (a \div b) = a % b
  <2> DEFINE q == a \div b
             r == a % b
  <2>1. q \in Int /\ r \in Int /\ a = q * b + r
    BY <1>2
  <2> HIDE DEF q, r
  <2>2. a - b * q = r
    BY <2>1
  <2> QED BY <2>2 DEF q, r
<1> QED BY <1>3, <1>4 DEF Remainder

(* The calls, and what is computed for them.                               *)
Calls == [fn : Arithmetic, la : I64, ha : I64, lb : I64, hb : I64]

Computed(c) == arithmetic(c.fn, c.la, c.ha, c.lb, c.hb)

ResultInv == call \in Calls /\ result \in {pending, Computed(call)}

(* The result is that of the function for the call's arguments.            *)
THEOREM ResultIsComputed == ArithmeticSpec => []ResultInv
<1>1. ArithmeticInit => ResultInv
  BY DEF ArithmeticInit, ResultInv, Calls
<1>2. ResultInv /\ [CallArithmetic \/ Return]_callVars => ResultInv'
  BY DEF ResultInv, CallArithmetic, Call, Return, callVars, Computed
<1> QED BY <1>1, <1>2, PTL DEF ArithmeticSpec

(* The builtins compute products, quotients and remainders modulo 2^128,   *)
(* for all operands and every size of a word, and the signed quotients and *)
(* remainders where neither operand is negative.                           *)
THEOREM ArithmeticRight == ArithmeticSpec => []ArithmeticUnlessNegative
<1>1. ResultInv => ArithmeticUnlessNegative
  <2> SUFFICES ASSUME ResultInv, result # pending
               PROVE  ArithmeticUnlessNegative
    BY DEF ArithmeticUnlessNegative, Returned
  <2> DEFINE lhs  == Wide(call.la % Word, call.ha % Word)
             rhs  == Wide(call.lb % Word, call.hb % Word)
             a    == asIntN128(lhs)
             b    == asIntN128(rhs)
             unsigned == Wide(result.low, result.high)
             read == asIntN128(unsigned)
  <2>1. /\ call.fn \in Arithmetic /\ call.la \in Int /\ call.ha \in Int
        /\ call.lb \in Int /\ call.hb \in Int
    BY DEF ResultInv, Calls, I64
  <2>2. lhs \in 0 .. Size - 1 /\ rhs \in 0 .. Size - 1
    BY <2>1, HalvesMakeNumber
  <2>3. result = IF call.fn = "__multi3" THEN write128(lhs * rhs)
                 ELSE IF rhs = 0 THEN throws
                 ELSE IF call.fn \in {"__divti3", "__udivti3"}
                 THEN write128(lhs \div rhs)
                 ELSE write128(lhs % rhs)
    BY DEF ResultInv, Computed, arithmetic, convertToUnsigned
  <2>4. ASSUME NEW v \in Nat, result = write128(v)
        PROVE  unsigned = v % Size
    BY <2>4, ReadsWritten
  <2> HIDE DEF lhs, rhs
  <2>5. CASE call.fn = "__multi3"
    <3>1. lhs * rhs \in Nat
      BY <2>2, WordSize
    <3>2. unsigned = (lhs * rhs) % Size
      BY <2>3, <2>4, <2>5, <3>1
    <3>3. (read - a * b) % Size = 0
      BY <2>2, <3>2, ProductRead
    <3> QED BY <2>5, <3>3, Zenon
      DEF ArithmeticUnlessNegative, Size, lhs, rhs
  <2>6. CASE call.fn # "__multi3" /\ rhs = 0
    <3>1. result = throws
      BY <2>3, <2>6
    <3> QED BY <2>6, <3>1, Zenon DEF ArithmeticUnlessNegative, lhs, rhs
  <2>7. CASE call.fn # "__multi3" /\ rhs # 0
    <3>1. lhs \in Nat /\ rhs \in Nat /\ rhs > 0
      BY <2>2, <2>7, WordSize
    <3>2. lhs \div rhs \in 0 .. lhs /\ lhs % rhs \in 0 .. lhs
      BY <3>1, DivideSmaller
    <3>3. ASSUME NEW v \in 0 .. lhs, result = write128(v)
          PROVE  /\ unsigned = v
                 /\ a >= 0 => read = v
      <4>1. v \in Nat /\ v \in 0 .. Size - 1
        BY <2>2, <3>1, WordSize
      <4>2. unsigned = v
        BY <2>4, <3>3, <4>1, SmallIsItself
      <4>3. ASSUME a >= 0 PROVE asIntN128(v) = v
        <5>1. lhs < Size \div 2
          BY <2>2, <4>3, AsSigned
        <5>2. v < Size \div 2
          BY <3>1, <4>1, <5>1, WordSize
        <5> QED BY <4>1, <5>2, LessThanHalf
      <4> QED BY <4>2, <4>3
    <3>4. ASSUME a >= 0, b >= 0
          PROVE  /\ lhs \div rhs = Quotient(a, b)
                 /\ lhs % rhs = Remainder(a, b)
      <4>1. a = lhs /\ b = rhs
        BY <2>2, <3>4, AsSigned
      <4> QED BY <3>1, <4>1, QuotientOfNumbers
    <3>5. CASE call.fn \in {"__divti3", "__udivti3"}
      <4>1. result = write128(lhs \div rhs)
        BY <2>3, <2>7, <3>5
      <4>2. unsigned = lhs \div rhs
        BY <3>2, <3>3, <4>1
      <4>3. a >= 0 /\ b >= 0 => read = Quotient(a, b)
        BY <3>2, <3>3, <3>4, <4>1
      <4> QED BY <2>7, <3>5, <4>2, <4>3 DEF ArithmeticUnlessNegative, lhs, rhs
    <3>6. CASE call.fn \in {"__modti3", "__umodti3"}
      <4>1. result = write128(lhs % rhs)
        BY <2>3, <2>7, <3>6
      <4>2. unsigned = lhs % rhs
        BY <3>2, <3>3, <4>1
      <4>3. a >= 0 /\ b >= 0 => read = Remainder(a, b)
        BY <3>2, <3>3, <3>4, <4>1
      <4> QED BY <2>7, <3>6, <4>2, <4>3 DEF ArithmeticUnlessNegative, lhs, rhs
    <3> QED BY <2>1, <2>7, <3>5, <3>6 DEF Arithmetic
  <2> QED BY <2>5, <2>6, <2>7
<1> QED BY <1>1, ResultIsComputed, PTL

-----------------------------------------------------------------------------
(* Secondary keys.                                                         *)

Bytes == 0 .. Byte - 1

(* What is known of bytes.                                                 *)
LEMMA ByteSize ==
  /\ Byte \in Nat /\ Byte > 1 /\ Byte > 0
  /\ Word64 \in Nat /\ Word64 > 0
  BY KeysAssumption DEF Word64

(* Two bytes in the other order.                                           *)
LEMMA PairReversed ==
  ASSUME NEW x, NEW y
  PROVE  Reverse(<<x, y>>) = <<y, x>>
  BY DEF Reverse

(* Two halves of two bytes each.                                           *)
LEMMA PairsJoined ==
  ASSUME NEW x, NEW y, NEW z, NEW w
  PROVE  <<x, y>> \o <<z, w>> = <<x, y, z, w>>
<1> DEFINE S == {x, y, z, w}
           s == <<x, y>>
           t == <<z, w>>
           u == <<x, y, z, w>>
<1>1. /\ s \in Seq(S) /\ Len(s) = 2 /\ s[1] = x /\ s[2] = y
      /\ t \in Seq(S) /\ Len(t) = 2 /\ t[1] = z /\ t[2] = w
      /\ u \in Seq(S) /\ Len(u) = 4
      /\ u[1] = x /\ u[2] = y /\ u[3] = z /\ u[4] = w
  OBVIOUS
<1> HIDE DEF s, t, u, S
<1>2. /\ s \o t \in Seq(S) /\ Len(s \o t) = Len(s) + Len(t)
      /\ \A i \in 1 .. Len(s) + Len(t) :
           (s \o t)[i] = IF i <= Len(s) THEN s[i] ELSE t[i - Len(s)]
  <2>1. s \in Seq(S) /\ t \in Seq(S)
    BY <1>1
  <2> QED BY ONLY <2>1, ConcatProperties
<1>3. /\ (s \o t)[1] = s[1] /\ (s \o t)[2] = s[2]
      /\ (s \o t)[3] = t[1] /\ (s \o t)[4] = t[2]
  BY <1>1, <1>2
<1>4. \A i \in 1 .. 4 : i = 1 \/ i = 2 \/ i = 3 \/ i = 4
  OBVIOUS
<1>5. \A i \in 1 .. 4 : (s \o t)[i] = u[i]
  BY <1>1, <1>3, <1>4
<1>6. s \o t = u
  BY <1>1, <1>2, <1>5, SeqEqual
<1> QED BY <1>6 DEF s, t, u

(* A long key and its halves.                                              *)
LEMMA KeyHalves ==
  ASSUME NEW S, NEW a \in [1 .. 4 -> S]
  PROVE  /\ FirstHalf(a) = <<a[1], a[2]>>
         /\ SecondHalf(a) = <<a[3], a[4]>>
         /\ a = <<a[1], a[2], a[3], a[4]>>
<1>1. /\ SubSeq(a, 1, 2) \in Seq(S) /\ Len(SubSeq(a, 1, 2)) = 2
      /\ \A i \in 1 .. 2 : SubSeq(a, 1, 2)[i] = a[i]
  BY SubSeqProperties
<1>2. /\ SubSeq(a, 3, 4) \in Seq(S) /\ Len(SubSeq(a, 3, 4)) = 2
      /\ \A i \in 1 .. 2 : SubSeq(a, 3, 4)[i] = a[i + 2]
  BY SubSeqProperties
<1>3. ASSUME NEW s \in Seq(S), Len(s) = 2
      PROVE  s = <<s[1], s[2]>>
  BY <1>3
<1>4. SubSeq(a, 1, 2) = <<a[1], a[2]>>
  <2>1. SubSeq(a, 1, 2)[1] = a[1] /\ SubSeq(a, 1, 2)[2] = a[2]
    BY <1>1
  <2> QED BY <1>1, <1>3, <2>1
<1>5. SubSeq(a, 3, 4) = <<a[3], a[4]>>
  <2>1. SubSeq(a, 3, 4)[1] = a[3] /\ SubSeq(a, 3, 4)[2] = a[4]
    BY <1>2
  <2> QED BY <1>2, <1>3, <2>1
<1> QED BY <1>4, <1>5 DEF FirstHalf, SecondHalf

(* A checksum's bytes as they are stored.                                  *)
LEMMA HalvesReversed ==
  ASSUME NEW S, NEW a \in [1 .. 4 -> S]
  PROVE  ReverseHalves(a) = <<a[2], a[1], a[4], a[3]>>
<1>1. FirstHalf(a) = <<a[1], a[2]>> /\ SecondHalf(a) = <<a[3], a[4]>>
  BY KeyHalves
<1>2. Reverse(<<a[1], a[2]>>) = <<a[2], a[1]>>
      /\ Reverse(<<a[3], a[4]>>) = <<a[4], a[3]>>
  BY PairReversed
<1>3. <<a[2], a[1]>> \o <<a[4], a[3]>> = <<a[2], a[1], a[4], a[3]>>
  BY PairsJoined
<1>4. ReverseHalves(a) = <<a[2], a[1]>> \o <<a[4], a[3]>>
  BY <1>1, <1>2, Zenon DEF ReverseHalves
<1> QED BY <1>3, <1>4, Zenon

(* A number of 64 bits has the bytes that were read.                       *)
LEMMA WordWritten ==
  ASSUME NEW x \in Bytes, NEW y \in Bytes
  PROVE  /\ getLE(<<x, y>>) \in 0 .. Word64 - 1
         /\ getBE(<<x, y>>) \in 0 .. Word64 - 1
         /\ setLE(getLE(<<x, y>>)) = <<x, y>>
         /\ setBE(getBE(<<x, y>>)) = <<x, y>>
<1>1. getLE(<<x, y>>) = y * Byte + x /\ getBE(<<x, y>>) = x * Byte + y
  BY DEF getLE, getBE
<1>2. /\ x * Byte + y \in 0 .. Word64 - 1
      /\ y * Byte + x \in 0 .. Word64 - 1
  BY ByteSize, PairInRange DEF Bytes, Word64
<1>3. /\ (x * Byte + y) \div Byte = x /\ (x * Byte + y) % Byte = y
      /\ (y * Byte + x) \div Byte = y /\ (y * Byte + x) % Byte = x
  BY ByteSize, QuotientUnique DEF Bytes
<1> QED BY <1>1, <1>2, <1>3 DEF setLE, setBE

(* A number with a high part and a low one.                                *)
Pair(n, p, r) == p * n + r

(* The high part decides, or else the low one.                             *)
LEMMA PairsOrdered ==
  ASSUME NEW n \in Nat, NEW p \in Nat, NEW q \in Nat,
         NEW r \in Nat, r < n, NEW s \in Nat, s < n
  PROVE  LET order == compareNumbers(Pair(n, p, r), Pair(n, q, s))
         IN  /\ p = q => order = compareNumbers(r, s)
             /\ p # q => order = compareNumbers(p, q)
<1>1. CASE p = q
  BY <1>1 DEF compareNumbers, Pair
<1>2. CASE p < q
  <2>1. (p + 1) * n <= q * n
    BY <1>2, TimesMonotone
  <2>2. (p + 1) * n = p * n + n
    OBVIOUS
  <2>3. p * n \in Int /\ q * n \in Int
    OBVIOUS
  <2>4. p * n + r < q * n + s
    BY <2>1, <2>2, <2>3
  <2> QED BY <1>2, <2>3, <2>4 DEF compareNumbers, Pair
<1>3. CASE q < p
  <2>1. (q + 1) * n <= p * n
    BY <1>3, TimesMonotone
  <2>2. (q + 1) * n = q * n + n
    OBVIOUS
  <2>3. p * n \in Int /\ q * n \in Int
    OBVIOUS
  <2>4. q * n + s < p * n + r
    BY <2>1, <2>2, <2>3
  <2> QED BY <1>3, <2>3, <2>4 DEF compareNumbers, Pair
<1> QED BY <1>1, <1>2, <1>3

(* Four bytes are a long key.                                              *)
LEMMA KeyRange ==
  ASSUME NEW S, NEW x \in S, NEW y \in S, NEW z \in S, NEW w \in S
  PROVE  /\ <<x, y, z, w>> \in [1 .. 4 -> S]
         /\ <<x, y, z, w>>[1] = x /\ <<x, y, z, w>>[2] = y
         /\ <<x, y, z, w>>[3] = z /\ <<x, y, z, w>>[4] = w
<1>1. \A i \in 1 .. 4 : <<x, y, z, w>>[i] \in S
  <2>1. \A i \in 1 .. 4 : i = 1 \/ i = 2 \/ i = 3 \/ i = 4
    OBVIOUS
  <2> QED BY <2>1
<1> QED BY <1>1

(* checksum256.from is its own inverse.                                    *)
LEMMA ReversedTwice ==
  ASSUME NEW S, NEW a \in [1 .. 4 -> S]
  PROVE  /\ ReverseHalves(a) \in [1 .. 4 -> S]
         /\ ReverseHalves(ReverseHalves(a)) = a
<1> DEFINE b == <<a[2], a[1], a[4], a[3]>>
<1>1. ReverseHalves(a) = b
  BY HalvesReversed
<1>2. a[1] \in S /\ a[2] \in S /\ a[3] \in S /\ a[4] \in S
  OBVIOUS
<1>3. /\ b \in [1 .. 4 -> S]
      /\ b[1] = a[2] /\ b[2] = a[1] /\ b[3] = a[4] /\ b[4] = a[3]
  BY <1>2, KeyRange
<1> HIDE DEF b
<1>4. ReverseHalves(b) = <<b[2], b[1], b[4], b[3]>>
  BY <1>3, HalvesReversed
<1>5. ReverseHalves(b) = <<a[1], a[2], a[3], a[4]>>
  BY <1>3, <1>4
<1>6. a = <<a[1], a[2], a[3], a[4]>>
  BY KeyHalves
<1> QED BY <1>1, <1>3, <1>5, <1>6

(* The number of a uint128.                                                *)
LEMMA LongWritten ==
  ASSUME NEW a \in [1 .. 4 -> Bytes]
  PROVE  LET key == getLE(SecondHalf(a)) * Word64 + getLE(FirstHalf(a))
         IN  /\ key \in 0 .. Word64 * Word64 - 1
             /\ setLE(key % Word64) \o setLE(key \div Word64) = a
<1> DEFINE f == getLE(FirstHalf(a))
           s == getLE(SecondHalf(a))
           key == s * Word64 + f
<1>1. FirstHalf(a) = <<a[1], a[2]>> /\ SecondHalf(a) = <<a[3], a[4]>>
      /\ a = <<a[1], a[2], a[3], a[4]>>
  BY KeyHalves
<1>2. a[1] \in Bytes /\ a[2] \in Bytes /\ a[3] \in Bytes /\ a[4] \in Bytes
  OBVIOUS
<1>3. /\ f \in 0 .. Word64 - 1 /\ setLE(f) = <<a[1], a[2]>>
      /\ s \in 0 .. Word64 - 1 /\ setLE(s) = <<a[3], a[4]>>
  BY <1>1, <1>2, WordWritten
<1> HIDE DEF f, s
<1>4. key \in 0 .. Word64 * Word64 - 1
  BY <1>3, ByteSize, PairInRange
<1>5. key % Word64 = f /\ key \div Word64 = s
  BY <1>3, ByteSize, QuotientUnique
<1>6. <<a[1], a[2]>> \o <<a[3], a[4]>> = <<a[1], a[2], a[3], a[4]>>
  BY PairsJoined
<1> HIDE DEF key
<1>7. setLE(key % Word64) \o setLE(key \div Word64) = a
  BY <1>1, <1>3, <1>5, <1>6
<1> QED BY <1>4, <1>7 DEF key, f, s

(* The number of which a buffer has the digits.                            *)
BufferNumber(b) ==
  Pair(Word64, Pair(Byte, b[1], b[2]), Pair(Byte, b[3], b[4]))

(* Buffer.compare looks at the first difference.                           *)
LEMMA FirstDifference ==
  ASSUME NEW a \in [1 .. 4 -> Bytes], NEW b \in [1 .. 4 -> Bytes],
         NEW i \in 1 .. 4, a[i] # b[i], \A j \in 1 .. i - 1 : a[j] = b[j]
  PROVE  compareBuffers(a, b) = compareNumbers(a[i], b[i])
<1> DEFINE First(k) == /\ a[k] # b[k]
                       /\ \A j \in 1 .. k - 1 : a[j] = b[j]
           c == CHOOSE k \in 1 .. 4 : First(k)
<1>1. c \in 1 .. 4 /\ First(c)
  <2>1. \E k \in 1 .. 4 : First(k)
    OBVIOUS
  <2> HIDE DEF First
  <2> QED BY <2>1
<1>2. ~(c < i) /\ ~(i < c)
  <2> HIDE DEF c
  <2> QED BY <1>1
<1>3. c = i
  <2> HIDE DEF c, First
  <2> QED BY <1>1, <1>2
<1>4. a # b /\ DOMAIN a = 1 .. 4
  OBVIOUS
<1>5. compareBuffers(a, b) = IF a[c] < b[c] THEN -1 ELSE 1
  BY <1>4 DEF compareBuffers
<1> QED BY <1>3, <1>5 DEF compareNumbers

(* Buffer.compare orders buffers like the numbers of which they have the   *)
(* digits.                                                                 *)
LEMMA BuffersOrdered ==
  ASSUME NEW a \in [1 .. 4 -> Bytes], NEW b \in [1 .. 4 -> Bytes]
  PROVE  compareBuffers(a, b)
           = compareNumbers(BufferNumber(a), BufferNumber(b))
<1> DEFINE p == Pair(Byte, a[1], a[2])
           q == Pair(Byte, b[1], b[2])
           r == Pair(Byte, a[3], a[4])
           s == Pair(Byte, b[3], b[4])
<1>1. \A i \in 1 .. 4 : /\ a[i] \in Nat /\ a[i] < Byte
                         /\ b[i] \in Nat /\ b[i] < Byte
  BY ByteSize DEF Bytes
<1>2. /\ compareNumbers(p, q) = IF a[1] = b[1]
                                THEN compareNumbers(a[2], b[2])
                                ELSE compareNumbers(a[1], b[1])
      /\ compareNumbers(r, s) = IF a[3] = b[3]
                                THEN compareNumbers(a[4], b[4])
                                ELSE compareNumbers(a[3], b[3])
  <2>1. /\ a[1] \in Nat /\ b[1] \in Nat /\ a[3] \in Nat /\ b[3] \in Nat
        /\ a[2] \in Nat /\ b[2] \in Nat /\ a[4] \in Nat /\ b[4] \in Nat
        /\ a[2] < Byte /\ b[2] < Byte /\ a[4] < Byte /\ b[4] < Byte
    BY <1>1
  <2> HIDE DEF p, q, r, s
  <2>2. /\ a[1] = b[1] => compareNumbers(p, q) = compareNumbers(a[2], b[2])
        /\ a[1] # b[1] => compareNumbers(p, q) = compareNumbers(a[1], b[1])
    <3>1. /\ Byte \in Nat /\ a[1] \in Nat /\ b[1] \in Nat
          /\ a[2] \in Nat /\ a[2] < Byte /\ b[2] \in Nat /\ b[2] < Byte
      BY <2>1, ByteSize
    <3> QED BY ONLY <3>1, PairsOrdered DEF p, q
  <2>3. /\ a[3] = b[3] => compareNumbers(r, s) = compareNumbers(a[4], b[4])
        /\ a[3] # b[3] => compareNumbers(r, s) = compareNumbers(a[3], b[3])
    <3>1. /\ Byte \in Nat /\ a[3] \in Nat /\ b[3] \in Nat
          /\ a[4] \in Nat /\ a[4] < Byte /\ b[4] \in Nat /\ b[4] < Byte
      BY <2>1, ByteSize
    <3> QED BY ONLY <3>1, PairsOrdered DEF r, s
  <2> QED BY <2>2, <2>3
<1>3. /\ p \in Nat /\ q \in Nat /\ r \in Nat /\ s \in Nat
      /\ r < Word64 /\ s < Word64
  <2>1. ASSUME NEW x \in Nat, NEW y \in Nat, x < Byte, y < Byte
        PROVE  Pair(Byte, x, y) \in Nat /\ Pair(Byte, x, y) < Word64
    BY <2>1, ByteSize, PairInRange DEF Pair, Word64
  <2> QED BY <1>1, <2>1
<1>4. /\ BufferNumber(a) = Pair(Word64, p, r)
      /\ BufferNumber(b) = Pair(Word64, q, s)
  BY DEF BufferNumber
<1>5. (a[1] = b[1] /\ a[2] = b[2]) => p = q
  OBVIOUS
<1> HIDE DEF p, q, r, s
<1>6. compareNumbers(BufferNumber(a), BufferNumber(b))
        = IF p = q THEN compareNumbers(r, s) ELSE compareNumbers(p, q)
  BY <1>3, <1>4, ByteSize, PairsOrdered
<1>7. p = q <=> compareNumbers(p, q) = 0
  BY DEF compareNumbers
<1>8. \A x, y : compareNumbers(x, y) = 0 <=> x = y
  BY DEF compareNumbers
<1>9. CASE a[1] # b[1]
  <2>1. compareBuffers(a, b) = compareNumbers(a[1], b[1])
    BY <1>9, FirstDifference
  <2> QED BY <1>2, <1>6, <1>7, <1>8, <1>9, <2>1
<1>10. CASE a[1] = b[1] /\ a[2] # b[2]
  <2>1. \A j \in 1 .. 2 - 1 : a[j] = b[j]
    BY <1>10
  <2>2. compareBuffers(a, b) = compareNumbers(a[2], b[2])
    BY <1>10, <2>1, FirstDifference
  <2> QED BY <1>2, <1>6, <1>7, <1>8, <1>10, <2>2
<1>11. CASE a[1] = b[1] /\ a[2] = b[2] /\ a[3] # b[3]
  <2>1. \A j \in 1 .. 3 - 1 : a[j] = b[j]
    BY <1>11
  <2>2. compareBuffers(a, b) = compareNumbers(a[3], b[3])
    BY <1>11, <2>1, FirstDifference
  <2> QED BY <1>2, <1>5, <1>6, <1>11, <2>2
<1>12. CASE a[1] = b[1] /\ a[2] = b[2] /\ a[3] = b[3] /\ a[4] # b[4]
  <2>1. \A j \in 1 .. 4 - 1 : a[j] = b[j]
    BY <1>12
  <2>2. compareBuffers(a, b) = compareNumbers(a[4], b[4])
    BY <1>12, <2>1, FirstDifference
  <2> QED BY <1>2, <1>5, <1>6, <1>12, <2>2
<1>13. CASE a[1] = b[1] /\ a[2] = b[2] /\ a[3] = b[3] /\ a[4] = b[4]
  <2>1. a = b
    <3>1. \A i \in 1 .. 4 : i = 1 \/ i = 2 \/ i = 3 \/ i = 4
      OBVIOUS
    <3>2. \A i \in 1 .. 4 : a[i] = b[i]
      BY <1>13, <3>1
    <3> QED BY <3>2
  <2>2. compareBuffers(a, b) = 0
    BY <2>1 DEF compareBuffers
  <2> QED BY <1>8, <2>1, <2>2
<1> QED BY <1>9, <1>10, <1>11, <1>12, <1>13

(* The order of an index is that of the numbers that contracts mean.       *)
LEMMA KeysOrdered ==
  ASSUME NEW index \in AllIndexes, index # "idxDouble",
         NEW a \in KeyMemory(index), NEW b \in KeyMemory(index)
  PROVE  comparePrimitives(index, from(index, a), from(index, b))
           = compareNumbers(Meant(index, a), Meant(index, b))
<1>1. CASE index = "idx64"
  BY <1>1 DEF comparePrimitives, from, Meant, Indexes64
<1>2. CASE index = "idx128"
  BY <1>2 DEF comparePrimitives, from, Meant, Indexes64
<1>3. CASE index = "idx256"
  <2>1. ASSUME NEW c \in [1 .. 4 -> Bytes]
        PROVE  /\ ReverseHalves(c) \in [1 .. 4 -> Bytes]
               /\ BufferNumber(ReverseHalves(c)) = Meant("idx256", c)
    <3>1. ReverseHalves(c) \in [1 .. 4 -> Bytes]
      BY ReversedTwice
    <3>2. ReverseHalves(c) = <<c[2], c[1], c[4], c[3]>>
      BY HalvesReversed
    <3>3. FirstHalf(c) = <<c[1], c[2]>> /\ SecondHalf(c) = <<c[3], c[4]>>
      BY KeyHalves
    <3>4. BufferNumber(<<c[2], c[1], c[4], c[3]>>)
            = getLE(<<c[1], c[2]>>) * Word64 + getLE(<<c[3], c[4]>>)
      BY DEF BufferNumber, Pair, getLE
    <3>5. Meant("idx256", c)
            = getLE(FirstHalf(c)) * Word64 + getLE(SecondHalf(c))
      BY DEF Meant, Indexes64
    <3> QED BY <3>1, <3>2, <3>3, <3>4, <3>5
  <2>2. a \in [1 .. 4 -> Bytes] /\ b \in [1 .. 4 -> Bytes]
    BY <1>3, KeysAssumption DEF KeyMemory, Indexes64, Bytes
  <2>3. comparePrimitives(index, from(index, a), from(index, b))
          = compareBuffers(ReverseHalves(a), ReverseHalves(b))
    BY <1>3 DEF comparePrimitives, from
  <2> QED BY <1>3, <2>1, <2>2, <2>3, BuffersOrdered
<1> QED BY <1>1, <1>2, <1>3 DEF AllIndexes, Indexes64, LongIndexes

(* Number.MAX_VALUE is a number, below infinity.                           *)
LEMMA DoubleBits ==
  /\ Mantissas \in Nat /\ Mantissas > 1
  /\ SignBit \in Nat /\ SignBit >= 2 * Mantissas
  /\ MaxDouble \in Nat /\ MaxDouble < SignBit
  /\ ~IsNaN(MaxDouble) /\ Ordinal(MaxDouble) = MaxDouble
<1>1. /\ Mantissas \in Nat /\ Mantissas > 1
      /\ Word64 % (4 * Mantissas) = 0
  BY KeysAssumption DEF Word64
<1>2. Word64 >= 4 * Mantissas
  <2> SUFFICES ASSUME Word64 < 4 * Mantissas PROVE FALSE
    BY <1>1, ByteSize
  <2> DEFINE n == 4 * Mantissas
  <2>1. n \in Nat /\ n > 0 /\ Word64 \in 0 .. n - 1
    BY <1>1, ByteSize
  <2>2. (0 * n + Word64) % n = Word64
    BY <2>1, QuotientUnique
  <2> QED BY <1>1, <2>1, <2>2, ByteSize
<1>3. SignBit \in Nat /\ SignBit >= 2 * Mantissas
  BY <1>1, <1>2, ByteSize DEF SignBit
<1>4. MaxDouble \in Nat /\ MaxDouble < SignBit /\ MaxDouble < InfinityBits
      /\ InfinityBits \in Int
  BY <1>1, <1>3 DEF MaxDouble, InfinityBits
<1>5. MagnitudeBits(MaxDouble) = MaxDouble
  BY <1>3, <1>4 DEF MagnitudeBits
<1>6. ~IsNaN(MaxDouble) /\ Ordinal(MaxDouble) = MaxDouble
  BY <1>4, <1>5 DEF IsNaN, Ordinal
<1> QED BY <1>1, <1>3, <1>4, <1>6

(* The key that the search for the last entry starts from is not below any *)
(* other, doubles beyond MAX_VALUE excepted.                               *)
LEMMA NotAboveHighest ==
  ASSUME NEW index \in AllIndexes, NEW a \in KeyMemory(index),
         index = "idxDouble"
           => ~IsNaN(from(index, a)) /\ from(index, a) # InfinityBits
  PROVE  comparePrimitives(index, from(index, a), highest(index)) <= 0
<1>1. CASE index \in Indexes64
  <2>1. a \in [1 .. 2 -> Bytes]
    BY <1>1 DEF KeyMemory, Bytes
  <2>2. a = <<a[1], a[2]>> /\ a[1] \in Bytes /\ a[2] \in Bytes
    BY <2>1
  <2>3. getLE(a) \in 0 .. Word64 - 1 /\ getBE(a) \in 0 .. Word64 - 1
    BY <2>2, WordWritten
  <2>4. CASE index = "idx64"
    <3>1. comparePrimitives(index, from(index, a), highest(index))
            = compareNumbers(getLE(a), Word64 - 1)
      BY <2>4 DEF comparePrimitives, from, highest
    <3> QED BY <2>3, <3>1, ByteSize DEF compareNumbers
  <2>5. CASE index = "idxDouble"
    <3> DEFINE k == getBE(a)
    <3>1. from(index, a) = k /\ ~IsNaN(k) /\ k # InfinityBits
      BY <2>5 DEF from
    <3>2. comparePrimitives(index, k, highest(index))
            = compareNumbers(Ordinal(k), MaxDouble)
      BY <2>5, <3>1, DoubleBits DEF comparePrimitives, highest
    <3>3. k \in Nat
      BY <2>3, ByteSize
    <3> HIDE DEF k
    <3>4. Ordinal(k) \in Int /\ Ordinal(k) <= MaxDouble
      <4>1. k % SignBit \in 0 .. SignBit - 1
        BY <3>3, DoubleBits
      <4>2. CASE k < SignBit
        <5>1. MagnitudeBits(k) = k
          BY <3>3, <4>2, DoubleBits DEF MagnitudeBits
        <5> QED BY <3>1, <3>3, <4>2, <5>1, DoubleBits
            DEF IsNaN, Ordinal, MaxDouble, InfinityBits
      <4>3. CASE ~(k < SignBit)
        BY <4>1, <4>3, DoubleBits DEF Ordinal, MagnitudeBits
      <4> QED BY <4>2, <4>3
    <3> QED BY <3>1, <3>2, <3>4, DoubleBits DEF compareNumbers
  <2> QED BY <1>1, <2>4, <2>5 DEF Indexes64
<1>2. CASE index \in LongIndexes
  <2>1. a \in [1 .. 4 -> Bytes]
    BY <1>2, KeysAssumption DEF KeyMemory, Indexes64, LongIndexes, Bytes
  <2>2. CASE index = "idx128"
    <3> DEFINE key == getLE(SecondHalf(a)) * Word64 + getLE(FirstHalf(a))
    <3>1. key \in 0 .. Word64 * Word64 - 1
      BY <2>1, LongWritten
    <3>2. comparePrimitives(index, from(index, a), highest(index))
            = compareNumbers(key, Word64 * Word64 - 1)
      BY <2>2 DEF comparePrimitives, from, highest
    <3> HIDE DEF key
    <3>3. Word64 * Word64 - 1 \in Int
      BY ByteSize
    <3> QED BY <3>1, <3>2, <3>3 DEF compareNumbers
  <2>3. CASE index = "idx256"
    <3> DEFINE k == ReverseHalves(a)
               h == highest(index)
    <3>1. k \in [1 .. 4 -> Bytes]
      BY <2>1, ReversedTwice
    <3>2. h = <<Byte - 1, Byte - 1, Byte - 1, Byte - 1>>
      BY <2>3 DEF highest
    <3>3. /\ Byte - 1 \in Bytes
          /\ \A x \in Bytes : x \in Int /\ x <= Byte - 1
      BY ByteSize DEF Bytes
    <3>4. /\ h \in [1 .. 4 -> Bytes]
          /\ h[1] = Byte - 1 /\ h[2] = Byte - 1
          /\ h[3] = Byte - 1 /\ h[4] = Byte - 1
      BY <3>2, <3>3, KeyRange
    <3>5. comparePrimitives(index, from(index, a), h) = compareBuffers(k, h)
      BY <2>3 DEF comparePrimitives, from
    <3> HIDE DEF k, h
    <3>6. \A i \in 1 .. 4 : h[i] = Byte - 1
      BY <3>4
    <3>7. \A i \in 1 .. 4 : k[i] # h[i] => k[i] < h[i]
      BY <3>1, <3>3, <3>6, ByteSize
    <3>8. CASE k = h
      BY <3>5, <3>8 DEF compareBuffers, h
    <3>9. CASE k # h
      <4>1. \E i \in 1 .. 4 : k[i] # h[i]
        BY <3>1, <3>4, <3>9
      <4>2. PICK i \in 1 .. 4 : k[i] # h[i] /\ \A j \in 1 .. i - 1 : k[j] = h[j]
        BY <4>1
      <4>3. compareBuffers(k, h) = compareNumbers(k[i], h[i])
        BY <3>1, <3>4, <4>2, FirstDifference
      <4>4. compareBuffers(k, h) = -1
        BY <3>7, <4>2, <4>3 DEF compareNumbers
      <4> QED BY <3>5, <4>4 DEF h
    <3> QED BY <3>8, <3>9
  <2> QED BY <1>2, <2>2, <2>3 DEF LongIndexes
<1> QED BY <1>1, <1>2 DEF AllIndexes

(* Then the search finds the last of all.                                  *)
LEMMA LastFound ==
  ASSUME NEW index, NEW keys,
         \A k \in keys : comparePrimitives(index, k, highest(index)) <= 0
  PROVE  penultimate(index, keys)
           = {k \in keys : \A l \in keys :
                comparePrimitives(index, l, k) <= 0}
<1> DEFINE LessOrSame(a, b) == comparePrimitives(index, a, b) <= 0
<1> HIDE DEF LessOrSame
<1>1. \A k \in keys : LessOrSame(k, highest(index))
  BY DEF LessOrSame
<1>2. {k \in keys : /\ LessOrSame(k, highest(index))
                    /\ \A l \in keys : LessOrSame(l, highest(index))
                         => LessOrSame(l, k)}
        = {k \in keys : \A l \in keys : LessOrSame(l, k)}
  BY <1>1
<1> QED BY <1>2 DEF penultimate, LessOrSame

(* What a contract gets that stores c.a and c.b.                           *)
Answer(c, nan) ==
  [order |-> comparePrimitives(c.fn, from(c.fn, c.a), from(c.fn, c.b)),
   read  |-> to(c.fn, from(c.fn, c.a), nan),
   shown |-> convertSecondary(c.fn, from(c.fn, c.a), nan),
   last  |-> penultimate(c.fn, {from(c.fn, c.a), from(c.fn, c.b)})]

AnswerInv == /\ call.fn \in AllIndexes
             /\ call.a \in KeyMemory(call.fn)
             /\ call.b \in KeyMemory(call.fn)
             /\ result # pending => \E nan : result = Answer(call, nan)

(* The result is that of the conversions and comparisons for the call's    *)
(* keys.                                                                   *)
THEOREM AnswersComputed == KeysSpec => []AnswerInv
<1>1. KeysInit => AnswerInv
  BY DEF KeysInit, AnswerInv
<1>2. AnswerInv /\ [CallIndex \/ Return]_callVars => AnswerInv'
  <2> SUFFICES ASSUME AnswerInv, [CallIndex \/ Return]_callVars
               PROVE  AnswerInv'
    OBVIOUS
  <2>1. CASE CallIndex
    BY <2>1 DEF AnswerInv, CallIndex, Call, Answer
  <2>2. CASE Return
    BY <2>2 DEF AnswerInv, Return
  <2>3. CASE UNCHANGED callVars
    BY <2>3 DEF AnswerInv, callVars
  <2> QED BY <2>1, <2>2, <2>3
<1> QED BY <1>1, <1>2, PTL DEF KeysSpec

(* Integer and checksum indexes are in the order of the numbers that       *)
(* contracts mean, and the last entry is found in every index, infinite    *)
(* doubles and NaNs excepted.                                              *)
THEOREM KeysStayInOrder == KeysSpec => []KeysInOrder
<1>1. AnswerInv => KeysInOrder
  <2> SUFFICES ASSUME AnswerInv, result # pending PROVE KeysInOrder
    BY DEF KeysInOrder, Returned
  <2> DEFINE stored == {from(call.fn, call.a), from(call.fn, call.b)}
  <2>1. /\ call.fn \in AllIndexes
        /\ call.a \in KeyMemory(call.fn) /\ call.b \in KeyMemory(call.fn)
    BY DEF AnswerInv
  <2>2. /\ result.order = comparePrimitives(call.fn, from(call.fn, call.a),
                                            from(call.fn, call.b))
        /\ result.last = penultimate(call.fn, stored)
    BY DEF AnswerInv, Answer
  <2>3. call.fn # "idxDouble" =>
          result.order = compareNumbers(Meant(call.fn, call.a),
                                        Meant(call.fn, call.b))
    BY <2>1, <2>2, KeysOrdered
  <2>4. ASSUME ~ /\ call.fn = "idxDouble"
                 /\ \E k \in stored : IsNaN(k) \/ k = InfinityBits
        PROVE  result.last = {k \in stored : \A l \in stored :
                                comparePrimitives(call.fn, l, k) <= 0}
    <3>1. \A k \in stored :
             comparePrimitives(call.fn, k, highest(call.fn)) <= 0
      BY <2>1, <2>4, NotAboveHighest
    <3> HIDE DEF stored
    <3> QED BY <2>2, <3>1, LastFound
  <2> HIDE DEF stored
  <2>5. (/\ call.fn = "idxDouble"
         /\ \E k \in stored : IsNaN(k) \/ k = InfinityBits)
        \/ result.last = {k \in stored : \A l \in stored :
                             comparePrimitives(call.fn, l, k) <= 0}
    BY <2>4
  <2> QED BY <2>3, <2>5, Zenon DEF KeysInOrder, stored
<1> QED BY <1>1, AnswersComputed, PTL

(* A contract reads the bytes of the key that it stored, and the deltas    *)
(* show what they mean, unless they are a double that is a NaN in the      *)
(* other byte order.                                                       *)
THEOREM KeysAreReadBack == KeysSpec => []KeysReadBack
<1>1. AnswerInv => KeysReadBack
  <2> SUFFICES ASSUME AnswerInv, result # pending PROVE KeysReadBack
    BY DEF KeysReadBack, Returned
  <2> DEFINE index == call.fn
             a == call.a
             key == from(index, a)
  <2>1. index \in AllIndexes /\ a \in KeyMemory(index)
    BY DEF AnswerInv
  <2>2. PICK nan : result = Answer(call, nan)
    BY DEF AnswerInv
  <2>3. result.read = to(index, key, nan)
        /\ result.shown = convertSecondary(index, key, nan)
    BY <2>2 DEF Answer
  <2> HIDE DEF index, a
  <2>4. CASE index \in Indexes64
    <3>1. a \in [1 .. 2 -> Bytes]
      BY <2>1, <2>4 DEF KeyMemory, Bytes
    <3>2. a = <<a[1], a[2]>> /\ a[1] \in Bytes /\ a[2] \in Bytes
      BY <3>1
    <3>3. setLE(getLE(a)) = a /\ setBE(getBE(a)) = a
      BY <3>2, WordWritten
    <3>4. CASE index = "idx64"
      <4>1. key = getLE(a) /\ Meant(index, a) = getLE(a)
        BY <3>4 DEF from, Meant, Indexes64
      <4> HIDE DEF key
      <4>2. to(index, key, nan) = a /\ convertSecondary(index, key, nan) = key
        BY <3>3, <3>4, <4>1 DEF to, convertSecondary
      <4> QED BY <2>3, <3>4, <4>1, <4>2 DEF KeysReadBack, index, a
    <3>5. CASE index = "idxDouble" /\ ~IsNaN(getBE(a))
      <4>1. key = getBE(a) /\ Meant(index, a) = getLE(a)
        BY <3>5 DEF from, Meant, Indexes64
      <4> HIDE DEF key
      <4>2. to(index, key, nan) = a
        BY <3>3, <3>5, <4>1 DEF to
      <4>3. convertSecondary(index, key, nan) = getLE(a)
        BY <3>5, <4>2 DEF convertSecondary
      <4> QED BY <2>3, <3>5, <4>1, <4>2, <4>3 DEF KeysReadBack, index, a
    <3>6. CASE index = "idxDouble" /\ IsNaN(getBE(a))
      BY <3>6 DEF KeysReadBack, index, a
    <3> QED BY <2>4, <3>4, <3>5, <3>6 DEF Indexes64
  <2>5. CASE index \in LongIndexes
    <3>1. a \in [1 .. 4 -> Bytes]
      BY <2>1, <2>5, KeysAssumption
        DEF KeyMemory, Indexes64, LongIndexes, Bytes
    <3>2. CASE index = "idx128"
      <4>1. key = getLE(SecondHalf(a)) * Word64 + getLE(FirstHalf(a))
            /\ Meant(index, a) = key
        BY <3>2 DEF from, Meant, Indexes64
      <4>2. setLE(key % Word64) \o setLE(key \div Word64) = a
        BY <3>1, <4>1, LongWritten
      <4> HIDE DEF key
      <4>3. to(index, key, nan) = a /\ convertSecondary(index, key, nan) = key
        BY <3>2, <4>2 DEF to, convertSecondary
      <4> QED BY <2>3, <3>2, <4>1, <4>3 DEF KeysReadBack, index, a
    <3>3. CASE index = "idx256"
      <4>1. ReverseHalves(ReverseHalves(a)) = a
        BY <3>1, ReversedTwice
      <4>2. key = ReverseHalves(a)
        BY <3>3 DEF from
      <4> HIDE DEF key
      <4>3. to(index, key, nan) = a /\ convertSecondary(index, key, nan) = a
        BY <3>3, <4>1, <4>2 DEF to, convertSecondary
      <4> QED BY <2>3, <3>3, <4>3 DEF KeysReadBack, index, a
    <3> QED BY <2>5, <3>2, <3>3 DEF LongIndexes
  <2> QED BY <2>1, <2>4, <2>5 DEF AllIndexes
<1> QED BY <1>1, AnswersComputed, PTL

-----------------------------------------------------------------------------
(* Time and block number.                                                  *)

(* Time and block number start, and stay, at the distance recorded in      *)
(* `moved`, and the time is not negative.                                  *)
THEOREM TimeInvariance == TimeSpec => []TimeInvariant
<1>1. TimeInit => TimeInvariant
  BY TimeAssumption DEF TimeInit, TimeInvariant, TimeTypeOK
<1>2. TimeInvariant /\ [TimeNext]_timeVars => TimeInvariant'
  <2> SUFFICES ASSUME TimeInvariant, [TimeNext]_timeVars
               PROVE  TimeInvariant'
    OBVIOUS
  <2>1. ASSUME NEW ms \in Int, timestamp + ms >= 0, AddMilliseconds(ms)
        PROVE  TimeInvariant'
    BY <2>1 DEF AddMilliseconds, TimeInvariant, TimeTypeOK
  <2>2. ASSUME NEW time \in Times, setTime(time)
        PROVE  TimeInvariant'
    BY <2>2, TimeAssumption DEF setTime, TimeInvariant, TimeTypeOK
  <2>3. ASSUME NEW time \in Times, addTime(time)
        PROVE  TimeInvariant'
    <3>1. time \in Int /\ timestamp + time >= 0
      BY TimeAssumption DEF TimeInvariant, TimeTypeOK
    <3> QED BY <2>1, <2>3, <3>1 DEF addTime
  <2>4. ASSUME NEW time \in Times, subtractTime(time)
        PROVE  TimeInvariant'
    <3>1. -time \in Int /\ timestamp + (-time) >= 0
      BY <2>4, TimeAssumption DEF subtractTime, TimeInvariant, TimeTypeOK
    <3> QED BY <2>1, <2>4, <3>1 DEF subtractTime
  <2>5. ASSUME NEW n \in Numbers, addBlocks(n)
        PROVE  TimeInvariant'
    <3>1. n * BlockTime \in Nat
      BY TimeAssumption
    <3>2. timestamp + n * BlockTime >= 0
      BY <3>1 DEF TimeInvariant, TimeTypeOK
    <3> QED BY <2>1, <2>5, <3>1, <3>2 DEF addBlocks
  <2>6. CASE UNCHANGED timeVars
    BY <2>6 DEF timeVars, TimeInvariant, TimeTypeOK
  <2> QED BY <2>2, <2>3, <2>4, <2>5, <2>6 DEF TimeNext
<1> QED BY <1>1, <1>2, PTL DEF TimeSpec

(* Neither the time nor, as long as the time is not ahead of the blocks,   *)
(* the block number that contracts read is ever negative.                  *)
THEOREM NeverNegative == TimeSpec => []TimeNeverNegative
<1>1. TimeInvariant => TimeNeverNegative
  <2> SUFFICES ASSUME TimeInvariant, moved <= 0
               PROVE  get_block_num >= 0
    BY DEF TimeInvariant, TimeNeverNegative
  <2>1. blockNum \in Int /\ blockNum >= 0
    BY DEF TimeInvariant, TimeTypeOK
  <2>2. blockNum \div BlockTime >= 0
    BY <2>1, TimeAssumption
  <2> QED BY <2>1, <2>2 DEF get_block_num
<1> QED BY <1>1, TimeInvariance, PTL

-----------------------------------------------------------------------------
(* Loops.                                                                  *)

(* Every set of natural numbers has a least one.                           *)
LEMMA LeastNatural ==
  ASSUME NEW T \in SUBSET Nat, T # {}
  PROVE  \E x \in T : \A y \in T : x <= y
<1> DEFINE R == OpToRel(<, Nat)
<1>0. IsWellFoundedOn(R, Nat) /\ T \subseteq Nat
  BY NatLessThanWellFounded
<1>1. PICK x \in T : \A y \in T : ~(<<y, x>> \in R)
  <2> HIDE DEF R
  <2> QED BY <1>0, WFMin
<1>2. ASSUME NEW y \in T PROVE x <= y
  <2>1. CASE y < x
    <3>1. <<y, x>> \in OpToRel(<, Nat)
      BY <2>1 DEF OpToRel
    <3> QED BY <1>1, <3>1
  <2> QED BY <2>1
<1> QED BY <1>2

(* Induction, over a set.                                                  *)
LEMMA SetInduction ==
  ASSUME NEW S, 0 \in S, \A n \in Nat : n \in S => n + 1 \in S
  PROVE  \A n \in Nat : n \in S
<1>1. SUFFICES ASSUME NEW m \in Nat, m \notin S PROVE FALSE
  OBVIOUS
<1> DEFINE T == {n \in Nat : n \notin S}
<1>2. PICK x \in T : \A y \in T : x <= y
  BY <1>1, LeastNatural
<1>3. x # 0 /\ x - 1 \in Nat /\ x - 1 \in S
  BY <1>2
<1> QED BY <1>2, <1>3

(* What f says of n rounds: each is the step from the one before.         *)
Runs(f, n, S, init, step) ==
  /\ f \in [0 .. n -> S]
  /\ f[0] = init
  /\ \A i \in 1 .. n : f[i] = step[i][f[i - 1]]

(* What f says of all rounds.                                              *)
RunsOn(f, S, init, step) ==
  /\ f \in [Nat -> S]
  /\ f[0] = init
  /\ \A i \in Nat \ {0} : f[i] = step[i][f[i - 1]]

(* So many rounds can be made.                                             *)
LEMMA FiniteLoop ==
  ASSUME NEW S, NEW init \in S, NEW step \in [Nat -> [S -> S]], NEW N \in Nat
  PROVE  \E f : Runs(f, N, S, init, step)
<1> DEFINE P == {n \in Nat : \E f : Runs(f, n, S, init, step)}
<1>1. 0 \in P
  <2> DEFINE g == [i \in 0 .. 0 |-> init]
  <2>1. Runs(g, 0, S, init, step)
    BY DEF Runs
  <2> QED BY <2>1
<1>2. ASSUME NEW n \in Nat, n \in P PROVE n + 1 \in P
  <2>1. PICK f : Runs(f, n, S, init, step)
    BY <1>2
  <2> DEFINE g == [i \in 0 .. n + 1 |->
                     IF i = n + 1 THEN step[n + 1][f[n]] ELSE f[i]]
  <2>2. f \in [0 .. n -> S] /\ step[n + 1][f[n]] \in S
    BY <2>1 DEF Runs
  <2>3. g \in [0 .. n + 1 -> S] /\ g[0] = init
    BY <2>1, <2>2 DEF Runs
  <2>4. ASSUME NEW i \in 1 .. n + 1 PROVE g[i] = step[i][g[i - 1]]
    <3>1. CASE i = n + 1
      <4>1. g[i] = step[n + 1][f[n]] /\ g[i - 1] = f[n]
        BY <3>1
      <4> QED BY <3>1, <4>1
    <3>2. CASE i # n + 1
      <4>1. i \in 1 .. n /\ g[i] = f[i] /\ g[i - 1] = f[i - 1]
        BY <3>2
      <4> QED BY <2>1, <4>1 DEF Runs
    <3> QED BY <3>1, <3>2
  <2> HIDE DEF g
  <2>5. Runs(g, n + 1, S, init, step)
    BY <2>3, <2>4 DEF Runs
  <2> QED BY <2>5
<1> HIDE DEF P
<1>3. \A n \in Nat : n \in P
  BY <1>1, <1>2, SetInduction
<1> QED BY <1>3 DEF P

(* And any number of them.                                                 *)
LEMMA Loop ==
  ASSUME NEW S, NEW init \in S, NEW step \in [Nat -> [S -> S]]
  PROVE  \E f : RunsOn(f, S, init, step)
<1> DEFINE F == [n \in Nat |-> CHOOSE f : Runs(f, n, S, init, step)]
           g == [n \in Nat |-> F[n][n]]
<1>1. ASSUME NEW n \in Nat PROVE Runs(F[n], n, S, init, step)
  BY FiniteLoop
<1> HIDE DEF F
<1>2. ASSUME NEW n \in Nat PROVE F[n + 1][n] = F[n][n]
  <2> DEFINE P == {i \in Nat : i <= n => F[n + 1][i] = F[n][i]}
  <2>1. 0 \in P
    BY <1>1 DEF Runs
  <2>2. ASSUME NEW i \in Nat, i \in P PROVE i + 1 \in P
    <3>1. SUFFICES ASSUME i + 1 <= n PROVE F[n + 1][i + 1] = F[n][i + 1]
      OBVIOUS
    <3>2. F[n][i + 1] = step[i + 1][F[n][(i + 1) - 1]]
      BY <1>1, <3>1 DEF Runs
    <3>3. F[n + 1][i + 1] = step[i + 1][F[n + 1][(i + 1) - 1]]
      BY <1>1, <3>1 DEF Runs
    <3>4. (i + 1) - 1 = i /\ F[n + 1][i] = F[n][i]
      BY <2>2, <3>1
    <3> QED BY <3>2, <3>3, <3>4
  <2> HIDE DEF P
  <2>3. n \in P
    BY <2>1, <2>2, SetInduction
  <2> QED BY <2>3 DEF P
<1>3. g \in [Nat -> S]
  BY <1>1 DEF Runs
<1>4. g[0] = init
  BY <1>1 DEF Runs
<1>5. ASSUME NEW i \in Nat \ {0} PROVE g[i] = step[i][g[i - 1]]
  <2>1. i - 1 \in Nat /\ (i - 1) + 1 = i
    OBVIOUS
  <2>2. F[i][i - 1] = F[i - 1][i - 1]
    BY <2>1, <1>2
  <2>3. F[i][i] = step[i][F[i][i - 1]]
    BY <1>1 DEF Runs
  <2> QED BY <2>1, <2>2, <2>3
<1> HIDE DEF g
<1>6. RunsOn(g, S, init, step)
  BY <1>3, <1>4, <1>5 DEF RunsOn
<1> QED BY <1>6

-----------------------------------------------------------------------------
(* Powers.                                                                 *)

(* The definition, without the function that it is made of.                *)
LEMMA PowerRecursion ==
  ASSUME NEW n \in Int
  PROVE  /\ Power(n, 0) = 1
         /\ \A k \in Nat : /\ Power(n, k) \in Int
                           /\ Power(n, k + 1) = n * Power(n, k)
<1> DEFINE step == [i \in Nat |-> [v \in Int |-> n * v]]
           P(f) == f = [i \in Nat |-> IF i = 0 THEN 1 ELSE n * f[i - 1]]
           power == CHOOSE f : P(f)
<1>1. step \in [Nat -> [Int -> Int]] /\ 1 \in Int
  OBVIOUS
<1>2. PICK f : RunsOn(f, Int, 1, step)
  <2> HIDE DEF step
  <2> QED BY <1>1, Loop
<1>3. f \in [Nat -> Int] /\ f[0] = 1
  BY <1>2 DEF RunsOn
<1>4. ASSUME NEW i \in Nat \ {0} PROVE f[i] = n * f[i - 1]
  <2>1. i \in Nat /\ i - 1 \in Nat /\ f[i - 1] \in Int
    BY <1>3
  <2>2. f[i] = step[i][f[i - 1]]
    BY <1>2 DEF RunsOn
  <2> QED BY <2>1, <2>2
<1>5. P(f)
  BY <1>3, <1>4
<1> HIDE DEF P
<1>6. P(power)
  BY <1>5
<1>7. \A k : Power(n, k) = power[k]
  BY DEF P, Power
<1> HIDE DEF power
<1>8. power = [i \in Nat |-> IF i = 0 THEN 1 ELSE n * power[i - 1]]
  BY <1>6 DEF P
<1>9. power[0] = 1
  BY <1>8
<1>10. ASSUME NEW k \in Nat PROVE power[k + 1] = n * power[k]
  <2>1. k + 1 \in Nat /\ k + 1 # 0 /\ (k + 1) - 1 = k
    OBVIOUS
  <2> QED BY <1>8, <2>1
<1>11. ASSUME NEW k \in Nat PROVE power[k] \in Int
  <2> DEFINE S == {i \in Nat : power[i] \in Int}
  <2>1. 0 \in S
    BY <1>9
  <2>2. ASSUME NEW i \in Nat, i \in S PROVE i + 1 \in S
    BY <1>10, <2>2
  <2> HIDE DEF S
  <2>3. k \in S
    BY <2>1, <2>2, SetInduction
  <2> QED BY <2>3 DEF S
<1> QED BY <1>7, <1>9, <1>10, <1>11

(* Powers of a natural number are positive unless it is 0.                 *)
LEMMA PowerNatural ==
  ASSUME NEW n \in Nat, NEW k \in Nat
  PROVE  /\ Power(n, 0) = 1
         /\ Power(n, k + 1) = n * Power(n, k)
         /\ Power(n, k) \in Nat
         /\ n > 0 => Power(n, k) > 0
<1> DEFINE S == {i \in Nat : /\ Power(n, i) \in Nat
                             /\ n > 0 => Power(n, i) > 0}
<1>1. 0 \in S
  BY PowerRecursion
<1>2. ASSUME NEW i \in Nat, i \in S PROVE i + 1 \in S
  <2> DEFINE p == Power(n, i)
  <2>1. Power(n, i + 1) = n * p /\ p \in Nat /\ (n > 0 => p > 0)
    BY <1>2, PowerRecursion
  <2> HIDE DEF p
  <2>2. n * p \in Nat /\ (n > 0 => n * p > 0)
    BY <2>1
  <2> QED BY <2>1, <2>2
<1> HIDE DEF S
<1>3. k \in S
  BY <1>1, <1>2, SetInduction
<1>4. Power(n, 0) = 1 /\ Power(n, k + 1) = n * Power(n, k)
  BY PowerRecursion
<1> QED BY <1>3, <1>4 DEF S

(* Exponents add up.                                                       *)
LEMMA PowerSum ==
  ASSUME NEW n \in Nat, NEW j \in Nat, NEW k \in Nat
  PROVE  Power(n, j + k) = Power(n, j) * Power(n, k)
<1> DEFINE a == Power(n, j)
           S == {i \in Nat : Power(n, j + i) = a * Power(n, i)}
<1>0. a \in Nat
  BY PowerNatural
<1>1. 0 \in S
  <2>1. Power(n, 0) = 1 /\ j + 0 = j
    BY PowerRecursion
  <2>2. a * 1 = a
    BY <1>0
  <2> QED BY <2>1, <2>2
<1>2. ASSUME NEW i \in Nat, i \in S PROVE i + 1 \in S
  <2> DEFINE p == Power(n, i)
             q == Power(n, j + i)
  <2>1. /\ Power(n, i + 1) = n * p /\ p \in Nat
        /\ Power(n, (j + i) + 1) = n * q /\ q = a * p
    BY <1>2, PowerRecursion, PowerNatural
  <2>2. (j + i) + 1 = j + (i + 1)
    OBVIOUS
  <2> HIDE DEF p, q, a
  <2>3. n * (a * p) = a * (n * p)
    BY ONLY <1>0, <2>1, n \in Nat
  <2> QED BY <2>1, <2>2, <2>3
<1> HIDE DEF S
<1>3. k \in S
  BY <1>1, <1>2, SetInduction
<1> QED BY <1>3 DEF S

(* A power of the square is one of twice the exponent.                     *)
LEMMA PowerOfSquare ==
  ASSUME NEW n \in Nat, NEW k \in Nat
  PROVE  Power(n * n, k) = Power(n, 2 * k)
<1> DEFINE S == {i \in Nat : Power(n * n, i) = Power(n, 2 * i)}
<1>1. 0 \in S
  BY PowerRecursion
<1>2. ASSUME NEW i \in Nat, i \in S PROVE i + 1 \in S
  <2> DEFINE p == Power(n, 2 * i)
  <2>1. p \in Nat
    BY PowerNatural
  <2>2. Power(n * n, i + 1) = (n * n) * p
    BY <1>2, PowerRecursion
  <2>3. Power(n, 2 * i + 1) = n * p
    BY PowerRecursion
  <2>4. Power(n, (2 * i + 1) + 1) = n * (n * p)
    BY <2>3, PowerRecursion
  <2>5. (2 * i + 1) + 1 = 2 * (i + 1)
    OBVIOUS
  <2> HIDE DEF p
  <2>6. (n * n) * p = n * (n * p)
    BY <2>1
  <2> QED BY <2>2, <2>4, <2>5, <2>6
<1> HIDE DEF S
<1>3. k \in S
  BY <1>1, <1>2, SetInduction
<1> QED BY <1>3 DEF S

-----------------------------------------------------------------------------
(* mod_exp.                                                                *)

(* Multiples of the modulus do not matter.                                 *)
LEMMA ModuloShift ==
  ASSUME NEW m \in Nat, m > 0, NEW k \in Int, NEW v \in Int
  PROVE  (k * m + v) % m = v % m
<1> DEFINE q == v \div m
           r == v % m
<1>1. q \in Int /\ r \in 0 .. m - 1 /\ v = q * m + r
  BY QuotientExists
<1> HIDE DEF q
<1>2. k * m + v = (k + q) * m + r
  BY <1>1
<1> HIDE DEF r
<1>3. ((k + q) * m + r) % m = r
  BY <1>1, QuotientUnique
<1>4. (k * m + v) % m = r
  BY <1>2, <1>3
<1> QED BY <1>4 DEF r

(* A factor may be reduced before the multiplication.                      *)
LEMMA ModuloTimes ==
  ASSUME NEW m \in Nat, m > 0, NEW v \in Int, NEW w \in Int
  PROVE  ((v % m) * w) % m = (v * w) % m
<1> DEFINE q == v \div m
           r == v % m
<1>1. q \in Int /\ r \in Int /\ v = q * m + r
  BY QuotientExists
<1> HIDE DEF q, r
<1>2. v * w = (q * w) * m + r * w /\ q * w \in Int /\ r * w \in Int
  BY <1>1
<1>3. ((q * w) * m + r * w) % m = (r * w) % m
  BY <1>2, ModuloShift
<1>4. (v * w) % m = (r * w) % m
  BY <1>2, <1>3
<1> QED BY <1>4 DEF r

(* Numbers with the same remainder may stand for each other in products.   *)
LEMMA ModuloFactor ==
  ASSUME NEW m \in Nat, m > 0, NEW v \in Int, NEW w \in Int, NEW y \in Int,
         v % m = w % m
  PROVE  (y * v) % m = (y * w) % m
<1>1. (v * y) % m = (w * y) % m
  <2>1. ((v % m) * y) % m = (v * y) % m
    BY ModuloTimes
  <2>2. ((w % m) * y) % m = (w * y) % m
    BY ModuloTimes
  <2> QED BY <2>1, <2>2
<1>2. v * y = y * v /\ w * y = y * w
  OBVIOUS
<1> QED BY <1>1, <1>2

(* Half of a number and its lowest bit.                                    *)
LEMMA Halved ==
  ASSUME NEW n \in Nat, n > 0
  PROVE  /\ n \div 2 \in Nat /\ n \div 2 < n
         /\ n % 2 \in {0, 1} /\ n = 2 * (n \div 2) + (n % 2)
  OBVIOUS

(* And so may the base of a power.                                         *)
LEMMA ModuloPower ==
  ASSUME NEW m \in Nat, m > 0, NEW n \in Nat, NEW k \in Nat
  PROVE  Power(n % m, k) % m = Power(n, k) % m
<1> DEFINE r == n % m
           S == {i \in Nat : Power(r, i) % m = Power(n, i) % m}
<1>0. r \in Nat
  BY QuotientExists
<1>1. 0 \in S
  BY <1>0, PowerRecursion
<1>2. ASSUME NEW i \in Nat, i \in S PROVE i + 1 \in S
  <2> DEFINE p == Power(r, i)
             q == Power(n, i)
  <2>1. p \in Int /\ q \in Int /\ p % m = q % m /\ n \in Int
    BY <1>0, <1>2, PowerNatural
  <2>2. Power(r, i + 1) = r * p /\ Power(n, i + 1) = n * q
    <3>1. r \in Int /\ n \in Int
      BY <1>0
    <3> QED BY <3>1, PowerRecursion
  <2> HIDE DEF p, q
  <2>3. (r * p) % m = (n * p) % m
    BY <2>1, ModuloTimes, Zenon DEF r
  <2>4. (n * p) % m = (n * q) % m
    BY <2>1, ModuloFactor, Zenon
  <2>5. (r * p) % m = (n * q) % m
    BY <2>3, <2>4
  <2> QED BY <2>2, <2>5
<1> HIDE DEF S
<1>3. k \in S
  BY <1>1, <1>2, SetInduction
<1> QED BY <1>3 DEF S

(* What a round of the loop of expmod keeps: the product of the result so  *)
(* far with the power that is left to compute.                             *)
Left(s, m) == (s.res * Power(s.a, s.power)) % m

(* What the loop keeps track of.                                           *)
States == [res : Nat, a : Nat, power : Nat]

(* It also makes the exponent smaller, and the result when it is done.     *)
LEMMA RoundKeeps ==
  ASSUME NEW m \in Nat, m > 0, NEW s \in States, s.power > 0
  PROVE  /\ Round(s, m) \in States
         /\ Left(Round(s, m), m) = Left(s, m)
         /\ Round(s, m).power < s.power
         /\ Round(s, m).power = 0 => Round(s, m).res < m
<1> DEFINE t == Round(s, m)
           r == s.res
           a == s.a
           h == s.power \div 2
           b == s.power % 2
           c == (a * a) % m
           x == (r * a) % m
           p == Power(a * a, h)
           q == Power(c, h)
<1>1. r \in Nat /\ a \in Nat /\ s.power \in Nat
  BY DEF States
<1>2. h \in Nat /\ b \in {0, 1} /\ s.power = 2 * h + b /\ h < s.power
  <2> HIDE DEF t, r, a, c, x, p, q
  <2> QED BY <1>1, Halved
<1>3. a * a \in Nat /\ r * a \in Nat
  BY <1>1
<1>4. c \in Nat /\ x \in Nat /\ x < m
  BY <1>3, QuotientExists
<1>5. p \in Nat /\ q \in Nat /\ q % m = p % m
  BY <1>2, <1>3, <1>4, PowerNatural, ModuloPower
<1>6. p = Power(a, 2 * h)
  BY <1>1, <1>2, PowerOfSquare
<1>7. t.a = c /\ t.power = h /\ t.res = IF b = 1 THEN x ELSE r
  BY DEF Round
<1>8. t \in States
  BY <1>1, <1>2, <1>4 DEF Round, States
<1>9. h = 0 => b = 1
  BY <1>1, <1>2
<1> HIDE DEF t, r, a, h, b, c, x, p, q
<1>10. ASSUME NEW y \in Nat PROVE (y * q) % m = (y * p) % m
  <2>1. y \in Int /\ q \in Int /\ p \in Int
    BY <1>5
  <2> QED BY <1>5, <2>1, ModuloFactor, Zenon
<1>11. Left(t, m) = Left(s, m)
  <2>1. CASE b = 0
    <3>1. Left(t, m) = (r * q) % m
      BY <1>7, <2>1 DEF Left, q
    <3>2. Left(s, m) = (r * p) % m
      <4>1. s.power = 2 * h
        BY <1>2, <2>1
      <4> QED BY <1>6, <4>1 DEF Left, r, a
    <3> QED BY <1>1, <1>10, <3>1, <3>2
  <2>2. CASE b = 1
    <3>1. Left(t, m) = (x * q) % m
      BY <1>7, <2>2 DEF Left, q
    <3>2. (x * p) % m = ((r * a) * p) % m
      <4>1. r * a \in Int /\ p \in Int
        BY <1>3, <1>5
      <4> QED BY <4>1, ModuloTimes, Zenon DEF x
    <3>3. Power(a, 2 * h + 1) = a * p
      BY <1>1, <1>2, <1>6, PowerRecursion
    <3>4. Left(s, m) = (r * (a * p)) % m
      BY <1>2, <2>2, <3>3 DEF Left, r, a
    <3>5. r * (a * p) = (r * a) * p
      BY <1>1, <1>5
    <3> QED BY <1>4, <1>10, <3>1, <3>2, <3>4, <3>5
  <2> QED BY <1>2, <2>1, <2>2
<1>12. t.power < s.power /\ (t.power = 0 => t.res < m)
  BY <1>2, <1>4, <1>7, <1>9
<1> QED BY <1>8, <1>11, <1>12 DEF t

(* The loop has ended after as many rounds as the power says, with the     *)
(* power of the base.                                                      *)
LEMMA ExpmodIsPower ==
  ASSUME NEW a \in Nat, NEW e \in Nat, NEW m \in Nat, m > 0
  PROVE  expmod(a, e, m) = Power(a, e) % m
<1> DEFINE start == [res |-> 1, a |-> a, power |-> e]
           next(s) == IF s.power = 0 THEN s ELSE Round(s, m)
           step == [i \in Nat |-> [s \in States |-> next(s)]]
           P(f) == f = [i \in 0 .. e |->
                          IF i = 0 THEN [res |-> 1, a |-> a, power |-> e]
                          ELSE IF f[i - 1].power = 0 THEN f[i - 1]
                          ELSE Round(f[i - 1], m)]
           loop == CHOOSE f : P(f)
<1>1. start \in States
  BY DEF States
<1>2. ASSUME NEW s \in States PROVE next(s) \in States
  <2>1. CASE s.power = 0
    BY <2>1
  <2>2. CASE s.power # 0
    <3>1. s.power > 0
      BY <2>2 DEF States
    <3> QED BY <2>2, <3>1, RoundKeeps
  <2> QED BY <2>1, <2>2
<1>3. step \in [Nat -> [States -> States]]
  <2> HIDE DEF next
  <2> QED BY <1>2
<1>4. PICK f : Runs(f, e, States, start, step)
  <2> HIDE DEF step, start
  <2> QED BY <1>1, <1>3, FiniteLoop
<1>5. f \in [0 .. e -> States] /\ f[0] = start
  BY <1>4 DEF Runs
<1>6. ASSUME NEW i \in 1 .. e
      PROVE  /\ i - 1 \in 0 .. e /\ f[i - 1] \in States
             /\ f[i] = next(f[i - 1])
  <2>1. i \in Nat /\ i - 1 \in 0 .. e
    OBVIOUS
  <2>2. f[i - 1] \in States
    BY <1>5, <2>1
  <2>3. f[i] = step[i][f[i - 1]]
    BY <1>4 DEF Runs
  <2> HIDE DEF next
  <2> QED BY <2>1, <2>2, <2>3
<1>7. P(f)
  <2>1. ASSUME NEW i \in 0 .. e
        PROVE  f[i] = IF i = 0 THEN [res |-> 1, a |-> a, power |-> e]
                      ELSE IF f[i - 1].power = 0 THEN f[i - 1]
                      ELSE Round(f[i - 1], m)
    <3>1. CASE i = 0
      BY <1>5, <3>1
    <3>2. CASE i # 0
      <4>1. i \in 1 .. e
        BY <3>2
      <4> QED BY <1>6, <3>2, <4>1
    <3> QED BY <3>1, <3>2
  <2> QED BY <1>5, <2>1
<1> HIDE DEF P
<1>8. P(loop)
  BY <1>7
<1>9. expmod(a, e, m) = IF e = 0 THEN 1 % m ELSE loop[e].res
  BY DEF expmod, P
<1> HIDE DEF loop
<1> DEFINE OK(s, i) == /\ s \in States
                       /\ s.power <= e - i \/ s.power = 0
                       /\ Left(s, m) = Power(a, e) % m
                       /\ s.power = 0 /\ e > 0 => s.res < m
           S == {i \in Nat : i <= e => OK(loop[i], i)}
<1>10. 0 \in S
  <2>1. loop[0] = start
    BY <1>8 DEF P
  <2>2. Left(start, m) = Power(a, e) % m
    <3> DEFINE p == Power(a, e)
    <3>1. p \in Nat
      BY PowerNatural
    <3>2. Left(start, m) = (1 * p) % m
      BY DEF Left
    <3> HIDE DEF p
    <3>3. 1 * p = p
      BY <3>1
    <3> QED BY <3>2, <3>3 DEF p
  <2>3. OK(start, 0)
    BY <1>1, <2>2
  <2> HIDE DEF OK
  <2> QED BY <2>1, <2>3
<1>11. ASSUME NEW i \in Nat, i \in S PROVE i + 1 \in S
  <2>1. SUFFICES ASSUME i + 1 <= e PROVE OK(loop[i + 1], i + 1)
    OBVIOUS
  <2> DEFINE s == loop[i]
             t == loop[i + 1]
  <2>2. OK(s, i)
    BY <1>11, <2>1
  <2>3. t = next(s)
    <3>1. i + 1 \in 0 .. e /\ i + 1 # 0 /\ (i + 1) - 1 = i
      BY <2>1
    <3> QED BY <1>8, <3>1 DEF P
  <2> HIDE DEF s, t
  <2>4. ASSUME s.power = 0 PROVE OK(t, i + 1)
    <3>1. t = s
      BY <2>3, <2>4
    <3> QED BY <2>2, <2>4, <3>1
  <2>5. ASSUME s.power # 0 PROVE OK(t, i + 1)
    <3>1. s.power > 0 /\ s.power \in Nat
      BY <2>2, <2>5 DEF States
    <3>2. t = Round(s, m)
      BY <2>3, <2>5
    <3>3. /\ t \in States /\ Left(t, m) = Left(s, m)
          /\ t.power < s.power /\ (t.power = 0 => t.res < m)
      BY <2>2, <3>1, <3>2, RoundKeeps
    <3>4. t.power \in Nat
      BY <3>3 DEF States
    <3>5. s.power <= e - i
      BY <2>2, <2>5
    <3>6. t.power <= e - (i + 1)
      <4> DEFINE j == s.power
                 k == t.power
      <4>1. j \in Nat /\ k \in Nat /\ k < j /\ j <= e - i
        BY <3>1, <3>3, <3>4, <3>5
      <4> HIDE DEF j, k
      <4>2. k <= e - (i + 1)
        BY <4>1
      <4> QED BY <4>2 DEF k
    <3> QED BY <2>2, <3>3, <3>6
  <2>6. OK(t, i + 1)
    BY <2>4, <2>5
  <2> QED BY <2>6 DEF t
<1> HIDE DEF S
<1>12. e \in S
  BY <1>10, <1>11, SetInduction
<1>13. OK(loop[e], e)
  BY <1>12 DEF S
<1>14. CASE e = 0
  BY <1>9, <1>14, PowerRecursion
<1>15. CASE e # 0
  <2> DEFINE s == loop[e]
             r == s.res
  <2>1. OK(s, e)
    BY <1>13
  <2> HIDE DEF s
  <2>2. s.power = 0 /\ r \in Nat /\ r < m /\ s.a \in Nat
    BY <1>15, <2>1 DEF States
  <2>3. Left(s, m) = (r * 1) % m
    <3> DEFINE b == s.a
    <3>0. b \in Int
      BY <2>2
    <3> HIDE DEF b
    <3>2. Power(b, 0) = 1
      BY <3>0, PowerRecursion
    <3>1. Power(s.a, 0) = 1
      BY <3>2 DEF b
    <3> QED BY <2>2, <3>1 DEF Left
  <2> HIDE DEF r
  <2>4. r * 1 = 0 * m + r
    BY <2>2
  <2>5. r \in 0 .. m - 1
    BY <2>2
  <2>6. (0 * m + r) % m = r
    BY <2>5, QuotientUnique
  <2>7. r = Power(a, e) % m
    BY <2>1, <2>3, <2>4, <2>6
  <2> QED BY <1>9, <1>15, <2>7 DEF r, s
<1> QED BY <1>14, <1>15

(* The numbers that the first bytes make.                                  *)
Reads(f, bytes, n) ==
  /\ f \in [0 .. n -> Nat]
  /\ f[0] = 0
  /\ \A i \in 1 .. n : f[i] = f[i - 1] * Digit + bytes[i]
  /\ bufferToBigInt(bytes) = f[n]

(* The number that bytes make is computed from the first byte on.          *)
LEMMA BytesRead ==
  ASSUME NEW bytes, NEW n \in Nat, bytes \in [1 .. n -> Nat]
  PROVE  \E f : Reads(f, bytes, n)
<1> DEFINE next(i, v) == IF i \in 1 .. n THEN v * Digit + bytes[i] ELSE 0
           step == [i \in Nat |-> [v \in Nat |-> next(i, v)]]
           P(f) == f = [i \in 0 .. n |->
                          IF i = 0 THEN 0
                          ELSE f[i - 1] * Digit + bytes[i]]
           value == CHOOSE f : P(f)
<1>1. Len(bytes) = n /\ Digit \in Nat
  BY ModExpAssumption
<1>2. ASSUME NEW i \in Nat, NEW v \in Nat PROVE next(i, v) \in Nat
  <2>1. v * Digit \in Nat
    BY <1>1
  <2> QED BY <2>1
<1>3. step \in [Nat -> [Nat -> Nat]]
  <2> HIDE DEF next
  <2> QED BY <1>2
<1>4. PICK f : Runs(f, n, Nat, 0, step)
  <2> HIDE DEF step
  <2> QED BY <1>3, FiniteLoop
<1>5. f \in [0 .. n -> Nat] /\ f[0] = 0
  BY <1>4 DEF Runs
<1>6. ASSUME NEW i \in 1 .. n PROVE f[i] = f[i - 1] * Digit + bytes[i]
  <2>1. i \in Nat /\ f[i - 1] \in Nat
    BY <1>5
  <2>2. f[i] = step[i][f[i - 1]]
    BY <1>4 DEF Runs
  <2>3. f[i] = next(i, f[i - 1])
    <3> HIDE DEF next
    <3> QED BY <2>1, <2>2
  <2> QED BY <2>3
<1>7. P(f)
  BY <1>5, <1>6
<1> HIDE DEF P
<1>8. P(value)
  BY <1>7
<1>9. bufferToBigInt(bytes) = value[n]
  BY <1>1 DEF bufferToBigInt, P
<1> HIDE DEF value
<1>10. value[0] = 0 /\ DOMAIN value = 0 .. n
  BY <1>8 DEF P
<1>11. ASSUME NEW i \in 1 .. n
       PROVE  value[i] = value[i - 1] * Digit + bytes[i]
  BY <1>8 DEF P
<1> DEFINE S == {i \in Nat : i <= n => value[i] = f[i]}
<1>12. 0 \in S
  BY <1>5, <1>10
<1>13. ASSUME NEW i \in Nat, i \in S PROVE i + 1 \in S
  <2>1. SUFFICES ASSUME i + 1 <= n PROVE value[i + 1] = f[i + 1]
    OBVIOUS
  <2>2. i + 1 \in 1 .. n /\ (i + 1) - 1 = i /\ value[i] = f[i]
    BY <1>13, <2>1
  <2>3. value[i + 1] = value[i] * Digit + bytes[i + 1]
    BY <1>11, <2>2
  <2>4. f[i + 1] = f[i] * Digit + bytes[i + 1]
    BY <1>6, <2>2
  <2> QED BY <2>2, <2>3, <2>4
<1> HIDE DEF S
<1>14. n \in S
  BY <1>12, <1>13, SetInduction
<1>15. bufferToBigInt(bytes) = f[n]
  BY <1>9, <1>14 DEF S
<1>16. Reads(f, bytes, n)
  BY <1>5, <1>6, <1>15 DEF Reads
<1> QED BY <1>16

(* It is a natural number.                                                 *)
LEMMA BytesNatural ==
  ASSUME NEW max \in Nat, NEW bytes \in Buffers(max)
  PROVE  bufferToBigInt(bytes) \in Nat
<1>1. PICK n \in 0 .. max : bytes \in [1 .. n -> 0 .. Digit - 1]
  BY DEF Buffers
<1>2. n \in Nat /\ bytes \in [1 .. n -> Nat]
  BY <1>1, ModExpAssumption
<1>3. PICK f : Reads(f, bytes, n)
  BY <1>2, BytesRead
<1>4. n \in 0 .. n /\ bufferToBigInt(bytes) = f[n]
  BY <1>2, <1>3 DEF Reads
<1> QED BY <1>3, <1>4 DEF Reads

(* Zeros make 0.                                                           *)
LEMMA ZerosRead ==
  ASSUME NEW n \in Nat
  PROVE  /\ Len([i \in 1 .. n |-> 0]) = n
         /\ bufferToBigInt([i \in 1 .. n |-> 0]) = 0
<1> DEFINE bytes == [i \in 1 .. n |-> 0]
<1>1. bytes \in [1 .. n -> Nat] /\ Len(bytes) = n
  OBVIOUS
<1>2. \A i \in 1 .. n : bytes[i] = 0
  OBVIOUS
<1> HIDE DEF bytes
<1>3. PICK f \in [0 .. n -> Nat] :
        /\ f[0] = 0
        /\ \A i \in 1 .. n : f[i] = f[i - 1] * Digit + bytes[i]
        /\ bufferToBigInt(bytes) = f[n]
  <2>1. \E f : Reads(f, bytes, n)
    BY <1>1, BytesRead
  <2> QED BY <2>1 DEF Reads
<1> DEFINE S == {i \in Nat : i <= n => f[i] = 0}
<1>4. 0 \in S
  BY <1>3
<1>5. ASSUME NEW i \in Nat, i \in S PROVE i + 1 \in S
  <2>1. SUFFICES ASSUME i + 1 <= n PROVE f[i + 1] = 0
    OBVIOUS
  <2>2. i + 1 \in 1 .. n /\ (i + 1) - 1 = i /\ f[i] = 0
    BY <1>5, <2>1
  <2>3. f[i + 1] = 0 * Digit + 0
    BY <1>2, <1>3, <2>2
  <2> QED BY <2>3, ModExpAssumption
<1> HIDE DEF S
<1>6. n \in S
  BY <1>4, <1>5, SetInduction
<1>7. bufferToBigInt(bytes) = 0
  BY <1>3, <1>6 DEF S
<1> QED BY <1>1, <1>7 DEF bytes

(* A quotient by a power, one digit further.                               *)
LEMMA NextDigit ==
  ASSUME NEW d \in Nat, d > 0, NEW p \in Nat, p > 0, NEW v \in Nat
  PROVE  (v \div (d * p)) * d + ((v \div p) % d) = v \div p
<1> DEFINE q == v \div p
           r == v % p
           h == q \div d
           l == q % d
<1>1. q \in Int /\ r \in 0 .. p - 1 /\ v = q * p + r
  BY QuotientExists
<1>2. h \in Int /\ l \in 0 .. d - 1 /\ q = h * d + l
  BY <1>1, QuotientExists
<1> HIDE DEF q, r, h, l
<1> DEFINE n == d * p
           x == l * p + r
<1>3. v = h * n + x
  BY <1>1, <1>2
<1>4. n \in Nat /\ n > 0
  OBVIOUS
<1>5. x \in 0 .. n - 1
  <2>1. l * p <= (d - 1) * p /\ 0 * p <= l * p
    BY <1>2, TimesMonotone
  <2>2. (d - 1) * p = n - p
    OBVIOUS
  <2>3. l * p \in Int
    BY <1>2
  <2> HIDE DEF n
  <2> QED BY <1>1, <1>4, <2>1, <2>2, <2>3
<1>6. v \div n = h
  <2> HIDE DEF n, x
  <2> QED BY <1>2, <1>3, <1>4, <1>5, QuotientUnique
<1> HIDE DEF n
<1>7. (v \div n) * d + l = q
  BY <1>2, <1>6
<1> QED BY <1>7 DEF n, q, l

(* Elements of two sequences, one behind the other.                        *)
LEMMA Joined ==
  ASSUME NEW s \in Seq(Nat), NEW t \in Seq(Nat)
  PROVE  /\ s \o t \in [1 .. Len(s) + Len(t) -> Nat]
         /\ Len(s \o t) = Len(s) + Len(t)
         /\ \A i \in 1 .. Len(s) : (s \o t)[i] = s[i]
         /\ \A i \in Len(s) + 1 .. Len(s) + Len(t) :
              (s \o t)[i] = t[i - Len(s)]
<1>1. Len(s) \in Nat /\ Len(t) \in Nat
  OBVIOUS
<1>2. s \o t \in Seq(Nat) /\ Len(s \o t) = Len(s) + Len(t)
  OBVIOUS
<1>3. s \o t \in [1 .. Len(s) + Len(t) -> Nat]
  BY <1>2, LenProperties
<1> QED BY <1>1, <1>2, <1>3

(* A number that fits is read as it was written, with zeros behind it.     *)
LEMMA NumberWritten ==
  ASSUME NEW v \in Nat, v < Power(Digit, Width), NEW z \in Nat,
         NEW bytes,
         bytes = readBufferFromBigInt(v) \o [i \in 1 .. z |-> 0]
  PROVE  /\ Len(bytes) = Width + z
         /\ bufferToBigInt(bytes) = v * Power(Digit, z)
<1> DEFINE n == Width + z
           digit(i) == (v \div Power(Digit, Width - i)) % Digit
           zeros == [i \in 1 .. z |-> 0]
<1>1. /\ Digit \in Nat /\ Digit > 0 /\ Width \in Nat /\ n \in Nat
      /\ Width <= n
  BY ModExpAssumption
<1>2. ASSUME NEW i \in 1 .. Width PROVE digit(i) \in Nat
  <2> DEFINE p == Power(Digit, Width - i)
  <2>1. Width - i \in Nat
    BY <1>1
  <2>2. p \in Nat /\ p > 0
    BY <1>1, <2>1, PowerNatural
  <2> HIDE DEF p
  <2>3. v \div p \in Int
    BY <2>2, QuotientExists
  <2>4. (v \div p) % Digit \in Nat
    BY <1>1, <2>3, QuotientExists
  <2> QED BY <2>4 DEF p
<1>3. /\ readBufferFromBigInt(v) \in Seq(Nat)
      /\ Len(readBufferFromBigInt(v)) = Width
      /\ \A i \in 1 .. Width : readBufferFromBigInt(v)[i] = digit(i)
  <2> HIDE DEF digit
  <2>1. readBufferFromBigInt(v) = [i \in 1 .. Width |-> digit(i)]
    BY DEF readBufferFromBigInt, digit
  <2> QED BY <1>1, <1>2, <2>1
<1>4. zeros \in Seq(Nat) /\ Len(zeros) = z
  OBVIOUS
<1> HIDE DEF digit, zeros
<1>5. bytes = readBufferFromBigInt(v) \o zeros
  BY DEF zeros
<1>6. /\ bytes \in [1 .. n -> Nat] /\ Len(bytes) = n
      /\ \A i \in 1 .. Width : bytes[i] = digit(i)
      /\ \A i \in Width + 1 .. n : bytes[i] = zeros[i - Width]
  <2> DEFINE s == readBufferFromBigInt(v)
  <2>1. /\ s \in Seq(Nat) /\ Len(s) = Width /\ bytes = s \o zeros
        /\ \A i \in 1 .. Width : s[i] = digit(i)
    BY <1>3, <1>5
  <2> HIDE DEF s, n
  <2>2. Width + z = n
    BY DEF n
  <2>3. /\ s \o zeros \in [1 .. Len(s) + Len(zeros) -> Nat]
        /\ Len(s \o zeros) = Len(s) + Len(zeros)
        /\ \A i \in 1 .. Len(s) : (s \o zeros)[i] = s[i]
        /\ \A i \in Len(s) + 1 .. Len(s) + Len(zeros) :
             (s \o zeros)[i] = zeros[i - Len(s)]
    BY <1>4, <2>1, Joined
  <2> QED BY <1>4, <2>1, <2>2, <2>3
<1>7. \A i \in Width + 1 .. n : bytes[i] = 0
  <2>1. \A i \in Width + 1 .. n : i - Width \in 1 .. z
    BY <1>1
  <2> QED BY <1>6, <2>1 DEF zeros
<1>8. n = Width + z
  OBVIOUS
<1> HIDE DEF n
<1>9. PICK f \in [0 .. n -> Nat] :
        /\ f[0] = 0
        /\ \A i \in 1 .. n : f[i] = f[i - 1] * Digit + bytes[i]
        /\ bufferToBigInt(bytes) = f[n]
  <2>1. \E f : Reads(f, bytes, n)
    BY <1>1, <1>6, BytesRead
  <2> QED BY <2>1 DEF Reads
<1> DEFINE S == {i \in Nat : i <= Width =>
                               f[i] = v \div Power(Digit, Width - i)}
<1>10. 0 \in S
  <2> DEFINE p == Power(Digit, Width)
  <2>1. p \in Nat /\ p > 0 /\ v < p
    BY <1>1, PowerNatural
  <2>2. Width - 0 = Width
    BY <1>1
  <2> HIDE DEF p
  <2>0. v \in 0 .. p - 1
    BY <2>1
  <2>3. (0 * p + v) \div p = 0
    BY ONLY <2>0, <2>1, 0 \in Int, QuotientUnique, Zenon
  <2>6. 0 * p + v = v
    BY <2>1
  <2>4. v \div p = 0
    BY <2>3, <2>6, Zenon
  <2>5. f[0] = v \div Power(Digit, Width - 0)
    BY <1>9, <2>2, <2>4 DEF p
  <2> QED BY <2>5
<1>11. ASSUME NEW i \in Nat, i \in S PROVE i + 1 \in S
  <2>1. SUFFICES ASSUME i + 1 <= Width
                 PROVE  f[i + 1] = v \div Power(Digit, Width - (i + 1))
    OBVIOUS
  <2> DEFINE k == Width - (i + 1)
             p == Power(Digit, k)
  <2>2. /\ k \in Nat /\ Width - i = k + 1
        /\ i + 1 \in 1 .. n /\ (i + 1) - 1 = i /\ i + 1 \in 1 .. Width
    BY <1>1, <2>1
  <2> HIDE DEF k
  <2>3. p \in Nat /\ p > 0 /\ Power(Digit, k + 1) = Digit * p
    BY <1>1, <2>2, PowerNatural
  <2>4. f[i] = v \div (Digit * p)
    <3>1. i <= Width
      BY <1>1, <2>1
    <3>2. f[i] = v \div Power(Digit, Width - i)
      BY <1>11, <3>1
    <3> QED BY <2>2, <2>3, <3>2
  <2>5. bytes[i + 1] = (v \div p) % Digit
    BY <1>6, <2>2 DEF digit, k
  <2>6. f[i + 1] = f[i] * Digit + bytes[i + 1]
    BY <1>9, <2>2
  <2> HIDE DEF p
  <2>7. (v \div (Digit * p)) * Digit + ((v \div p) % Digit) = v \div p
    BY <1>1, <2>3, NextDigit
  <2>8. f[i + 1] = v \div p
    BY <2>4, <2>5, <2>6, <2>7
  <2> QED BY <2>8 DEF p, k
<1> HIDE DEF S
<1>12. Width \in S
  BY <1>1, <1>10, <1>11, SetInduction
<1>13. f[Width] = v
  <2>1. f[Width] = v \div Power(Digit, Width - Width)
    BY <1>1, <1>12 DEF S
  <2>2. Width - Width = 0 /\ Power(Digit, 0) = 1
    BY <1>1, PowerRecursion
  <2>3. v \div 1 = v
    OBVIOUS
  <2> QED BY <2>1, <2>2, <2>3
<1> DEFINE T == {j \in Nat : j <= z => f[Width + j] = v * Power(Digit, j)}
<1>14. 0 \in T
  <2>1. Width + 0 = Width /\ Power(Digit, 0) = 1 /\ v * 1 = v
    BY <1>1, PowerRecursion
  <2> QED BY <1>13, <2>1
<1>15. ASSUME NEW j \in Nat, j \in T PROVE j + 1 \in T
  <2>1. SUFFICES ASSUME j + 1 <= z
                 PROVE  f[Width + (j + 1)] = v * Power(Digit, j + 1)
    OBVIOUS
  <2> DEFINE i == Width + (j + 1)
             p == Power(Digit, j)
  <2>2. i \in 1 .. n /\ i - 1 = Width + j /\ i \in Width + 1 .. n
    BY <1>1, <1>8, <2>1
  <2>3. p \in Nat /\ Power(Digit, j + 1) = Digit * p
    BY <1>1, PowerNatural
  <2>4. f[i - 1] = v * p
    BY <1>15, <2>1, <2>2
  <2> HIDE DEF i, p
  <2>5. f[i] = (v * p) * Digit + 0
    BY <1>7, <1>9, <2>2, <2>4
  <2>6. (v * p) * Digit + 0 = v * (Digit * p)
    BY <1>1, <2>3
  <2> QED BY <2>3, <2>5, <2>6 DEF i
<1> HIDE DEF T
<1>16. z \in T
  BY <1>14, <1>15, SetInduction
<1>17. f[n] = v * Power(Digit, z)
  BY <1>8, <1>16 DEF T
<1> QED BY <1>6, <1>8, <1>9, <1>17

(* What a call has and returns.                                            *)
ModExpInv ==
  /\ call \in [fn : {"mod_exp"}, base : Buffers(MaxBytes),
               exp : Buffers(MaxBytes), mod : Buffers(MaxResultBytes),
               resultlen : 0 .. MaxResultBytes]
  /\ \/ result = pending
     \/ result = mod_exp(call.base, call.exp, call.mod, call.resultlen)

(* mod_exp computes the power, for buffers and numbers of any size.        *)
THEOREM PowersComputed == ModExpSpec => []ModExpIsPower
<1>1. ModExpInit => ModExpInv
  BY DEF ModExpInit, ModExpInv
<1>2. ModExpInv /\ [CallModExp \/ Return]_callVars => ModExpInv'
  BY DEF ModExpInv, CallModExp, Call, Return, callVars
<1>3. ModExpInv => ModExpIsPower
  <2>1. SUFFICES ASSUME ModExpInv, result # pending PROVE ModExpIsPower
    BY DEF ModExpIsPower, Returned
  <2> DEFINE B == bufferToBigInt(call.base)
             E == bufferToBigInt(call.exp)
             M == bufferToBigInt(call.mod)
             n == call.resultlen
             value == expmod(B, E, M)
             power == Power(B, E) % M
             zeros == [i \in 1 .. n |-> 0]
             fails == M = 0 \/ n < Width \/ power >= Power(Digit, Width)
             throw == M = 0 \/ value >= Power(Digit, Width) \/ n < Width
             buffer == readBufferFromBigInt(value)
                         \o [i \in 1 .. n - Width |-> 0]
  <2>2. /\ MaxBytes \in Nat /\ MaxResultBytes \in Nat /\ Width \in Nat
        /\ call.base \in Buffers(MaxBytes) /\ call.exp \in Buffers(MaxBytes)
        /\ call.mod \in Buffers(MaxResultBytes) /\ n \in Nat
    BY <2>1, ModExpAssumption DEF ModExpInv
  <2>3. B \in Nat /\ E \in Nat /\ M \in Nat
    BY <2>2, BytesNatural
  <2>4. result = IF throw THEN [code |-> -1, buffer |-> zeros]
                 ELSE [code |-> 0, buffer |-> buffer]
    BY <2>1 DEF ModExpInv, mod_exp
  <2>5. ASSUME M # 0
        PROVE  value = power /\ power \in Nat
    <3>1. M > 0 /\ Power(B, E) \in Nat
      BY <2>3, <2>5, PowerNatural
    <3>2. value = power
      BY <2>3, <3>1, ExpmodIsPower
    <3>3. power \in Nat
      BY <2>3, <3>1, QuotientExists
    <3> QED BY <3>2, <3>3
  <2>6. SUFFICES /\ Len(result.buffer) = n
                 /\ result.code = IF fails THEN -1 ELSE 0
                 /\ IF fails THEN bufferToBigInt(result.buffer) = 0
                    ELSE bufferToBigInt(result.buffer)
                           = power * Power(Digit, n - Width)
    BY DEF ModExpIsPower
  <2>7. throw <=> fails
    BY <2>5
  <2> HIDE DEF B, E, M, n, value, power, zeros, buffer
  <2>8. CASE fails
    <3>1. result = [code |-> -1, buffer |-> zeros]
      BY <2>4, <2>7, <2>8
    <3>2. Len(zeros) = n /\ bufferToBigInt(zeros) = 0
      BY <2>2, ZerosRead DEF zeros
    <3> QED BY <2>8, <3>1, <3>2
  <2>9. CASE ~fails
    <3>1. result = [code |-> 0, buffer |-> buffer]
      BY <2>4, <2>7, <2>9
    <3>2. /\ value = power /\ value \in Nat
          /\ n - Width \in Nat /\ Width + (n - Width) = n
      BY <2>2, <2>5, <2>9
    <3>0. Power(Digit, Width) \in Nat
      BY ModExpAssumption, PowerNatural
    <3>3. value < Power(Digit, Width)
      BY <2>9, <3>0, <3>2
    <3>4. /\ Len(buffer) = n
          /\ bufferToBigInt(buffer) = value * Power(Digit, n - Width)
      BY <3>2, <3>3, NumberWritten DEF buffer
    <3> QED BY <2>9, <3>1, <3>2, <3>4
  <2> QED BY <2>8, <2>9
<1> QED BY <1>1, <1>2, <1>3, PTL DEF ModExpSpec

-----------------------------------------------------------------------------
(* memcpy.                                                                 *)

Memories == [0 .. Length - 1 -> 0 .. Length - 1]

(* One byte copied.                                                        *)
OneByte(m, d, s) == [m EXCEPT ![d] = m[s]]

(* The memories of a copy byte by byte.                                    *)
Steps(f, d, s, n) ==
  /\ f \in [0 .. n -> Memories]
  /\ f[0] = SomeMemory
  /\ \A i \in 1 .. n : f[i] = OneByte(f[i - 1], d + i - 1, s + i - 1)

(* The copy byte by byte: each step writes one byte of the step before.    *)
LEMMA ForwardSteps ==
  ASSUME NEW d \in Nat, NEW s \in Nat, NEW n \in Nat,
         d + n <= Length, s + n <= Length
  PROVE  \E f : Steps(f, d, s, n) /\ Forward(SomeMemory, d, s, n) = f[n]
<1> DEFINE copy(i, m) == OneByte(m, d + i - 1, s + i - 1)
           next(i, m) == IF i \in 1 .. n THEN copy(i, m) ELSE m
           step == [i \in Nat |-> [m \in Memories |-> next(i, m)]]
           P(f) == f = [i \in 0 .. n |->
                          IF i = 0 THEN SomeMemory
                          ELSE [f[i - 1] EXCEPT ![d + i - 1] =
                                  f[i - 1][s + i - 1]]]
           after == CHOOSE f : P(f)
<1>1. SomeMemory \in Memories /\ Length \in Nat
  BY BuiltinsAssumption DEF SomeMemory, Memories
<1>2. ASSUME NEW i \in Nat, NEW m \in Memories PROVE next(i, m) \in Memories
  <2>1. CASE i \in 1 .. n
    <3>1. s + i - 1 \in 0 .. Length - 1
      BY <1>1, <2>1
    <3>2. m[s + i - 1] \in 0 .. Length - 1
      BY <3>1 DEF Memories
    <3> QED BY <2>1, <3>2 DEF Memories, OneByte
  <2>2. CASE i \notin 1 .. n
    BY <2>2
  <2> QED BY <2>1, <2>2
<1>3. step \in [Nat -> [Memories -> Memories]]
  <2> HIDE DEF next
  <2> QED BY <1>2
<1>4. PICK f : Runs(f, n, Memories, SomeMemory, step)
  <2> HIDE DEF step
  <2> QED BY <1>1, <1>3, FiniteLoop
<1>5. f \in [0 .. n -> Memories] /\ f[0] = SomeMemory
  BY <1>4 DEF Runs
<1>6. ASSUME NEW i \in 1 .. n PROVE f[i] = copy(i, f[i - 1])
  <2>1. i \in Nat /\ f[i - 1] \in Memories
    BY <1>5
  <2>2. f[i] = step[i][f[i - 1]]
    BY <1>4 DEF Runs
  <2>3. f[i] = next(i, f[i - 1])
    <3> HIDE DEF next
    <3> QED BY <2>1, <2>2
  <2> HIDE DEF copy
  <2> QED BY <2>3
<1>7. P(f)
  <2>1. ASSUME NEW i \in 0 .. n
        PROVE  f[i] = IF i = 0 THEN SomeMemory
                      ELSE [f[i - 1] EXCEPT ![d + i - 1] =
                              f[i - 1][s + i - 1]]
    <3>1. CASE i = 0
      BY <1>5, <3>1
    <3>2. CASE i # 0
      <4>1. i \in 1 .. n
        BY <3>2
      <4> QED BY <1>6, <3>2, <4>1 DEF OneByte
    <3> QED BY <3>1, <3>2
  <2> QED BY <1>5, <2>1
<1> HIDE DEF P
<1>8. P(after)
  BY <1>7
<1>9. Forward(SomeMemory, d, s, n) = after[n]
  BY DEF Forward, P
<1> HIDE DEF after
<1>10. after[0] = SomeMemory
  BY <1>8 DEF P
<1>11. ASSUME NEW i \in 1 .. n PROVE after[i] = copy(i, after[i - 1])
  <2>1. i \in 0 .. n /\ i # 0
    OBVIOUS
  <2> QED BY <1>8, <2>1 DEF P, OneByte
<1> HIDE DEF copy
<1> DEFINE S == {i \in Nat : i <= n => after[i] = f[i]}
<1>12. 0 \in S
  BY <1>5, <1>10
<1>13. ASSUME NEW i \in Nat, i \in S PROVE i + 1 \in S
  <2>1. SUFFICES ASSUME i + 1 <= n PROVE after[i + 1] = f[i + 1]
    OBVIOUS
  <2>2. i + 1 \in 1 .. n /\ (i + 1) - 1 = i /\ after[i] = f[i]
    BY <1>13, <2>1
  <2>3. after[i + 1] = copy(i + 1, after[i])
    BY <1>11, <2>2
  <2>4. f[i + 1] = copy(i + 1, f[i])
    BY <1>6, <2>2
  <2> QED BY <2>2, <2>3, <2>4
<1> HIDE DEF S
<1>14. n \in S
  BY <1>12, <1>13, SetInduction
<1>15. Forward(SomeMemory, d, s, n) = f[n]
  BY <1>9, <1>14 DEF S
<1>16. Steps(f, d, s, n)
  BY <1>5, <1>6 DEF copy, Steps
<1> QED BY <1>15, <1>16

(* One more byte is copied at once, if it is not one that was written.     *)
LEMMA CopyOneMore ==
  ASSUME NEW m \in Memories, NEW d \in Nat, NEW s \in Nat, NEW k \in Nat,
         d + k < Length, s + k < Length, s + k < d \/ d + k <= s + k
  PROVE  OneByte(Copied(m, d, s, k), d + k, s + k) = Copied(m, d, s, k + 1)
<1> DEFINE c == Copied(m, d, s, k)
           e == Copied(m, d, s, k + 1)
           w == [c EXCEPT ![d + k] = c[s + k]]
<1>1. DOMAIN m = 0 .. Length - 1 /\ Length \in Nat
  BY BuiltinsAssumption DEF Memories
<1>2. c[s + k] = m[s + k]
  BY <1>1 DEF Copied
<1>3. DOMAIN w = DOMAIN m /\ DOMAIN e = DOMAIN m
  BY DEF Copied
<1>4. ASSUME NEW i \in DOMAIN m PROVE w[i] = e[i]
  <2>1. CASE i = d + k
    <3>1. w[i] = m[s + k]
      BY <1>1, <1>2, <1>4, <2>1 DEF Copied
    <3>2. i \in d .. d + (k + 1) - 1 /\ s + i - d = s + k
      BY <2>1
    <3> QED BY <1>4, <3>1, <3>2 DEF Copied
  <2>2. CASE i # d + k
    <3>1. w[i] = c[i]
      BY <2>2 DEF Copied
    <3>2. i \in d .. d + (k + 1) - 1 <=> i \in d .. d + k - 1
      BY <1>1, <1>4, <2>2
    <3> QED BY <1>4, <3>1, <3>2 DEF Copied
  <2> QED BY <2>1, <2>2
<1>5. w = e
  <2> HIDE DEF c
  <2>1. w = [i \in DOMAIN m |-> w[i]] /\ e = [i \in DOMAIN m |-> e[i]]
    BY <1>3 DEF Copied
  <2> HIDE DEF w, e
  <2> QED BY <1>4, <2>1
<1> QED BY <1>5 DEF OneByte

(* Memories that do not overlap what is read are copied at once.              *)
LEMMA CopiedAtOnce ==
  ASSUME NEW d \in Nat, NEW s \in Nat, NEW n \in Nat,
         d + n <= Length, s + n <= Length, NEW f, Steps(f, d, s, n),
         NEW j \in Nat, NEW k \in Nat, j + k <= n, d < s \/ k <= d - s
  PROVE  f[j + k] = Copied(f[j], d + j, s + j, k)
<1> DEFINE m == f[j]
           x == d + j
           y == s + j
           S == {i \in Nat : i <= k => f[j + i] = Copied(m, x, y, i)}
<1>1. m \in Memories /\ x \in Nat /\ y \in Nat /\ f[j + 0] = m
  BY DEF Steps
<1> HIDE DEF m, x, y
<1>2. 0 \in S
  <2>1. \A i \in DOMAIN m : i \notin x .. x + 0 - 1
    BY <1>1 DEF Memories
  <2>2. m = [i \in DOMAIN m |-> m[i]]
    BY <1>1 DEF Memories
  <2>3. Copied(m, x, y, 0) = m
    BY <2>1, <2>2 DEF Copied
  <2> QED BY <1>1, <2>3
<1>3. ASSUME NEW i \in Nat, i \in S PROVE i + 1 \in S
  <2>1. SUFFICES ASSUME i + 1 <= k PROVE f[j + (i + 1)] = Copied(m, x, y, i + 1)
    OBVIOUS
  <2> DEFINE h == j + (i + 1)
  <2>2. /\ h \in 1 .. n /\ h - 1 = j + i
        /\ d + h - 1 = x + i /\ s + h - 1 = y + i
    BY <2>1 DEF x, y
  <2>3. f[h - 1] = Copied(m, x, y, i)
    BY <1>3, <2>1, <2>2
  <2> HIDE DEF h, S
  <2>4. f[h] = OneByte(f[h - 1], d + h - 1, s + h - 1)
    BY <2>2 DEF Steps
  <2>5. f[h] = OneByte(Copied(m, x, y, i), x + i, y + i)
    BY <2>2, <2>3, <2>4
  <2>6. x + i < Length /\ y + i < Length /\ (y + i < x \/ x + i <= y + i)
    BY <2>1, BuiltinsAssumption DEF x, y
  <2>7. OneByte(Copied(m, x, y, i), x + i, y + i) = Copied(m, x, y, i + 1)
    BY <1>1, <2>6, CopyOneMore
  <2> QED BY <2>5, <2>7 DEF h
<1> HIDE DEF S
<1>4. k \in S
  BY <1>2, <1>3, SetInduction
<1> QED BY <1>4 DEF S, m, x, y

(* Copying within a memory gives a memory.                                 *)
LEMMA CopiedIsMemory ==
  ASSUME NEW m \in Memories, NEW d \in Nat, NEW s \in Nat, NEW k \in Nat,
         d + k <= Length, s + k <= Length
  PROVE  Copied(m, d, s, k) \in Memories
<1>1. DOMAIN m = 0 .. Length - 1 /\ Length \in Nat
  BY BuiltinsAssumption DEF Memories
<1>2. ASSUME NEW i \in DOMAIN m
      PROVE  (IF i \in d .. d + k - 1 THEN m[s + i - d] ELSE m[i])
               \in 0 .. Length - 1
  <2>1. CASE i \in d .. d + k - 1
    <3>1. s + i - d \in 0 .. Length - 1
      BY <1>1, <2>1
    <3> QED BY <2>1, <3>1 DEF Memories
  <2>2. CASE i \notin d .. d + k - 1
    BY <1>1, <1>2, <2>2 DEF Memories
  <2> QED BY <2>1, <2>2
<1> QED BY <1>1, <1>2 DEF Copied, Memories

(* The calls of memcpy's local function that come after the one for n      *)
(* bytes from s to d.                                                      *)
CallsFrom(d, s, n) ==
  {t \in [memory : Memories, threw : BOOLEAN, d : Nat, s : Nat, c : Nat] :
     /\ t.d - t.s = d - s
     /\ t.d + t.c = d + n
     /\ t.c <= n
     /\ t.c < n => t.d <= Length}

(* A call that does not throw copies at least one byte and leaves the rest *)
(* to the next.                                                            *)
LEMMA ChunkCopies ==
  ASSUME NEW d \in Nat, NEW s \in Nat, NEW n \in Nat, s <= d,
         NEW t \in CallsFrom(d, s, n)
  PROVE  /\ Chunk(t) \in CallsFrom(d, s, n)
         /\ t.threw \/ t.c = 0 => Chunk(t) = t
         /\ ~t.threw /\ t.c > 0 /\ (d = s \/ d + n > Length) =>
              \/ Chunk(t).threw
              \/ Chunk(t).c > 0 /\ Chunk(t).c < t.c
         /\ ~t.threw /\ t.c > 0 /\ d # s /\ d + n <= Length =>
              \E k \in 1 .. t.c :
                /\ k <= d - s
                /\ Chunk(t) = [memory |-> Copied(t.memory, t.d, t.s, k),
                               threw |-> FALSE, d |-> t.d + k,
                               s |-> t.s + k, c |-> t.c - k]
<1> DEFINE size == IF t.d - t.s < t.c THEN t.d - t.s ELSE t.c
           full == [memory |-> Copied(t.memory, t.d, t.s, size),
                    threw |-> FALSE, d |-> t.d + size, s |-> t.s + size,
                    c |-> t.c - size]
           stuck == [t EXCEPT !.threw = TRUE]
<1>1. /\ t \in [memory : Memories, threw : BOOLEAN, d : Nat, s : Nat, c : Nat]
      /\ t.d - t.s = d - s /\ t.d + t.c = d + n /\ t.c <= n
      /\ t.c < n => t.d <= Length
  BY DEF CallsFrom
<1>2. /\ t.d \in Nat /\ t.s \in Nat /\ t.c \in Nat /\ t.memory \in Memories
      /\ Length \in Nat
  BY <1>1, BuiltinsAssumption
<1>3. size \in 0 .. t.c /\ size <= d - s /\ (size = 0 <=> t.c = 0 \/ d = s)
  BY <1>1, <1>2
<1>4. Chunk(t) = IF t.c <= 0 \/ t.threw THEN t
                 ELSE IF size = 0 \/ ~InMemory(t.d, size) THEN stuck
                 ELSE full
  BY DEF Chunk
<1> HIDE DEF size
<1>5. stuck \in CallsFrom(d, s, n) /\ stuck.threw
  <2>1. /\ stuck \in [memory : Memories, threw : BOOLEAN, d : Nat, s : Nat,
                      c : Nat]
        /\ stuck.d = t.d /\ stuck.s = t.s /\ stuck.c = t.c /\ stuck.threw
    BY <1>1
  <2> HIDE DEF stuck
  <2> QED BY <1>1, <2>1 DEF CallsFrom
<1>6. ASSUME t.c > 0, InMemory(t.d, size)
      PROVE  full \in CallsFrom(d, s, n) /\ t.d + size <= Length
  <2>1. t.d + size <= Length /\ t.s + size <= Length
    BY <1>1, <1>2, <1>3, <1>6 DEF InMemory
  <2> DEFINE m == Copied(t.memory, t.d, t.s, size)
  <2>2. m \in Memories
    BY <1>2, <1>3, <2>1, CopiedIsMemory
  <2> HIDE DEF m
  <2>3. /\ full \in [memory : Memories, threw : BOOLEAN, d : Nat, s : Nat,
                     c : Nat]
        /\ full.d = t.d + size /\ full.s = t.s + size
        /\ full.c = t.c - size
    BY <1>2, <1>3, <2>2 DEF m
  <2> HIDE DEF full
  <2>4. /\ full.d - full.s = d - s /\ full.d + full.c = d + n
        /\ full.c <= n /\ full.d <= Length
    BY <1>1, <1>2, <1>3, <2>1, <2>3
  <2> QED BY <2>1, <2>3, <2>4 DEF CallsFrom
<1>7. Chunk(t) \in CallsFrom(d, s, n)
  BY <1>2, <1>4, <1>5, <1>6
<1>8. t.threw \/ t.c = 0 => Chunk(t) = t
  BY <1>4
<1>9. ASSUME ~t.threw, t.c > 0, d = s \/ d + n > Length
      PROVE  \/ Chunk(t).threw
             \/ Chunk(t).c > 0 /\ Chunk(t).c < t.c
  <2>1. CASE size = 0 \/ ~InMemory(t.d, size)
    <3>1. Chunk(t) = stuck
      BY <1>2, <1>4, <1>9, <2>1
    <3> HIDE DEF stuck
    <3> QED BY <1>5, <3>1
  <2>2. CASE size # 0 /\ InMemory(t.d, size)
    <3>1. Chunk(t) = full
      BY <1>2, <1>4, <1>9, <2>2
    <3>2. full.c = t.c - size
      OBVIOUS
    <3>3. t.d + size <= Length /\ d + n > Length
      BY <1>3, <1>6, <1>9, <2>2
    <3>4. size < t.c /\ size > 0
      BY <1>1, <1>2, <1>3, <2>2, <3>3
    <3> HIDE DEF full
    <3> QED BY <1>2, <1>3, <3>1, <3>2, <3>4
  <2> QED BY <2>1, <2>2
<1>10. ASSUME ~t.threw, t.c > 0, d # s, d + n <= Length
       PROVE  \E k \in 1 .. t.c :
                /\ k <= d - s
                /\ Chunk(t) = [memory |-> Copied(t.memory, t.d, t.s, k),
                               threw |-> FALSE, d |-> t.d + k,
                               s |-> t.s + k, c |-> t.c - k]
  <2>1. size \in 1 .. t.c
    BY <1>2, <1>3, <1>10
  <2>2. InMemory(t.d, size)
    BY <1>1, <1>2, <1>3, <1>10 DEF InMemory
  <2>3. Chunk(t) = full
    BY <1>2, <1>4, <1>10, <2>1, <2>2
  <2> QED BY <1>3, <2>1, <2>3
<1> QED BY <1>7, <1>8, <1>9, <1>10

(* The calls of a copy of n bytes from s to d.                             *)
CallsOf(g, d, s, n) ==
  /\ g \in [0 .. n -> CallsFrom(d, s, n)]
  /\ g[0].memory = SomeMemory /\ ~g[0].threw /\ g[0].c = n
  /\ g[0].d = d /\ g[0].s = s
  /\ \A i \in 1 .. n : g[i] = Chunk(g[i - 1])

(* The calls are those of a loop.                                          *)
LEMMA CallsMade ==
  ASSUME NEW d \in Nat, NEW s \in Nat, NEW n \in Nat, s <= d
  PROVE  \E f : /\ CallsOf(f, d, s, n)
                /\ cpy(SomeMemory, d, s, n)
                     = IF f[n].threw THEN throws ELSE f[n].memory
<1> DEFINE All == CallsFrom(d, s, n)
           first == [memory |-> SomeMemory, threw |-> FALSE,
                     d |-> d, s |-> s, c |-> n]
           step == [i \in Nat |-> [t \in All |-> Chunk(t)]]
           P(f) == f = [i \in 0 .. n |->
                          IF i = 0
                          THEN [memory |-> SomeMemory, threw |-> FALSE,
                                d |-> d, s |-> s, c |-> n]
                          ELSE Chunk(f[i - 1])]
           calls == CHOOSE f : P(f)
<1>1. SomeMemory \in Memories
  BY BuiltinsAssumption DEF SomeMemory, Memories
<1>2. first \in All
  BY <1>1 DEF CallsFrom
<1> HIDE DEF All
<1>3. step \in [Nat -> [All -> All]]
  BY ChunkCopies DEF All
<1>4. PICK f : Runs(f, n, All, first, step)
  <2> HIDE DEF step, first
  <2> QED BY <1>2, <1>3, FiniteLoop
<1>5. f \in [0 .. n -> All] /\ f[0] = first
  BY <1>4 DEF Runs
<1>6. ASSUME NEW i \in 1 .. n PROVE f[i] = Chunk(f[i - 1])
  <2>1. i \in Nat /\ f[i - 1] \in All
    BY <1>5
  <2>2. f[i] = step[i][f[i - 1]]
    BY <1>4 DEF Runs
  <2> QED BY <2>1, <2>2
<1>7. P(f)
  <2>1. ASSUME NEW i \in 0 .. n
        PROVE  f[i] = IF i = 0
                      THEN [memory |-> SomeMemory, threw |-> FALSE,
                            d |-> d, s |-> s, c |-> n]
                      ELSE Chunk(f[i - 1])
    <3>1. CASE i = 0
      BY <1>5, <3>1
    <3>2. CASE i # 0
      <4>1. i \in 1 .. n
        BY <3>2
      <4> QED BY <1>6, <3>2, <4>1
    <3> QED BY <3>1, <3>2
  <2> QED BY <1>5, <2>1
<1> HIDE DEF P
<1>8. P(calls)
  BY <1>7
<1>9. cpy(SomeMemory, d, s, n)
        = IF calls[n].threw THEN throws ELSE calls[n].memory
  BY DEF cpy, P
<1> HIDE DEF calls
<1>10. calls[0] = first
  BY <1>8 DEF P
<1>11. ASSUME NEW i \in 1 .. n PROVE calls[i] = Chunk(calls[i - 1])
  <2>1. i \in 0 .. n /\ i # 0
    OBVIOUS
  <2> QED BY <1>8, <2>1 DEF P
<1> DEFINE S == {i \in Nat : i <= n => calls[i] = f[i]}
<1>12. 0 \in S
  BY <1>5, <1>10
<1>13. ASSUME NEW i \in Nat, i \in S PROVE i + 1 \in S
  <2>1. SUFFICES ASSUME i + 1 <= n PROVE calls[i + 1] = f[i + 1]
    OBVIOUS
  <2>2. i + 1 \in 1 .. n /\ (i + 1) - 1 = i /\ calls[i] = f[i]
    BY <1>13, <2>1
  <2>3. calls[i + 1] = Chunk(calls[i])
    BY <1>11, <2>2
  <2>4. f[i + 1] = Chunk(f[i])
    BY <1>6, <2>2
  <2> QED BY <2>2, <2>3, <2>4
<1> HIDE DEF S
<1>14. n \in S
  BY <1>12, <1>13, SetInduction
<1>15. calls[n] = f[n]
  BY <1>14 DEF S
<1>16. /\ f[0].memory = SomeMemory /\ ~f[0].threw /\ f[0].c = n
       /\ f[0].d = d /\ f[0].s = s
  BY <1>5
<1>17. CallsOf(f, d, s, n)
  BY <1>5, <1>6, <1>16 DEF All, CallsOf
<1> QED BY <1>9, <1>15, <1>17

(* Overlapping areas: chunk by chunk is byte by byte.                      *)
LEMMA ChunksForward ==
  ASSUME NEW d \in Nat, NEW s \in Nat, NEW n \in Nat, s < d, d + n <= Length
  PROVE  cpy(SomeMemory, d, s, n) = Forward(SomeMemory, d, s, n)
<1>1. PICK f : Steps(f, d, s, n) /\ Forward(SomeMemory, d, s, n) = f[n]
  <2>1. s + n <= Length
    BY BuiltinsAssumption
  <2> QED BY <2>1, ForwardSteps
<1>2. PICK g : /\ CallsOf(g, d, s, n)
               /\ cpy(SomeMemory, d, s, n)
                    = IF g[n].threw THEN throws ELSE g[n].memory
  BY CallsMade
<1> DEFINE OK(t, i) == ~t.threw /\ t.c <= n - i /\ t.memory = f[n - t.c]
           S == {i \in Nat : i <= n => OK(g[i], i)}
<1>3. 0 \in S
  <2>1. n - 0 = n /\ n - n = 0
    OBVIOUS
  <2>2. f[0] = SomeMemory
    BY <1>1 DEF Steps
  <2>3. g[0].memory = SomeMemory /\ ~g[0].threw /\ g[0].c = n
    BY <1>2 DEF CallsOf
  <2> QED BY <2>1, <2>2, <2>3
<1>4. ASSUME NEW i \in Nat, i \in S PROVE i + 1 \in S
  <2>1. SUFFICES ASSUME i + 1 <= n PROVE OK(g[i + 1], i + 1)
    OBVIOUS
  <2> DEFINE t == g[i]
             u == g[i + 1]
  <2>2. /\ i + 1 \in 1 .. n /\ (i + 1) - 1 = i /\ i \in 0 .. n
        /\ OK(t, i)
    BY <1>4, <2>1
  <2>3. t \in CallsFrom(d, s, n) /\ u = Chunk(t)
    BY <1>2, <2>2 DEF CallsOf
  <2> HIDE DEF t, u
  <2>4. /\ t.d \in Nat /\ t.s \in Nat /\ t.c \in Nat /\ t.c <= n
        /\ t.d - t.s = d - s /\ t.d + t.c = d + n
    BY <2>3 DEF CallsFrom
  <2>5. CASE t.c = 0
    <3>1. u = t
      BY <2>3, <2>5, ChunkCopies
    <3> QED BY <2>1, <2>2, <2>5, <3>1 DEF u
  <2>6. CASE t.c # 0
    <3>1. ~t.threw /\ t.c > 0 /\ d # s /\ t.c <= n - i
      BY <2>2, <2>4, <2>6
    <3>2. PICK k \in 1 .. t.c :
            /\ k <= d - s
            /\ u = [memory |-> Copied(t.memory, t.d, t.s, k),
                    threw |-> FALSE, d |-> t.d + k,
                    s |-> t.s + k, c |-> t.c - k]
      BY <2>3, <3>1, ChunkCopies
    <3> DEFINE j == n - t.c
    <3>3. /\ j \in Nat /\ k \in Nat /\ j + k <= n
          /\ t.d = d + j /\ t.s = s + j /\ n - (t.c - k) = j + k
      <4> DEFINE a == t.d
                 b == t.s
                 c == t.c
      <4>1. /\ a \in Nat /\ b \in Nat /\ c \in Nat /\ c <= n
            /\ a - b = d - s /\ a + c = d + n /\ k \in 1 .. c
        BY <2>4, <3>2
      <4> HIDE DEF a, b, c
      <4>2. /\ n - c \in Nat /\ k \in Nat /\ (n - c) + k <= n
            /\ a = d + (n - c) /\ b = s + (n - c)
            /\ n - (c - k) = (n - c) + k
        BY <4>1
      <4> QED BY <4>2 DEF a, b, c
    <3>4. t.memory = f[j]
      BY <2>2
    <3> HIDE DEF j
    <3>5. f[j + k] = Copied(f[j], d + j, s + j, k)
      <4>1. d + n <= Length /\ s + n <= Length /\ (d < s \/ k <= d - s)
        BY <3>2, BuiltinsAssumption
      <4> QED BY <1>1, <3>3, <4>1, CopiedAtOnce
    <3>6. u.memory = f[j + k] /\ ~u.threw /\ u.c = t.c - k
      BY <3>2, <3>3, <3>4, <3>5
    <3>7. u.c <= n - (i + 1)
      <4> DEFINE c == t.c
      <4>1. c \in Nat /\ c <= n - i /\ k \in 1 .. c /\ u.c = c - k
        BY <2>4, <3>1, <3>2, <3>6
      <4> HIDE DEF c
      <4> QED BY <4>1
    <3>8. OK(u, i + 1)
      BY <3>3, <3>6, <3>7
    <3> QED BY <3>8 DEF u
  <2> QED BY <2>5, <2>6
<1> HIDE DEF S
<1>5. n \in S
  BY <1>3, <1>4, SetInduction
<1>6. OK(g[n], n) /\ g[n] \in CallsFrom(d, s, n)
  BY <1>2, <1>5 DEF S, CallsOf
<1>7. ~g[n].threw /\ g[n].memory = f[n]
  <2>1. g[n].c \in Nat
    BY <1>6 DEF CallsFrom
  <2>2. g[n].c = 0
    BY <1>6, <2>1
  <2> QED BY <1>6, <2>2
<1> QED BY <1>1, <1>2, <1>7

(* With no distance to go, or beyond the memory, a call throws in the end. *)
LEMMA ChunksThrow ==
  ASSUME NEW d \in Nat, NEW s \in Nat, NEW n \in Nat, s <= d, n > 0,
         d = s \/ d + n > Length
  PROVE  cpy(SomeMemory, d, s, n) = throws
<1>1. PICK g : /\ CallsOf(g, d, s, n)
               /\ cpy(SomeMemory, d, s, n)
                    = IF g[n].threw THEN throws ELSE g[n].memory
  BY CallsMade
<1> DEFINE OK(t, i) == t.threw \/ (t.c > 0 /\ t.c <= n - i)
           S == {i \in Nat : i <= n => OK(g[i], i)}
<1>2. 0 \in S
  BY <1>1 DEF CallsOf
<1>3. ASSUME NEW i \in Nat, i \in S PROVE i + 1 \in S
  <2>1. SUFFICES ASSUME i + 1 <= n PROVE OK(g[i + 1], i + 1)
    OBVIOUS
  <2> DEFINE t == g[i]
             u == g[i + 1]
  <2>2. i + 1 \in 1 .. n /\ (i + 1) - 1 = i /\ i \in 0 .. n /\ OK(t, i)
    BY <1>3, <2>1
  <2>3. t \in CallsFrom(d, s, n) /\ u = Chunk(t)
    BY <1>1, <2>2 DEF CallsOf
  <2> HIDE DEF t, u
  <2>4. t.threw \in BOOLEAN /\ t.c \in Nat
    BY <2>3 DEF CallsFrom
  <2>5. CASE t.threw
    <3>1. u = t
      BY <2>3, <2>5, ChunkCopies
    <3> QED BY <2>5, <3>1 DEF u
  <2>6. CASE ~t.threw
    <3>1. t.c > 0 /\ t.c <= n - i
      BY <2>2, <2>6
    <3>2. u.threw \/ (u.c > 0 /\ u.c < t.c)
      BY <2>3, <2>6, <3>1, ChunkCopies
    <3>3. u.c \in Nat
      <4>1. u \in CallsFrom(d, s, n)
        BY <2>3, ChunkCopies
      <4> QED BY <4>1 DEF CallsFrom
    <3>4. OK(u, i + 1)
      <4> DEFINE b == t.c
                 c == u.c
      <4>1. b \in Nat /\ c \in Nat /\ b <= n - i
            /\ (u.threw \/ (c > 0 /\ c < b))
        BY <2>4, <3>1, <3>2, <3>3
      <4> HIDE DEF b, c
      <4>2. u.threw \/ (c > 0 /\ c <= n - (i + 1))
        BY <4>1
      <4> QED BY <4>2 DEF c
    <3> QED BY <3>4 DEF u
  <2> QED BY <2>4, <2>5, <2>6
<1> HIDE DEF S
<1>4. n \in S
  BY <1>2, <1>3, SetInduction
<1>5. OK(g[n], n)
  BY <1>4 DEF S
<1>6. g[n] \in CallsFrom(d, s, n)
  BY <1>1 DEF CallsOf
<1>7. g[n].c \in Nat
  BY <1>6 DEF CallsFrom
<1>8. g[n].threw
  BY <1>5, <1>7
<1> QED BY <1>1, <1>8

(* What a call has and returns.                                            *)
MoveInv ==
  /\ call \in [fn : Moves, dest : Addresses, src : Addresses,
               count : -1 .. Length]
  /\ \/ result = pending
     \/ /\ call.fn = "memcpy"
        /\ result = memcpy(SomeMemory, call.dest, call.src, call.count)
     \/ call.fn # "memcpy"

(* memcpy copies forward, in memories of any size.                         *)
THEOREM CopiesForward == MoveSpec => []MemcpyIsForwardCopy
<1>1. BuiltinsInit => MoveInv
  BY DEF BuiltinsInit, MoveInv
<1>2. MoveInv /\ [CallMove \/ Return]_callVars => MoveInv'
  BY DEF MoveInv, CallMove, Call, Return, callVars, Moves
<1>3. MoveInv => MemcpyIsForwardCopy
  <2>1. SUFFICES ASSUME MoveInv, result # pending, call.fn = "memcpy"
                 PROVE  MemcpyIsForwardCopy
    BY DEF MemcpyIsForwardCopy, Returned
  <2> DEFINE d == call.dest
             s == call.src
             n == call.count
             inside == InMemory(d, n) /\ InMemory(s, n)
             overlap == d - s < n /\ d - s >= 0
  <2>2. /\ d \in Nat /\ s \in Nat /\ d <= Length /\ s <= Length
        /\ n \in Int /\ Length \in Nat
    BY <2>1, BuiltinsAssumption DEF MoveInv, Addresses
  <2>3. result = IF overlap THEN cpy(SomeMemory, d, s, n)
                 ELSE memmove(SomeMemory, d, s, n)
    BY <2>1 DEF MoveInv, memcpy
  <2>4. SUFFICES IF inside /\ (d = s => n = 0)
                 THEN /\ result = Forward(SomeMemory, d, s, n)
                      /\ d < s \/ d >= s + n =>
                           result = memmove(SomeMemory, d, s, n)
                 ELSE result = throws
    BY DEF MemcpyIsForwardCopy
  <2>5. memmove(SomeMemory, d, s, n)
          = IF inside THEN Copied(SomeMemory, d, s, n) ELSE throws
    BY DEF memmove
  <2> HIDE DEF d, s, n
  <2>6. CASE overlap
    <3>1. n \in Nat /\ n > 0 /\ s <= d /\ result = cpy(SomeMemory, d, s, n)
      BY <2>2, <2>3, <2>6
    <3>2. CASE d = s \/ d + n > Length
      <4>1. result = throws
        BY <2>2, <3>1, <3>2, ChunksThrow
      <4>2. ~(inside /\ (d = s => n = 0))
        BY <2>2, <3>1, <3>2 DEF InMemory
      <4> QED BY <4>1, <4>2
    <3>3. CASE d # s /\ d + n <= Length
      <4>1. s < d
        BY <2>2, <3>1, <3>3
      <4>2. result = Forward(SomeMemory, d, s, n)
        BY <2>2, <3>1, <3>3, <4>1, ChunksForward
      <4>3. ~(d < s \/ d >= s + n)
        BY <2>2, <2>6
      <4>4. inside /\ (d = s => n = 0)
        BY <2>2, <3>1, <3>3 DEF InMemory
      <4> QED BY <4>2, <4>3, <4>4
    <3> QED BY <2>2, <3>1, <3>2, <3>3
  <2>7. CASE ~overlap
    <3>1. result = memmove(SomeMemory, d, s, n)
      BY <2>3, <2>7
    <3>2. CASE inside
      <4>1. /\ n \in Nat /\ d + n <= Length /\ s + n <= Length
            /\ d < s \/ n <= d - s
        BY <2>2, <2>7, <3>2 DEF InMemory
      <4>2. d = s => n = 0
        BY <2>2, <4>1
      <4>3. PICK f : /\ Steps(f, d, s, n)
                     /\ Forward(SomeMemory, d, s, n) = f[n]
        BY <2>2, <4>1, ForwardSteps
      <4>4. f[0 + n] = Copied(f[0], d + 0, s + 0, n)
        <5>1. 0 \in Nat /\ 0 + n <= n
          BY <4>1
        <5> QED BY <2>2, <4>1, <4>3, <5>1, CopiedAtOnce
      <4>5. Forward(SomeMemory, d, s, n) = Copied(SomeMemory, d, s, n)
        <5>1. 0 + n = n /\ d + 0 = d /\ s + 0 = s
          BY <2>2, <4>1
        <5>2. f[0] = SomeMemory
          BY <4>3 DEF Steps
        <5> QED BY <4>3, <4>4, <5>1, <5>2
      <4> QED BY <2>5, <3>1, <3>2, <4>2, <4>5
    <3>3. CASE ~inside
      BY <2>5, <3>1, <3>3
    <3> QED BY <3>2, <3>3
  <2> QED BY <2>6, <2>7
<1> QED BY <1>1, <1>2, <1>3, PTL DEF MoveSpec

-----------------------------------------------------------------------------
(* The mixing of blake2.                                                   *)

(* Powers of 2: positive, and twice the one before.                        *)
LEMMA PowerOfTwo ==
  ASSUME NEW k \in Nat
  PROVE  /\ Power(2, k) \in Nat /\ Power(2, k) > 0
         /\ Power(2, 0) = 1 /\ Power(2, k + 1) = 2 * Power(2, k)
  BY PowerNatural

(* The quotient by a product, of a number with so many low digits.         *)
LEMMA QuotientAbove ==
  ASSUME NEW a \in Nat, a > 0, NEW b \in Nat, b > 0, NEW h \in Nat,
         NEW l \in 0 .. a - 1
  PROVE  /\ (h * a + l) \div (a * b) = h \div b
         /\ (h * a + l) % (a * b) = (h % b) * a + l
<1> DEFINE q == h \div b
           r == h % b
           n == a * b
<1>1. q \in Int /\ r \in 0 .. b - 1 /\ h = q * b + r
  BY QuotientExists
<1> HIDE DEF q, r
<1>2. n \in Nat /\ n > 0
  OBVIOUS
<1>3. r * a + l \in 0 .. n - 1
  <2>1. r + 1 <= b /\ r >= 0
    BY <1>1
  <2>2. (r + 1) * a <= b * a /\ 0 * a <= r * a
    BY <1>1, <2>1, TimesMonotone
  <2> QED BY <1>1, <2>2
<1>4. h * a + l = q * n + (r * a + l)
  BY <1>1
<1> HIDE DEF n
<1>5. (q * n + (r * a + l)) \div n = q /\ (q * n + (r * a + l)) % n = r * a + l
  BY <1>1, <1>2, <1>3, QuotientUnique
<1> QED BY <1>4, <1>5 DEF n, q, r

(* The quotient by a number, of one with a multiple of it as its unit.     *)
LEMMA QuotientBelow ==
  ASSUME NEW a \in Nat, a > 0, NEW b \in Nat, NEW h \in Nat, NEW l \in Nat
  PROVE  /\ (h * (b * a) + l) \div a = h * b + (l \div a)
         /\ (h * (b * a) + l) % a = l % a
<1> DEFINE q == l \div a
           r == l % a
<1>1. q \in Int /\ r \in 0 .. a - 1 /\ l = q * a + r
  BY QuotientExists
<1> HIDE DEF q, r
<1>2. h * (b * a) + l = (h * b + q) * a + r /\ h * b + q \in Int
  BY <1>1
<1>3. ((h * b + q) * a + r) \div a = h * b + q /\ ((h * b + q) * a + r) % a = r
  BY <1>1, <1>2, QuotientUnique
<1> QED BY <1>2, <1>3 DEF q, r

(* The bit that has so many below it, of an exclusive or.                  *)
XorBit(m, n, k) ==
  Power(2, k) * (((m \div Power(2, k)) + (n \div Power(2, k))) % 2)

(* The bit is 0 or the power.                                              *)
LEMMA XorBitValue ==
  ASSUME NEW m \in Nat, NEW n \in Nat, NEW k \in Nat
  PROVE  XorBit(m, n, k) \in {0, Power(2, k)} /\ XorBit(m, n, k) \in Nat
<1> DEFINE p == Power(2, k)
           b == ((m \div p) + (n \div p)) % 2
<1>1. p \in Nat /\ p > 0
  BY PowerOfTwo
<1> HIDE DEF p
<1>2. b \in {0, 1}
  <2>1. m \div p \in Int /\ n \div p \in Int
    BY <1>1
  <2> QED BY <2>1
<1> HIDE DEF b
<1>3. p * b \in {0, p} /\ p * b \in Nat
  BY <1>1, <1>2
<1> QED BY <1>3 DEF XorBit, p, b

(* The definition, without the function that it is made of.                *)
LEMMA XorRecursion ==
  ASSUME NEW m \in Nat, NEW n \in Nat
  PROVE  /\ Xor(m, n, 0) = 0
         /\ \A k \in Nat : /\ Xor(m, n, k) \in Nat
                           /\ Xor(m, n, k + 1) = Xor(m, n, k) + XorBit(m, n, k)
<1> DEFINE next(i, v) == IF i = 0 THEN v ELSE v + XorBit(m, n, i - 1)
           step == [i \in Nat |-> [v \in Nat |-> next(i, v)]]
           P(f) == f = [i \in Nat |-> IF i = 0 THEN 0
                                      ELSE f[i - 1] + XorBit(m, n, i - 1)]
           xor == CHOOSE f : P(f)
<1>1. step \in [Nat -> [Nat -> Nat]] /\ 0 \in Nat
  <2>1. ASSUME NEW i \in Nat, NEW v \in Nat PROVE next(i, v) \in Nat
    <3>1. CASE i = 0
      BY <3>1
    <3>2. CASE i # 0
      <4>1. i - 1 \in Nat
        BY <3>2
      <4>2. XorBit(m, n, i - 1) \in Nat
        BY <4>1, XorBitValue
      <4> QED BY <3>2, <4>2
    <3> QED BY <3>1, <3>2
  <2> HIDE DEF next
  <2> QED BY <2>1
<1>2. PICK f : RunsOn(f, Nat, 0, step)
  <2> HIDE DEF step
  <2> QED BY <1>1, Loop
<1>3. f \in [Nat -> Nat] /\ f[0] = 0
  BY <1>2 DEF RunsOn
<1>4. ASSUME NEW i \in Nat \ {0} PROVE f[i] = f[i - 1] + XorBit(m, n, i - 1)
  <2>1. i \in Nat /\ i # 0 /\ i - 1 \in Nat /\ f[i - 1] \in Nat
    BY <1>3
  <2>2. f[i] = step[i][f[i - 1]]
    BY <1>2 DEF RunsOn
  <2> QED BY <2>1, <2>2
<1>5. P(f)
  BY <1>3, <1>4
<1> HIDE DEF P
<1>6. P(xor)
  BY <1>5
<1>7. \A k : Xor(m, n, k) = xor[k]
  BY DEF P, Xor, XorBit
<1> HIDE DEF xor
<1>8. xor = [i \in Nat |-> IF i = 0 THEN 0
                           ELSE xor[i - 1] + XorBit(m, n, i - 1)]
  BY <1>6 DEF P
<1>9. xor[0] = 0
  BY <1>8
<1>10. ASSUME NEW k \in Nat PROVE xor[k + 1] = xor[k] + XorBit(m, n, k)
  <2>1. k + 1 \in Nat /\ k + 1 # 0 /\ (k + 1) - 1 = k
    OBVIOUS
  <2> QED BY <1>8, <2>1
<1>11. ASSUME NEW k \in Nat PROVE xor[k] \in Nat
  <2> DEFINE S == {i \in Nat : xor[i] \in Nat}
  <2>1. 0 \in S
    BY <1>9
  <2>2. ASSUME NEW i \in Nat, i \in S PROVE i + 1 \in S
    <3>1. XorBit(m, n, i) \in Nat
      BY XorBitValue
    <3> QED BY <1>10, <2>2, <3>1
  <2> HIDE DEF S
  <2>3. k \in S
    BY <2>1, <2>2, SetInduction
  <2> QED BY <2>3 DEF S
<1> QED BY <1>7, <1>9, <1>10, <1>11

(* An exclusive or has no more bits than it was computed for.              *)
LEMMA XorRange ==
  ASSUME NEW m \in Nat, NEW n \in Nat, NEW k \in Nat
  PROVE  Xor(m, n, k) \in 0 .. Power(2, k) - 1
<1> DEFINE S == {i \in Nat : Xor(m, n, i) \in 0 .. Power(2, i) - 1}
<1>1. 0 \in S
  <2>1. Xor(m, n, 0) = 0 /\ Power(2, 0) = 1
    BY XorRecursion, PowerOfTwo
  <2> QED BY <2>1
<1>2. ASSUME NEW i \in Nat, i \in S PROVE i + 1 \in S
  <2> DEFINE x == Xor(m, n, i)
             p == Power(2, i)
             b == XorBit(m, n, i)
  <2>1. /\ x \in 0 .. p - 1 /\ p \in Nat /\ b \in {0, p}
        /\ Xor(m, n, i + 1) = x + b /\ Power(2, i + 1) = 2 * p
    BY <1>2, XorRecursion, XorBitValue, PowerOfTwo
  <2> HIDE DEF x, p, b
  <2>2. x + b \in 0 .. (2 * p) - 1
    BY <2>1
  <2> QED BY <2>1, <2>2
<1> HIDE DEF S
<1>3. k \in S
  BY <1>1, <1>2, SetInduction
<1> QED BY <1>3 DEF S

(* One bit more of a number.                                               *)
LEMMA OneBitMore ==
  ASSUME NEW p \in Nat, p > 0, NEW v \in Nat
  PROVE  v % (2 * p) = (v % p) + p * ((v \div p) % 2)
<1> DEFINE q == v \div p
           r == v % p
<1>1. q \in Nat /\ r \in 0 .. p - 1 /\ v = q * p + r
  <2>1. q \in Int /\ r \in 0 .. p - 1 /\ v = q * p + r
    BY QuotientExists
  <2>2. q >= 0
    OBVIOUS
  <2> QED BY <2>1, <2>2
<1> HIDE DEF q, r
<1>2. (q * p + r) % (p * 2) = (q % 2) * p + r
  BY <1>1, QuotientAbove
<1>3. p * 2 = 2 * p /\ q % 2 \in Int
  BY <1>1
<1>4. v % (2 * p) = (q % 2) * p + r
  BY <1>1, <1>2, <1>3
<1> DEFINE b == q % 2
<1>5. b \in Int
  BY <1>3
<1> HIDE DEF b
<1>6. b * p + r = r + p * b
  BY <1>1, <1>5
<1> QED BY <1>4, <1>6 DEF b, q, r

(* The exclusive or with 0 is the number itself.                           *)
LEMMA XorZero ==
  ASSUME NEW v \in Nat, NEW k \in Nat
  PROVE  Xor(v, 0, k) = v % Power(2, k) /\ Xor(0, v, k) = v % Power(2, k)
<1> DEFINE S == {i \in Nat : /\ Xor(v, 0, i) = v % Power(2, i)
                             /\ Xor(0, v, i) = v % Power(2, i)}
<1>1. 0 \in S
  <2>1. Xor(v, 0, 0) = 0 /\ Xor(0, v, 0) = 0 /\ Power(2, 0) = 1
    BY XorRecursion, PowerOfTwo
  <2>2. v % 1 = 0
    OBVIOUS
  <2> QED BY <2>1, <2>2
<1>2. ASSUME NEW i \in Nat, i \in S PROVE i + 1 \in S
  <2> DEFINE p == Power(2, i)
             q == v \div p
  <2>1. p \in Nat /\ p > 0 /\ Power(2, i + 1) = 2 * p
    BY PowerOfTwo
  <2>2. /\ Xor(v, 0, i + 1) = (v % p) + XorBit(v, 0, i)
        /\ Xor(0, v, i + 1) = (v % p) + XorBit(0, v, i)
    BY <1>2, XorRecursion
  <2>3. /\ XorBit(v, 0, i) = p * ((q + (0 \div p)) % 2)
        /\ XorBit(0, v, i) = p * (((0 \div p) + q) % 2)
    BY DEF XorBit
  <2> HIDE DEF p
  <2>4. v % (2 * p) = (v % p) + p * (q % 2)
    BY <2>1, OneBitMore
  <2>5. 0 \div p = 0 /\ q \in Int
    BY <2>1
  <2> HIDE DEF q
  <2>6. q + 0 = q /\ 0 + q = q
    BY <2>5
  <2> QED BY <2>1, <2>2, <2>3, <2>4, <2>5, <2>6
<1> HIDE DEF S
<1>3. k \in S
  BY <1>1, <1>2, SetInduction
<1> QED BY <1>3 DEF S

(* The lowest bit of a sum does not depend on multiples of 2.              *)
LEMMA EvenPart ==
  ASSUME NEW a \in Nat, NEW b \in Nat, NEW c \in Nat, NEW d \in Nat
  PROVE  ((2 * a + b) + (2 * c + d)) % 2 = (b + d) % 2
<1>1. (2 * a + b) + (2 * c + d) = (a + c) * 2 + (b + d)
  OBVIOUS
<1>2. ((a + c) * 2 + (b + d)) % 2 = (b + d) % 2
  <2>1. a + c \in Int /\ b + d \in Int /\ 2 \in Nat /\ 2 > 0
    OBVIOUS
  <2> QED BY <2>1, ModuloShift
<1> QED BY <1>1, <1>2

(* The last k bits of v are those of l.                                    *)
LowPart(v, l, k) == \E h \in Nat : v = h * Power(2, k) + l

(* A bit below the high part is the low part's.                            *)
LEMMA LowBit ==
  ASSUME NEW k \in Nat, NEW v, NEW x \in Nat, NEW y, NEW z \in Nat,
         LowPart(v, x, k), LowPart(y, z, k), NEW i \in Nat, i < k
  PROVE  XorBit(v, y, i) = XorBit(x, z, i)
<1>0. SUFFICES ASSUME NEW g \in Nat, NEW h \in Nat, NEW l \in Nat,
                      NEW m \in Nat, l = x, m = z,
                      v = g * Power(2, k) + l, y = h * Power(2, k) + m
               PROVE  XorBit(g * Power(2, k) + l, h * Power(2, k) + m, i)
                        = XorBit(l, m, i)
  BY DEF LowPart
<1> DEFINE p == Power(2, i)
           b == Power(2, k - i - 1)
           w == 2 * b
<1>1. p \in Nat /\ p > 0 /\ b \in Nat
  BY PowerOfTwo
<1>2. Power(2, k) = w * p
  <2>1. k - i - 1 \in Nat /\ i + 1 \in Nat /\ k = (k - i - 1) + (i + 1)
    OBVIOUS
  <2>2. Power(2, (k - i - 1) + (i + 1)) = b * Power(2, i + 1)
    BY <2>1, PowerSum
  <2>3. Power(2, i + 1) = 2 * p
    BY PowerOfTwo
  <2> HIDE DEF p, b
  <2>4. b * (2 * p) = (2 * b) * p
    BY <1>1
  <2> QED BY <2>1, <2>2, <2>3, <2>4
<1> HIDE DEF p, b
<1>3. w \in Nat
  BY <1>1
<1> HIDE DEF w
<1>4. /\ (g * (w * p) + l) \div p = g * w + (l \div p)
      /\ (h * (w * p) + m) \div p = h * w + (m \div p)
  BY <1>1, <1>3, QuotientBelow
<1> DEFINE c == l \div p
           d == m \div p
<1>5. c \in Nat /\ d \in Nat
  BY <1>1
<1> HIDE DEF c, d
<1>6. ((g * w + c) + (h * w + d)) % 2 = (c + d) % 2
  <2>1. g * w = 2 * (g * b) /\ h * w = 2 * (h * b)
    BY <1>1 DEF w
  <2>2. g * b \in Nat /\ h * b \in Nat
    BY <1>1
  <2> DEFINE gb == g * b
             hb == h * b
  <2> HIDE DEF gb, hb
  <2>3. ((2 * gb + c) + (2 * hb + d)) % 2 = (c + d) % 2
    BY <1>5, <2>2, EvenPart DEF gb, hb
  <2> QED BY <2>1, <2>3 DEF gb, hb
<1>7. XorBit(g * (w * p) + l, h * (w * p) + m, i)
        = p * (((g * w + c) + (h * w + d)) % 2)
  BY <1>4 DEF XorBit, p, c, d
<1>8. XorBit(l, m, i) = p * ((c + d) % 2)
  BY DEF XorBit, p, c, d
<1> QED BY <1>2, <1>6, <1>7, <1>8

(* A bit of the high part.                                                 *)
LEMMA HighBit ==
  ASSUME NEW k \in Nat, NEW g \in Nat, NEW h \in Nat,
         NEW l \in 0 .. Power(2, k) - 1, NEW m \in 0 .. Power(2, k) - 1,
         NEW i \in Nat
  PROVE  XorBit(g * Power(2, k) + l, h * Power(2, k) + m, k + i)
           = Power(2, k) * XorBit(g, h, i)
<1> DEFINE a == Power(2, k)
           b == Power(2, i)
<1>1. a \in Nat /\ a > 0 /\ b \in Nat /\ b > 0 /\ Power(2, k + i) = a * b
  <2>1. a \in Nat /\ a > 0 /\ b \in Nat /\ b > 0
    BY PowerOfTwo
  <2>2. Power(2, k + i) = a * b
    BY PowerSum
  <2> QED BY <2>1, <2>2
<1>2. l \in 0 .. a - 1 /\ m \in 0 .. a - 1
  OBVIOUS
<1> HIDE DEF a, b
<1>3. /\ (g * a + l) \div (a * b) = g \div b
      /\ (h * a + m) \div (a * b) = h \div b
  BY <1>1, <1>2, QuotientAbove
<1>4. XorBit(g * a + l, h * a + m, k + i)
        = (a * b) * (((g \div b) + (h \div b)) % 2)
  BY <1>1, <1>3 DEF XorBit
<1> DEFINE c == ((g \div b) + (h \div b)) % 2
<1>5. c \in Int
  <2>1. g \div b \in Int /\ h \div b \in Int
    BY <1>1
  <2> QED BY <2>1
<1> HIDE DEF c
<1>6. (a * b) * c = a * (b * c)
  BY <1>1, <1>5
<1>7. XorBit(g, h, i) = b * c
  BY DEF XorBit, b, c
<1> QED BY <1>4, <1>6, <1>7 DEF a, c

(* The exclusive or of numbers in two parts, part by part.                 *)
LEMMA XorInParts ==
  ASSUME NEW k \in Nat, NEW g \in Nat, NEW h \in Nat,
         NEW l \in 0 .. Power(2, k) - 1, NEW m \in 0 .. Power(2, k) - 1,
         NEW j \in Nat
  PROVE  Xor(g * Power(2, k) + l, h * Power(2, k) + m, k + j)
           = Xor(g, h, j) * Power(2, k) + Xor(l, m, k)
<1> DEFINE a == Power(2, k)
           v == g * a + l
           w == h * a + m
           S == {i \in Nat : i <= k => Xor(v, w, i) = Xor(l, m, i)}
           T == {i \in Nat : Xor(v, w, k + i) = Xor(g, h, i) * a + Xor(l, m, k)}
<1>1. a \in Nat /\ l \in Nat /\ m \in Nat /\ v \in Nat /\ w \in Nat
  <2>1. a \in Nat
    BY PowerOfTwo
  <2>2. l \in 0 .. a - 1 /\ m \in 0 .. a - 1
    OBVIOUS
  <2> HIDE DEF a
  <2> QED BY <2>1, <2>2
<1>2. ASSUME NEW i \in Nat, i < k PROVE XorBit(v, w, i) = XorBit(l, m, i)
  <2>1. /\ k \in Nat /\ g \in Nat /\ h \in Nat /\ l \in Nat /\ m \in Nat
        /\ i \in Nat /\ i < k
    BY <1>1, <1>2
  <2>2. LowPart(v, l, k) /\ LowPart(w, m, k)
    BY DEF LowPart
  <2> HIDE DEF v, w, a
  <2> QED BY ONLY <2>1, <2>2, LowBit
<1>3. ASSUME NEW i \in Nat PROVE XorBit(v, w, k + i) = a * XorBit(g, h, i)
  BY HighBit
<1> HIDE DEF v, w, a
<1>4. k \in S
  <2>1. 0 \in S
    BY <1>1, XorRecursion
  <2>2. ASSUME NEW i \in Nat, i \in S PROVE i + 1 \in S
    <3>1. SUFFICES ASSUME i + 1 <= k
                   PROVE  Xor(v, w, i + 1) = Xor(l, m, i + 1)
      OBVIOUS
    <3>2. Xor(v, w, i) = Xor(l, m, i) /\ i < k
      BY <2>2, <3>1
    <3>3. XorBit(v, w, i) = XorBit(l, m, i)
      BY <1>2, <3>2
    <3> QED BY <1>1, <3>2, <3>3, XorRecursion
  <2> HIDE DEF S
  <2> QED BY <2>1, <2>2, SetInduction
<1>5. j \in T
  <2>1. 0 \in T
    <3>1. Xor(v, w, k) = Xor(l, m, k) /\ Xor(g, h, 0) = 0 /\ k + 0 = k
      BY <1>4, XorRecursion
    <3>2. Xor(l, m, k) \in Nat
      BY <1>1, XorRecursion
    <3>3. 0 * a + Xor(l, m, k) = Xor(l, m, k)
      BY <1>1, <3>2
    <3> QED BY <3>1, <3>3
  <2>2. ASSUME NEW i \in Nat, i \in T PROVE i + 1 \in T
    <3> DEFINE x == Xor(g, h, i)
               y == Xor(l, m, k)
               b == XorBit(g, h, i)
    <3>1. x \in Nat /\ y \in Nat /\ b \in Nat
      BY <1>1, XorRecursion, XorBitValue
    <3>2. Xor(v, w, k + i) = x * a + y
      BY <2>2
    <3>3. Xor(v, w, (k + i) + 1) = Xor(v, w, k + i) + XorBit(v, w, k + i)
      <4>1. k + i \in Nat
        OBVIOUS
      <4> QED BY <1>1, <4>1, XorRecursion
    <3>4. XorBit(v, w, k + i) = a * b
      BY <1>3
    <3>5. Xor(g, h, i + 1) = x + b
      BY XorRecursion
    <3> HIDE DEF x, y, b
    <3>6. (x * a + y) + a * b = (x + b) * a + y
      BY <1>1, <3>1
    <3>7. (k + i) + 1 = k + (i + 1)
      OBVIOUS
    <3>8. Xor(v, w, k + (i + 1)) = (x + b) * a + y
      BY <3>2, <3>3, <3>4, <3>6, <3>7
    <3> QED BY <3>5, <3>8 DEF y
  <2> HIDE DEF T
  <2> QED BY <2>1, <2>2, SetInduction
<1> QED BY <1>5 DEF T, v, w, a

(* The words in two halves.                                                *)
Halves == (0 .. Half - 1) \X (0 .. Half - 1)

(* Their halves.                                                           *)
LEMMA HalvesRange ==
  /\ Half \in Nat /\ Half > 0 /\ HalfBits \in Nat /\ HalfBits > 0
  /\ \A w \in Halves : /\ Low(w) \in 0 .. Half - 1
                       /\ High(w) \in 0 .. Half - 1
                       /\ Whole(w) \in Nat
  /\ \A l \in 0 .. Half - 1 : \A h \in 0 .. Half - 1 :
       /\ <<l, h>> \in Halves
       /\ Low(<<l, h>>) = l /\ High(<<l, h>>) = h
       /\ Whole(<<l, h>>) = h * Half + l
<1>1. HalfBits \in Nat /\ HalfBits > 0
  BY Blake2Assumption
<1>2. Half \in Nat /\ Half > 0
  BY <1>1, PowerOfTwo DEF Half
<1>3. ASSUME NEW w \in Halves
      PROVE  /\ Low(w) \in 0 .. Half - 1 /\ High(w) \in 0 .. Half - 1
             /\ Whole(w) \in Nat
  <2>1. Low(w) \in 0 .. Half - 1 /\ High(w) \in 0 .. Half - 1
    BY DEF Halves, Low, High
  <2>2. High(w) * Half + Low(w) \in Nat
    BY <1>2, <2>1
  <2> QED BY <2>1, <2>2 DEF Whole
<1>4. ASSUME NEW l \in 0 .. Half - 1, NEW h \in 0 .. Half - 1
      PROVE  /\ <<l, h>> \in Halves
             /\ Low(<<l, h>>) = l /\ High(<<l, h>>) = h
             /\ Whole(<<l, h>>) = h * Half + l
  BY DEF Halves, Low, High, Whole
<1> QED BY <1>1, <1>2, <1>3, <1>4

(* xor64 is the exclusive or of the words.                                 *)
LEMMA XorOfWords ==
  ASSUME NEW v \in Halves, NEW w \in Halves
  PROVE  /\ xor64(v, w) \in Halves
         /\ Whole(xor64(v, w)) = Xor(Whole(v), Whole(w), 2 * HalfBits)
<1> DEFINE g == High(v)
           h == High(w)
           l == Low(v)
           m == Low(w)
           x == xorHalves(l, m)
           y == xorHalves(g, h)
<1>1. /\ g \in 0 .. Half - 1 /\ h \in 0 .. Half - 1
      /\ l \in 0 .. Half - 1 /\ m \in 0 .. Half - 1
      /\ Half \in Nat /\ HalfBits \in Nat
  BY HalvesRange
<1>2. xor64(v, w) = <<x, y>> /\ Whole(v) = g * Half + l
      /\ Whole(w) = h * Half + m
  BY DEF xor64, Whole
<1> HIDE DEF g, h, l, m
<1>3. g \in Nat /\ h \in Nat /\ l \in Nat /\ m \in Nat
  BY <1>1
<1>4. x \in 0 .. Half - 1 /\ y \in 0 .. Half - 1
  BY <1>1, <1>3, XorRange DEF xorHalves, Half
<1>5. Xor(g * Half + l, h * Half + m, HalfBits + HalfBits) = y * Half + x
  <2>1. l \in 0 .. Power(2, HalfBits) - 1 /\ m \in 0 .. Power(2, HalfBits) - 1
    BY <1>1 DEF Half
  <2>2. Xor(g * Power(2, HalfBits) + l, h * Power(2, HalfBits) + m,
            HalfBits + HalfBits)
          = Xor(g, h, HalfBits) * Power(2, HalfBits) + Xor(l, m, HalfBits)
    BY ONLY <1>1, <1>3, <2>1, XorInParts
  <2> QED BY <2>2 DEF xorHalves, Half
<1>6. HalfBits + HalfBits = 2 * HalfBits
  BY <1>1
<1> HIDE DEF x, y
<1>7. <<x, y>> \in Halves /\ Whole(<<x, y>>) = y * Half + x
  BY <1>4, HalvesRange
<1> QED BY <1>2, <1>5, <1>6, <1>7

(* ADD64 is the sum of the words, without what is beyond their size.       *)
LEMMA SumOfWords ==
  ASSUME NEW v \in Halves, NEW w \in Halves
  PROVE  /\ ADD64(v, w) \in Halves
         /\ Whole(ADD64(v, w)) = (Whole(v) + Whole(w)) % (Half * Half)
<1> DEFINE o0 == Low(v) + Low(w)
           o1 == High(v) + High(w)
           c == IF o0 >= Half THEN o1 + 1 ELSE o1
           l == o0 % Half
           h == c % Half
           size == Half * Half
<1>1. /\ o0 \in 0 .. (2 * Half) - 2 /\ o1 \in Nat /\ Half \in Nat /\ Half > 0
  BY HalvesRange
<1>2. ADD64(v, w) = <<l, h>>
  BY <1>1 DEF ADD64
<1>3. Whole(v) + Whole(w) = o1 * Half + o0
  <2> DEFINE a == High(v)
             b == High(w)
             d == Low(v)
             e == Low(w)
  <2>1. a \in Nat /\ b \in Nat /\ d \in Nat /\ e \in Nat
    BY HalvesRange
  <2> HIDE DEF a, b, d, e
  <2>2. (a * Half + d) + (b * Half + e) = (a + b) * Half + (d + e)
    BY <1>1, <2>1
  <2> QED BY <2>2 DEF Whole, a, b, d, e
<1> HIDE DEF o0, o1
<1>4. c \in Nat /\ l \in 0 .. Half - 1 /\ o1 * Half + o0 = c * Half + l
  <2>1. CASE o0 >= Half
    <3>1. o0 - Half \in 0 .. Half - 1 /\ o0 = 1 * Half + (o0 - Half)
      BY <1>1, <2>1
    <3>2. (1 * Half + (o0 - Half)) % Half = o0 - Half
      BY <1>1, <3>1, QuotientUnique
    <3>3. l = o0 - Half
      BY <3>1, <3>2
    <3>4. o1 * Half + o0 = (o1 + 1) * Half + (o0 - Half)
      BY <1>1
    <3> QED BY <1>1, <2>1, <3>1, <3>3, <3>4
  <2>2. CASE o0 < Half
    <3>1. l = o0 /\ c = o1
      BY <1>1, <2>2
    <3> QED BY <1>1, <2>2, <3>1
  <2> QED BY <1>1, <2>1, <2>2
<1> HIDE DEF l, c
<1>5. h \in 0 .. Half - 1 /\ (c * Half + l) % (Half * Half) = h * Half + l
  <2>1. h \in 0 .. Half - 1
    BY <1>1, <1>4, QuotientExists
  <2> QED BY <1>1, <1>4, <2>1, QuotientAbove
<1> HIDE DEF h
<1>6. <<l, h>> \in Halves /\ Whole(<<l, h>>) = h * Half + l
  BY <1>4, <1>5, HalvesRange
<1> QED BY <1>2, <1>3, <1>4, <1>5, <1>6

(* A sum of three words.                                                   *)
LEMMA SumOfThreeWords ==
  ASSUME NEW v \in Halves, NEW w \in Halves, NEW x \in Halves
  PROVE  /\ ADD64(ADD64(v, w), x) \in Halves
         /\ Whole(ADD64(ADD64(v, w), x))
              = (Whole(v) + Whole(w) + Whole(x)) % (Half * Half)
<1> DEFINE a == Whole(v) + Whole(w)
           b == Whole(x)
           n == Half * Half
           u == ADD64(v, w)
<1>1. a \in Nat /\ b \in Nat /\ n \in Nat /\ n > 0
  BY HalvesRange
<1>2. u \in Halves /\ Whole(u) = a % n
  BY SumOfWords
<1> HIDE DEF u
<1>3. ADD64(u, x) \in Halves /\ Whole(ADD64(u, x)) = (Whole(u) + b) % n
  BY <1>2, SumOfWords
<1> HIDE DEF a, b, n
<1> DEFINE q == a \div n
           r == a % n
<1>4. q \in Int /\ r \in Int /\ a = q * n + r
  BY <1>1, QuotientExists
<1> HIDE DEF q, r
<1>5. a + b = q * n + (r + b) /\ r + b \in Int
  BY <1>1, <1>4
<1>6. (q * n + (r + b)) % n = (r + b) % n
  BY <1>1, <1>4, <1>5, ModuloShift
<1>7. Whole(ADD64(u, x)) = (a + b) % n
  BY <1>2, <1>3, <1>5, <1>6 DEF r
<1> QED BY <1>3, <1>7 DEF u, a, b, n

(* The two parts of a rotated half do not meet.                            *)
LEMMA PartsSpliced ==
  ASSUME NEW lower \in 0 .. Half - 1, NEW upper \in 0 .. Half - 1,
         NEW n \in 0 .. HalfBits - 1
  PROVE  /\ Spliced(lower, upper, n) \in 0 .. Half - 1
         /\ Spliced(lower, upper, n)
              = (lower \div Power(2, n))
                + (upper % Power(2, n)) * Power(2, HalfBits - n)
<1> DEFINE k == HalfBits - n
           a == Power(2, k)
           p == Power(2, n)
           l == lower \div p
           q == upper \div p
           u == upper % p
<1>1. /\ k \in Nat /\ n \in Nat /\ HalfBits = k + n /\ HalfBits \in Nat
      /\ Half \in Nat
  BY HalvesRange
<1>2. /\ a \in Nat /\ a > 0 /\ p \in Nat /\ p > 0 /\ Half = a * p
  <2> HIDE DEF k
  <2>1. a \in Nat /\ a > 0 /\ p \in Nat /\ p > 0
    BY <1>1, PowerOfTwo
  <2>2. Power(2, k + n) = a * p
    BY <1>1, PowerSum
  <2> QED BY <1>1, <2>1, <2>2 DEF Half
<1>3. Spliced(lower, upper, n) = Xor(l, (upper * a) % Half, k + n)
  BY <1>1 DEF Spliced, xorHalves
<1> HIDE DEF k, a, p
<1>4. l \in 0 .. a - 1
  <2>1. lower \in Nat /\ lower < a * p
    BY <1>1, <1>2
  <2>2. l \in Int /\ lower % p \in 0 .. p - 1 /\ lower = l * p + (lower % p)
    BY <1>2, <2>1, QuotientExists
  <2>3. l >= 0
    BY <1>2, <2>1
  <2>4. ~(a <= l)
    <3>1. SUFFICES ASSUME a <= l PROVE FALSE
      OBVIOUS
    <3>2. a * p <= l * p
      BY <1>2, <2>2, <3>1, TimesMonotone
    <3> QED BY <1>2, <2>1, <2>2, <3>2
  <2> HIDE DEF l
  <2> QED BY <1>2, <2>2, <2>3, <2>4
<1>5. u \in 0 .. p - 1 /\ (upper * a) % Half = u * a
  <2>1. upper \in Nat
    BY <1>1
  <2>2. u \in 0 .. p - 1
    BY <1>2, <2>1, QuotientExists
  <2>3. (upper * a + 0) % (a * p) = u * a + 0
    <3>1. 0 \in 0 .. a - 1
      BY <1>2
    <3> QED BY <1>2, <2>1, <3>1, QuotientAbove
  <2>4. upper * a + 0 = upper * a /\ u * a + 0 = u * a
    BY <1>2, <2>1, <2>2
  <2> QED BY <1>2, <2>2, <2>3, <2>4
<1> HIDE DEF l, u
<1>6. l \in Nat /\ u \in Nat
  BY <1>4, <1>5
<1>7. Xor(0 * a + l, u * a + 0, k + n) = Xor(0, u, n) * a + Xor(l, 0, k)
  <2>1. 0 \in Nat /\ 0 \in 0 .. Power(2, k) - 1 /\ l \in 0 .. Power(2, k) - 1
    BY <1>2, <1>4 DEF a
  <2> QED BY <1>1, <1>6, <2>1, XorInParts DEF a
<1>8. Xor(0, u, n) = u
  <2>1. u % p = u
    BY <1>2, <1>5
  <2> QED BY <1>1, <1>6, <2>1, XorZero DEF p
<1>9. Xor(l, 0, k) = l
  <2>1. l % a = l
    BY <1>2, <1>4
  <2> QED BY <1>1, <1>6, <2>1, XorZero DEF a
<1>10. 0 * a + l = l /\ u * a + 0 = u * a /\ u * a + l = l + u * a
  BY <1>2, <1>6
<1>11. Spliced(lower, upper, n) = l + u * a
  BY <1>3, <1>5, <1>7, <1>8, <1>9, <1>10
<1>12. l + u * a \in 0 .. Half - 1
  <2>1. u + 1 <= p /\ u + 1 \in Int
    BY <1>2, <1>5
  <2>2. (u + 1) * a <= p * a
    BY <1>2, <2>1, TimesMonotone
  <2>3. u * a \in Nat /\ (u + 1) * a = u * a + a /\ p * a = Half
    BY <1>2, <1>6
  <2> QED BY <1>1, <1>2, <1>4, <2>2, <2>3
<1> QED BY <1>11, <1>12 DEF l, u, a, k, p

(* The rotations are those of the words.                                   *)
LEMMA RotationOfWords ==
  ASSUME NEW w \in Halves, NEW n \in 0 .. (2 * HalfBits) - 1
  PROVE  /\ Rotated(w, n) \in Halves
         /\ Whole(Rotated(w, n)) = RotateRight(Whole(w), n)
<1> DEFINE L == Low(w)
           U == High(w)
<1>1. /\ L \in 0 .. Half - 1 /\ U \in 0 .. Half - 1
      /\ Half \in Nat /\ Half > 0 /\ HalfBits \in Nat /\ HalfBits > 0
      /\ Whole(w) = U * Half + L
  BY HalvesRange DEF Whole
<1>2. RotateRight(Whole(w), n)
        = ((U * Half + L) \div Power(2, n))
          + ((U * Half + L) % Power(2, n)) * Power(2, (2 * HalfBits) - n)
  BY <1>1 DEF RotateRight
<1>3. /\ n < HalfBits => Rotated(w, n) = <<Spliced(L, U, n), Spliced(U, L, n)>>
      /\ n >= HalfBits =>
           Rotated(w, n) = <<Spliced(U, L, n - HalfBits),
                             Spliced(L, U, n - HalfBits)>>
  BY <1>1 DEF Rotated
<1> HIDE DEF L, U
<1>4. ASSUME NEW m \in 0 .. HalfBits - 1
      PROVE  /\ m \in Nat /\ HalfBits - m \in Nat
             /\ Power(2, m) \in Nat /\ Power(2, m) > 0
             /\ Power(2, HalfBits - m) \in Nat /\ Power(2, HalfBits - m) > 0
             /\ Half = Power(2, HalfBits - m) * Power(2, m)
  <2> DEFINE k == HalfBits - m
  <2>1. k \in Nat /\ m \in Nat /\ k + m = HalfBits
    BY <1>1
  <2> HIDE DEF k
  <2>2. Power(2, k + m) = Power(2, k) * Power(2, m)
    BY <2>1, PowerSum
  <2>3. /\ Power(2, m) \in Nat /\ Power(2, m) > 0
        /\ Power(2, k) \in Nat /\ Power(2, k) > 0
    BY <2>1, PowerOfTwo
  <2> QED BY <2>1, <2>2, <2>3 DEF Half, k
<1>5. CASE n < HalfBits
  <2> DEFINE a == Power(2, HalfBits - n)
             p == Power(2, n)
             l1 == L \div p
             l0 == L % p
             u1 == U \div p
             u0 == U % p
             s == Spliced(L, U, n)
             t == Spliced(U, L, n)
  <2>1. n \in 0 .. HalfBits - 1
    BY <1>1, <1>5
  <2>2. /\ a \in Nat /\ a > 0 /\ p \in Nat /\ p > 0 /\ Half = a * p
        /\ n \in Nat /\ HalfBits - n \in Nat
    BY <1>4, <2>1
  <2>3. /\ s \in 0 .. Half - 1 /\ t \in 0 .. Half - 1
        /\ s = l1 + u0 * a /\ t = u1 + l0 * a
    BY <1>1, <2>1, PartsSpliced
  <2>4. Power(2, (2 * HalfBits) - n) = a * Half
    <3> DEFINE k == HalfBits - n
    <3>1. (2 * HalfBits) - n = k + HalfBits /\ k \in Nat
      BY <1>1, <2>2
    <3> HIDE DEF k
    <3>2. Power(2, k + HalfBits) = Power(2, k) * Power(2, HalfBits)
      BY <1>1, <3>1, PowerSum
    <3> QED BY <3>1, <3>2 DEF Half, k
  <2> HIDE DEF a, p, s, t
  <2>5. L \in Nat /\ U \in Nat
    BY <1>1
  <2>6. /\ l1 \in Int /\ l0 \in Int /\ L = l1 * p + l0
        /\ u1 \in Int /\ u0 \in Int /\ U = u1 * p + u0
    BY <2>2, <2>5, QuotientExists
  <2>7. /\ (U * Half + L) \div p = U * a + l1
        /\ (U * Half + L) % p = l0
    BY <2>2, <2>5, QuotientBelow
  <2> HIDE DEF l1, l0, u1, u0
  <2>8. t * Half + s = (U * a + l1) + l0 * (a * Half)
    <3>1. t * Half = u1 * (a * p) + l0 * (a * Half)
      BY <2>2, <2>3, <2>6
    <3>2. u1 * (a * p) + u0 * a = U * a
      <4>1. U * a = (u1 * p) * a + u0 * a
        BY <2>2, <2>6
      <4>2. (u1 * p) * a = u1 * (a * p)
        BY <2>2, <2>6
      <4> QED BY <4>1, <4>2
    <3> DEFINE x == u1 * (a * p)
               y == l0 * (a * Half)
               z == u0 * a
    <3>3. x \in Int /\ y \in Int /\ z \in Int
      BY <1>1, <2>2, <2>6
    <3>4. t * Half = x + y /\ s = l1 + z /\ x + z = U * a
      BY <2>3, <3>1, <3>2
    <3> HIDE DEF x, y, z
    <3>5. t * Half + s = (U * a + l1) + y
      BY <2>6, <3>3, <3>4
    <3> QED BY <3>5 DEF y
  <2>9. <<s, t>> \in Halves /\ Whole(<<s, t>>) = t * Half + s
    BY <2>3, HalvesRange
  <2>10. Rotated(w, n) = <<s, t>>
    BY <1>3, <1>5 DEF s, t
  <2>11. RotateRight(Whole(w), n) = (U * a + l1) + l0 * (a * Half)
    BY <1>2, <2>4, <2>7 DEF p
  <2> QED BY <2>8, <2>9, <2>10, <2>11
<1>6. CASE n >= HalfBits
  <2> DEFINE m == n - HalfBits
             a == Power(2, HalfBits - m)
             p == Power(2, m)
             l1 == L \div p
             l0 == L % p
             u1 == U \div p
             u0 == U % p
             s == Spliced(U, L, m)
             t == Spliced(L, U, m)
  <2>1. m \in 0 .. HalfBits - 1 /\ n = HalfBits + m
        /\ (2 * HalfBits) - n = HalfBits - m
    BY <1>1, <1>6
  <2>10. Rotated(w, n) = <<s, t>>
    BY <1>3, <1>6
  <2> HIDE DEF m
  <2>2. /\ a \in Nat /\ a > 0 /\ p \in Nat /\ p > 0 /\ Half = a * p
        /\ m \in Nat
    BY <1>4, <2>1
  <2>3. /\ s \in 0 .. Half - 1 /\ t \in 0 .. Half - 1
        /\ s = u1 + l0 * a /\ t = l1 + u0 * a
    BY <1>1, <2>1, PartsSpliced
  <2>4. Power(2, n) = Half * p
    <3>1. Power(2, HalfBits + m) = Power(2, HalfBits) * Power(2, m)
      BY <1>1, <2>2, PowerSum
    <3> QED BY <2>1, <3>1 DEF Half
  <2>5. Power(2, (2 * HalfBits) - n) = a
    BY <2>1
  <2> HIDE DEF a, p, s, t
  <2>6. L \in Nat /\ U \in Nat
    BY <1>1
  <2>7. /\ l1 \in Int /\ l0 \in Int /\ L = l1 * p + l0
        /\ u1 \in Int /\ u0 \in Int /\ U = u1 * p + u0
    BY <2>2, <2>6, QuotientExists
  <2>8. /\ (U * Half + L) \div (Half * p) = u1
        /\ (U * Half + L) % (Half * p) = u0 * Half + L
    <3>1. /\ Half \in Nat /\ Half > 0 /\ p \in Nat /\ p > 0
          /\ U \in Nat /\ L \in 0 .. Half - 1
      BY <1>1, <2>2, <2>6
    <3> QED BY ONLY <3>1, QuotientAbove
  <2> HIDE DEF l1, l0, u1, u0
  <2>9. t * Half + s = u1 + (u0 * Half + L) * a
    <3>1. t * Half = l1 * (a * p) + (u0 * a) * Half
      BY <2>2, <2>3, <2>7
    <3>2. (u0 * Half + L) * a = (u0 * a) * Half + L * a
      BY <1>1, <2>2, <2>6, <2>7
    <3>3. L * a = l1 * (a * p) + l0 * a
      <4>1. L * a = (l1 * p) * a + l0 * a
        BY <2>2, <2>7
      <4>2. (l1 * p) * a = l1 * (a * p)
        BY <2>2, <2>7
      <4> QED BY <4>1, <4>2
    <3> DEFINE x == l1 * (a * p)
               y == (u0 * a) * Half
               z == l0 * a
               v == L * a
    <3>4. x \in Int /\ y \in Int /\ z \in Int /\ v \in Int
      BY <1>1, <2>2, <2>6, <2>7
    <3>5. /\ t * Half = x + y /\ s = u1 + z /\ v = x + z
          /\ (u0 * Half + L) * a = y + v
      BY <2>3, <3>1, <3>2, <3>3
    <3> HIDE DEF x, y, z, v
    <3>6. t * Half + s = u1 + (y + v)
      BY <2>7, <3>4, <3>5
    <3> QED BY <3>5, <3>6
  <2>11. <<s, t>> \in Halves /\ Whole(<<s, t>>) = t * Half + s
    BY <2>3, HalvesRange
  <2>12. RotateRight(Whole(w), n) = u1 + (u0 * Half + L) * a
    BY <1>2, <2>4, <2>5, <2>8
  <2> QED BY <2>9, <2>10, <2>11, <2>12 DEF m
<1>7. n < HalfBits \/ n >= HalfBits
  BY <1>1
<1> QED BY <1>5, <1>6, <1>7

-----------------------------------------------------------------------------
(* The mixing, step by step.                                               *)

(* A rotation of an exclusive or.                                          *)
LEMMA RotatedXor ==
  ASSUME NEW v \in Halves, NEW w \in Halves,
         NEW n \in 0 .. (2 * HalfBits) - 1
  PROVE  /\ Rotated(xor64(v, w), n) \in Halves
         /\ Whole(Rotated(xor64(v, w), n))
              = RotateRight(Xor(Whole(v), Whole(w), 2 * HalfBits), n)
<1> DEFINE x == xor64(v, w)
<1>1. x \in Halves /\ Whole(x) = Xor(Whole(v), Whole(w), 2 * HalfBits)
  BY XorOfWords
<1> HIDE DEF x
<1>2. /\ Rotated(x, n) \in Halves
      /\ Whole(Rotated(x, n)) = RotateRight(Whole(x), n)
  BY <1>1, RotationOfWords
<1> QED BY <1>1, <1>2 DEF x

(* The distances are those of a word.                                      *)
LEMMA Distances ==
  /\ HalfBits \in 0 .. (2 * HalfBits) - 1
  /\ (3 * HalfBits) \div 4 \in 0 .. (2 * HalfBits) - 1
  /\ HalfBits \div 2 \in 0 .. (2 * HalfBits) - 1
  /\ (2 * HalfBits) - 1 \in 0 .. (2 * HalfBits) - 1
  BY Blake2Assumption

(* Four words are those that the mixing of words gives.                    *)
MixedAs(r, a, b, c, d, x, y) ==
  [i \in 1 .. 4 |-> Whole(r[i])]
    = MixWords(Whole(a), Whole(b), Whole(c), Whole(d), Whole(x), Whole(y))

(* The mixing of halves is that of words.                                  *)
LEMMA Mixed ==
  ASSUME NEW a \in Halves, NEW b \in Halves, NEW c \in Halves,
         NEW d \in Halves, NEW x \in Halves, NEW y \in Halves
  PROVE  MixedAs(B2B_G(a, b, c, d, x, y), a, b, c, d, x, y)
<1> DEFINE size == Half * Half
           xor(m, n) == Xor(m, n, 2 * HalfBits)
           a1 == ADD64(ADD64(a, b), x)
           d1 == Rotated(xor64(d, a1), HalfBits)
           c1 == ADD64(c, d1)
           b1 == Rotated(xor64(b, c1), (3 * HalfBits) \div 4)
           a2 == ADD64(ADD64(a1, b1), y)
           d2 == Rotated(xor64(d1, a2), HalfBits \div 2)
           c2 == ADD64(c1, d2)
           b2 == Rotated(xor64(b1, c2), 2 * HalfBits - 1)
           A1 == (Whole(a) + Whole(b) + Whole(x)) % size
           D1 == RotateRight(xor(Whole(d), A1), HalfBits)
           C1 == (Whole(c) + D1) % size
           B1 == RotateRight(xor(Whole(b), C1), (3 * HalfBits) \div 4)
           A2 == (A1 + B1 + Whole(y)) % size
           D2 == RotateRight(xor(D1, A2), HalfBits \div 2)
           C2 == (C1 + D2) % size
           B2 == RotateRight(xor(B1, C2), 2 * HalfBits - 1)
<1>1. B2B_G(a, b, c, d, x, y) = <<a2, b2, c2, d2>>
  BY DEF B2B_G
<1>2. MixWords(Whole(a), Whole(b), Whole(c), Whole(d), Whole(x), Whole(y))
        = <<A2, B2, C2, D2>>
  BY DEF MixWords
<1>3. a1 \in Halves /\ Whole(a1) = A1
  BY SumOfThreeWords
<1> HIDE DEF a1, A1
<1>4. d1 \in Halves /\ Whole(d1) = D1
  BY <1>3, RotatedXor, Distances
<1> HIDE DEF d1, D1
<1>5. c1 \in Halves /\ Whole(c1) = C1
  BY <1>4, SumOfWords
<1> HIDE DEF c1, C1
<1>6. b1 \in Halves /\ Whole(b1) = B1
  BY <1>5, RotatedXor, Distances
<1> HIDE DEF b1, B1
<1>7. a2 \in Halves /\ Whole(a2) = A2
  BY <1>3, <1>6, SumOfThreeWords
<1> HIDE DEF a2, A2
<1>8. d2 \in Halves /\ Whole(d2) = D2
  BY <1>4, <1>7, RotatedXor, Distances
<1> HIDE DEF d2, D2
<1>9. c2 \in Halves /\ Whole(c2) = C2
  BY <1>5, <1>8, SumOfWords
<1> HIDE DEF c2, C2
<1>10. b2 \in Halves /\ Whole(b2) = B2
  BY <1>6, <1>9, RotatedXor, Distances
<1> HIDE DEF b2, B2
<1>11. [i \in 1 .. 4 |-> Whole(<<a2, b2, c2, d2>>[i])] = <<A2, B2, C2, D2>>
  BY <1>7, <1>8, <1>9, <1>10
<1> QED BY <1>1, <1>2, <1>11 DEF MixedAs

(* A call has words and returns what B2B_G does.                           *)
BlakeInv ==
  /\ call \in [fn : {"blake2"}, a : Halves, b : Halves, c : Halves,
               d : Halves, x : Halves, y : Halves]
  /\ result \in {pending, B2B_G(call.a, call.b, call.c, call.d,
                                 call.x, call.y)}

(* The mixing on halves is that of words, for words of any size: no carry  *)
(* between the halves is lost and no bit by a rotation.                    *)
THEOREM WordsMixed == Blake2Spec => []Blake2MixesWords
<1>1. Blake2Init => BlakeInv
  BY Blake2Assumption DEF Blake2Init, BlakeInv, Halves
<1>2. BlakeInv /\ [CallBlake2 \/ Return]_callVars => BlakeInv'
  BY DEF BlakeInv, CallBlake2, Call, Return, callVars
<1>3. BlakeInv => Blake2MixesWords
  <2>1. SUFFICES ASSUME BlakeInv, result # pending PROVE Blake2MixesWords
    BY DEF Blake2MixesWords, Returned
  <2>2. /\ call.a \in Halves /\ call.b \in Halves /\ call.c \in Halves
        /\ call.d \in Halves /\ call.x \in Halves /\ call.y \in Halves
        /\ result = B2B_G(call.a, call.b, call.c, call.d, call.x, call.y)
    BY <2>1 DEF BlakeInv
  <2>3. MixedAs(result, call.a, call.b, call.c, call.d, call.x, call.y)
    BY <2>2, Mixed
  <2> QED BY <2>3 DEF Blake2MixesWords, MixedAs
<1> QED BY <1>1, <1>2, <1>3, PTL DEF Blake2Spec
===============================================================================
