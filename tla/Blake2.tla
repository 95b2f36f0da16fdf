-------------------------------- MODULE Blake2 --------------------------------
(***************************************************************************)
(* The mixing function of the blake2 host function (utils/blake2.ts),      *)
(* which has its 64-bit words in two halves.  A half has HalfBits bits, 32 *)
(* in the code, and a word is a pair of halves, the low one first.         *)
(***************************************************************************)
EXTENDS HostCall, Powers

CONSTANTS HalfBits,  \* bits of half a word
          Words      \* the words that are mixed

Half == Power(2, HalfBits)

ASSUME Blake2Assumption ==
  /\ HalfBits \in Nat \ {0} /\ HalfBits % 4 = 0
  /\ Words \subseteq (0 .. Half - 1) \X (0 .. Half - 1)

Low(w) == w[1]
High(w) == w[2]

-----------------------------------------------------------------------------
(* The exclusive or of numbers of so many bits: bit i is set if one of the *)
(* numbers has it and the other has not.                                   *)
Xor(m, n, bits) ==
  LET xor[i \in Nat] ==
        IF i = 0 THEN 0
        ELSE LET bit == Power(2, i - 1)
             IN xor[i - 1] + bit * ((m \div bit + n \div bit) % 2)
  IN xor[bits]

xorHalves(m, n) == Xor(m, n, HalfBits)

xor64(v, w) == <<xorHalves(Low(v), Low(w)), xorHalves(High(v), High(w))>>

(* Mutated form: the carry is lost.                                        *)
ADD64Carryless(v, w) ==
  <<(Low(v) + Low(w)) % Half, (High(v) + High(w)) % Half>>

(* ADD64AA and ADD64AC: the sum of the low halves may carry.               *)
ADD64(v, w) ==
  LET o0 == Low(v) + Low(w)
      o1 == High(v) + High(w)
  IN <<o0 % Half, (IF o0 >= Half THEN o1 + 1 ELSE o1) % Half>>

(* (lower >>> n) ^ (upper << 32 - n), as it is kept in a Uint32Array.      *)
Spliced(lower, upper, n) ==
  xorHalves(lower \div Power(2, n),
            (upper * Power(2, HalfBits - n)) % Half)

(* The rotations of B2B_G to the right, by less than a half and by more.   *)
Rotated(w, n) ==
  IF n < HalfBits
  THEN <<Spliced(Low(w), High(w), n), Spliced(High(w), Low(w), n)>>
  ELSE <<Spliced(High(w), Low(w), n - HalfBits),
         Spliced(Low(w), High(w), n - HalfBits)>>

(* By 32, 24, 16 and 63 bits, for words of 64 bits.                        *)
B2B_G(a, b, c, d, x, y) ==
  LET a1 == ADD64(ADD64(a, b), x)
      d1 == Rotated(xor64(d, a1), HalfBits)
      c1 == ADD64(c, d1)
      b1 == Rotated(xor64(b, c1), (3 * HalfBits) \div 4)
      a2 == ADD64(ADD64(a1, b1), y)
      d2 == Rotated(xor64(d1, a2), HalfBits \div 2)
      c2 == ADD64(c1, d2)
      b2 == Rotated(xor64(b1, c2), 2 * HalfBits - 1)
  IN <<a2, b2, c2, d2>>

-----------------------------------------------------------------------------
CallBlake2 == Call({"blake2"},
                   B2B_G(call.a, call.b, call.c, call.d, call.x, call.y))

Blake2Init ==
  /\ result = pending
  /\ call \in [fn : {"blake2"}, a : Words, b : Words, c : Words, d : Words,
               x : Words, y : Words]

Blake2Spec == Blake2Init /\ [][CallBlake2 \/ Return]_callVars

-----------------------------------------------------------------------------
(* Property.                                                               *)

(* The mixing function of RFC 7693, on whole words.                        *)
Whole(w) == High(w) * Half + Low(w)

RotateRight(n, k) ==
  (n \div Power(2, k)) + (n % Power(2, k)) * Power(2, 2 * HalfBits - k)

MixWords(a, b, c, d, x, y) ==
  LET size == Half * Half
      xor(m, n) == Xor(m, n, 2 * HalfBits)
      a1 == (a + b + x) % size
      d1 == RotateRight(xor(d, a1), HalfBits)
      c1 == (c + d1) % size
      b1 == RotateRight(xor(b, c1), (3 * HalfBits) \div 4)
      a2 == (a1 + b1 + y) % size
      d2 == RotateRight(xor(d1, a2), HalfBits \div 2)
      c2 == (c1 + d2) % size
      b2 == RotateRight(xor(b1, c2), 2 * HalfBits - 1)
  IN <<a2, b2, c2, d2>>

(* The mixing on halves is the mixing of words: no carry between the       *)
(* halves is lost and no bit by the rotations.                             *)
Blake2MixesWords ==
  Returned({"blake2"}) =>
    [i \in 1 .. 4 |-> Whole(result[i])]
      = MixWords(Whole(call.a), Whole(call.b), Whole(call.c),
                 Whole(call.d), Whole(call.x), Whole(call.y))
=============================================================================
