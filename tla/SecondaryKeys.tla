---------------------------- MODULE SecondaryKeys ----------------------------
(***************************************************************************)
(* Secondary keys on their way between a contract's memory and the indexes *)
(* (SecondaryKeyConverter in antelope/vm.ts, buffer.ts), the orders of the *)
(* indexes (antelope/table.ts), their highest keys, and the keys that the  *)
(* storage deltas show (antelope/blockchain.ts).                           *)
(*                                                                         *)
(* Memory is a sequence of bytes, the lowest address first; contracts are  *)
(* little endian.  A 64-bit number has two bytes here, and so has a        *)
(* double: a sign, an exponent, the highest of which is that of infinity   *)
(* and NaN, and a mantissa.                                                *)
(***************************************************************************)
EXTENDS HostCall, Integers, SequencesExt

CONSTANTS Byte,       \* values of a byte
          Mantissas,  \* values of the mantissa of a double
          LongBytes   \* values of the bytes of keys longer than 64 bits

ASSUME KeysAssumption == /\ Byte \in Nat /\ Byte > 1
                         /\ Mantissas \in Nat /\ Mantissas > 1
                         /\ (Byte * Byte) % (4 * Mantissas) = 0
                         /\ LongBytes \subseteq 0 .. Byte - 1

Word64 == Byte * Byte

Indexes64 == {"idx64", "idxDouble"}
LongIndexes == {"idx128", "idx256"}
AllIndexes == Indexes64 \cup LongIndexes

(* The memory that holds a key: checksum256 has two halves of 128 bits,    *)
(* which have two bytes here.                                              *)
KeyMemory(index) == IF index \in Indexes64 THEN [1 .. 2 -> 0 .. Byte - 1]
                    ELSE [1 .. 4 -> LongBytes]

FirstHalf(bytes) == SubSeq(bytes, 1, 2)
SecondHalf(bytes) == SubSeq(bytes, 3, 4)

(* DataView's accesses to 64 bits with littleEndian false, and true.       *)
getBE(bytes) == bytes[1] * Byte + bytes[2]
getLE(bytes) == bytes[2] * Byte + bytes[1]
setBE(value) == <<value \div Byte, value % Byte>>
setLE(value) == <<value % Byte, value \div Byte>>

-----------------------------------------------------------------------------
(* Doubles, by their bits.                                                 *)

SignBit == Word64 \div 2
MagnitudeBits(bits) == bits % SignBit
InfinityBits == SignBit - Mantissas

IsNaN(bits) == MagnitudeBits(bits) > InfinityBits

(* The place of a double among the doubles; both zeros have the same.      *)
Ordinal(bits) == IF bits < SignBit THEN bits ELSE -MagnitudeBits(bits)

(* Number.MAX_VALUE                                                        *)
MaxDouble == InfinityBits - 1

-----------------------------------------------------------------------------
(* SecondaryKeyConverter.  A key is a number, the bits of a double, or for *)
(* checksum256 a buffer.                                                   *)

(* checksum256.from, which is its own inverse: each half reversed.         *)
ReverseHalves(bytes) == Reverse(FirstHalf(bytes)) \o Reverse(SecondHalf(bytes))

(* readDoubleLE leaves out DataView's last argument and reads big endian.  *)
from(index, bytes) ==
  CASE index = "idx64"     -> getLE(bytes)
    [] index = "idx128"    -> getLE(SecondHalf(bytes)) * Word64
                                + getLE(FirstHalf(bytes))
    [] index = "idx256"    -> ReverseHalves(bytes)
    [] index = "idxDouble" -> getBE(bytes)

(* Mutated form: doubles are written little endian.                        *)
toLittleEndian(index, key, nan) ==
  CASE index = "idx64"     -> setLE(key)
    [] index = "idx128"    -> setLE(key % Word64) \o setLE(key \div Word64)
    [] index = "idx256"    -> ReverseHalves(key)
    [] index = "idxDouble" -> setLE(IF IsNaN(key) THEN nan ELSE key)

(* The engine may write any NaN for a NaN.                                 *)
to(index, key, nan) ==
  CASE index = "idx64"     -> setLE(key)
    [] index = "idx128"    -> setLE(key % Word64) \o setLE(key \div Word64)
    [] index = "idx256"    -> ReverseHalves(key)
    [] index = "idxDouble" -> setBE(IF IsNaN(key) THEN nan ELSE key)

(* getStorage's convertSecondary: a checksum is converted once more, which *)
(* gives the bytes of the memory; a double is written and read back in two *)
(* byte orders, which gives the contract's double.                         *)
convertSecondary(index, key, nan) ==
  CASE index = "idxDouble" -> getLE(to(index, key, nan))
    [] index = "idx256"    -> ReverseHalves(key)
    [] OTHER               -> key

(* The first difference of two buffers of one length decides.              *)
compareBuffers(a, b) ==
  IF a = b THEN 0
  ELSE LET i == CHOOSE i \in DOMAIN a : /\ a[i] # b[i]
                                        /\ \A j \in 1 .. i - 1 : a[j] = b[j]
       IN IF a[i] < b[i] THEN -1 ELSE 1

compareNumbers(a, b) == IF a = b THEN 0 ELSE IF a < b THEN -1 ELSE 1

(* comparePrimitives and compareBuffer, of one table and without regard to *)
(* primary keys: NaN is neither === nor < anything.                        *)
comparePrimitives(index, a, b) ==
  CASE index = "idx256" -> compareBuffers(a, b)
    [] index = "idxDouble" -> IF IsNaN(a) \/ IsNaN(b) THEN 1
                              ELSE compareNumbers(Ordinal(a), Ordinal(b))
    [] OTHER -> compareNumbers(a, b)

(* secondary.highest                                                       *)
highest(index) ==
  CASE index = "idx64"     -> Word64 - 1
    [] index = "idx128"    -> Word64 * Word64 - 1
    [] index = "idx256"    -> <<Byte - 1, Byte - 1, Byte - 1, Byte - 1>>
    [] index = "idxDouble" -> MaxDouble

(* Mutated form: the highest key itself is not looked up.                  *)
penultimateBelow(index, keys) ==
  {k \in keys : /\ comparePrimitives(index, k, highest(index)) < 0
                /\ \A l \in keys :
                     comparePrimitives(index, l, highest(index)) < 0
                       => comparePrimitives(index, l, k) <= 0}

(* secondary.penultimate, of a table with these keys: the highest key, or  *)
(* the one before it; the set is empty if there is none.                   *)
penultimate(index, keys) ==
  {k \in keys : /\ comparePrimitives(index, k, highest(index)) <= 0
                /\ \A l \in keys :
                     comparePrimitives(index, l, highest(index)) <= 0
                       => comparePrimitives(index, l, k) <= 0}

-----------------------------------------------------------------------------
(* A contract stores two keys, a and b, and reads a again.                 *)
CallIndex ==
  \E nan \in {bits \in 0 .. Word64 - 1 : IsNaN(bits)} :
    Call(AllIndexes,
         LET a == from(call.fn, call.a)
             b == from(call.fn, call.b)
         IN [order |-> comparePrimitives(call.fn, a, b),
             read  |-> to(call.fn, a, nan),
             shown |-> convertSecondary(call.fn, a, nan),
             last  |-> penultimate(call.fn, {a, b})])

KeysInit ==
  /\ result = pending
  /\ \E index \in AllIndexes : \E a, b \in KeyMemory(index) :
       call = [fn |-> index, a |-> a, b |-> b]

KeysSpec == KeysInit /\ [][CallIndex \/ Return]_callVars

-----------------------------------------------------------------------------
(* Properties.                                                             *)

(* The number that a contract means by the bytes; a checksum is two        *)
(* 128-bit numbers, the first of which comes first in the order.           *)
Meant(index, bytes) ==
  CASE index \in Indexes64 -> getLE(bytes)
    [] index = "idx128"    -> getLE(SecondHalf(bytes)) * Word64
                                + getLE(FirstHalf(bytes))
    [] index = "idx256"    -> getLE(FirstHalf(bytes)) * Word64
                                + getLE(SecondHalf(bytes))

(* Integer keys are in the order of the numbers that the contract means,   *)
(* whatever bytes they have.  The last element of an index is found by its *)
(* highest key, also if it has that key itself, but not if it is an        *)
(* infinite double, which is beyond MAX_VALUE, or a NaN.                   *)
KeysInOrder ==
  Returned(AllIndexes) =>
    LET stored == {from(call.fn, call.a), from(call.fn, call.b)}
    IN /\ call.fn # "idxDouble" =>
            result.order = compareNumbers(Meant(call.fn, call.a),
                                          Meant(call.fn, call.b))
       /\ \/ /\ call.fn = "idxDouble"
             /\ \E k \in stored : IsNaN(k) \/ k = InfinityBits
          \/ result.last = {k \in stored : \A l \in stored :
                              comparePrimitives(call.fn, l, k) <= 0}

(* A contract reads the bytes of the key that it stored, and the storage   *)
(* deltas show the number it meant, or for a checksum its bytes, unless it *)
(* is a double whose bytes make a NaN in the other order.                  *)
KeysReadBack ==
  Returned(AllIndexes) =>
    \/ call.fn = "idxDouble" /\ IsNaN(getBE(call.a))
    \/ /\ result.read = call.a
       /\ result.shown = IF call.fn = "idx256" THEN call.a
                         ELSE Meant(call.fn, call.a)

(* IndexDouble takes Number.MAX_VALUE for its highest key (table.ts:351)   *)
(* and its keys are read by readDoubleLE (buffer.ts:149), so that doubles  *)
(* are meant to be in their order.  The code reads the bytes in the other  *)
(* order.                                                                  *)
DoublesInOrder ==
  Returned({"idxDouble"}) =>
    LET a == getLE(call.a)
        b == getLE(call.b)
    IN \/ IsNaN(a) \/ IsNaN(b)
       \/ result.order = compareNumbers(Ordinal(a), Ordinal(b))
=============================================================================
