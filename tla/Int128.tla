-------------------------------- MODULE Int128 --------------------------------
(***************************************************************************)
(* The compiler's builtins for 128-bit integers (antelope/vm.ts), which    *)
(* contracts pass in pairs of 64-bit halves.                               *)
(*                                                                         *)
(* A half has Word values, 2^64 in the code.  BigInt.asUintN is the        *)
(* remainder of a division by a power of two.                              *)
(***************************************************************************)
EXTENDS HostCall, Integers

CONSTANT Word  \* values of a half

ASSUME WordAssumption == Word \in Nat /\ Word > 1

-----------------------------------------------------------------------------
I64 == -(Word \div 2) .. (Word \div 2) - 1

convertToUnsigned(v) == v % Word

(* Both halves as one unsigned number, like uint128.from has it.           *)
Wide(low, high) == high * Word + low

(* Mutated form: the upper half is lost.                                   *)
writeLow(value) == [low |-> value % Word, high |-> 0]

(* SecondaryKeyConverter.int128.to and uint128.to: value & (2^64 - 1) and  *)
(* value >> 64, each taken modulo 2^64 by the buffer.                      *)
write128(value) == [low  |-> value % Word,
                    high |-> (value \div Word) % Word]

(* BigInt.asIntN(128, _), with which printi128 shows a result.             *)
asIntN128(value) == IF value < (Word * Word) \div 2 THEN value
                    ELSE value - Word * Word

Arithmetic == {"__divti3", "__udivti3", "__multi3", "__modti3", "__umodti3"}

(* The five functions, on halves that come as signed numbers.  BigInt      *)
(* throws when it divides by zero.                                         *)
arithmetic(fn, la, ha, lb, hb) ==
  LET lhs == Wide(convertToUnsigned(la), convertToUnsigned(ha))
      rhs == Wide(convertToUnsigned(lb), convertToUnsigned(hb))
  IN IF fn = "__multi3" THEN write128(lhs * rhs)
     ELSE IF rhs = 0 THEN throws
     ELSE IF fn \in {"__divti3", "__udivti3"} THEN write128(lhs \div rhs)
     ELSE write128(lhs % rhs)

-----------------------------------------------------------------------------
CallArithmetic ==
  Call(Arithmetic, arithmetic(call.fn, call.la, call.ha, call.lb, call.hb))

ArithmeticInit ==
  /\ result = pending
  /\ call \in [fn : Arithmetic, la : I64, ha : I64, lb : I64, hb : I64]

ArithmeticSpec ==
  ArithmeticInit /\ [][CallArithmetic \/ Return]_callVars

-----------------------------------------------------------------------------
(* Properties.                                                             *)

(* Division of signed numbers in C rounds towards zero, and the remainder  *)
(* has the sign of the dividend.                                           *)
Sign(n) == IF n < 0 THEN -1 ELSE 1
Magnitude(n) == n * Sign(n)
Quotient(a, b) == Sign(a) * Sign(b) * (Magnitude(a) \div Magnitude(b))
Remainder(a, b) == a - b * Quotient(a, b)

(* What the contract reads is the product modulo 2^128, the unsigned       *)
(* quotient and remainder, and those of signed numbers if neither is       *)
(* negative: the code divides all numbers as unsigned ones.  A division    *)
(* throws only if the divisor is zero.                                     *)
ArithmeticUnlessNegative ==
  Returned(Arithmetic) =>
    LET lhs  == Wide(call.la % Word, call.ha % Word)
        rhs  == Wide(call.lb % Word, call.hb % Word)
        a    == asIntN128(lhs)
        b    == asIntN128(rhs)
        read == asIntN128(Wide(result.low, result.high))
        unsigned == Wide(result.low, result.high)
    IN IF call.fn = "__multi3"
       THEN (read - a * b) % (Word * Word) = 0
       ELSE IF rhs = 0 THEN result = throws
       ELSE /\ call.fn = "__udivti3" => unsigned = lhs \div rhs
            /\ call.fn = "__umodti3" => unsigned = lhs % rhs
            /\ a >= 0 /\ b >= 0 =>
                 /\ call.fn = "__divti3" => read = Quotient(a, b)
                 /\ call.fn = "__modti3" => read = Remainder(a, b)
=============================================================================
