-------------------------------- MODULE ModExp --------------------------------
(***************************************************************************)
(* The host function mod_exp (antelope/vm.ts, utils/expmod.ts, buffer.ts): *)
(* a power modulo a number, all of them written in bytes, the highest      *)
(* first.  A result has Width bytes, 32 in the code; a byte has Digit      *)
(* values.                                                                 *)
(***************************************************************************)
EXTENDS HostCall, Powers, Sequences

CONSTANTS Digit,          \* values of a byte
          Width,          \* bytes of a result
          MaxBytes,       \* bound: bytes of base and exponent
          MaxResultBytes  \* bound: bytes of modulus and result buffer

ASSUME ModExpAssumption == /\ Digit \in Nat /\ Digit > 1
                           /\ Width \in Nat \ {0}
                           /\ MaxBytes \in Nat /\ MaxResultBytes \in Nat

-----------------------------------------------------------------------------
(* The number that the bytes make; 0 if there are none.                    *)
bufferToBigInt(bytes) ==
  LET value[i \in 0 .. Len(bytes)] ==
        IF i = 0 THEN 0 ELSE value[i - 1] * Digit + bytes[i]
  IN value[Len(bytes)]

(* readBufferFromBigInt(value, 32, false), of a value that fits.           *)
readBufferFromBigInt(value) ==
  [i \in 1 .. Width |-> (value \div Power(Digit, Width - i)) % Digit]

(* Mutated form: the base is not squared when the bit is 0.                *)
RoundSkipping(s, modulo) ==
  IF s.power % 2 = 1
  THEN [res   |-> (s.res * s.a) % modulo,
        a     |-> (s.a * s.a) % modulo,
        power |-> s.power \div 2]
  ELSE [s EXCEPT !.power = @ \div 2]

(* A round of the loop of expmod, for one bit of the power.                *)
Round(s, modulo) ==
  [res   |-> IF s.power % 2 = 1 THEN (s.res * s.a) % modulo ELSE s.res,
   a     |-> (s.a * s.a) % modulo,
   power |-> s.power \div 2]

(* There are no more rounds than power says, and none once it is 0.        *)
expmod(a, power, modulo) ==
  LET loop[i \in 0 .. power] ==
        IF i = 0 THEN [res |-> 1, a |-> a, power |-> power]
        ELSE IF loop[i - 1].power = 0 THEN loop[i - 1]
        ELSE Round(loop[i - 1], modulo)
  IN IF power = 0 THEN 1 % modulo ELSE loop[power].res

(* What mod_exp returns, and the result buffer, of zeros before: -1 if the *)
(* modulus is 0, if the result has more than 32 bytes, and if the buffer   *)
(* has fewer.  Bytes behind the 32nd are left as they were.                *)
mod_exp(base, exp, mod, resultlen) ==
  LET value  == expmod(bufferToBigInt(base), bufferToBigInt(exp),
                       bufferToBigInt(mod))
      before == [i \in 1 .. resultlen |-> 0]
  IN IF \/ bufferToBigInt(mod) = 0
        \/ value >= Power(Digit, Width)
        \/ resultlen < Width
     THEN [code |-> -1, buffer |-> before]
     ELSE [code   |-> 0,
           buffer |-> readBufferFromBigInt(value) \o
                        [i \in 1 .. resultlen - Width |-> 0]]

-----------------------------------------------------------------------------
CallModExp == Call({"mod_exp"},
                   mod_exp(call.base, call.exp, call.mod, call.resultlen))

Buffers(max) == UNION {[1 .. n -> 0 .. Digit - 1] : n \in 0 .. max}

ModExpInit ==
  /\ result = pending
  /\ call \in [fn : {"mod_exp"}, base : Buffers(MaxBytes),
               exp : Buffers(MaxBytes), mod : Buffers(MaxResultBytes),
               resultlen : 0 .. MaxResultBytes]

ModExpSpec == ModExpInit /\ [][CallModExp \/ Return]_callVars

-----------------------------------------------------------------------------
(* Property.                                                               *)

(* mod_exp writes the power modulo the modulus, as a number of 32 bytes    *)
(* with the highest first, to the start of the buffer and no further.  It  *)
(* fails, and writes nothing, exactly if the modulus is 0, the buffer is   *)
(* shorter, or the number is longer than that.                             *)
ModExpIsPower ==
  Returned({"mod_exp"}) =>
    LET mod   == bufferToBigInt(call.mod)
        power == Power(bufferToBigInt(call.base),
                       bufferToBigInt(call.exp)) % mod
        fails == \/ mod = 0 \/ call.resultlen < Width
                 \/ power >= Power(Digit, Width)
    IN /\ Len(result.buffer) = call.resultlen
       /\ result.code = IF fails THEN -1 ELSE 0
       /\ IF fails THEN bufferToBigInt(result.buffer) = 0
          ELSE bufferToBigInt(result.buffer)
                 = power * Power(Digit, call.resultlen - Width)
=============================================================================
