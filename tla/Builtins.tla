------------------------------- MODULE Builtins -------------------------------
(***************************************************************************)
(* The compiler's builtins that copy a contract's memory (antelope/vm.ts). *)
(***************************************************************************)
EXTENDS HostCall, Integers

CONSTANT Length  \* bytes of the contract's memory

ASSUME BuiltinsAssumption == Length \in Nat

-----------------------------------------------------------------------------
(* Memory: a function from addresses to bytes.                             *)

(* new Uint8Array(memory.buffer, offset, count) is in range.               *)
InMemory(offset, count) == count >= 0 /\ offset + count <= Length

(* Uint8Array.set, as if the source was copied before.                     *)
Copied(memory, dest, src, count) ==
  [i \in DOMAIN memory |->
     IF i \in dest .. dest + count - 1 THEN memory[src + i - dest]
     ELSE memory[i]]

memmove(memory, dest, src, count) ==
  IF InMemory(dest, count) /\ InMemory(src, count)
  THEN Copied(memory, dest, src, count)
  ELSE throws

memset(memory, dest, ch, count) ==
  IF InMemory(dest, count)
  THEN [i \in DOMAIN memory |->
          IF i \in dest .. dest + count - 1 THEN ch ELSE memory[i]]
  ELSE throws

(* A call of memcpy's local function: a chunk of the distance, from the    *)
(* one before.  A distance of 0 makes no progress, until the stack is full.*)
Chunk(t) ==
  LET size == IF t.d - t.s < t.c THEN t.d - t.s ELSE t.c
  IN IF t.c <= 0 \/ t.threw THEN t
     ELSE IF size = 0 \/ ~InMemory(t.d, size) THEN [t EXCEPT !.threw = TRUE]
     ELSE [memory |-> Copied(t.memory, t.d, t.s, size), threw |-> FALSE,
           d |-> t.d + size, s |-> t.s + size, c |-> t.c - size]

(* It calls itself for what is left, at most once for a byte.              *)
cpy(memory, dest, src, count) ==
  LET calls[i \in 0 .. count] ==
        IF i = 0 THEN [memory |-> memory, threw |-> FALSE,
                       d |-> dest, s |-> src, c |-> count]
        ELSE Chunk(calls[i - 1])
  IN IF calls[count].threw THEN throws ELSE calls[count].memory

(* Mutated form: no special case for overlapping destinations.             *)
memcpyAtOnce(memory, dest, src, count) == memmove(memory, dest, src, count)

memcpy(memory, dest, src, count) ==
  IF dest - src < count /\ dest - src >= 0
  THEN cpy(memory, dest, src, count)
  ELSE memmove(memory, dest, src, count)

-----------------------------------------------------------------------------
(* Bytes that tell the addresses apart.                                    *)
SomeMemory == [i \in 0 .. Length - 1 |-> i]

Addresses == 0 .. Length

Moves == {"memcpy", "memmove", "memset"}

CallMove ==
  Call(Moves,
       IF call.fn = "memcpy"
       THEN memcpy(SomeMemory, call.dest, call.src, call.count)
       ELSE IF call.fn = "memmove"
       THEN memmove(SomeMemory, call.dest, call.src, call.count)
       ELSE memset(SomeMemory, call.dest, call.src, call.count))

BuiltinsInit ==
  /\ result = pending
  /\ call \in [fn : Moves, dest : Addresses, src : Addresses,
               count : -1 .. Length]

MoveSpec == BuiltinsInit /\ [][CallMove \/ Return]_callVars

-----------------------------------------------------------------------------
(* Properties.                                                             *)

(* A copy byte by byte from the lowest address on.                         *)
Forward(memory, dest, src, count) ==
  LET after[n \in 0 .. count] ==
        IF n = 0 THEN memory
        ELSE [after[n - 1] EXCEPT ![dest + n - 1] =
                after[n - 1][src + n - 1]]
  IN after[count]

(* memcpy copies forward, so that a pattern repeats itself when the        *)
(* destination overlaps the end of the source, and memmove as if by way of *)
(* a second memory.  memcpy throws where memmove does, and also when both  *)
(* addresses are the same.                                                 *)
MemcpyIsForwardCopy ==
  Returned({"memcpy"}) =>
    LET d == call.dest
        s == call.src
        n == call.count
    IN IF InMemory(d, n) /\ InMemory(s, n) /\ (d = s => n = 0)
       THEN /\ result = Forward(SomeMemory, d, s, n)
            /\ d < s \/ d >= s + n => result = memmove(SomeMemory, d, s, n)
       ELSE result = throws
=============================================================================
