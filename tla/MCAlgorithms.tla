----------------------------- MODULE MCAlgorithms -----------------------------
(* Small instances of the host functions whose results depend on their     *)
(* arguments alone, of the storage deltas, and of the chain's time: each   *)
(* behaviour is of one of them.                                            *)
EXTENDS Int128, Builtins, SecondaryKeys, ModExp, Blake2, StorageDeltas,
        ChainTime

CONSTANTS payer, other  \* payers of rows

(* Words of blake2 with carries between and out of their halves.           *)
MCWords == {<<0, 0>>, <<15, 0>>, <<9, 6>>, <<15, 15>>}

(* A table of three rows, a scope named like its table, and a table named  *)
(* like an account.                                                        *)
MCSlots == {<<<<"alice", "t", "s">>, key>> : key \in 1 .. 3}
             \cup {<<<<"alice", "t", "t">>, 1>>, <<<<"bob", "alice", "s">>, 1>>}

(* A value with a field named `value`, a vector and an optional field, and *)
(* a secondary key of 128 bits, whose bytes the deltas show as a Buffer.   *)
Value(field, vector, optional) ==
  Object(("value" :> Leaf(field)) @@
         ("vector" :> ArrayOf([i \in DOMAIN vector |-> Leaf(vector[i])])) @@
         ("optional" :> optional))
Index128(key) == [type |-> "idxU128", key |-> key]
Index64(key) == [type |-> "idxu64", key |-> key]

MCStart == [payer |-> payer, value |-> Value(0, <<0>>, Leaf(null)),
            secondary |-> <<Index128(0)>>]

(* Rows that differ from MCStart in one value, in values of several        *)
(* members, by what was added, by what is gone, and by both, by an object  *)
(* in the place of null, in the order of secondary keys, and in `value`.   *)
MCContents ==
  {MCStart,
   [MCStart EXCEPT !.payer = other],
   [MCStart EXCEPT !.value = Value(0, <<1>>, Leaf(null)),
                   !.secondary = <<Index128(1)>>],
   [MCStart EXCEPT !.value = Value(0, << >>, Leaf(null))],
   [MCStart EXCEPT !.value = Value(0, <<0, 0>>, Object("f" :> Leaf(0)))],
   [MCStart EXCEPT !.payer = other, !.value = Value(0, <<1, 1>>, Leaf(null)),
                   !.secondary = << >>],
   [MCStart EXCEPT !.secondary = <<Index64(1), Index128(0)>>],
   [MCStart EXCEPT !.value = Value(1, <<0, 0>>, Leaf(null))]}

MCKeyOrder == <<"0", "1", "2", "alice", "bob", "t", "s", "primaryKey", "payer",
                "type", "value", "vector", "optional", "f", "rawValue",
                "secondaryIndexes", "old", "new", "undefined">>

NotTiming == timestamp = 0 /\ blockNum = 0 /\ moved = 0

Init == \/ /\ \/ ArithmeticInit \/ BuiltinsInit \/ KeysInit
              \/ ModExpInit \/ Blake2Init \/ DeltasInit
           /\ NotTiming
        \/ /\ TimeInit
           /\ call = [fn |-> "time"]
           /\ result = pending

Next == \/ /\ \/ CallArithmetic \/ CallMove \/ CallIndex \/ CallModExp
              \/ CallBlake2 \/ CallSetStorageDeltas \/ Return
           /\ UNCHANGED timeVars
        \/ /\ call.fn = "time"
           /\ TimeNext
           /\ UNCHANGED callVars

Spec == Init /\ [][Next]_<<callVars, timeVars>>

(* Pairs of double keys alone.                                             *)
DoublesSpec == /\ KeysInit /\ call.fn = "idxDouble"
               /\ NotTiming
               /\ [][CallIndex /\ UNCHANGED timeVars]_<<callVars, timeVars>>
=============================================================================
