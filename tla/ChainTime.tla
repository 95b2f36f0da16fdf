------------------------------- MODULE ChainTime ------------------------------
(***************************************************************************)
(* The time and the block number of the chain, which tests set and         *)
(* contracts read (antelope/blockchain.ts, antelope/vm.ts).                *)
(*                                                                         *)
(* blockNum is a number with fractions: here it is counted in units of a   *)
(* block divided by BlockTime, the milliseconds of a block (500), so that  *)
(* blockNum += ms / 500 adds ms.  The rounding of such sums is left out.   *)
(* `moved` is a history variable: how far setTime has moved the time.      *)
(***************************************************************************)
EXTENDS Integers

CONSTANTS BlockTime,  \* milliseconds of a block
          Times,      \* times that tests pass, in milliseconds
          Numbers,    \* numbers of blocks
          MaxTime     \* bound: times and block numbers, in milliseconds

ASSUME TimeAssumption == /\ BlockTime \in Nat \ {0}
                         /\ Times \subseteq Nat
                         /\ Numbers \subseteq Nat
                         /\ MaxTime \in Nat

VARIABLES timestamp, blockNum, moved

timeVars == <<timestamp, blockNum, moved>>

(* The options of the constructor: both are given, or left at 0.           *)
TimeInit == /\ timestamp \in Times \cup {0}
            /\ blockNum \in {n * BlockTime : n \in Numbers} \cup {0}
            /\ moved = timestamp - blockNum

setTime(time) == /\ timestamp' = time
                 /\ moved' = moved + time - timestamp
                 /\ UNCHANGED blockNum

AddMilliseconds(ms) == /\ blockNum' = blockNum + ms
                       /\ timestamp' = timestamp + ms
                       /\ UNCHANGED moved

addTime(time) == AddMilliseconds(time)

(* addTime of n * 500 milliseconds.                                        *)
addBlocks(n) == AddMilliseconds(n * BlockTime)

(* Mutated form: the time is not compared.                                 *)
subtractTimeUnchecked(time) == AddMilliseconds(-time)

(* It throws, and changes nothing, if the time would be negative; the      *)
(* block number is not compared.                                           *)
subtractTime(time) == /\ timestamp >= time
                      /\ AddMilliseconds(-time)

(* The host function: a number with fractions becomes an i32.              *)
get_block_num == IF blockNum >= 0 THEN blockNum \div BlockTime
                 ELSE -((-blockNum) \div BlockTime)

TimeNext == /\ \/ \E time \in Times : \/ setTime(time)
                                    \/ addTime(time)
                                    \/ subtractTime(time)
               \/ \E n \in Numbers : addBlocks(n)
            /\ timestamp' <= MaxTime
            /\ blockNum' \in -MaxTime .. MaxTime

TimeSpec == TimeInit /\ [][TimeNext]_timeVars

-----------------------------------------------------------------------------
(* Properties.                                                             *)

TimeTypeOK == timestamp \in Int /\ blockNum \in Int /\ moved \in Int

(* addTime, subtractTime and addBlocks keep time and block number          *)
(* together: their difference is what it was at first, but for setTime.    *)
TimeInvariant == /\ TimeTypeOK
                 /\ timestamp >= 0
                 /\ timestamp - blockNum = moved

(* The time is never negative (the error of subtractTime says so), and     *)
(* contracts never read a negative block number unless the time was ahead  *)
(* of the blocks at first or setTime has put it ahead: subtractTime does   *)
(* not look at the block number.                                           *)
TimeNeverNegative == /\ timestamp >= 0
                     /\ moved <= 0 => get_block_num >= 0
=============================================================================
