---------------------------- MODULE AtomicStore ----------------------------
(***************************************************************************)
(* What the store promises the transactions that run over it: a            *)
(* transaction sees and makes changes to the contract database, and the    *)
(* whole of them either stay or vanish.  A database is an uninterpreted    *)
(* value here; TableStore implements this specification with a journal of  *)
(* changes that it undoes one by one (store.ts, table.ts), and             *)
(* Blockchain.applyTransaction is its user (blockchain.ts 132-155).        *)
(***************************************************************************)

CONSTANTS Databases,   \* the values the database can take
          EmptyDb,     \* the database of a new chain
          NotSaved     \* no transaction is open, nothing is to be restored

VARIABLES db,          \* the database as everyone outside the store sees it
          saved,       \* its value when the open transaction began
          phase        \* "idle", "open", or "reverting" an aborted transaction

vars == <<db, saved, phase>>

Init == /\ db = EmptyDb
        /\ saved = NotSaved
        /\ phase = "idle"

Begin == /\ phase = "idle"
         /\ phase' = "open"
         /\ saved' = db
         /\ UNCHANGED db

(* Any change of the database: by a transaction, or directly by a test     *)
(* while no transaction is open.  Never while a transaction is undone.     *)
Write == /\ phase \in {"idle", "open"}
         /\ db' \in Databases
         /\ UNCHANGED <<saved, phase>>

Commit == /\ phase = "open"
          /\ phase' = "idle"
          /\ saved' = NotSaved
          /\ UNCHANGED db

(* The transaction failed: from here on the database is the saved one.     *)
Abort == /\ phase = "open"
         /\ phase' = "reverting"
         /\ db' = saved
         /\ UNCHANGED saved

(* The store is ready for the next transaction.                            *)
Restored == /\ phase = "reverting"
            /\ phase' = "idle"
            /\ saved' = NotSaved
            /\ UNCHANGED db

Next == Begin \/ Write \/ Commit \/ Abort \/ Restored

Spec == Init /\ [][Next]_vars
=============================================================================
