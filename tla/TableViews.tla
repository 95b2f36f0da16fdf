------------------------------ MODULE TableViews ------------------------------
(***************************************************************************)
(* What tests hold on to: TableViews (antelope/table.ts), which keep the   *)
(* Table object that they were made for, while transactions commit, abort  *)
(* and drop tables, while resetTables replaces the store, and while the    *)
(* storage deltas of Blockchain read all tables before and after each      *)
(* transaction.                                                            *)
(*                                                                         *)
(* The store of the chain is that of TableStore; here contracts write only *)
(* in transactions and tests only between them.  A store that resetTables  *)
(* took away is kept in `stored`, since its views still write to it and a  *)
(* test may give it back.  Rows are shown by their values; the keys are    *)
(* numbers, because listings follow their order.  The table name of a      *)
(* prefix is looked up in the abi of its account: Unlisted are the tables  *)
(* that no abi names.                                                      *)
(*                                                                         *)
(* `misused` and `rejected` are history variables: no guard reads them.     *)
(***************************************************************************)
EXTENDS TableStore

Lists == INSTANCE SequencesExt

CONSTANTS Unlisted,   \* tables that contracts use and their abi leaves out
          MaxViews,   \* bound: views that the test holds
          MaxStores,  \* bound: TableStores that were made
          MaxWrites   \* bound: all journals together, and resets

ASSUME ViewsAssumption == /\ Unlisted \subseteq Prefixes
                          /\ MaxViews \in Nat
                          /\ MaxStores \in Nat \ {0}
                          /\ MaxWrites \in Nat
                          /\ Keys \subseteq Nat
                          /\ IsFiniteSet(Keys)

Stores == 1 .. MaxStores

VARIABLES current,  \* Blockchain.store
          created,  \* how many stores there are
          stored,   \* the other stores: what TableStore's variables hold
          views,    \* the views of the test: each has the store, the
                    \* prefix and the id of its private tab, a Table
          deltas,   \* Blockchain.isStorageDeltasEnabled, in a transaction
          misused,  \* history: stores written through a dropped table's view
          rejected  \* history: the last transaction that ended was rejected

viewVars == <<current, created, stored, views, deltas, misused, rejected>>
storeVars == <<db, size, changes, past, drifted>>
allVars == <<vars, viewVars>>

(* The store as a value, and one that has just been made.                  *)
Content == [db |-> db, size |-> size, changes |-> changes, past |-> past,
            drifted |-> drifted]
EmptyStore == [db |-> EmptyDb, size |-> [t \in Ids |-> 0],
               changes |-> << >>, past |-> << >>, drifted |-> FALSE]

Holds(content) == /\ db' = content.db
                  /\ size' = content.size
                  /\ changes' = content.changes
                  /\ past' = content.past
                  /\ drifted' = content.drifted

StoreOf(v) == IF v.store = current THEN Content ELSE stored[v.store]

ViewInit == /\ Init
            /\ current = 1
            /\ created = 1
            /\ stored = [s \in Stores |-> EmptyStore]
            /\ views = [i \in 1 .. MaxViews |-> undefined]
            /\ deltas = FALSE
            /\ misused = {}
            /\ rejected = FALSE

-----------------------------------------------------------------------------
(* TableView.                                                              *)

Between == phase = "idle"

(* Account.tables[name](scope): the table is created if it is missing, the *)
(* view holds the Table object.                                            *)
OpenView(i, p) ==
  /\ Between
  /\ p \notin Unlisted
  /\ \/ /\ db.prefixes[p] # undefined
        /\ views' = [views EXCEPT ![i] = [store |-> current, prefix |-> p,
                                          id |-> db.prefixes[p]]]
        /\ UNCHANGED vars
     \/ /\ CreateTable(p)
        /\ views' = [views EXCEPT ![i] = [store |-> current, prefix |-> p,
                                          id |-> db.seq]]
  /\ UNCHANGED <<current, created, stored, deltas, misused, rejected>>

(* Mutated form: a new row is not counted.                                 *)
SetByUncounted(v, k, val, c) ==
  LET r == <<v.prefix, k>>
  IN [db      |-> WithRow(c.db, r, [tableId |-> v.id, value |-> val]),
      size    |-> c.size,
      changes |-> Append(c.changes,
                    IF c.db.rows[r] = undefined
                    THEN [kind |-> "CreateItem", key |-> r, table |-> v.id]
                    ELSE [kind |-> "UpdateItem", key |-> r,
                          value |-> c.db.rows[r]]),
      past    |-> Append(c.past, c.db),
      drifted |-> c.drifted]

(* Table.set by a Table object, registered or not: rows are found by       *)
(* prefix, counted in the object, and tagged with its id.                  *)
SetBy(v, k, val, c) ==
  LET r   == <<v.prefix, k>>
      new == c.db.rows[r] = undefined
  IN [db      |-> WithRow(c.db, r, [tableId |-> v.id, value |-> val]),
      size    |-> IF new THEN [c.size EXCEPT ![v.id] = @ + 1] ELSE c.size,
      changes |-> Append(c.changes,
                    IF new
                    THEN [kind |-> "CreateItem", key |-> r, table |-> v.id]
                    ELSE [kind |-> "UpdateItem", key |-> r,
                          value |-> c.db.rows[r]]),
      past    |-> Append(c.past, c.db),
      drifted |-> c.drifted]

(* TableView.set, of whatever store the view was made in.                  *)
ViewSet(v, k, val) ==
  /\ Between
  /\ Len(StoreOf(v).changes) < MaxChanges
  /\ IF v.store = current
     THEN Holds(SetBy(v, k, val, Content)) /\ UNCHANGED stored
     ELSE /\ stored' = [stored EXCEPT ![v.store] = SetBy(v, k, val, @)]
          /\ UNCHANGED storeVars
  /\ misused' = IF StoreOf(v).db.prefixes[v.prefix] = v.id THEN misused
                ELSE misused \cup {v.store}
  /\ UNCHANGED <<phase, snapshot, cursor>>
  /\ UNCHANGED <<current, created, views, deltas, rejected>>

(* TableView.getTableRow: found by prefix, in the store of the Table.      *)
getTableRow(v, k) == StoreOf(v).db.rows[<<v.prefix, k>>]

ShownRow(v, k) ==
  IF getTableRow(v, k) = undefined THEN undefined ELSE getTableRow(v, k).value

KeysFrom(d, p, lowerBound) == {k \in RowsOf(d, p) : k >= lowerBound}

(* The keys of a table as lowerbound and next meet them.                   *)
InOrder(keys) ==
  CHOOSE f \in [1 .. Cardinality(keys) -> keys] :
    \A i, j \in DOMAIN f : i < j => f[i] < f[j]

(* Mutated form: the limit is compared before the row is pushed.           *)
getTableRowsOver(v, lowerBound, limit) ==
  LET table  == db.index[v.id]
      keys   == InOrder(KeysFrom(db, table, lowerBound))
      length == IF limit = 0 \/ limit >= Len(keys) THEN Len(keys)
                ELSE limit + 1
  IN IF table = undefined
     THEN "TypeError"
     ELSE [i \in 1 .. length |-> ShownRow(v, keys[i])]

(* TableView.getTableRows: the keys come from the table that has the       *)
(* view's id in the chain's store now, the rows from the view's own table. *)
(* A limit of 0 is none.                                                   *)
getTableRows(v, lowerBound, limit) ==
  LET table  == db.index[v.id]
      keys   == InOrder(KeysFrom(db, table, lowerBound))
      length == IF limit = 0 \/ limit >= Len(keys) THEN Len(keys) ELSE limit
  IN IF table = undefined
     THEN "TypeError"
     ELSE [i \in 1 .. length |-> ShownRow(v, keys[i])]

(* Blockchain.resetTables, with a new store or with one that there was.    *)
ResetTables(s) ==
  /\ Between
  /\ s # current
  /\ s \in 1 .. created \/ s = created + 1
  /\ created' = IF s > created THEN s ELSE created
  /\ current' = s
  /\ Holds(stored[s])
  /\ stored' = [stored EXCEPT ![s] = EmptyStore, ![current] = Content]
  /\ UNCHANGED <<phase, snapshot, cursor, views, deltas, misused, rejected>>

-----------------------------------------------------------------------------
(* Blockchain.getStorage and the transaction around it.                    *)

(* Mutated form: a table need not have rows to be looked up in the abi.    *)
getStorageThrowsEarly(d) ==
  \E p \in Unlisted : d.prefixes[p] # undefined

(* getStorage asks accounts[code].tables[table] for each row: there is no  *)
(* such function for a table that the abi does not list.                   *)
getStorageThrows(d) ==
  \E p \in Unlisted : d.prefixes[p] # undefined /\ RowsOf(d, p) # {}

UnchangedViews == UNCHANGED <<current, created, stored, views, misused>>

(* What enableStorageDeltas and disableStorageDeltas made of the flag in   *)
(* the meantime: only transactions read it.                                *)
SwitchDeltas == deltas' \in BOOLEAN

(* applyTransaction, from the snapshot to the try; preStorage is read      *)
(* before it.                                                              *)
BeginTransaction ==
  \/ /\ SwitchDeltas
     /\ deltas' => ~getStorageThrows(db)
     /\ Begin
     /\ UNCHANGED rejected
     /\ UnchangedViews
  \/ /\ Between
     /\ getStorageThrows(db)
     /\ rejected' = TRUE
     /\ UNCHANGED <<vars, deltas>>
     /\ UnchangedViews

(* The host functions that write, by iterators into registered tables.     *)
ContractStep ==
  /\ phase = "open"
  /\ \/ \E p \in Prefixes : CreateTable(p)
     \/ \E r \in Prefixes \X Keys, val \in Values : CreateRow(r, val)
     \/ \E r \in Prefixes \X Keys, val \in Values :
          /\ db.rows[r] # undefined
          /\ db.rows[r].tableId = db.prefixes[r[1]]
          /\ UpdateRow(r, val)
     \/ \E r \in Prefixes \X Keys : DeleteRow(r)
  /\ UNCHANGED viewVars

(* The end of applyTransaction.  postStorage is read after the try: its    *)
(* exception rejects the promise and reverts nothing.                      *)
FinishTransaction ==
  \/ /\ Commit
     /\ rejected' = (deltas /\ getStorageThrows(db))
     /\ deltas' = FALSE
     /\ UnchangedViews
  \/ /\ Abort \/ RevertOne
     /\ UNCHANGED viewVars
  \/ /\ RevertEnd
     /\ rejected' = TRUE
     /\ deltas' = FALSE
     /\ UnchangedViews

(* What the journals of all stores hold, a reset counted as two writes.    *)
Written == Len(changes) + 2 * (created - 1)
             + Lists!FoldSeq(+, 0, [s \in Stores |-> Len(stored[s].changes)])

Held == {i \in DOMAIN views : views[i] # undefined}

ViewStep ==
  \/ \E i \in DOMAIN views, p \in Prefixes : OpenView(i, p)
  \/ \E i \in Held, k \in Keys, val \in Values : ViewSet(views[i], k, val)
  \/ \E s \in Stores : ResetTables(s)
  \/ BeginTransaction
  \/ ContractStep
  \/ FinishTransaction

ViewNext == ViewStep /\ Written' <= MaxWrites

ViewSpec == ViewInit /\ [][ViewNext]_allVars

-----------------------------------------------------------------------------
(* Properties.                                                             *)

(* The id of a view's table is never given to another table of the same    *)
(* store, although aborted transactions take ids back: all the views of    *)
(* tests are made outside of transactions.                                 *)
HeldIdsAreKept ==
  \A i \in Held :
    LET v == views[i]
        d == StoreOf(v).db
    IN d.index[v.id] \in {v.prefix, undefined} /\ v.id < d.seq

(* A view made since the last reset lists its rows, all of them, in order, *)
(* whatever happened to its table, or throws because that was dropped.     *)
(* Neither other tables' keys nor undefined rows are in its listing, and   *)
(* pages of one row give the same rows.                                    *)
ListingsAreOwn ==
  \A i \in Held :
    LET v    == views[i]
        keys == InOrder(RowsOf(db, v.prefix))
        rows == [n \in 1 .. Len(keys) |-> db.rows[<<v.prefix, keys[n]>>].value]
    IN v.store = current =>
         IF db.prefixes[v.prefix] = v.id
         THEN /\ getTableRows(v, 0, 0) = rows
              /\ \A n \in 1 .. Len(keys) :
                   getTableRows(v, IF n = 1 THEN 0 ELSE keys[n - 1] + 1, 1)
                     = <<rows[n]>>
         ELSE getTableRows(v, 0, 0) = "TypeError"

(* Every row can be read and removed by its contract, in the table that    *)
(* has its prefix and under that table's id, as long as no aborted         *)
(* deletion spoilt a count and no view of a dropped table wrote.           *)
RowsRemovable ==
  ~drifted /\ current \notin misused =>
    \A r \in Prefixes \X Keys : db.rows[r] # undefined =>
      /\ db.prefixes[r[1]] # undefined
      /\ db.rows[r].tableId = db.prefixes[r[1]]

(* A transaction that is rejected leaves the store as it was before,       *)
(* unless an unlisted table has rows while deltas are enabled: getStorage  *)
(* throws outside of the try.                                              *)
RejectionsChangeNothing ==
  [][phase # "idle" /\ phase' = "idle" /\ rejected'
       => \/ db' = Saved
          \/ deltas /\ \E p \in Unlisted : RowsOf(db', p) # {}]_allVars
=============================================================================
