----------------------------- MODULE TableStore -----------------------------
(***************************************************************************)
(* The database of the emulated chain: Store (store.ts) with its journal   *)
(* of changes, Table and SecondaryKeyStore (antelope/table.ts), as the     *)
(* host functions of the VM, TableView and Blockchain.applyTransaction     *)
(* drive them.                                                             *)
(*                                                                         *)
(* Abstractions.  A prefix stands for (code, scope, table); a value stands *)
(* for a row's payer and bytes; one index stands for each of idx64,        *)
(* idx128, idx256 and idxDouble.  A Table object is identified by its id:  *)
(* an id is used again only after the creation of its former holder has    *)
(* been undone.  KeyValueObject.id and Table.seq are left out: nothing     *)
(* reads them.                                                             *)
(*                                                                         *)
(* Secondary keys are stored once for a row and changed through iterators  *)
(* whose entries are current, as the contract library does; SecondaryApi   *)
(* shows what the code does otherwise, which is not to refuse it.          *)
(*                                                                         *)
(* `past` and `drifted` are history variables: no guard reads them.        *)
(***************************************************************************)
EXTENDS Integers, Sequences, FiniteSets

CONSTANTS Prefixes,    \* tables that contracts may create
          Keys,        \* primary keys
          Values,      \* payer and bytes of a row
          Indexes,     \* the secondary key stores
          SecKeys,     \* secondary keys
          MaxTables,   \* bound: Table objects alive in the store (Store._seq)
          MaxChanges,  \* bound: length of the journal
          MaxDrift,    \* bound: how far below zero a Table may count
          undefined    \* JavaScript's undefined: no row, no table, no entry

Ids == 0 .. (MaxTables - 1)
Rows == [tableId : Ids, value : Values]
Entries == Indexes \X Ids \X Keys \X SecKeys

ASSUME BoundsAssumption == /\ MaxTables \in Nat
                           /\ MaxChanges \in Nat
                           /\ MaxDrift \in Nat

ASSUME UndefinedAssumption == /\ undefined \notin Ids
                              /\ undefined \notin Prefixes
                              /\ undefined \notin SecKeys
                              /\ undefined \notin Rows

(* What a transaction can observe of the store.  index is Store's          *)
(* prefixesIndex: it maps the id of a Table object to the object, which    *)
(* its prefix stands for.                                                  *)
Databases == [rows        : [Prefixes \X Keys -> Rows \cup {undefined}],
              prefixes    : [Prefixes -> Ids \cup {undefined}],
              index       : [Ids -> Prefixes \cup {undefined}],
              seq         : 0 .. MaxTables,
              byPrimary   : [Indexes \X Ids \X Keys ->
                                SecKeys \cup {undefined}],
              bySecondary : SUBSET Entries]

EmptyDb == [rows        |-> [r \in Prefixes \X Keys |-> undefined],
            prefixes    |-> [p \in Prefixes |-> undefined],
            index       |-> [t \in Ids |-> undefined],
            seq         |-> 0,
            byPrimary   |-> [e \in Indexes \X Ids \X Keys |-> undefined],
            bySecondary |-> {}]

(* A database with another row, other tables, or other secondary keys.     *)
WithRow(d, r, row) ==
  [rows |-> [d.rows EXCEPT ![r] = row], prefixes |-> d.prefixes,
   index |-> d.index, seq |-> d.seq,
   byPrimary |-> d.byPrimary, bySecondary |-> d.bySecondary]

WithTables(d, prefixes, index, seq) ==
  [rows |-> d.rows, prefixes |-> prefixes, index |-> index, seq |-> seq,
   byPrimary |-> d.byPrimary, bySecondary |-> d.bySecondary]

WithEntries(d, byPrimary, bySecondary) ==
  [rows |-> d.rows, prefixes |-> d.prefixes, index |-> d.index, seq |-> d.seq,
   byPrimary |-> byPrimary, bySecondary |-> bySecondary]

(* The entries of the journal, one kind for each class of StoreChange.     *)
CreatePrefixChange == [kind : {"CreatePrefix"}, prefix : Prefixes]
DeletePrefixChange == [kind : {"DeletePrefix"}, prefix : Prefixes, id : Ids]
CreateItemChange   == [kind : {"CreateItem"}, key : Prefixes \X Keys,
                       table : Ids]
UpdateItemChange   == [kind : {"UpdateItem"}, key : Prefixes \X Keys,
                       value : Rows]
DeleteItemChange   == [kind : {"DeleteItem"}, key : Prefixes \X Keys,
                       value : Rows]
CreateSecondaryKeyChange == [kind : {"CreateSecondary"}, key : Entries]
UpdateSecondaryKeyChange == [kind : {"UpdateSecondary"}, key : Entries,
                             newKey : Entries]
DeleteSecondaryKeyChange == [kind : {"DeleteSecondary"}, key : Entries]

Changes == CreatePrefixChange \cup DeletePrefixChange
             \cup CreateItemChange \cup UpdateItemChange \cup DeleteItemChange
             \cup CreateSecondaryKeyChange \cup UpdateSecondaryKeyChange
             \cup DeleteSecondaryKeyChange

VARIABLES db,        \* the content of the store, in Databases
          size,      \* Table._size of each Table object
          changes,   \* Store.changes
          phase,     \* "idle", a transaction is "open", the store is
                     \* "reverting" one, or the revert threw: "corrupted"
          snapshot,  \* applyTransaction's snapshot
          cursor,    \* revertTo's i: changes 1 .. cursor are still in force
          past,      \* history: past[i] is db before changes[i] was made
          drifted    \* history: some row deletion has been undone

vars == <<db, size, changes, phase, snapshot, cursor, past, drifted>>

TypeOK == /\ db \in Databases
          /\ size \in [Ids -> Int]
          /\ changes \in Seq(Changes)
          /\ phase \in {"idle", "open", "reverting", "corrupted"}
          /\ snapshot \in Nat
          /\ cursor \in Nat
          /\ past \in Seq(Databases)
          /\ drifted \in BOOLEAN

Init == /\ db = EmptyDb
        /\ size = [t \in Ids |-> 0]
        /\ changes = << >>
        /\ phase = "idle"
        /\ snapshot = 0
        /\ cursor = 0
        /\ past = << >>
        /\ drifted = FALSE

-----------------------------------------------------------------------------
(* Undoing one change: the revert methods of the StoreChange classes.      *)

(* The row of a secondary key store that an entry belongs to.              *)
RowOf(e) == <<e[1], e[2], e[3]>>

(* Mutated form: seq is not taken back.                                    *)
UndoCreatePrefixKeepsSeq(c, d) ==
  WithTables(d, [d.prefixes EXCEPT ![c.prefix] = undefined],
                [d.index EXCEPT ![d.prefixes[c.prefix]] = undefined],
                d.seq)

UndoCreatePrefix(c, d) ==
  WithTables(d, [d.prefixes EXCEPT ![c.prefix] = undefined],
                [d.index EXCEPT ![d.prefixes[c.prefix]] = undefined],
                d.seq - 1)

UndoDeletePrefix(c, d) ==
  WithTables(d, [d.prefixes EXCEPT ![c.prefix] = c.id],
                [d.index EXCEPT ![c.id] = c.prefix],
                d.seq)

UndoCreateItem(c, d) == WithRow(d, c.key, undefined)

(* Mutated form: the row keeps its new value.                              *)
UndoUpdateItemForgotten(c, d) == d

UndoUpdateItem(c, d) == WithRow(d, c.key, c.value)

UndoDeleteItem(c, d) == WithRow(d, c.key, c.value)

UndoCreateSecondary(c, d) ==
  WithEntries(d, [d.byPrimary EXCEPT ![RowOf(c.key)] = undefined],
                 d.bySecondary \ {c.key})

UndoUpdateSecondary(c, d) ==
  WithEntries(d, [d.byPrimary EXCEPT ![RowOf(c.key)] = c.key[4]],
                 (d.bySecondary \ {c.newKey}) \cup {c.key})

UndoDeleteSecondary(c, d) ==
  WithEntries(d, [d.byPrimary EXCEPT ![RowOf(c.key)] = c.key[4]],
                 d.bySecondary \cup {c.key})

(* Each revert method first checks that the store is as the change left    *)
(* it, and throws 'revert stack is corrupted' otherwise.                   *)
CanUndo(c, d) ==
  \/ c.kind = "CreatePrefix"    /\ d.prefixes[c.prefix] # undefined
  \/ c.kind = "DeletePrefix"    /\ d.prefixes[c.prefix] = undefined
  \/ c.kind = "CreateItem"      /\ d.rows[c.key] # undefined
  \/ c.kind = "UpdateItem"      /\ d.rows[c.key] # undefined
  \/ c.kind = "DeleteItem"      /\ d.rows[c.key] = undefined
  \/ c.kind = "CreateSecondary" /\ d.byPrimary[RowOf(c.key)] # undefined
  \/ c.kind = "UpdateSecondary" /\ d.byPrimary[RowOf(c.newKey)] # undefined
  \/ c.kind = "DeleteSecondary" /\ d.byPrimary[RowOf(c.key)] = undefined

(* Undoing the change takes database d to e.                               *)
Undone(c, d, e) ==
  \/ c.kind = "CreatePrefix"    /\ e = UndoCreatePrefix(c, d)
  \/ c.kind = "DeletePrefix"    /\ e = UndoDeletePrefix(c, d)
  \/ c.kind = "CreateItem"      /\ e = UndoCreateItem(c, d)
  \/ c.kind = "UpdateItem"      /\ e = UndoUpdateItem(c, d)
  \/ c.kind = "DeleteItem"      /\ e = UndoDeleteItem(c, d)
  \/ c.kind = "CreateSecondary" /\ e = UndoCreateSecondary(c, d)
  \/ c.kind = "UpdateSecondary" /\ e = UndoUpdateSecondary(c, d)
  \/ c.kind = "DeleteSecondary" /\ e = UndoDeleteSecondary(c, d)

(* Mutated form: Table.revert does nothing.                                *)
UndoSizeNever(c, sz) == sz

(* Table.revert is called when the creation of a row is undone, with the   *)
(* Table object that created it; no change calls it for a row's deletion.  *)
UndoSize(c, sz) ==
  IF c.kind = "CreateItem" THEN [sz EXCEPT ![c.table] = @ - 1] ELSE sz

-----------------------------------------------------------------------------
(* Operations.  All of them are synchronous: none runs during revertTo.    *)

Usable == phase \in {"idle", "open"}

(* Store.changes.push, with the history of what the change was made on.    *)
Push(c) == /\ Len(changes) < MaxChanges
           /\ changes' = Append(changes, c)
           /\ past' = Append(past, db)

(* TableStore.createTable, reached when findTable returns undefined: from  *)
(* db_store_i64, db_idx*_store and Account.tables.                         *)
CreateTable(p) ==
  /\ Usable
  /\ db.prefixes[p] = undefined
  /\ db.seq < MaxTables
  /\ Push([kind |-> "CreatePrefix", prefix |-> p])
  /\ db' = WithTables(db, [db.prefixes EXCEPT ![p] = db.seq],
                          [db.index EXCEPT ![db.seq] = p],
                          db.seq + 1)
  /\ size' = [size EXCEPT ![db.seq] = 0]
  /\ UNCHANGED <<phase, snapshot, cursor, drifted>>

(* Mutated form: the row does not get the id of its table.                 *)
CreateRowUntagged(r, v) ==
  /\ Usable
  /\ db.prefixes[r[1]] # undefined
  /\ db.rows[r] = undefined
  /\ Push([kind |-> "CreateItem", key |-> r,
           table |-> db.prefixes[r[1]]])
  /\ db' = WithRow(db, r, [tableId |-> undefined, value |-> v])
  /\ size' = [size EXCEPT ![db.prefixes[r[1]]] = @ + 1]
  /\ UNCHANGED <<phase, snapshot, cursor, drifted>>

(* Table.set of a new row.                                                 *)
CreateRow(r, v) ==
  /\ Usable
  /\ db.prefixes[r[1]] # undefined
  /\ db.rows[r] = undefined
  /\ Push([kind |-> "CreateItem", key |-> r,
           table |-> db.prefixes[r[1]]])
  /\ db' = WithRow(db, r, [tableId |-> db.prefixes[r[1]], value |-> v])
  /\ size' = [size EXCEPT ![db.prefixes[r[1]]] = @ + 1]
  /\ UNCHANGED <<phase, snapshot, cursor, drifted>>

(* Mutated form: Store.set does not look for the previous value.           *)
UpdateRowAsCreation(r, v) ==
  /\ Usable
  /\ db.prefixes[r[1]] # undefined
  /\ db.rows[r] # undefined
  /\ Push([kind |-> "CreateItem", key |-> r,
           table |-> db.prefixes[r[1]]])
  /\ db' = WithRow(db, r, [tableId |-> db.prefixes[r[1]], value |-> v])
  /\ UNCHANGED <<size, phase, snapshot, cursor, drifted>>

(* Table.set of a row that exists.                                         *)
UpdateRow(r, v) ==
  /\ Usable
  /\ db.prefixes[r[1]] # undefined
  /\ db.rows[r] # undefined
  /\ Push([kind |-> "UpdateItem", key |-> r, value |-> db.rows[r]])
  /\ db' = WithRow(db, r, [tableId |-> db.prefixes[r[1]], value |-> v])
  /\ UNCHANGED <<size, phase, snapshot, cursor, drifted>>

(* Mutated form: the id of a deleted table is given again.                 *)
DeleteRowFreesId(r) ==
  /\ Usable
  /\ db.prefixes[r[1]] # undefined
  /\ db.rows[r] # undefined
  /\ db.rows[r].tableId = db.prefixes[r[1]]
  /\ size[db.prefixes[r[1]]] = 1
  /\ size' = [size EXCEPT ![db.prefixes[r[1]]] = 0]
  /\ Push([kind |-> "DeletePrefix", prefix |-> r[1], id |-> db.prefixes[r[1]]])
  /\ db' = WithTables(WithRow(db, r, undefined),
                      [db.prefixes EXCEPT ![r[1]] = undefined],
                      [db.index EXCEPT ![db.prefixes[r[1]]] = undefined],
                      db.seq - 1)
  /\ UNCHANGED <<phase, snapshot, cursor, drifted>>

(* Table.delete, from db_remove_i64, which refuses a row whose tableId is  *)
(* not that of the table it was found in.  A table that counts no more     *)
(* rows is deleted with its last row.                                      *)
DeleteRow(r) ==
  LET t       == db.prefixes[r[1]]
      removed == WithRow(db, r, undefined)
      item    == [kind |-> "DeleteItem", key |-> r,
                  value |-> db.rows[r]]
      table   == [kind |-> "DeletePrefix", prefix |-> r[1], id |-> t]
  IN /\ Usable
     /\ t # undefined
     /\ db.rows[r] # undefined
     /\ db.rows[r].tableId = t
     /\ size[t] > -MaxDrift
     /\ size' = [size EXCEPT ![t] = @ - 1]
     /\ \/ /\ size[t] - 1 # 0
           /\ Push(item)
           /\ db' = removed
        \/ /\ size[t] - 1 = 0
           /\ Len(changes) + 1 < MaxChanges
           /\ changes' = Append(Append(changes, item), table)
           /\ past' = Append(Append(past, db), removed)
           /\ db' = WithTables(removed, [db.prefixes EXCEPT ![r[1]] = undefined],
                                  [db.index EXCEPT ![t] = undefined],
                                  db.seq)
     /\ UNCHANGED <<phase, snapshot, cursor, drifted>>

(* SecondaryKeyStore.set(undefined, newKey), from db_idx*_store.  The      *)
(* contract library stores one entry for a row, when it stores the row.    *)
StoreSecondary(i, p, k, s) ==
  LET e == <<i, db.prefixes[p], k, s>>
  IN /\ Usable
     /\ db.prefixes[p] # undefined
     /\ db.byPrimary[RowOf(e)] = undefined
     /\ Push([kind |-> "CreateSecondary", key |-> e])
     /\ db' = WithEntries(db, [db.byPrimary EXCEPT ![RowOf(e)] = s],
                              db.bySecondary \cup {e})
     /\ UNCHANGED <<size, phase, snapshot, cursor, drifted>>

(* Mutated form: the entry under the old secondary key stays.              *)
UpdateSecondaryKeepsOld(key, s) ==
  LET newKey == <<key[1], key[2], key[3], s>>
  IN /\ Usable
     /\ key \in db.bySecondary
     /\ Push([kind |-> "UpdateSecondary", key |-> key, newKey |-> newKey])
     /\ db' = WithEntries(db, [db.byPrimary EXCEPT ![RowOf(key)] = s],
                              db.bySecondary \cup {newKey})
     /\ UNCHANGED <<size, phase, snapshot, cursor, drifted>>

(* SecondaryKeyStore.set(key, newKey), from db_idx*_update, with the entry *)
(* that a current iterator holds.                                          *)
UpdateSecondary(key, s) ==
  LET newKey == <<key[1], key[2], key[3], s>>
  IN /\ Usable
     /\ key \in db.bySecondary
     /\ Push([kind |-> "UpdateSecondary", key |-> key, newKey |-> newKey])
     /\ db' = WithEntries(db, [db.byPrimary EXCEPT ![RowOf(key)] = s],
                              (db.bySecondary \ {key}) \cup {newKey})
     /\ UNCHANGED <<size, phase, snapshot, cursor, drifted>>

(* SecondaryKeyStore.delete, from db_idx*_remove, likewise.                *)
DeleteSecondary(key) ==
  /\ Usable
  /\ key \in db.bySecondary
  /\ Push([kind |-> "DeleteSecondary",
           key |-> <<key[1], key[2], key[3],
                     db.byPrimary[RowOf(key)]>>])
  /\ db' = WithEntries(db, [db.byPrimary EXCEPT ![RowOf(key)] = undefined],
                           db.bySecondary \ {key})
  /\ UNCHANGED <<size, phase, snapshot, cursor, drifted>>

-----------------------------------------------------------------------------
(* applyTransaction's use of the journal.                                  *)

Begin == /\ phase = "idle"
         /\ phase' = "open"
         /\ snapshot' = Len(changes)
         /\ UNCHANGED <<db, size, changes, cursor, past, drifted>>

(* The transaction succeeded.  The journal is kept.                        *)
Commit == /\ phase = "open"
          /\ phase' = "idle"
          /\ snapshot' = 0
          /\ UNCHANGED <<db, size, changes, cursor, past, drifted>>

(* An action threw: revertTo(snapshot) starts.                             *)
Abort == /\ phase = "open"
         /\ phase' = "reverting"
         /\ cursor' = Len(changes)
         /\ UNCHANGED <<db, size, changes, snapshot, past, drifted>>

(* One turn of revertTo's loop.                                            *)
RevertOne ==
  LET c == changes[cursor]
  IN /\ phase = "reverting"
     /\ cursor > snapshot
     /\ \/ /\ CanUndo(c, db)
           /\ Undone(c, db, db')
           /\ size' = UndoSize(c, size)
           /\ cursor' = cursor - 1
           /\ drifted' = (drifted \/ c.kind = "DeleteItem")
           /\ UNCHANGED phase
        \/ /\ ~CanUndo(c, db)
           /\ phase' = "corrupted"
           /\ UNCHANGED <<db, size, cursor, drifted>>
     /\ UNCHANGED <<changes, snapshot, past>>

(* The loop is over: the undone changes are dropped from the journal.      *)
RevertEnd ==
  /\ phase = "reverting"
  /\ cursor = snapshot
  /\ phase' = "idle"
  /\ changes' = SubSeq(changes, 1, snapshot)
  /\ past' = SubSeq(past, 1, snapshot)
  /\ snapshot' = 0
  /\ cursor' = 0
  /\ UNCHANGED <<db, size, drifted>>

Revert == RevertOne \/ RevertEnd

Operation ==
  \/ \E p \in Prefixes : CreateTable(p)
  \/ \E r \in Prefixes \X Keys, v \in Values :
        CreateRow(r, v) \/ UpdateRow(r, v)
  \/ \E r \in Prefixes \X Keys : DeleteRow(r)
  \/ \E i \in Indexes, p \in Prefixes, k \in Keys, s \in SecKeys :
        StoreSecondary(i, p, k, s)
  \/ \E e \in Entries, s \in SecKeys :
        UpdateSecondary(e, s)
  \/ \E e \in Entries : DeleteSecondary(e)

Next == Operation \/ Begin \/ Commit \/ Abort \/ Revert

Spec == Init /\ [][Next]_vars
-----------------------------------------------------------------------------
(* Properties.                                                             *)

RowsOf(d, p) == {k \in Keys : d.rows[<<p, k>>] # undefined}

(* Undoing a transaction never finds the store in a state its journal does *)
(* not account for: 'revert stack is corrupted' is unreachable.            *)
RevertNeverThrows == phase # "corrupted"

(* When revertTo returns, the rows, the tables with their ids, the next id *)
(* and the secondary indexes are those of the moment the snapshot was      *)
(* taken.                                                                  *)
RollbackIsExact ==
  [][phase = "reverting" /\ phase' = "idle" /\ snapshot < Len(past)
        => db' = past[snapshot + 1]]_vars

(* The two maps of Store hold the same tables: prefixesIndex is the        *)
(* inverse of prefixes, so no two tables share an id, and ids at or above  *)
(* seq are free.                                                           *)
PrefixesAgree(d) ==
  /\ \A p \in Prefixes : d.prefixes[p] # undefined
        => d.prefixes[p] < d.seq /\ d.index[d.prefixes[p]] = p
  /\ \A t \in Ids : d.index[t] # undefined => d.prefixes[d.index[t]] = t

(* The two trees of a SecondaryKeyStore hold the same entries, one for a   *)
(* row.                                                                    *)
TreesAgree(d) ==
  \A e \in Entries :
    e \in d.bySecondary <=> d.byPrimary[RowOf(e)] = e[4]

(* No row and no entry refers to an id that is still to be given: a table  *)
(* never finds entries that an earlier table left behind.                  *)
IdsGiven(d) ==
  /\ \A r \in Prefixes \X Keys : d.rows[r] # undefined
        => d.rows[r].tableId < d.seq
  /\ \A e \in Entries : e \in d.bySecondary => e[2] < d.seq

(* The three above hold of the store at all times, during a revert too.    *)
StorePrefixesAgree == PrefixesAgree(db)
StoreTreesAgree == TreesAgree(db)
StoreIdsGiven == IdsGiven(db)

(* As long as no row deletion was ever undone, each table counts its rows  *)
(* exactly, they all carry its id, and no row outlives its table.          *)
CountsExactUntilDrift ==
  ~drifted => \A p \in Prefixes :
     IF db.prefixes[p] = undefined
     THEN RowsOf(db, p) = {}
     ELSE /\ size[db.prefixes[p]] = Cardinality(RowsOf(db, p))
          /\ \A k \in RowsOf(db, p) :
               db.rows[<<p, k>>].tableId = db.prefixes[p]

(* No row outlives its table.  applyTransaction promises to "Revert back   *)
(* to pre-transaction", but the count of a table is not reverted when the  *)
(* deletion of a row is, so that a later deletion drops a table that still *)
(* has rows.                                                               *)
NoRowOutlivesItsTable ==
  \A p \in Prefixes : db.prefixes[p] = undefined => RowsOf(db, p) = {}

(* Seen from outside, while the store reverts it already has the database  *)
(* that it restores.                                                       *)
Saved == IF Len(past) > snapshot THEN past[snapshot + 1] ELSE db

Atomic == INSTANCE AtomicStore
            WITH EmptyDb  <- EmptyDb,
                 NotSaved <- undefined,
                 db       <- IF phase = "reverting" THEN Saved ELSE db,
                 saved    <- IF phase = "idle" THEN undefined ELSE Saved

(* The store implements the all-or-nothing store of AtomicStore.           *)
ImplementsAtomicStore == Atomic!Spec
=============================================================================
