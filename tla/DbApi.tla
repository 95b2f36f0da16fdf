-------------------------------- MODULE DbApi --------------------------------
(***************************************************************************)
(* The host functions db_*_i64 (antelope/vm.ts) by which contracts use     *)
(* primary tables, and the cache of iterators they go through, inside the  *)
(* contexts and the transactions that applyTransaction runs.               *)
(*                                                                         *)
(* Abstractions.  Rows are KeyValueObjects, told apart by the identity     *)
(* `oid` that JavaScript gives each of them: payer and bytes are left out, *)
(* for every write makes another object.  A revert is one step, as         *)
(* TableStore shows it may be.  All VMs share one cache variable: apply    *)
(* ends by emptying the cache of the VM that ran, so that only the one     *)
(* that runs has iterators.  A call that throws is the Abort that follows. *)
(***************************************************************************)
EXTENDS IteratorCache, FiniteSets, FiniteSetsExt

CONSTANTS Contracts,     \* accounts that hold a contract
          Prefixes,      \* tables, each (code, scope, table)
          Code,          \* the contract a table belongs to
          MaxKey,        \* bound: primary keys are 0 .. MaxKey
          MaxTables,     \* bound: Table objects ever made
          MaxObjects,    \* bound: KeyValueObjects alive at a time
          MaxIterators,  \* bound: iterators of one context
          MaxDrift       \* bound: how far below zero a table may count

Keys == 0 .. MaxKey
Ids == 0 .. MaxTables - 1

(* KeyValueObjects.                                                        *)
Objects == [oid : 0 .. MaxObjects - 1, tableId : Ids, key : Keys]

ASSUME CodeAssumption == Code \in [Prefixes -> Contracts]

ASSUME BoundsAssumption == /\ MaxKey \in Nat
                           /\ MaxTables \in Nat
                           /\ MaxObjects \in Nat

ASSUME UndefinedAssumption == /\ undefined \notin Ids
                              /\ undefined \notin Prefixes
                              /\ undefined \notin Contracts
                              /\ undefined \notin Objects

(* A row is a record of oid, tableId and key.  The store is a record:      *)
(* rows, the row of each prefix and key; tables, the id that each prefix   *)
(* has in Store.prefixes; prefixOf and size, of the Table objects ever     *)
(* made, those that were dropped included; seq, the next id.               *)
VARIABLES store,     \* the rows and tables of the store
          saved,     \* the store when the transaction began; undefined
                     \* between transactions
          receiver,  \* the contract whose action is applied, or undefined
          cache,     \* kvCache of its VM
          deletes    \* rows deleted since the transaction began, of each of
                     \* the tables that it found

vars == <<store, saved, receiver, cache, deletes>>

Init == /\ store = [rows     |-> [r \in Prefixes \X Keys |-> undefined],
                    tables   |-> [p \in Prefixes |-> undefined],
                    prefixOf |-> [t \in Ids |-> undefined],
                    size     |-> [t \in Ids |-> 0],
                    seq      |-> 0]
        /\ saved = undefined
        /\ receiver = undefined
        /\ cache = EmptyCache
        /\ deletes = [t \in Ids |-> 0]

-----------------------------------------------------------------------------
(* The store as the host functions see it.                                 *)

Registered(t) == \E p \in Prefixes : store.tables[p] = t

(* The row of least, or greatest, key among those of a prefix that have    *)
(* one of the given keys.                                                  *)
Occupied(p, ks) == {k \in ks : store.rows[<<p, k>>] # undefined}
First(p, ks) == IF Occupied(p, ks) = {} THEN undefined
                ELSE store.rows[<<p, Min(Occupied(p, ks))>>]
Last(p, ks)  == IF Occupied(p, ks) = {} THEN undefined
                ELSE store.rows[<<p, Max(Occupied(p, ks))>>]

(* `new KeyValueObject`: an identity that no reachable object has.         *)
InUse == {store.rows[r] : r \in Prefixes \X Keys}
           \cup Range(cache.iteratorToObject)
           \cup DOMAIN cache.objectToIterator
           \cup {saved.rows[r] : r \in Prefixes \X Keys}
FreeOids == {n \in 0 .. MaxObjects - 1 :
               \A o \in InUse \ {undefined} : o.oid # n}

(* Table.set on Table object t, registered or not.                         *)
Written(s, t, obj) ==
  LET r == <<s.prefixOf[t], obj.key>>
  IN [s EXCEPT !.rows[r] = obj,
               !.size[t] = @ + (IF s.rows[r] = undefined THEN 1 ELSE 0)]

(* findOrCreateTable on a prefix without a table.                          *)
WithNewTable(s, p) == [s EXCEPT !.tables[p] = s.seq,
                                !.prefixOf[s.seq] = p,
                                !.size[s.seq] = 0,
                                !.seq = s.seq + 1]

-----------------------------------------------------------------------------
(* Transactions and contexts.                                              *)

Begin == /\ saved = undefined
         /\ saved' = store
         /\ deletes' = [t \in Ids |-> 0]
         /\ UNCHANGED <<store, receiver, cache>>

(* apply sets the context; an inline action, a notification or the next    *)
(* action of the transaction.                                              *)
Apply(c) == /\ saved # undefined
            /\ receiver = undefined
            /\ receiver' = c
            /\ UNCHANGED <<store, saved, cache, deletes>>

(* apply returns: finalize gives the VM new caches.                        *)
Return == /\ receiver # undefined
          /\ receiver' = undefined
          /\ cache' = EmptyCache
          /\ UNCHANGED <<store, saved, deletes>>

Commit == /\ saved # undefined
          /\ receiver = undefined
          /\ saved' = undefined
          /\ UNCHANGED <<store, receiver, cache, deletes>>

(* The revert brings back the store of Begin, except that undoing the      *)
(* deletion of a row does not add it to the count of its table again.      *)
Rollback(deleted) ==
  /\ store' = [saved EXCEPT !.size =
                 [t \in Ids |-> saved.size[t] - deleted[t]]]
  /\ saved' = undefined
  /\ receiver' = undefined
  /\ cache' = EmptyCache
  /\ deletes' = [t \in Ids |-> 0]

(* The contract, a host function or apply's authorization check throws.    *)
Abort == saved # undefined /\ Rollback(deletes)

-----------------------------------------------------------------------------
(* Host functions, called by the contract that runs.                       *)

Running == receiver # undefined

Cached(c) == /\ Len(c.iteratorToObject) <= MaxIterators
             /\ cache' = c

(* kvCache.add of what a lookup found, if it found anything.               *)
Reach(c, obj) == IF obj = undefined THEN c ELSE Add(c, obj)

(* db_store_i64                                                            *)
DbStore(p, k) ==
  /\ Running
  /\ Code[p] = receiver
  /\ store.rows[<<p, k>>] = undefined
  /\ FreeOids # {}
  /\ store.tables[p] = undefined => store.seq < MaxTables
  /\ LET s   == IF store.tables[p] = undefined
                THEN WithNewTable(store, p) ELSE store
         obj == [oid |-> Min(FreeOids), tableId |-> s.tables[p], key |-> k]
     IN /\ store' = Written(s, s.tables[p], obj)
        /\ Cached(Add(CacheTable(cache, s.tables[p]), obj))
  /\ UNCHANGED <<saved, receiver, deletes>>

(* Mutated form: 'db access violation' is not checked.                     *)
WritableUnchecked(it) == /\ Running
                         /\ it \in Live(cache)
                         /\ HasTable(cache, ObjectOf(cache, it).tableId)

(* The iterators that db_update_i64 and db_remove_i64 accept: kvCache has  *)
(* the table of the object, and it belongs to the receiver.                *)
Writable(it) == /\ Running
                /\ it \in Live(cache)
                /\ HasTable(cache, ObjectOf(cache, it).tableId)
                /\ Code[store.prefixOf[ObjectOf(cache, it).tableId]] = receiver

(* Mutated form: the new object does not reach the table.                  *)
DbUpdateCacheOnly(it) ==
  /\ Writable(it)
  /\ FreeOids # {}
  /\ LET obj == [ObjectOf(cache, it) EXCEPT !.oid = Min(FreeOids)]
     IN cache' = SetObject(cache, it, obj)
  /\ UNCHANGED <<store, saved, receiver, deletes>>

(* db_update_i64: the object is cloned, and Table.set puts the clone into  *)
(* the table whether or not the row is still there.                        *)
DbUpdate(it) ==
  /\ Writable(it)
  /\ FreeOids # {}
  /\ LET obj == [ObjectOf(cache, it) EXCEPT !.oid = Min(FreeOids)]
     IN /\ store' = Written(store, obj.tableId, obj)
        /\ cache' = SetObject(cache, it, obj)
  /\ UNCHANGED <<saved, receiver, deletes>>

(* db_remove_i64.  Table.delete, on a table that counts no more rows,      *)
(* deletes whatever table has its prefix; it throws when none has.         *)
DbRemove(it) ==
  LET obj     == ObjectOf(cache, it)
      t       == obj.tableId
      p       == store.prefixOf[t]
      emptied == store.size[t] = 1
      deleted == IF t < saved.seq THEN [deletes EXCEPT ![t] = @ + 1]
                 ELSE deletes
  IN /\ Writable(it)
     /\ store.rows[<<p, obj.key>>] # undefined
     /\ saved.size[t] - deletes[t] > -MaxDrift \/ t >= saved.seq
     /\ \/ /\ emptied => store.tables[p] # undefined
           /\ store' = [store EXCEPT !.rows[<<p, obj.key>>] = undefined,
                                     !.size[t] = @ - 1,
                                     !.tables[p] = IF emptied THEN undefined
                                                   ELSE @]
           /\ cache' = Remove(cache, it)
           /\ deletes' = deleted
           /\ UNCHANGED <<saved, receiver>>
        \/ /\ emptied
           /\ store.tables[p] = undefined
           /\ Rollback(deleted)

(* Mutated form: findTable's table is not cached.                          *)
LookupUncached(p, obj) ==
  /\ Running
  /\ store.tables[p] # undefined
  /\ Cached(Reach(cache, obj))
  /\ UNCHANGED <<store, saved, receiver, deletes>>

(* A lookup in a table: its end iterator exists from now on.               *)
Lookup(p, obj) ==
  /\ Running
  /\ store.tables[p] # undefined
  /\ Cached(Reach(CacheTable(cache, store.tables[p]), obj))
  /\ UNCHANGED <<store, saved, receiver, deletes>>

(* db_find_i64, db_lowerbound_i64, db_upperbound_i64, db_end_i64           *)
DbFind(p, k)       == Lookup(p, store.rows[<<p, k>>])
DbLowerbound(p, k) == Lookup(p, First(p, k .. MaxKey))
DbUpperbound(p, k) == Lookup(p, First(p, (k + 1) .. MaxKey))
DbEnd(p)           == Lookup(p, undefined)

(* A step from a row to a neighbour: getTableById must know the table of   *)
(* the row.                                                                *)
DbNext(it) ==
  /\ Running
  /\ it \in Live(cache)
  /\ LET obj == ObjectOf(cache, it)
     IN /\ Registered(obj.tableId)
        /\ Cached(Reach(cache, First(store.prefixOf[obj.tableId],
                                     (obj.key + 1) .. MaxKey)))
  /\ UNCHANGED <<store, saved, receiver, deletes>>

DbPrevious(it) ==
  /\ Running
  /\ it \in Live(cache)
  /\ LET obj == ObjectOf(cache, it)
     IN /\ Registered(obj.tableId)
        /\ Cached(Reach(cache, Last(store.prefixOf[obj.tableId],
                                    0 .. (obj.key - 1))))
  /\ UNCHANGED <<store, saved, receiver, deletes>>

(* db_previous_i64 of an end iterator: Table.penultimate.                  *)
DbPreviousOfEnd(ei) ==
  /\ Running
  /\ FindTableByEndIterator(cache, ei) # undefined
  /\ LET t == FindTableByEndIterator(cache, ei)
     IN Cached(Reach(cache, Last(store.prefixOf[t], Keys)))
  /\ UNCHANGED <<store, saved, receiver, deletes>>

HostFunction ==
  \/ \E p \in Prefixes, k \in Keys :
        \/ DbStore(p, k) \/ DbFind(p, k)
        \/ DbLowerbound(p, k) \/ DbUpperbound(p, k)
  \/ \E p \in Prefixes : DbEnd(p)
  \/ \E it \in 0 .. MaxIterators - 1 :
        DbUpdate(it) \/ DbRemove(it) \/ DbNext(it) \/ DbPrevious(it)
  \/ \E idx \in 0 .. MaxTables - 1 : DbPreviousOfEnd(indexToEndIterator(idx))

Next == \/ Begin \/ Return \/ Commit \/ Abort
        \/ \E c \in Contracts : Apply(c)
        \/ HostFunction

Spec == Init /\ [][Next]_vars

-----------------------------------------------------------------------------
(* Properties.                                                             *)

(* A contract writes to tables of its own only: a row changes while the    *)
(* contract it belongs to runs, or when a transaction is rolled back.      *)
OnlyOwnTables ==
  [][\A r \in Prefixes \X Keys :
       store'.rows[r] # store.rows[r]
         => \/ receiver = Code[r[1]]
            \/ saved # undefined /\ saved' = undefined
                 /\ store'.rows = saved.rows]_vars

(* The iterator that a lookup returns for a row it has met before          *)
(* dereferences to that row as it is now, not as it was.                   *)
LookupsAreCurrent ==
  \A r \in Prefixes \X Keys :
     LET obj == store.rows[r]
     IN obj # undefined /\ Known(cache, obj)
          => ObjectOf(cache, cache.objectToIterator[obj]) = obj

(* A contract reads its own writes: the only iterator that a context has   *)
(* for a row, when it has removed none, dereferences to the row as the     *)
(* store has it.                                                           *)
SoleIteratorsAreCurrent ==
  LET all      == 0 .. Len(cache.iteratorToObject) - 1
      place(i) == <<store.prefixOf[ObjectOf(cache, i).tableId],
                    ObjectOf(cache, i).key>>
  IN Live(cache) = all
       => \A i \in all :
            (\A j \in all \ {i} : place(j) # place(i))
               => store.rows[place(i)] = ObjectOf(cache, i)

(* End iterators and tables are in bijection: a contract that compares     *)
(* end iterators, or steps back from one, always deals with one table.     *)
EndIteratorsNameTables ==
  /\ \A t \in DOMAIN cache.tableCache :
       FindTableByEndIterator(cache, cache.tableCache[t]) = t
  /\ Len(cache.endIteratorToTable) = Cardinality(DOMAIN cache.tableCache)

(* As long as the table of a row exists, its iterator can be used to       *)
(* update, remove and reach the end: kvCache has the table.                *)
RegisteredTablesCached ==
  \A i \in Live(cache) :
     Registered(ObjectOf(cache, i).tableId)
       => HasTable(cache, ObjectOf(cache, i).tableId)
=============================================================================
