----------------------------- MODULE SecondaryApi -----------------------------
(***************************************************************************)
(* The host functions db_idx*_ (antelope/vm.ts, genericIndex) by which     *)
(* contracts use a secondary index, on SecondaryKeyStore and the reverts   *)
(* of its changes (antelope/table.ts), with iterators that may be stale.   *)
(*                                                                         *)
(* Abstractions.  One index stands for each of the four.  Entries are      *)
(* IndexObjects, told apart by the identity `oid` that JavaScript gives    *)
(* each of them; the payer is left out.  A Table object is named by its    *)
(* prefix: TableStore shows that entries are not met under another table.  *)
(* Tables are dropped with their last row only, which is not written here. *)
(* The journal holds the changes since the snapshot: no others are undone. *)
(* Secondary keys are numbers; the order of the tree is (secondary key,    *)
(* primary key) within a table.                                            *)
(***************************************************************************)
EXTENDS IteratorCache, FiniteSets, FiniteSetsExt

CONSTANTS Contracts,     \* accounts that hold a contract
          Prefixes,      \* tables, each (code, scope, table)
          Code,          \* the contract a table belongs to
          MaxKey,        \* bound: primary keys are 0 .. MaxKey
          MaxSecKey,     \* bound: secondary keys are 0 .. MaxSecKey
          MaxObjects,    \* bound: IndexObjects alive at a time
          MaxIterators,  \* bound: iterators of one context
          MaxChanges     \* bound: changes made by one transaction

Keys == 0 .. MaxKey
SecKeys == 0 .. MaxSecKey

(* IndexObject                                                             *)
Entries == [oid : 0 .. MaxObjects - 1, table : Prefixes, key : Keys,
            sec : SecKeys]

ASSUME CodeAssumption == Code \in [Prefixes -> Contracts]

ASSUME BoundsAssumption == /\ MaxKey \in Nat
                           /\ MaxSecKey \in Nat
                           /\ MaxObjects \in Nat

ASSUME UndefinedAssumption == undefined \notin Entries

(* A change names its kind, and the prefix or the entries that it is       *)
(* about.                                                                  *)
VARIABLES byPrimary,    \* SecondaryKeyStore's two trees: the entry of a row,
          bySecondary,  \* and the entries that the order is made of
          tables,       \* the tables that exist
          changes,      \* the journal since the snapshot
          phase,        \* "idle", "open", or "reverting" a transaction
          receiver,     \* the contract whose action is applied, or undefined
          cache,        \* the index's cache of its VM
          saved,        \* trees and tables when the transaction began
          misuse,       \* history: "stale" once a stale iterator was written
                        \* through, "double" once a row got a second entry
          thrown        \* history: the last transaction's revert threw

index == <<byPrimary, bySecondary>>
history == <<saved, misuse, thrown>>
vars == <<byPrimary, bySecondary, tables, changes, phase, receiver, cache,
          saved, misuse, thrown>>

Snapshot == [byPrimary |-> byPrimary, bySecondary |-> bySecondary,
             tables |-> tables]

Init == /\ byPrimary = [r \in Prefixes \X Keys |-> undefined]
        /\ bySecondary = {}
        /\ tables = {}
        /\ changes = << >>
        /\ phase = "idle"
        /\ receiver = undefined
        /\ cache = EmptyCache
        /\ saved = Snapshot
        /\ misuse = "no"
        /\ thrown = FALSE

-----------------------------------------------------------------------------
(* The trees.                                                              *)

RowOf(e) == <<e.table, e.key>>

(* The comparison of bySecondary finds these equal.                        *)
Same(e, f) == e.table = f.table /\ e.sec = f.sec /\ e.key = f.key

Before(e, f) == \/ e.sec < f.sec
                \/ e.sec = f.sec /\ e.key < f.key

In(p) == {e \in bySecondary : e.table = p}

Least(S) == IF S = {} THEN undefined
            ELSE CHOOSE e \in S : \A f \in S \ {e} : Before(e, f)
Greatest(S) == IF S = {} THEN undefined
               ELSE CHOOSE e \in S : \A f \in S \ {e} : Before(f, e)

After(e) == Least({f \in In(e.table) : Before(e, f)})

Without(e, S) == {f \in S : ~Same(e, f)}

(* BTree.set replaces the entry that it finds equal.                       *)
With(e, S) == Without(e, S) \cup {e}

(* The entries with a secondary key: ignorePrimaryKey makes the search     *)
(* take any of them for the one it looks for.                              *)
Hits(p, s) == {e \in In(p) : e.sec = s}

(* What find_secondary and lowerbound_secondary find.                      *)
Found(p, s) == IF Hits(p, s) = {} THEN {undefined} ELSE Hits(p, s)
Lower(p, s) == Least({e \in In(p) : e.sec >= s})

(* Mutated form: the entry that is hit is returned.                        *)
UppersIncluding(p, s) ==
  IF Hits(p, s) = {} THEN {Least({e \in In(p) : e.sec > s})} ELSE Hits(p, s)

(* What upperbound_secondary finds: the entry after the one that is hit.   *)
Uppers(p, s) ==
  IF Hits(p, s) = {} THEN {Least({e \in In(p) : e.sec > s})}
  ELSE {After(e) : e \in Hits(p, s)}

(* `new IndexObject`: an identity that no reachable object has.            *)
InUse == bySecondary \cup Range(byPrimary) \cup saved.bySecondary
           \cup Range(saved.byPrimary) \cup Range(cache.iteratorToObject)
           \cup DOMAIN cache.objectToIterator
           \cup {changes[i].key :
                   i \in {i \in DOMAIN changes :
                            changes[i].kind # "CreatePrefix"}}
           \cup {changes[i].newKey :
                   i \in {i \in DOMAIN changes : changes[i].kind = "Update"}}
FreeOids == {n \in 0 .. MaxObjects - 1 :
               \A o \in InUse \ {undefined} : o.oid # n}

PushAll(cs) == /\ Len(changes) + Len(cs) <= MaxChanges
               /\ changes' = changes \o cs
Push(c) == PushAll(<<c>>)

-----------------------------------------------------------------------------
(* Transactions and contexts.                                              *)

Begin == /\ phase = "idle"
         /\ phase' = "open"
         /\ changes' = << >>
         /\ saved' = Snapshot
         /\ thrown' = FALSE
         /\ UNCHANGED <<index, tables, receiver, cache, misuse>>

Apply(c) == /\ phase = "open"
            /\ receiver = undefined
            /\ receiver' = c
            /\ UNCHANGED <<index, tables, changes, phase, cache, history>>

Return == /\ receiver # undefined
          /\ receiver' = undefined
          /\ cache' = EmptyCache
          /\ UNCHANGED <<index, tables, changes, phase, history>>

Commit == /\ phase = "open"
          /\ receiver = undefined
          /\ phase' = "idle"
          /\ changes' = << >>
          /\ saved' = Snapshot
          /\ UNCHANGED <<index, tables, receiver, cache, misuse, thrown>>

(* The contract or a host function throws.                                 *)
Abort == /\ phase = "open"
         /\ phase' = "reverting"
         /\ receiver' = undefined
         /\ cache' = EmptyCache
         /\ UNCHANGED <<index, tables, changes, history>>

-----------------------------------------------------------------------------
(* Reverting: Store.revertTo with the changes of a SecondaryKeyStore.      *)

(* Each revert method checks that the row has, or has not, an entry.  A    *)
(* removal that found none has journalled undefined, to which comparing a  *)
(* key is a TypeError.  (An empty tree compares nothing: it then takes     *)
(* undefined for a key, and the next change to be undone, the removal that *)
(* emptied it, throws.)                                                    *)
CanUndo(c) ==
  \/ c.kind = "CreatePrefix" /\ c.prefix \in tables
  \/ c.kind = "Create" /\ byPrimary[RowOf(c.key)] # undefined
  \/ c.kind = "Update" /\ byPrimary[RowOf(c.newKey)] # undefined
  \/ c.kind = "Delete" /\ c.key # undefined
       /\ byPrimary[RowOf(c.key)] = undefined

(* Mutated form: the former entry is put back in one tree only.            *)
UndoneInOneTree(c) ==
  \/ c.kind = "CreatePrefix" /\ UNCHANGED index
  \/ /\ c.kind = "Create"
     /\ byPrimary' = [byPrimary EXCEPT ![RowOf(c.key)] = undefined]
     /\ bySecondary' = Without(c.key, bySecondary)
  \/ /\ c.kind = "Update"
     /\ bySecondary' = With(c.key, Without(c.newKey, bySecondary))
     /\ UNCHANGED byPrimary
  \/ /\ c.kind = "Delete"
     /\ byPrimary' = [byPrimary EXCEPT ![RowOf(c.key)] = c.key]
     /\ bySecondary' = With(c.key, bySecondary)

Undone(c) ==
  \/ c.kind = "CreatePrefix" /\ UNCHANGED index
  \/ /\ c.kind = "Create"
     /\ byPrimary' = [byPrimary EXCEPT ![RowOf(c.key)] = undefined]
     /\ bySecondary' = Without(c.key, bySecondary)
  \/ /\ c.kind = "Update"
     /\ byPrimary' = [byPrimary EXCEPT ![RowOf(c.key)] = c.key]
     /\ bySecondary' = With(c.key, Without(c.newKey, bySecondary))
  \/ /\ c.kind = "Delete"
     /\ byPrimary' = [byPrimary EXCEPT ![RowOf(c.key)] = c.key]
     /\ bySecondary' = With(c.key, bySecondary)

(* One turn of the loop.                                                   *)
RevertOne ==
  LET c == changes[Len(changes)]
  IN /\ phase = "reverting"
     /\ changes # << >>
     /\ CanUndo(c)
     /\ Undone(c)
     /\ tables' = tables \ {p \in Prefixes :
                               c.kind = "CreatePrefix" /\ p = c.prefix}
     /\ changes' = SubSeq(changes, 1, Len(changes) - 1)
     /\ UNCHANGED <<phase, receiver, cache, history>>

(* 'revert stack is corrupted', or the TypeError: the other changes stay   *)
(* made, and the next transaction starts from there.                       *)
RevertThrows ==
  /\ phase = "reverting"
  /\ changes # << >>
  /\ ~CanUndo(changes[Len(changes)])
  /\ phase' = "idle"
  /\ changes' = << >>
  /\ saved' = Snapshot
  /\ thrown' = TRUE
  /\ UNCHANGED <<index, tables, receiver, cache, misuse>>

RevertEnd == /\ phase = "reverting"
             /\ changes = << >>
             /\ phase' = "idle"
             /\ UNCHANGED <<index, tables, changes, receiver, cache, history>>

-----------------------------------------------------------------------------
(* Host functions, called by the contract that runs.                       *)

Running == receiver # undefined

Cached(c) == /\ Len(c.iteratorToObject) <= MaxIterators
             /\ cache' = c

(* cache.add of what a lookup found, if it found anything.                 *)
Reach(c, obj) == IF obj = undefined THEN c ELSE Add(c, obj)

(* The change that findOrCreateTable journals, if any.                     *)
Creation(p) ==
  IF p \in tables THEN << >> ELSE <<[kind |-> "CreatePrefix", prefix |-> p]>>

(* genericIndex.store: the tree by primary key has one entry for a row,    *)
(* the other gets a second one.                                            *)
IdxStore(p, k, s) ==
  LET obj == [oid |-> Min(FreeOids), table |-> p, key |-> k, sec |-> s]
  IN /\ Running
     /\ Code[p] = receiver
     /\ FreeOids # {}
     /\ PushAll(Append(Creation(p), [kind |-> "Create", key |-> obj]))
     /\ tables' = tables \cup {p}
     /\ byPrimary' = [byPrimary EXCEPT ![<<p, k>>] = obj]
     /\ bySecondary' = With(obj, bySecondary)
     /\ Cached(Add(CacheTable(cache, p), obj))
     /\ misuse' = IF byPrimary[<<p, k>>] = undefined THEN misuse ELSE "double"
     /\ UNCHANGED <<phase, receiver, saved, thrown>>

(* Mutated form: 'db access violation' is not checked.                     *)
WritableUnchecked(it) == Running /\ it \in Live(cache)

(* The iterators that update and remove accept.                            *)
Writable(it) == /\ Running
                /\ it \in Live(cache)
                /\ HasTable(cache, ObjectOf(cache, it).table)
                /\ Code[ObjectOf(cache, it).table] = receiver

Stale(it) == byPrimary[RowOf(ObjectOf(cache, it))] # ObjectOf(cache, it)

(* misuse after a write through an iterator.                               *)
Through(it) == IF misuse = "no" /\ Stale(it) THEN "stale" ELSE misuse

(* Mutated form: the former entry stays in the order.                      *)
IdxUpdateKeepsOld(it, s) ==
  LET obj    == ObjectOf(cache, it)
      newObj == [obj EXCEPT !.oid = Min(FreeOids), !.sec = s]
  IN /\ Writable(it)
     /\ FreeOids # {}
     /\ Push([kind |-> "Update", key |-> obj, newKey |-> newObj])
     /\ byPrimary' = [byPrimary EXCEPT ![RowOf(obj)] = newObj]
     /\ bySecondary' = With(newObj, bySecondary)
     /\ cache' = SetObject(cache, it, newObj)
     /\ misuse' = Through(it)
     /\ UNCHANGED <<tables, phase, receiver, saved, thrown>>

(* genericIndex.update: SecondaryKeyStore.set of the iterator's entry and  *)
(* its changed clone.  A former entry that the order does not have makes   *)
(* this the creation of an entry.                                          *)
IdxUpdate(it, s) ==
  LET obj    == ObjectOf(cache, it)
      newObj == [obj EXCEPT !.oid = Min(FreeOids), !.sec = s]
  IN /\ Writable(it)
     /\ FreeOids # {}
     /\ \/ \E e \in bySecondary :
             /\ Same(e, obj)
             /\ Push([kind |-> "Update", key |-> e, newKey |-> newObj])
        \/ /\ \A e \in bySecondary : ~Same(e, obj)
           /\ Push([kind |-> "Create", key |-> newObj])
     /\ byPrimary' = [byPrimary EXCEPT ![RowOf(obj)] = newObj]
     /\ bySecondary' = With(newObj, Without(obj, bySecondary))
     /\ cache' = SetObject(cache, it, newObj)
     /\ misuse' = Through(it)
     /\ UNCHANGED <<tables, phase, receiver, saved, thrown>>

(* Mutated form: the deletion is not journalled.                           *)
IdxRemoveForgotten(it) ==
  LET obj == ObjectOf(cache, it)
  IN /\ Writable(it)
     /\ byPrimary' = [byPrimary EXCEPT ![RowOf(obj)] = undefined]
     /\ bySecondary' = Without(obj, bySecondary)
     /\ cache' = Remove(cache, it)
     /\ misuse' = Through(it)
     /\ UNCHANGED <<tables, changes, phase, receiver, saved, thrown>>

(* genericIndex.remove: what is journalled is the entry that byPrimary has *)
(* for the row, if any.                                                    *)
IdxRemove(it) ==
  LET obj == ObjectOf(cache, it)
  IN /\ Writable(it)
     /\ Push([kind |-> "Delete", key |-> byPrimary[RowOf(obj)]])
     /\ byPrimary' = [byPrimary EXCEPT ![RowOf(obj)] = undefined]
     /\ bySecondary' = Without(obj, bySecondary)
     /\ cache' = Remove(cache, it)
     /\ misuse' = Through(it)
     /\ UNCHANGED <<tables, phase, receiver, saved, thrown>>

(* A lookup in a table that exists finds one of the objects.               *)
Lookup(p, objects) ==
  /\ Running
  /\ p \in tables
  /\ \E obj \in objects : Cached(Reach(CacheTable(cache, p), obj))
  /\ UNCHANGED <<index, tables, changes, phase, receiver, history>>

FindPrimary(p, k)   == Lookup(p, {byPrimary[<<p, k>>]})
FindSecondary(p, s) == Lookup(p, Found(p, s))
Lowerbound(p, s)    == Lookup(p, {Lower(p, s)})
Upperbound(p, s)    == Lookup(p, Uppers(p, s))
EndSecondary(p)     == Lookup(p, {undefined})

(* A step to a neighbour.                                                  *)
Step(obj) == /\ Cached(Reach(cache, obj))
             /\ UNCHANGED <<index, tables, changes, phase, receiver, history>>

NextSecondary(it) ==
  /\ Running
  /\ it \in Live(cache)
  /\ Step(After(ObjectOf(cache, it)))

PreviousSecondary(it) ==
  /\ Running
  /\ it \in Live(cache)
  /\ LET obj == ObjectOf(cache, it)
     IN Step(Greatest({e \in In(obj.table) : Before(e, obj)}))

PreviousOfEnd(ei) ==
  /\ Running
  /\ FindTableByEndIterator(cache, ei) # undefined
  /\ Step(Greatest(In(FindTableByEndIterator(cache, ei))))

HostFunction ==
  \/ \E p \in Prefixes, k \in Keys : FindPrimary(p, k)
  \/ \E p \in Prefixes, k \in Keys, s \in SecKeys : IdxStore(p, k, s)
  \/ \E p \in Prefixes, s \in SecKeys :
        FindSecondary(p, s) \/ Lowerbound(p, s) \/ Upperbound(p, s)
  \/ \E p \in Prefixes : EndSecondary(p)
  \/ \E it \in 0 .. MaxIterators - 1 :
        IdxRemove(it) \/ NextSecondary(it) \/ PreviousSecondary(it)
  \/ \E it \in 0 .. MaxIterators - 1, s \in SecKeys : IdxUpdate(it, s)
  \/ \E idx \in 0 .. Cardinality(Prefixes) - 1 :
        PreviousOfEnd(indexToEndIterator(idx))

Next == \/ Begin \/ Return \/ Commit \/ Abort
        \/ RevertOne \/ RevertThrows \/ RevertEnd
        \/ \E c \in Contracts : Apply(c)
        \/ HostFunction

Spec == Init /\ [][Next]_vars

-----------------------------------------------------------------------------
(* Properties.                                                             *)

(* What contracts should not do, and SecondaryKeyStore does not refuse.    *)
misused == misuse # "no"

(* The two trees hold the same objects, one for a row, while contracts     *)
(* store one entry for a row and write through current iterators.          *)
TreesAgreeUnlessMisused ==
  ~misused => bySecondary = Range(byPrimary) \ {undefined}

(* Under the same condition no revert throws,                              *)
RevertWorksUnlessMisused == ~misused => ~thrown

(* and reverting restores the tables and both trees, to the objects.       *)
RollbackExactUnlessMisused ==
  [][phase = "reverting" /\ phase' = "idle" /\ ~misused
       => /\ byPrimary' = saved.byPrimary
          /\ bySecondary' = saved.bySecondary
          /\ tables' = saved.tables]_vars

(* A contract that has one iterator for a row, and has removed none, is    *)
(* not stale: what makes an iterator stale is another one for the row.     *)
SoleIteratorsAreCurrent ==
  LET all == 0 .. Len(cache.iteratorToObject) - 1
  IN ~misused /\ Live(cache) = all
       => \A i \in all :
            (\A j \in all \ {i} : RowOf(ObjectOf(cache, j))
                                    # RowOf(ObjectOf(cache, i)))
               => ~Stale(i)

(* The upper bound of a secondary key that no two entries share is the     *)
(* least entry above it, although the search ignores the primary key.      *)
UpperboundSkipsUnlessShared ==
  \A p \in Prefixes, s \in SecKeys :
     Cardinality(Hits(p, s)) <= 1
       => Uppers(p, s) = {Least({e \in In(p) : e.sec > s})}

(* A contract changes entries of its own tables only; those of others      *)
(* change when a transaction is undone.                                    *)
OnlyOwnEntries ==
  [][phase = "open" =>
       \A r \in Prefixes \X Keys :
          byPrimary'[r] # byPrimary[r] => Code[r[1]] = receiver]_vars

(* The revert methods of the changes of secondary keys throw 'revert stack *)
(* is corrupted' when they do not find what their change left.  That is    *)
(* reachable by a contract that stores one entry for each row: add takes   *)
(* iterator 0 for none, so that the first entry of a context gets another  *)
(* iterator when it is met again; a removal through the stale one is       *)
(* journalled with nothing to restore, an update through it as a creation, *)
(* and the transaction is left half undone.                                *)
RevertStackIntact == misuse # "double" => ~thrown
=============================================================================
