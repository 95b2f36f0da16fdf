--------------------------- MODULE IteratorCache ---------------------------
(***************************************************************************)
(* The iterators a contract holds while one of its actions is applied      *)
(* (antelope/iterator-cache.ts), as operators on the value of a cache.     *)
(*                                                                         *)
(* Iterators are numbers: 0, 1, ... name objects, -2, -3, ... the ends of  *)
(* tables.  An object is any value that stands for one JavaScript object;  *)
(* a Table object is identified by its id.                                 *)
(***************************************************************************)
EXTENDS Integers, Sequences, Functions

CONSTANT undefined     \* JavaScript's undefined

(* A cache: IteratorCache's four fields.  tableCache maps the id of a      *)
(* table to its end iterator.                                              *)
EmptyCache == [tableCache         |-> << >>,
               endIteratorToTable |-> << >>,
               iteratorToObject   |-> << >>,
               objectToIterator   |-> << >>]

(* Map.set                                                                 *)
MapSet(map, key, value) ==
  [k \in DOMAIN map \cup {key} |-> IF k = key THEN value ELSE map[k]]

indexToEndIterator(idx) == -(idx + 2)
endIteratorToIndex(ei) == -ei - 2

(* Mutated form: a table is cached again each time.                        *)
CacheTableAgain(c, t) ==
  [c EXCEPT !.endIteratorToTable = Append(@, t),
            !.tableCache =
               MapSet(@, t, indexToEndIterator(Len(c.endIteratorToTable)))]

(* cacheTable: the table has an end iterator from now on.                  *)
CacheTable(c, t) ==
  IF t \in DOMAIN c.tableCache
  THEN c
  ELSE [c EXCEPT !.endIteratorToTable = Append(@, t),
                 !.tableCache =
                    MapSet(@, t, indexToEndIterator(Len(c.endIteratorToTable)))]

(* getTable and getEndIteratorByTableId throw unless this holds.           *)
HasTable(c, t) == t \in DOMAIN c.tableCache

(* findTableByEndIterator, for an iterator below -1.                       *)
FindTableByEndIterator(c, ei) ==
  LET idx == endIteratorToIndex(ei)
  IN IF idx < Len(c.endIteratorToTable)
     THEN c.endIteratorToTable[idx + 1]
     ELSE undefined

(* The iterators that get accepts: in range and not removed.               *)
Live(c) == {i \in 0 .. Len(c.iteratorToObject) - 1 :
              c.iteratorToObject[i + 1] # undefined}

(* get                                                                     *)
ObjectOf(c, i) == c.iteratorToObject[i + 1]

(* Mutated form: the iterator keeps the object it had.                     *)
SetObjectLost(c, i, obj) == c

(* set: objectToIterator still maps the former object to the iterator, and *)
(* does not map the new one.                                               *)
SetObject(c, i, obj) == [c EXCEPT !.iteratorToObject[i + 1] = obj]

(* remove                                                                  *)
Remove(c, i) ==
  [c EXCEPT !.iteratorToObject[i + 1] = undefined,
            !.objectToIterator =
               Restrict(@, DOMAIN @ \ {ObjectOf(c, i)})]

(* The iterator that add finds for an object; `if (itr)` takes iterator 0  *)
(* for none.                                                               *)
Known(c, obj) == /\ obj \in DOMAIN c.objectToIterator
                 /\ c.objectToIterator[obj] # 0

(* add: the cache afterwards.                                              *)
Add(c, obj) ==
  IF Known(c, obj)
  THEN c
  ELSE [c EXCEPT !.iteratorToObject = Append(@, obj),
                 !.objectToIterator =
                    MapSet(@, obj, Len(c.iteratorToObject))]
=============================================================================
