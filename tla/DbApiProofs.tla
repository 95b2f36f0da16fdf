---------------------------- MODULE DbApiProofs ----------------------------
(***************************************************************************)
(* Proofs about DbApi for any contracts, tables, keys and bounds.          *)
(***************************************************************************)
EXTENDS DbApi, SequenceTheorems, FiniteSetTheorems, WellFoundedInduction,
        TLAPS

Stores == [rows     : [Prefixes \X Keys -> Objects \cup {undefined}],
           tables   : [Prefixes -> Ids \cup {undefined}],
           prefixOf : [Ids -> Prefixes \cup {undefined}],
           size     : [Ids -> Int],
           seq      : 0 .. MaxTables]

(* A store in which tables have ids that were given, and rows are found    *)
(* where their Table object and their key say.                             *)
Sane(s) ==
  /\ s \in Stores
  /\ \A t \in Ids : t < s.seq => s.prefixOf[t] \in Prefixes
  /\ \A p \in Prefixes : s.tables[p] # undefined
       => s.tables[p] < s.seq /\ s.prefixOf[s.tables[p]] = p
  /\ \A r \in Prefixes \X Keys : s.rows[r] # undefined
       => /\ s.rows[r].tableId < s.seq
          /\ r = <<s.prefixOf[s.rows[r].tableId], s.rows[r].key>>

-----------------------------------------------------------------------------
(* The store.                                                              *)

(* Table.set writes one row.                                               *)
LEMMA WrittenFields ==
  ASSUME NEW s \in Stores, NEW t \in Ids, NEW obj \in Objects,
         s.prefixOf[t] \in Prefixes
  PROVE  LET r == <<s.prefixOf[t], obj.key>>
             w == Written(s, t, obj)
         IN /\ w \in Stores
            /\ r \in Prefixes \X Keys
            /\ w.rows = [s.rows EXCEPT ![r] = obj]
            /\ w.tables = s.tables
            /\ w.prefixOf = s.prefixOf
            /\ w.seq = s.seq
<1> DEFINE r == <<s.prefixOf[t], obj.key>>
           x == IF s.rows[r] = undefined THEN 1 ELSE 0
           rows == [s.rows EXCEPT ![r] = obj]
           size == [s.size EXCEPT ![t] = @ + x]
<1>1. r \in Prefixes \X Keys
  BY DEF Objects
<1>2. rows \in [Prefixes \X Keys -> Objects \cup {undefined}]
  BY <1>1 DEF Stores
<1>3. size \in [Ids -> Int]
  <2>1. s.size \in [Ids -> Int] /\ s.size[t] + x \in Int
    BY DEF Stores
  <2> QED BY <2>1
<1>4. Written(s, t, obj) = [s EXCEPT !.rows = rows, !.size = size]
  BY DEF Written, Stores
<1> HIDE DEF r, rows, size
<1>5. LET w == [s EXCEPT !.rows = rows, !.size = size]
      IN /\ w \in Stores
         /\ w.rows = rows
         /\ w.tables = s.tables
         /\ w.prefixOf = s.prefixOf
         /\ w.seq = s.seq
  BY <1>2, <1>3 DEF Stores
<1> QED BY <1>1, <1>4, <1>5 DEF r, rows

(* findOrCreateTable makes a Table object and registers it.                *)
LEMMA NewTableFields ==
  ASSUME NEW s \in Stores, NEW p \in Prefixes, s.seq < MaxTables
  PROVE  LET w == WithNewTable(s, p)
         IN /\ w \in Stores
            /\ s.seq \in Ids
            /\ w.rows = s.rows
            /\ w.tables = [s.tables EXCEPT ![p] = s.seq]
            /\ w.prefixOf = [s.prefixOf EXCEPT ![s.seq] = p]
            /\ w.seq = s.seq + 1
<1> DEFINE tables == [s.tables EXCEPT ![p] = s.seq]
           prefixOf == [s.prefixOf EXCEPT ![s.seq] = p]
           size == [s.size EXCEPT ![s.seq] = 0]
           seq == s.seq + 1
<1>1. s.seq \in Ids /\ seq \in 0 .. MaxTables
  BY BoundsAssumption DEF Stores, Ids
<1>2. /\ tables \in [Prefixes -> Ids \cup {undefined}]
      /\ prefixOf \in [Ids -> Prefixes \cup {undefined}]
      /\ size \in [Ids -> Int]
  BY <1>1 DEF Stores
<1>3. WithNewTable(s, p) = [s EXCEPT !.tables = tables, !.prefixOf = prefixOf,
                                     !.size = size, !.seq = seq]
  BY DEF WithNewTable, Stores
<1> HIDE DEF tables, prefixOf, size, seq
<1>4. LET w == [s EXCEPT !.tables = tables, !.prefixOf = prefixOf,
                         !.size = size, !.seq = seq]
      IN /\ w \in Stores
         /\ w.rows = s.rows
         /\ w.tables = tables
         /\ w.prefixOf = prefixOf
         /\ w.seq = seq
  BY <1>1, <1>2 DEF Stores
<1> QED BY <1>1, <1>3, <1>4 DEF tables, prefixOf, seq

(* A write by any Table object that was made, registered or not.           *)
LEMMA WrittenSane ==
  ASSUME NEW s, Sane(s), NEW obj \in Objects, obj.tableId < s.seq
  PROVE  /\ Sane(Written(s, obj.tableId, obj))
         /\ <<s.prefixOf[obj.tableId], obj.key>> \in Prefixes \X Keys
<1> DEFINE t == obj.tableId
           r == <<s.prefixOf[t], obj.key>>
           w == Written(s, t, obj)
<1>1. t \in Ids /\ s \in Stores /\ s.prefixOf[t] \in Prefixes
  BY DEF Objects, Sane
<1>2. /\ w \in Stores
      /\ r \in Prefixes \X Keys
      /\ w.rows = [s.rows EXCEPT ![r] = obj]
      /\ w.tables = s.tables /\ w.prefixOf = s.prefixOf /\ w.seq = s.seq
  BY <1>1, WrittenFields
<1> HIDE DEF w
<1>3. ASSUME NEW q \in Prefixes \X Keys, w.rows[q] # undefined
      PROVE  /\ w.rows[q].tableId < w.seq
             /\ q = <<w.prefixOf[w.rows[q].tableId], w.rows[q].key>>
  <2>1. s.rows \in [Prefixes \X Keys -> Objects \cup {undefined}]
    BY <1>1 DEF Stores
  <2>2. CASE q = r
    BY <1>2, <2>1, <2>2
  <2>3. CASE q # r
    BY <1>2, <1>3, <2>1, <2>3 DEF Sane
  <2> QED BY <2>2, <2>3
<1>4. Sane(w)
  BY <1>2, <1>3 DEF Sane
<1> QED BY <1>2, <1>4 DEF w

(* A table is made with an id that no row has.                             *)
LEMMA NewTableSane ==
  ASSUME NEW s, Sane(s), NEW p \in Prefixes, s.seq < MaxTables
  PROVE  Sane(WithNewTable(s, p))
<1> DEFINE w == WithNewTable(s, p)
<1>1. /\ w \in Stores
      /\ s.seq \in Ids
      /\ w.rows = s.rows
      /\ w.tables = [s.tables EXCEPT ![p] = s.seq]
      /\ w.prefixOf = [s.prefixOf EXCEPT ![s.seq] = p]
      /\ w.seq = s.seq + 1
  BY NewTableFields DEF Sane
<1>2. /\ s.seq \in Int /\ s.tables \in [Prefixes -> Ids \cup {undefined}]
      /\ s.prefixOf \in [Ids -> Prefixes \cup {undefined}]
      /\ s.rows \in [Prefixes \X Keys -> Objects \cup {undefined}]
  BY DEF Sane, Stores
<1> HIDE DEF w
<1>3. ASSUME NEW t \in Ids, t < w.seq
      PROVE  w.prefixOf[t] \in Prefixes
  <2>1. CASE t = s.seq
    BY <1>1, <1>2, <2>1
  <2>2. CASE t # s.seq
    <3>1. t < s.seq /\ w.prefixOf[t] = s.prefixOf[t]
      BY <1>1, <1>2, <1>3, <2>2 DEF Ids
    <3> QED BY <3>1 DEF Sane
  <2> QED BY <2>1, <2>2
<1>4. ASSUME NEW q \in Prefixes, w.tables[q] # undefined
      PROVE  w.tables[q] < w.seq /\ w.prefixOf[w.tables[q]] = q
  <2>1. CASE q = p
    BY <1>1, <1>2, <2>1
  <2>2. CASE q # p
    <3>1. w.tables[q] = s.tables[q]
      BY <1>1, <1>2, <2>2
    <3>2. s.tables[q] \in Ids /\ s.tables[q] < s.seq
      BY <1>2, <1>4, <3>1 DEF Sane
    <3>3. s.prefixOf[s.tables[q]] = q
      BY <1>4, <3>1 DEF Sane
    <3> QED BY <1>1, <1>2, <3>1, <3>2, <3>3 DEF Ids
  <2> QED BY <2>1, <2>2
<1>5. ASSUME NEW q \in Prefixes \X Keys, w.rows[q] # undefined
      PROVE  /\ w.rows[q].tableId < w.seq
             /\ q = <<w.prefixOf[w.rows[q].tableId], w.rows[q].key>>
  <2>1. s.rows[q] \in Objects /\ w.rows[q] = s.rows[q]
    BY <1>1, <1>2, <1>5
  <2>2. s.rows[q].tableId \in Ids
    BY <2>1 DEF Objects
  <2>3. /\ s.rows[q].tableId < s.seq
        /\ q = <<s.prefixOf[s.rows[q].tableId], s.rows[q].key>>
    BY <1>5, <2>1 DEF Sane
  <2> QED BY <1>1, <1>2, <2>1, <2>2, <2>3 DEF Ids
<1>6. Sane(w)
  BY <1>1, <1>3, <1>4, <1>5 DEF Sane
<1> QED BY <1>6 DEF w

(* What db_remove_i64 takes away is a row and perhaps the table that is    *)
(* registered for its prefix.                                              *)
Deleted(s, r, t, p, table) ==
  [s EXCEPT !.rows[r] = undefined, !.size[t] = @ - 1, !.tables[p] = table]

(* Taking it away leaves a sane store.                                     *)
LEMMA DeletedSane ==
  ASSUME NEW s, Sane(s), NEW r \in Prefixes \X Keys, NEW p \in Prefixes,
         NEW t \in Ids, NEW table, table = s.tables[p] \/ table = undefined
  PROVE  LET w == Deleted(s, r, t, p, table)
         IN /\ Sane(w)
            /\ w.rows = [s.rows EXCEPT ![r] = undefined]
            /\ w.tables = [s.tables EXCEPT ![p] = table]
            /\ w.prefixOf = s.prefixOf
            /\ w.seq = s.seq
<1> DEFINE rows == [s.rows EXCEPT ![r] = undefined]
           tables == [s.tables EXCEPT ![p] = table]
           size == [s.size EXCEPT ![t] = @ - 1]
           w == Deleted(s, r, t, p, table)
<1>1. /\ rows \in [Prefixes \X Keys -> Objects \cup {undefined}]
      /\ tables \in [Prefixes -> Ids \cup {undefined}]
  BY DEF Sane, Stores
<1>2. size \in [Ids -> Int]
  <2>1. s.size \in [Ids -> Int] /\ s.size[t] - 1 \in Int
    BY DEF Sane, Stores
  <2> QED BY <2>1
<1>3. /\ \A q \in Prefixes : tables[q] # undefined => tables[q] = s.tables[q]
      /\ \A q \in Prefixes \X Keys : rows[q] # undefined
                                      => rows[q] = s.rows[q]
  BY DEF Sane, Stores
<1>4. w = [s EXCEPT !.rows = rows, !.size = size, !.tables = tables]
  BY DEF Deleted, Sane, Stores
<1> HIDE DEF rows, tables, size, w
<1>5. /\ w \in Stores
      /\ w.rows = rows
      /\ w.tables = tables
      /\ w.prefixOf = s.prefixOf
      /\ w.seq = s.seq
  BY <1>1, <1>2, <1>4 DEF Sane, Stores
<1>6. Sane(w)
  BY <1>3, <1>5 DEF Sane
<1> QED BY <1>5, <1>6 DEF rows, tables, w

(* A revert that leaves counts behind.                                     *)
LEMMA RolledBackSane ==
  ASSUME NEW s, Sane(s), NEW size \in [Ids -> Int]
  PROVE  LET w == [s EXCEPT !.size = size]
         IN Sane(w) /\ w.rows = s.rows
<1> DEFINE w == [s EXCEPT !.size = size]
<1>1. /\ w \in Stores
      /\ w.rows = s.rows
      /\ w.tables = s.tables
      /\ w.prefixOf = s.prefixOf
      /\ w.seq = s.seq
  BY DEF Sane, Stores
<1> HIDE DEF w
<1>2. Sane(w)
  BY <1>1 DEF Sane
<1> QED BY <1>1, <1>2 DEF w

(* The least element of a set of numbers, and the greatest.                *)
LEMMA LeastExists ==
  ASSUME NEW S \in SUBSET Nat, S # {}
  PROVE  \E x \in S : \A y \in S : x <= y
<1> DEFINE R == {ss \in Nat \X Nat : ss[1] < ss[2]}
<1>1. IsWellFoundedOn(R, Nat)
  <2>1. OpToRel(<, Nat) = R
    BY DEF OpToRel
  <2> HIDE DEF R
  <2> QED BY <2>1, NatLessThanWellFounded
<1>2. PICK x \in S : \A y \in S : ~(<<y, x>> \in R)
  <2> HIDE DEF R
  <2> QED BY <1>1, WFMin
<1>3. ASSUME NEW y \in S
      PROVE  x <= y
  <2>1. y < x => <<y, x>> \in R
    OBVIOUS
  <2>2. ~(y < x)
    <3> HIDE DEF R
    <3> QED BY <1>2, <2>1
  <2> QED BY <2>2
<1> QED BY <1>3

(* The Min of FiniteSetsExt.                                               *)
LEMMA MinIsElement ==
  ASSUME NEW S \in SUBSET Nat, S # {}
  PROVE  Min(S) \in S
  BY LeastExists DEF Min

(* The Max of FiniteSetsExt, of a set of bounded numbers.                  *)
LEMMA MaxIsElement ==
  ASSUME NEW n \in Nat, NEW S \in SUBSET (0 .. n), S # {}
  PROVE  Max(S) \in S
<1> DEFINE T == {m \in Nat : n - m \in S}
<1>1. T \in SUBSET Nat /\ T # {}
  <2>1. PICK x \in S : TRUE
    OBVIOUS
  <2>2. n - x \in Nat /\ n - (n - x) = x
    OBVIOUS
  <2> QED BY <2>1, <2>2
<1>2. PICK x \in T : \A y \in T : x <= y
  <2> HIDE DEF T
  <2> QED BY <1>1, LeastExists
<1>3. n - x \in S /\ \A y \in S : n - x >= y
  <2>1. ASSUME NEW y \in S
        PROVE  n - x >= y
    <3>1. n - y \in T
      OBVIOUS
    <3> QED BY <1>2, <3>1
  <2> QED BY <2>1
<1> QED BY <1>3 DEF Max

-----------------------------------------------------------------------------
(* The cache.                                                              *)

IsCache(c) ==
  /\ c = [tableCache         |-> c.tableCache,
          endIteratorToTable |-> c.endIteratorToTable,
          iteratorToObject   |-> c.iteratorToObject,
          objectToIterator   |-> c.objectToIterator]
  /\ DOMAIN c.tableCache \subseteq Ids
  /\ c.endIteratorToTable \in Seq(Ids)
  /\ c.iteratorToObject \in Seq(Objects \cup {undefined})
  /\ DOMAIN c.objectToIterator \subseteq Objects
  /\ \A o \in DOMAIN c.objectToIterator :
       c.objectToIterator[o] \in 0 .. Len(c.iteratorToObject) - 1

(* A table that is cached for the first time.                              *)
LEMMA CacheTableFields ==
  ASSUME NEW c, IsCache(c), NEW t \in Ids, t \notin DOMAIN c.tableCache
  PROVE  LET d == CacheTable(c, t)
         IN /\ IsCache(d)
            /\ DOMAIN d.tableCache = DOMAIN c.tableCache \cup {t}
            /\ \A u \in DOMAIN c.tableCache : d.tableCache[u] = c.tableCache[u]
            /\ d.tableCache[t] = -(Len(c.endIteratorToTable) + 2)
            /\ d.endIteratorToTable = Append(c.endIteratorToTable, t)
            /\ d.iteratorToObject = c.iteratorToObject
            /\ d.objectToIterator = c.objectToIterator
<1> DEFINE ends == Append(c.endIteratorToTable, t)
           end == indexToEndIterator(Len(c.endIteratorToTable))
           tables == MapSet(c.tableCache, t, end)
           d == [tableCache         |-> tables,
                 endIteratorToTable |-> ends,
                 iteratorToObject   |-> c.iteratorToObject,
                 objectToIterator   |-> c.objectToIterator]
<1>1. CacheTable(c, t) = d
  <2>1. CacheTable(c, t)
          = [c EXCEPT !.endIteratorToTable = ends, !.tableCache = tables]
    BY DEF CacheTable
  <2> HIDE DEF ends, tables
  <2> QED BY <2>1 DEF IsCache
<1>2. /\ DOMAIN tables = DOMAIN c.tableCache \cup {t}
      /\ \A u \in DOMAIN c.tableCache : tables[u] = c.tableCache[u]
      /\ tables[t] = -(Len(c.endIteratorToTable) + 2)
  BY DEF MapSet, indexToEndIterator
<1>3. ends \in Seq(Ids)
  BY DEF IsCache
<1> HIDE DEF ends, tables
<1>4. IsCache(d)
  BY <1>2, <1>3 DEF IsCache
<1> QED BY <1>1, <1>2, <1>4 DEF ends

(* IteratorCache.set                                                       *)
LEMMA SetObjectFields ==
  ASSUME NEW c, IsCache(c), NEW i \in 0 .. Len(c.iteratorToObject) - 1,
         NEW obj \in Objects
  PROVE  LET d == SetObject(c, i, obj)
         IN /\ IsCache(d)
            /\ d.iteratorToObject = [c.iteratorToObject EXCEPT ![i + 1] = obj]
            /\ Len(d.iteratorToObject) = Len(c.iteratorToObject)
            /\ d.tableCache = c.tableCache
            /\ d.endIteratorToTable = c.endIteratorToTable
            /\ d.objectToIterator = c.objectToIterator
<1> DEFINE objects == [c.iteratorToObject EXCEPT ![i + 1] = obj]
           d == [tableCache         |-> c.tableCache,
                 endIteratorToTable |-> c.endIteratorToTable,
                 iteratorToObject   |-> objects,
                 objectToIterator   |-> c.objectToIterator]
<1>1. SetObject(c, i, obj) = d
  <2>1. SetObject(c, i, obj) = [c EXCEPT !.iteratorToObject = objects]
    BY DEF SetObject, IsCache
  <2> HIDE DEF objects
  <2> QED BY <2>1 DEF IsCache
<1>2. /\ objects \in Seq(Objects \cup {undefined})
      /\ Len(objects) = Len(c.iteratorToObject)
  BY DEF IsCache
<1> HIDE DEF objects
<1>3. IsCache(d)
  BY <1>2 DEF IsCache
<1> QED BY <1>1, <1>2, <1>3 DEF objects

(* IteratorCache.remove                                                    *)
LEMMA RemoveFields ==
  ASSUME NEW c, IsCache(c), NEW i \in 0 .. Len(c.iteratorToObject) - 1
  PROVE  LET d == Remove(c, i)
         IN /\ IsCache(d)
            /\ d.iteratorToObject
                 = [c.iteratorToObject EXCEPT ![i + 1] = undefined]
            /\ Len(d.iteratorToObject) = Len(c.iteratorToObject)
            /\ d.tableCache = c.tableCache
            /\ d.endIteratorToTable = c.endIteratorToTable
            /\ DOMAIN d.objectToIterator
                 = DOMAIN c.objectToIterator \ {ObjectOf(c, i)}
            /\ \A o \in DOMAIN d.objectToIterator :
                 d.objectToIterator[o] = c.objectToIterator[o]
<1> DEFINE objects == [c.iteratorToObject EXCEPT ![i + 1] = undefined]
           map == Restrict(c.objectToIterator,
                           DOMAIN c.objectToIterator \ {ObjectOf(c, i)})
           d == [tableCache         |-> c.tableCache,
                 endIteratorToTable |-> c.endIteratorToTable,
                 iteratorToObject   |-> objects,
                 objectToIterator   |-> map]
<1>1. Remove(c, i) = d
  <2>1. Remove(c, i) = [c EXCEPT !.iteratorToObject = objects,
                                 !.objectToIterator = map]
    BY DEF Remove, IsCache
  <2> HIDE DEF objects, map
  <2> QED BY <2>1 DEF IsCache
<1>2. /\ objects \in Seq(Objects \cup {undefined})
      /\ Len(objects) = Len(c.iteratorToObject)
  BY DEF IsCache
<1>3. /\ DOMAIN map = DOMAIN c.objectToIterator \ {ObjectOf(c, i)}
      /\ \A o \in DOMAIN map : map[o] = c.objectToIterator[o]
  BY DEF Restrict
<1> HIDE DEF objects, map
<1>4. IsCache(d)
  BY <1>2, <1>3 DEF IsCache
<1> QED BY <1>1, <1>2, <1>3, <1>4 DEF objects

(* IteratorCache.add of an object that it does not find.                   *)
LEMMA AddFields ==
  ASSUME NEW c, IsCache(c), NEW obj \in Objects, ~Known(c, obj)
  PROVE  LET d == Add(c, obj)
         IN /\ IsCache(d)
            /\ d.iteratorToObject = Append(c.iteratorToObject, obj)
            /\ d.tableCache = c.tableCache
            /\ d.endIteratorToTable = c.endIteratorToTable
            /\ DOMAIN d.objectToIterator
                 = DOMAIN c.objectToIterator \cup {obj}
            /\ d.objectToIterator[obj] = Len(c.iteratorToObject)
            /\ \A o \in DOMAIN d.objectToIterator \ {obj} :
                 d.objectToIterator[o] = c.objectToIterator[o]
<1> DEFINE n == Len(c.iteratorToObject)
           objects == Append(c.iteratorToObject, obj)
           map == MapSet(c.objectToIterator, obj, n)
           d == [tableCache         |-> c.tableCache,
                 endIteratorToTable |-> c.endIteratorToTable,
                 iteratorToObject   |-> objects,
                 objectToIterator   |-> map]
<1>1. Add(c, obj) = d
  <2>1. Add(c, obj) = [c EXCEPT !.iteratorToObject = objects,
                                !.objectToIterator = map]
    BY DEF Add
  <2> HIDE DEF objects, map
  <2> QED BY <2>1 DEF IsCache
<1>2. /\ objects \in Seq(Objects \cup {undefined})
      /\ Len(objects) = n + 1
      /\ n \in Nat
  BY DEF IsCache
<1>3. /\ DOMAIN map = DOMAIN c.objectToIterator \cup {obj}
      /\ map[obj] = n
      /\ \A o \in DOMAIN map \ {obj} : map[o] = c.objectToIterator[o]
  BY DEF MapSet
<1> HIDE DEF objects, map
<1>4. IsCache(d)
  BY <1>2, <1>3 DEF IsCache
<1> QED BY <1>1, <1>3, <1>4 DEF objects

-----------------------------------------------------------------------------
(* The cache and the store.                                                *)

All(c) == 0 .. Len(c.iteratorToObject) - 1

(* Where the row of an object is, or would be.                             *)
Place(s, o) == <<s.prefixOf[o.tableId], o.key>>

(* The end iterator of a table is the position of the table.               *)
EndsMatch(c) ==
  /\ IsFiniteSet(DOMAIN c.tableCache)
  /\ Len(c.endIteratorToTable) = Cardinality(DOMAIN c.tableCache)
  /\ \A t \in DOMAIN c.tableCache :
       \E k \in 1 .. Len(c.endIteratorToTable) :
         /\ c.tableCache[t] = -(k + 1)
         /\ c.endIteratorToTable[k] = t
  /\ \A k \in 1 .. Len(c.endIteratorToTable) :
       c.endIteratorToTable[k] \in DOMAIN c.tableCache

(* If a table is cached, so is the one that replaced it.                   *)
TablesKnown(s, c) ==
  \A t \in DOMAIN c.tableCache :
    /\ t < s.seq
    /\ s.tables[s.prefixOf[t]] # undefined
         => s.tables[s.prefixOf[t]] \in DOMAIN c.tableCache

(* The table of an object is cached, unless it was dropped.                *)
ObjectsKnown(s, c) ==
  \A i \in Live(c) :
    LET t == ObjectOf(c, i).tableId
    IN t < s.seq /\ (s.tables[s.prefixOf[t]] = t => t \in DOMAIN c.tableCache)

(* The iterator of an object still has it, unless the object is a row no   *)
(* more.                                                                   *)
MapCurrent(s, c) ==
  \A o \in DOMAIN c.objectToIterator :
    \/ ObjectOf(c, c.objectToIterator[o]) = o
    \/ \A r \in Prefixes \X Keys : s.rows[r] # o

(* Before the first removal, one of the iterators of each place has the    *)
(* row that is there.                                                      *)
RowsHeld(s, c) ==
  Live(c) = All(c)
    => \A i \in All(c) : \E j \in All(c) :
         /\ Place(s, ObjectOf(c, j)) = Place(s, ObjectOf(c, i))
         /\ s.rows[Place(s, ObjectOf(c, i))] = ObjectOf(c, j)

CacheInv(s, c) ==
  /\ IsCache(c)
  /\ EndsMatch(c)
  /\ TablesKnown(s, c)
  /\ ObjectsKnown(s, c)
  /\ MapCurrent(s, c)
  /\ RowsHeld(s, c)

IInv ==
  /\ Sane(store)
  /\ saved # undefined => Sane(saved)
  /\ receiver \in Contracts \cup {undefined}
  /\ receiver # undefined => saved # undefined
  /\ receiver = undefined => cache = EmptyCache
  /\ deletes \in [Ids -> Int]
  /\ CacheInv(store, cache)

(* Which iterators are live, and what they have.                           *)
LEMMA LiveObjects ==
  ASSUME NEW c, IsCache(c)
  PROVE  /\ Live(c) \subseteq All(c)
         /\ \A i \in Live(c) : ObjectOf(c, i) \in Objects
         /\ \A i \in All(c) : /\ i \in Live(c) <=> ObjectOf(c, i) # undefined
                              /\ ObjectOf(c, i) \in Objects \cup {undefined}
  BY DEF IsCache, Live, All, ObjectOf

(* The first iterators of a context.                                       *)
LEMMA EmptyCacheInv ==
  ASSUME NEW s
  PROVE  CacheInv(s, EmptyCache)
<1> DEFINE c == EmptyCache
<1>1. /\ DOMAIN c.tableCache = {}
      /\ c.endIteratorToTable = << >>
      /\ c.iteratorToObject = << >>
      /\ DOMAIN c.objectToIterator = {}
  BY DEF EmptyCache
<1>2. IsCache(c)
  BY <1>1 DEF IsCache, EmptyCache
<1>3. EndsMatch(c)
  BY <1>1, FS_EmptySet DEF EndsMatch
<1>4. All(c) = {} /\ Live(c) = {}
  BY <1>1 DEF All, Live
<1> HIDE DEF c
<1>5. CacheInv(s, c)
  BY <1>1, <1>2, <1>3, <1>4
     DEF CacheInv, TablesKnown, ObjectsKnown, MapCurrent, RowsHeld
<1> QED BY <1>5 DEF c

(* A table that is cached keeps end iterators and tables in bijection.     *)
LEMMA CacheTableEnds ==
  ASSUME NEW c, IsCache(c), EndsMatch(c), NEW t \in Ids,
         t \notin DOMAIN c.tableCache
  PROVE  EndsMatch(CacheTable(c, t))
<1> DEFINE d == CacheTable(c, t)
           n == Len(c.endIteratorToTable)
<1>1. /\ DOMAIN d.tableCache = DOMAIN c.tableCache \cup {t}
      /\ \A u \in DOMAIN c.tableCache : d.tableCache[u] = c.tableCache[u]
      /\ d.tableCache[t] = -(n + 2)
      /\ d.endIteratorToTable = Append(c.endIteratorToTable, t)
  BY CacheTableFields
<1>2. /\ n \in Nat
      /\ Len(d.endIteratorToTable) = n + 1
      /\ d.endIteratorToTable[n + 1] = t
      /\ \A k \in 1 .. n : d.endIteratorToTable[k] = c.endIteratorToTable[k]
  BY <1>1 DEF IsCache
<1>3. /\ IsFiniteSet(DOMAIN d.tableCache)
      /\ Cardinality(DOMAIN d.tableCache) = Cardinality(DOMAIN c.tableCache) + 1
  <2> HIDE DEF d
  <2>1. /\ IsFiniteSet(DOMAIN c.tableCache \cup {t})
        /\ Cardinality(DOMAIN c.tableCache \cup {t})
             = Cardinality(DOMAIN c.tableCache) + 1
    BY FS_AddElement DEF EndsMatch
  <2> QED BY <1>1, <2>1
<1> HIDE DEF d
<1>4. ASSUME NEW u \in DOMAIN d.tableCache
      PROVE  \E k \in 1 .. Len(d.endIteratorToTable) :
               /\ d.tableCache[u] = -(k + 1)
               /\ d.endIteratorToTable[k] = u
  <2>1. CASE u = t
    BY <1>1, <1>2, <2>1
  <2>2. CASE u # t
    <3>1. u \in DOMAIN c.tableCache
      BY <1>1, <2>2
    <3>2. PICK k \in 1 .. n : /\ c.tableCache[u] = -(k + 1)
                              /\ c.endIteratorToTable[k] = u
      BY <3>1 DEF EndsMatch
    <3> QED BY <1>1, <1>2, <3>1, <3>2
  <2> QED BY <2>1, <2>2
<1>5. ASSUME NEW k \in 1 .. Len(d.endIteratorToTable)
      PROVE  d.endIteratorToTable[k] \in DOMAIN d.tableCache
  <2>1. CASE k \in 1 .. n
    <3>1. c.endIteratorToTable[k] \in DOMAIN c.tableCache
      BY <2>1 DEF EndsMatch
    <3> QED BY <1>1, <1>2, <2>1, <3>1
  <2>2. CASE k = n + 1
    BY <1>1, <1>2, <2>2
  <2>3. k \in 1 .. n \/ k = n + 1
    BY <1>2
  <2> QED BY <2>1, <2>2, <2>3
<1>6. Len(d.endIteratorToTable) = Cardinality(DOMAIN d.tableCache)
  BY <1>2, <1>3 DEF EndsMatch
<1>7. EndsMatch(d)
  BY <1>3, <1>4, <1>5, <1>6 DEF EndsMatch
<1> QED BY <1>7 DEF d

(* findTable: the table that is registered for a prefix is cached.         *)
LEMMA CacheTableInv ==
  ASSUME NEW s, Sane(s), NEW c, CacheInv(s, c), NEW t \in Ids, t < s.seq,
         s.tables[s.prefixOf[t]] = t
  PROVE  /\ CacheInv(s, CacheTable(c, t))
         /\ t \in DOMAIN CacheTable(c, t).tableCache
<1> DEFINE d == CacheTable(c, t)
<1>1. CASE t \in DOMAIN c.tableCache
  BY <1>1 DEF CacheTable
<1>2. CASE t \notin DOMAIN c.tableCache
  <2>1. /\ IsCache(d)
        /\ DOMAIN d.tableCache = DOMAIN c.tableCache \cup {t}
        /\ d.iteratorToObject = c.iteratorToObject
        /\ d.objectToIterator = c.objectToIterator
    BY <1>2, CacheTableFields DEF CacheInv
  <2>2. EndsMatch(d)
    BY <1>2, CacheTableEnds DEF CacheInv
  <2> HIDE DEF d
  <2>3. All(d) = All(c) /\ Live(d) = Live(c)
    BY <2>1 DEF All, Live
  <2>4. \A i : ObjectOf(d, i) = ObjectOf(c, i)
    BY <2>1 DEF ObjectOf
  <2>5. TablesKnown(s, d)
    BY <2>1 DEF CacheInv, TablesKnown
  <2>6. ObjectsKnown(s, d)
    BY <2>1, <2>3, <2>4 DEF CacheInv, ObjectsKnown
  <2>7. MapCurrent(s, d) /\ RowsHeld(s, d)
    BY <2>1, <2>3, <2>4 DEF CacheInv, MapCurrent, RowsHeld
  <2> QED BY <2>1, <2>2, <2>5, <2>6, <2>7 DEF CacheInv, d
<1> QED BY <1>1, <1>2

(* findOrCreateTable and cacheTable of a new table, together.              *)
LEMMA NewTableInv ==
  ASSUME NEW s, Sane(s), NEW c, CacheInv(s, c), NEW p \in Prefixes,
         s.seq < MaxTables
  PROVE  /\ CacheInv(WithNewTable(s, p), CacheTable(c, s.seq))
         /\ s.seq \in DOMAIN CacheTable(c, s.seq).tableCache
<1> DEFINE w == WithNewTable(s, p)
           t == s.seq
           d == CacheTable(c, t)
<1>1. /\ t \in Ids
      /\ w.rows = s.rows
      /\ w.tables = [s.tables EXCEPT ![p] = t]
      /\ w.prefixOf = [s.prefixOf EXCEPT ![t] = p]
      /\ w.seq = t + 1
  BY NewTableFields DEF Sane
<1>2. /\ s.tables \in [Prefixes -> Ids \cup {undefined}]
      /\ s.prefixOf \in [Ids -> Prefixes \cup {undefined}]
      /\ t \in Int
  BY DEF Sane, Stores
<1>3. /\ DOMAIN c.tableCache \subseteq Ids
      /\ \A u \in DOMAIN c.tableCache : u < t
  BY DEF CacheInv, IsCache, TablesKnown
<1>4. t \notin DOMAIN c.tableCache
  BY <1>2, <1>3
<1>5. /\ IsCache(d)
      /\ DOMAIN d.tableCache = DOMAIN c.tableCache \cup {t}
      /\ d.iteratorToObject = c.iteratorToObject
      /\ d.objectToIterator = c.objectToIterator
  BY <1>1, <1>4, CacheTableFields DEF CacheInv
<1>6. EndsMatch(d)
  BY <1>1, <1>4, CacheTableEnds DEF CacheInv
<1> HIDE DEF d, w
<1>7. All(d) = All(c) /\ Live(d) = Live(c)
  BY <1>5 DEF All, Live
<1>8. \A i : ObjectOf(d, i) = ObjectOf(c, i)
  BY <1>5 DEF ObjectOf
<1>9. ASSUME NEW u \in Ids, u < t
      PROVE  /\ w.prefixOf[u] = s.prefixOf[u]
             /\ s.prefixOf[u] \in Prefixes
             /\ \/ w.tables[s.prefixOf[u]] = t
                \/ w.tables[s.prefixOf[u]] = s.tables[s.prefixOf[u]]
  <2>1. u # t /\ s.prefixOf[u] \in Prefixes
    BY <1>2, <1>9 DEF Sane
  <2> QED BY <1>1, <1>2, <2>1
<1>10. TablesKnown(w, d)
  <2> SUFFICES ASSUME NEW u \in DOMAIN d.tableCache
               PROVE  /\ u < w.seq
                      /\ w.tables[w.prefixOf[u]] # undefined
                           => w.tables[w.prefixOf[u]] \in DOMAIN d.tableCache
    BY DEF TablesKnown
  <2>1. CASE u = t
    BY <1>1, <1>2, <1>5, <2>1
  <2>2. CASE u # t
    <3>1. u \in DOMAIN c.tableCache /\ u \in Ids /\ u < t
      BY <1>3, <1>5, <2>2
    <3>2. u < w.seq
      BY <1>1, <1>2, <3>1 DEF Ids
    <3>3. s.tables[s.prefixOf[u]] # undefined
            => s.tables[s.prefixOf[u]] \in DOMAIN c.tableCache
      BY <3>1 DEF CacheInv, TablesKnown
    <3> QED BY <1>5, <1>9, <3>1, <3>2, <3>3
  <2> QED BY <2>1, <2>2
<1>11. ASSUME NEW i \in Live(c)
       PROVE  /\ ObjectOf(c, i).tableId \in Ids
              /\ ObjectOf(c, i).tableId < t
              /\ s.tables[s.prefixOf[ObjectOf(c, i).tableId]]
                   = ObjectOf(c, i).tableId
                   => ObjectOf(c, i).tableId \in DOMAIN c.tableCache
  <2>1. ObjectOf(c, i) \in Objects
    BY LiveObjects DEF CacheInv
  <2>2. ObjectOf(c, i).tableId \in Ids
    BY <2>1 DEF Objects
  <2> QED BY <2>2 DEF CacheInv, ObjectsKnown
<1>12. ObjectsKnown(w, d)
  <2> SUFFICES ASSUME NEW i \in Live(c), NEW u, u = ObjectOf(c, i).tableId
               PROVE  /\ u < w.seq
                      /\ w.tables[w.prefixOf[u]] = u
                           => u \in DOMAIN d.tableCache
    BY <1>7, <1>8 DEF ObjectsKnown
  <2>1. /\ u \in Ids
        /\ u < t
        /\ s.tables[s.prefixOf[u]] = u => u \in DOMAIN c.tableCache
    BY <1>11
  <2> QED BY <1>1, <1>2, <1>5, <1>9, <2>1 DEF Ids
<1>13. MapCurrent(w, d)
  BY <1>1, <1>5, <1>8 DEF CacheInv, MapCurrent
<1>14. RowsHeld(w, d)
  <2> SUFFICES ASSUME Live(c) = All(c), NEW i \in All(c)
               PROVE  \E j \in All(c) :
                        /\ Place(w, ObjectOf(c, j)) = Place(w, ObjectOf(c, i))
                        /\ w.rows[Place(w, ObjectOf(c, i))] = ObjectOf(c, j)
    BY <1>7, <1>8 DEF RowsHeld
  <2>1. PICK j \in All(c) :
          /\ Place(s, ObjectOf(c, j)) = Place(s, ObjectOf(c, i))
          /\ s.rows[Place(s, ObjectOf(c, i))] = ObjectOf(c, j)
    BY DEF CacheInv, RowsHeld
  <2>2. \A k \in All(c) : Place(w, ObjectOf(c, k)) = Place(s, ObjectOf(c, k))
    BY <1>9, <1>11 DEF Place
  <2> QED BY <1>1, <2>1, <2>2
<1>15. CacheInv(w, d)
  BY <1>5, <1>6, <1>10, <1>12, <1>13, <1>14 DEF CacheInv
<1> QED BY <1>5, <1>15 DEF w, d

(* What add changes of the live iterators.                                 *)
LEMMA AddLive ==
  ASSUME NEW c, IsCache(c), NEW obj \in Objects, ~Known(c, obj)
  PROVE  LET d == Add(c, obj)
             n == Len(c.iteratorToObject)
         IN /\ n \in Nat /\ n \notin All(c)
            /\ All(d) = All(c) \cup {n}
            /\ Live(d) = Live(c) \cup {n}
            /\ ObjectOf(d, n) = obj
            /\ \A i \in All(c) : ObjectOf(d, i) = ObjectOf(c, i)
<1> DEFINE d == Add(c, obj)
           n == Len(c.iteratorToObject)
<1>1. d.iteratorToObject = Append(c.iteratorToObject, obj)
  BY AddFields
<1>2. /\ n \in Nat
      /\ Len(d.iteratorToObject) = n + 1
      /\ d.iteratorToObject[n + 1] = obj
      /\ \A i \in 0 .. n - 1 :
           d.iteratorToObject[i + 1] = c.iteratorToObject[i + 1]
  BY <1>1 DEF IsCache
<1> HIDE DEF d
<1>3. All(d) = All(c) \cup {n} /\ n \notin All(c)
  BY <1>2 DEF All
<1>4. /\ ObjectOf(d, n) = obj
      /\ \A i \in All(c) : ObjectOf(d, i) = ObjectOf(c, i)
  BY <1>2 DEF ObjectOf, All
<1>5. obj # undefined
  BY UndefinedAssumption
<1>6. /\ \A i : i \in Live(d) <=> i \in All(d) /\ ObjectOf(d, i) # undefined
      /\ \A i : i \in Live(c) <=> i \in All(c) /\ ObjectOf(c, i) # undefined
  BY DEF Live, All, ObjectOf
<1>7. Live(d) = Live(c) \cup {n}
  BY <1>3, <1>4, <1>5, <1>6
<1> QED BY <1>2, <1>3, <1>4, <1>7 DEF d

(* An object that a lookup found, or that has just been stored, is given   *)
(* an iterator.                                                            *)
LEMMA AddInv ==
  ASSUME NEW s, Sane(s), NEW c, CacheInv(s, c),
         NEW obj \in Objects, ~Known(c, obj), obj.tableId < s.seq,
         s.tables[s.prefixOf[obj.tableId]] = obj.tableId
           => obj.tableId \in DOMAIN c.tableCache,
         NEW w, w.rows = [s.rows EXCEPT ![Place(s, obj)] = obj],
         w.tables = s.tables, w.prefixOf = s.prefixOf, w.seq = s.seq
  PROVE  CacheInv(w, Add(c, obj))
<1> DEFINE d == Add(c, obj)
           n == Len(c.iteratorToObject)
           r == Place(s, obj)
<1>1. /\ IsCache(d)
      /\ d.tableCache = c.tableCache
      /\ d.endIteratorToTable = c.endIteratorToTable
      /\ DOMAIN d.objectToIterator = DOMAIN c.objectToIterator \cup {obj}
      /\ d.objectToIterator[obj] = n
      /\ \A o \in DOMAIN d.objectToIterator \ {obj} :
           d.objectToIterator[o] = c.objectToIterator[o]
  BY AddFields DEF CacheInv
<1>2. /\ n \in Nat /\ n \notin All(c)
      /\ All(d) = All(c) \cup {n}
      /\ Live(d) = Live(c) \cup {n}
      /\ ObjectOf(d, n) = obj
      /\ \A i \in All(c) : ObjectOf(d, i) = ObjectOf(c, i)
  BY AddLive DEF CacheInv
<1>3. /\ Live(c) \subseteq All(c)
      /\ \A o \in DOMAIN c.objectToIterator : c.objectToIterator[o] \in All(c)
  BY DEF Live, All, CacheInv, IsCache
<1>4. /\ r \in Prefixes \X Keys
      /\ s.rows \in [Prefixes \X Keys -> Objects \cup {undefined}]
  BY DEF Place, Sane, Stores, Objects
<1>5. /\ w.rows[r] = obj
      /\ \A q \in Prefixes \X Keys : q # r => w.rows[q] = s.rows[q]
  BY <1>4
<1>6. \A o : Place(w, o) = Place(s, o)
  BY DEF Place
<1> HIDE DEF d, n, r
<1>7. EndsMatch(d)
  <2>1. /\ EndsMatch(c)
        /\ d.tableCache = c.tableCache
        /\ d.endIteratorToTable = c.endIteratorToTable
    BY <1>1 DEF CacheInv
  <2> QED BY ONLY <2>1 DEF EndsMatch
<1>8. TablesKnown(w, d)
  BY <1>1 DEF CacheInv, TablesKnown
<1>9. ObjectsKnown(w, d)
  <2> SUFFICES ASSUME NEW i \in Live(d), NEW t, t = ObjectOf(d, i).tableId
               PROVE  /\ t < s.seq
                      /\ s.tables[s.prefixOf[t]] = t
                           => t \in DOMAIN c.tableCache
    BY <1>1 DEF ObjectsKnown
  <2>1. CASE i = n
    BY <1>2, <2>1
  <2>2. CASE i \in Live(c)
    <3>1. t = ObjectOf(c, i).tableId
      BY <1>2, <1>3, <2>2
    <3> QED BY <2>2, <3>1 DEF CacheInv, ObjectsKnown
  <2> QED BY <1>2, <2>1, <2>2
<1>10. MapCurrent(w, d)
  <2> SUFFICES ASSUME NEW o \in DOMAIN d.objectToIterator
               PROVE  \/ ObjectOf(d, d.objectToIterator[o]) = o
                      \/ \A q \in Prefixes \X Keys : w.rows[q] # o
    BY DEF MapCurrent
  <2>1. CASE o = obj
    BY <1>1, <1>2, <2>1
  <2>2. CASE o # obj
    <3>1. /\ o \in DOMAIN c.objectToIterator
          /\ d.objectToIterator[o] = c.objectToIterator[o]
      BY <1>1, <2>2
    <3>2. ObjectOf(d, d.objectToIterator[o])
            = ObjectOf(c, c.objectToIterator[o])
      BY <1>2, <1>3, <3>1
    <3>3. \/ ObjectOf(c, c.objectToIterator[o]) = o
          \/ \A q \in Prefixes \X Keys : s.rows[q] # o
      BY <3>1 DEF CacheInv, MapCurrent
    <3> QED BY <1>5, <2>2, <3>2, <3>3
  <2> QED BY <2>1, <2>2
<1>11. RowsHeld(w, d)
  <2> SUFFICES ASSUME Live(d) = All(d), NEW i \in All(d)
               PROVE  \E j \in All(d) :
                        /\ Place(s, ObjectOf(d, j)) = Place(s, ObjectOf(d, i))
                        /\ w.rows[Place(s, ObjectOf(d, i))] = ObjectOf(d, j)
    BY <1>6 DEF RowsHeld
  <2>1. Live(c) = All(c)
    BY <1>2, <1>3
  <2>2. CASE Place(s, ObjectOf(d, i)) = r
    BY <1>2, <1>5, <2>2 DEF r
  <2>3. CASE Place(s, ObjectOf(d, i)) # r
    <3>1. i \in All(c) /\ ObjectOf(d, i) = ObjectOf(c, i)
      BY <1>2, <2>3 DEF r
    <3>2. PICK j \in All(c) :
            /\ Place(s, ObjectOf(c, j)) = Place(s, ObjectOf(c, i))
            /\ s.rows[Place(s, ObjectOf(c, i))] = ObjectOf(c, j)
      BY <2>1, <3>1 DEF CacheInv, RowsHeld
    <3>3. ObjectOf(c, i) \in Objects
      BY <2>1, <3>1, LiveObjects DEF CacheInv
    <3>4. /\ ObjectOf(c, i).tableId \in Ids
          /\ ObjectOf(c, i).tableId < s.seq
          /\ ObjectOf(c, i).key \in Keys
      BY <2>1, <3>1, <3>3 DEF Objects, CacheInv, ObjectsKnown
    <3>5. Place(s, ObjectOf(c, i)) \in Prefixes \X Keys
      BY <3>4 DEF Sane, Place
    <3> QED BY <1>2, <1>5, <2>3, <3>1, <3>2, <3>5
  <2> QED BY <2>2, <2>3
<1>12. CacheInv(w, d)
  BY <1>1, <1>7, <1>8, <1>9, <1>10, <1>11 DEF CacheInv
<1> QED BY <1>12 DEF d

(* kvCache.add of what a lookup found.                                     *)
LEMMA ReachInv ==
  ASSUME NEW s, Sane(s), NEW c, CacheInv(s, c), NEW r \in Prefixes \X Keys,
         s.rows[r] # undefined,
         s.tables[r[1]] = s.rows[r].tableId
           => s.rows[r].tableId \in DOMAIN c.tableCache
  PROVE  CacheInv(s, Add(c, s.rows[r]))
<1> DEFINE obj == s.rows[r]
<1>1. CASE Known(c, obj)
  BY <1>1 DEF Add
<1>2. CASE ~Known(c, obj)
  <2>1. s.rows \in [Prefixes \X Keys -> Objects \cup {undefined}]
    BY DEF Sane, Stores
  <2>2. obj \in Objects /\ obj.tableId < s.seq /\ r = Place(s, obj)
    BY <2>1 DEF Sane, Place
  <2>3. r[1] = s.prefixOf[obj.tableId]
    BY <2>2 DEF Place
  <2>4. s.rows = [s.rows EXCEPT ![Place(s, obj)] = obj]
    BY <2>1, <2>2
  <2> HIDE DEF obj
  <2>5. CacheInv(s, Add(c, obj))
    BY <1>2, <2>2, <2>3, <2>4, AddInv DEF obj
  <2> QED BY <2>5 DEF obj
<1> QED BY <1>1, <1>2

(* db_update_i64: another object takes the iterator, and the row.          *)
LEMMA SetObjectInv ==
  ASSUME NEW s, Sane(s), NEW c, CacheInv(s, c), NEW i \in Live(c),
         NEW obj \in Objects, obj \notin DOMAIN c.objectToIterator,
         obj.tableId = ObjectOf(c, i).tableId, obj.key = ObjectOf(c, i).key,
         NEW w, w.rows = [s.rows EXCEPT ![Place(s, obj)] = obj],
         w.tables = s.tables, w.prefixOf = s.prefixOf, w.seq = s.seq
  PROVE  CacheInv(w, SetObject(c, i, obj))
<1> DEFINE d == SetObject(c, i, obj)
           r == Place(s, obj)
<1>1. /\ Live(c) \subseteq All(c)
      /\ ObjectOf(c, i) \in Objects
      /\ \A o \in DOMAIN c.objectToIterator : c.objectToIterator[o] \in All(c)
  BY LiveObjects DEF All, CacheInv, IsCache
<1>2. /\ IsCache(d)
      /\ d.iteratorToObject = [c.iteratorToObject EXCEPT ![i + 1] = obj]
      /\ Len(d.iteratorToObject) = Len(c.iteratorToObject)
      /\ d.tableCache = c.tableCache
      /\ d.endIteratorToTable = c.endIteratorToTable
      /\ d.objectToIterator = c.objectToIterator
  BY <1>1, SetObjectFields DEF CacheInv, All
<1>3. obj.tableId < s.seq /\ obj.tableId \in Ids /\ obj.key \in Keys
  BY DEF CacheInv, ObjectsKnown, Objects
<1>4. /\ r \in Prefixes \X Keys
      /\ s.rows \in [Prefixes \X Keys -> Objects \cup {undefined}]
      /\ r = Place(s, ObjectOf(c, i))
  BY <1>3 DEF Place, Sane, Stores
<1>5. /\ w.rows[r] = obj
      /\ \A q \in Prefixes \X Keys : q # r => w.rows[q] = s.rows[q]
  BY <1>4
<1>6. \A o : Place(w, o) = Place(s, o)
  BY DEF Place
<1> HIDE DEF d
<1>7. /\ All(d) = All(c)
      /\ ObjectOf(d, i) = obj
      /\ \A k \in All(c) : k # i => ObjectOf(d, k) = ObjectOf(c, k)
  BY <1>1, <1>2 DEF All, ObjectOf, CacheInv, IsCache
<1>8. Live(d) = Live(c)
  <2>1. \A k : k \in Live(d) <=> k \in All(d) /\ ObjectOf(d, k) # undefined
    BY DEF Live, All, ObjectOf
  <2>2. \A k : k \in Live(c) <=> k \in All(c) /\ ObjectOf(c, k) # undefined
    BY DEF Live, All, ObjectOf
  <2> QED BY <1>7, <2>1, <2>2, UndefinedAssumption
<1> HIDE DEF r
<1>9. EndsMatch(d) /\ TablesKnown(w, d)
  BY <1>2 DEF CacheInv, EndsMatch, TablesKnown
<1>10. ObjectsKnown(w, d)
  <2> SUFFICES ASSUME NEW k \in Live(c)
               PROVE  ObjectOf(d, k).tableId = ObjectOf(c, k).tableId
    BY <1>2, <1>8 DEF CacheInv, ObjectsKnown
  <2> QED BY <1>1, <1>7
<1>11. MapCurrent(w, d)
  <2> SUFFICES ASSUME NEW o \in DOMAIN c.objectToIterator,
                      NEW q \in Prefixes \X Keys, w.rows[q] = o
               PROVE  ObjectOf(d, c.objectToIterator[o]) = o
    BY <1>2 DEF MapCurrent
  <2>1. q # r /\ s.rows[q] = o
    BY <1>5
  <2>2. ObjectOf(c, c.objectToIterator[o]) = o
    BY <2>1 DEF CacheInv, MapCurrent
  <2>3. o # undefined
    BY UndefinedAssumption DEF CacheInv, IsCache
  <2>4. q = Place(s, o)
    BY <2>1, <2>3 DEF Sane, Place
  <2>5. c.objectToIterator[o] # i
    BY <1>4, <2>1, <2>2, <2>4
  <2> QED BY <1>1, <1>7, <2>2, <2>5
<1>12. RowsHeld(w, d)
  <2> SUFFICES ASSUME Live(c) = All(c), NEW k \in All(c)
               PROVE  \E j \in All(c) :
                        /\ Place(s, ObjectOf(d, j)) = Place(s, ObjectOf(d, k))
                        /\ w.rows[Place(s, ObjectOf(d, k))] = ObjectOf(d, j)
    BY <1>6, <1>7, <1>8 DEF RowsHeld
  <2>1. CASE Place(s, ObjectOf(d, k)) = r
    BY <1>1, <1>5, <1>7, <2>1 DEF r
  <2>2. CASE Place(s, ObjectOf(d, k)) # r
    <3>1. k # i /\ ObjectOf(d, k) = ObjectOf(c, k)
      BY <1>7, <2>2 DEF r
    <3>2. PICK j \in All(c) :
            /\ Place(s, ObjectOf(c, j)) = Place(s, ObjectOf(c, k))
            /\ s.rows[Place(s, ObjectOf(c, k))] = ObjectOf(c, j)
      BY DEF CacheInv, RowsHeld
    <3>3. j # i /\ ObjectOf(d, j) = ObjectOf(c, j)
      BY <1>4, <1>7, <2>2, <3>1, <3>2
    <3>4. ObjectOf(c, k) \in Objects
      BY LiveObjects DEF CacheInv
    <3>5. /\ ObjectOf(c, k).tableId \in Ids
          /\ ObjectOf(c, k).tableId < s.seq
          /\ ObjectOf(c, k).key \in Keys
      BY <3>4 DEF Objects, CacheInv, ObjectsKnown
    <3>6. Place(s, ObjectOf(c, k)) \in Prefixes \X Keys
      BY <3>5 DEF Sane, Place
    <3> QED BY <1>5, <2>2, <3>1, <3>2, <3>3, <3>6
  <2> QED BY <2>1, <2>2
<1>13. CacheInv(w, d)
  BY <1>2, <1>9, <1>10, <1>11, <1>12 DEF CacheInv
<1> QED BY <1>13 DEF d

(* db_remove_i64: an iterator goes, with a row and perhaps its table.      *)
LEMMA RemoveInv ==
  ASSUME NEW s, Sane(s), NEW c, CacheInv(s, c), NEW i \in Live(c),
         NEW w, w.prefixOf = s.prefixOf, w.seq = s.seq,
         \A q \in Prefixes \X Keys : w.rows[q] \in {s.rows[q], undefined},
         \A p \in Prefixes : w.tables[p] \in {s.tables[p], undefined}
  PROVE  CacheInv(w, Remove(c, i))
<1> DEFINE d == Remove(c, i)
<1>1. /\ Live(c) \subseteq All(c)
      /\ \A k \in Live(c) : ObjectOf(c, k) \in Objects
      /\ \A o \in DOMAIN c.objectToIterator : c.objectToIterator[o] \in All(c)
  BY LiveObjects DEF All, CacheInv, IsCache
<1>2. /\ IsCache(d)
      /\ d.iteratorToObject = [c.iteratorToObject EXCEPT ![i + 1] = undefined]
      /\ Len(d.iteratorToObject) = Len(c.iteratorToObject)
      /\ d.tableCache = c.tableCache
      /\ d.endIteratorToTable = c.endIteratorToTable
      /\ DOMAIN d.objectToIterator
           = DOMAIN c.objectToIterator \ {ObjectOf(c, i)}
      /\ \A o \in DOMAIN d.objectToIterator :
           d.objectToIterator[o] = c.objectToIterator[o]
  BY <1>1, RemoveFields DEF CacheInv, All
<1> HIDE DEF d
<1>3. /\ All(d) = All(c)
      /\ ObjectOf(d, i) = undefined
      /\ \A k \in All(c) : k # i => ObjectOf(d, k) = ObjectOf(c, k)
  BY <1>1, <1>2 DEF All, ObjectOf, CacheInv, IsCache
<1>4. i \in All(c) /\ Live(d) = Live(c) \ {i}
  <2>1. \A k : k \in Live(d) <=> k \in All(d) /\ ObjectOf(d, k) # undefined
    BY DEF Live, All, ObjectOf
  <2>2. \A k : k \in Live(c) <=> k \in All(c) /\ ObjectOf(c, k) # undefined
    BY DEF Live, All, ObjectOf
  <2> QED BY <1>1, <1>3, <2>1, <2>2
<1>5. EndsMatch(d)
  BY <1>2 DEF CacheInv, EndsMatch
<1>6. ASSUME NEW t \in Ids, t < s.seq
      PROVE  w.tables[s.prefixOf[t]] \in {s.tables[s.prefixOf[t]], undefined}
  BY <1>6 DEF Sane
<1>7. TablesKnown(w, d)
  <2> SUFFICES ASSUME NEW t \in DOMAIN c.tableCache
               PROVE  /\ t < s.seq
                      /\ w.tables[s.prefixOf[t]] # undefined
                           => w.tables[s.prefixOf[t]] \in DOMAIN c.tableCache
    BY <1>2 DEF TablesKnown
  <2> QED BY <1>6 DEF CacheInv, IsCache, TablesKnown
<1>8. ObjectsKnown(w, d)
  <2> SUFFICES ASSUME NEW k \in Live(d), NEW t, t = ObjectOf(d, k).tableId
               PROVE  /\ t < s.seq
                      /\ w.tables[s.prefixOf[t]] = t
                           => t \in DOMAIN c.tableCache
    BY <1>2 DEF ObjectsKnown
  <2>1. k \in Live(c) /\ t = ObjectOf(c, k).tableId
    BY <1>1, <1>3, <1>4
  <2>2. t \in Ids
    BY <1>1, <2>1 DEF Objects
  <2>3. t < s.seq /\ (s.tables[s.prefixOf[t]] = t => t \in DOMAIN c.tableCache)
    BY <2>1 DEF CacheInv, ObjectsKnown
  <2> QED BY <1>6, <2>2, <2>3, UndefinedAssumption
<1>9. MapCurrent(w, d)
  <2> SUFFICES ASSUME NEW o \in DOMAIN d.objectToIterator,
                      NEW q \in Prefixes \X Keys, w.rows[q] = o
               PROVE  ObjectOf(d, d.objectToIterator[o]) = o
    BY DEF MapCurrent
  <2>1. o \in DOMAIN c.objectToIterator /\ o # ObjectOf(c, i)
    BY <1>2
  <2>2. o # undefined
    BY <2>1, UndefinedAssumption DEF CacheInv, IsCache
  <2>3. ObjectOf(c, c.objectToIterator[o]) = o
    BY <2>1, <2>2 DEF CacheInv, MapCurrent
  <2> QED BY <1>1, <1>2, <1>3, <2>1, <2>3
<1>10. RowsHeld(w, d)
  BY <1>3, <1>4 DEF RowsHeld
<1>11. CacheInv(w, d)
  BY <1>2, <1>5, <1>7, <1>8, <1>9, <1>10 DEF CacheInv
<1> QED BY <1>11 DEF d
-----------------------------------------------------------------------------
(* Host functions.                                                         *)

(* A new KeyValueObject is none that the cache knows.                      *)
LEMMA FreshObject ==
  ASSUME FreeOids # {}, NEW t \in Ids, NEW k \in Keys
  PROVE  LET obj == [oid |-> Min(FreeOids), tableId |-> t, key |-> k]
         IN obj \in Objects /\ obj \notin DOMAIN cache.objectToIterator
<1> DEFINE obj == [oid |-> Min(FreeOids), tableId |-> t, key |-> k]
<1>1. FreeOids \in SUBSET Nat /\ FreeOids \subseteq 0 .. MaxObjects - 1
  BY BoundsAssumption DEF FreeOids
<1>2. Min(FreeOids) \in FreeOids
  BY <1>1, MinIsElement
<1>3. obj \in Objects
  BY <1>1, <1>2 DEF Objects
<1>4. \A o \in InUse \ {undefined} : o.oid # obj.oid
  BY <1>2 DEF FreeOids
<1> HIDE DEF obj
<1>5. obj \notin InUse
  BY <1>3, <1>4, UndefinedAssumption
<1> QED BY <1>3, <1>5 DEF InUse, obj

(* The row that db_store_i64 makes.                                        *)
LEMMA StoredInv ==
  ASSUME NEW s, Sane(s), NEW c, CacheInv(s, c), NEW obj \in Objects,
         obj.tableId < s.seq, obj.tableId \in DOMAIN c.tableCache,
         obj \notin DOMAIN c.objectToIterator
  PROVE  /\ Sane(Written(s, obj.tableId, obj))
         /\ CacheInv(Written(s, obj.tableId, obj), Add(c, obj))
<1> DEFINE w == Written(s, obj.tableId, obj)
<1>1. Sane(w)
  BY WrittenSane
<1>2. /\ obj.tableId \in Ids
      /\ s \in Stores
      /\ s.prefixOf[obj.tableId] \in Prefixes
  BY DEF Objects, Sane
<1>3. /\ w.rows = [s.rows EXCEPT ![Place(s, obj)] = obj]
      /\ w.tables = s.tables
      /\ w.prefixOf = s.prefixOf
      /\ w.seq = s.seq
  BY <1>2, WrittenFields DEF Place
<1>4. ~Known(c, obj)
  BY DEF Known
<1> HIDE DEF w
<1>5. CacheInv(w, Add(c, obj))
  BY <1>3, <1>4, AddInv
<1> QED BY <1>1, <1>5 DEF w

(* The same for the row that db_update_i64 makes.                          *)
LEMMA UpdatedInv ==
  ASSUME NEW s, Sane(s), NEW c, CacheInv(s, c), NEW i \in Live(c),
         NEW obj \in Objects, obj \notin DOMAIN c.objectToIterator,
         obj.tableId = ObjectOf(c, i).tableId, obj.key = ObjectOf(c, i).key
  PROVE  /\ Sane(Written(s, obj.tableId, obj))
         /\ CacheInv(Written(s, obj.tableId, obj), SetObject(c, i, obj))
<1> DEFINE w == Written(s, obj.tableId, obj)
<1>1. obj.tableId < s.seq
  BY DEF CacheInv, ObjectsKnown
<1>2. Sane(w)
  BY <1>1, WrittenSane
<1>3. /\ obj.tableId \in Ids
      /\ s \in Stores
      /\ s.prefixOf[obj.tableId] \in Prefixes
  BY <1>1 DEF Objects, Sane
<1>4. /\ w.rows = [s.rows EXCEPT ![Place(s, obj)] = obj]
      /\ w.tables = s.tables
      /\ w.prefixOf = s.prefixOf
      /\ w.seq = s.seq
  BY <1>3, WrittenFields DEF Place
<1> HIDE DEF w
<1>5. CacheInv(w, SetObject(c, i, obj))
  BY <1>4, SetObjectInv
<1> QED BY <1>2, <1>5 DEF w

(* What a search in a table may find: nothing, or a row of its prefix.     *)
FoundIn(p, obj) ==
  \/ obj = undefined
  \/ \E k \in Keys : obj = store.rows[<<p, k>>] /\ obj # undefined

(* Table.lowerbound and upperbound, next and previous find rows.           *)
LEMMA SearchFinds ==
  ASSUME NEW p, NEW ks \in SUBSET Keys
  PROVE  FoundIn(p, First(p, ks)) /\ FoundIn(p, Last(p, ks))
<1> DEFINE occupied == Occupied(p, ks)
<1>1. /\ occupied \in SUBSET Nat
      /\ occupied \in SUBSET (0 .. MaxKey)
      /\ occupied \subseteq Keys
      /\ \A k \in occupied : store.rows[<<p, k>>] # undefined
  <2>1. occupied \subseteq ks /\ ks \subseteq Keys
    BY DEF Occupied
  <2>2. Keys = 0 .. MaxKey /\ Keys \subseteq Nat
    BY DEF Keys
  <2>3. \A k \in occupied : store.rows[<<p, k>>] # undefined
    BY DEF Occupied
  <2> HIDE DEF occupied
  <2> QED BY <2>1, <2>2, <2>3
<1>2. CASE occupied = {}
  BY <1>2 DEF First, Last, FoundIn
<1>3. CASE occupied # {}
  <2> HIDE DEF occupied
  <2>1. Min(occupied) \in occupied
    BY <1>1, <1>3, MinIsElement
  <2>2. Max(occupied) \in occupied
    BY <1>1, <1>3, MaxIsElement, BoundsAssumption
  <2>3. /\ First(p, ks) = store.rows[<<p, Min(occupied)>>]
        /\ Last(p, ks) = store.rows[<<p, Max(occupied)>>]
    BY <1>3 DEF First, Last, occupied
  <2> QED BY <1>1, <2>1, <2>2, <2>3 DEF FoundIn
<1> QED BY <1>2, <1>3

(* What a search in a cached table finds is given an iterator.             *)
LEMMA FoundInv ==
  ASSUME Sane(store), NEW c, CacheInv(store, c), NEW p \in Prefixes,
         store.tables[p] # undefined => store.tables[p] \in DOMAIN c.tableCache,
         NEW obj, FoundIn(p, obj)
  PROVE  CacheInv(store, Reach(c, obj))
<1>1. CASE obj = undefined
  BY <1>1 DEF Reach
<1>2. CASE obj # undefined
  <2>1. PICK k \in Keys : obj = store.rows[<<p, k>>]
    BY <1>2 DEF FoundIn
  <2>2. store.rows \in [Prefixes \X Keys -> Objects \cup {undefined}]
    BY DEF Sane, Stores
  <2>3. obj.tableId \in Ids
    BY <1>2, <2>1, <2>2 DEF Objects
  <2>4. obj.tableId # undefined
    BY <2>3, UndefinedAssumption
  <2>5. <<p, k>> \in Prefixes \X Keys /\ <<p, k>>[1] = p
    OBVIOUS
  <2>6. CacheInv(store, Add(c, store.rows[<<p, k>>]))
    BY <1>2, <2>1, <2>4, <2>5, ReachInv
  <2> QED BY <1>2, <2>1, <2>6 DEF Reach
<1> QED BY <1>1, <1>2
-----------------------------------------------------------------------------
(* The invariant.                                                          *)

(* The empty store, and no transaction.                                    *)
LEMMA InitIInv == Init => IInv
<1> SUFFICES ASSUME Init PROVE IInv
  OBVIOUS
<1>1. store \in Stores
  BY BoundsAssumption DEF Init, Stores
<1>2. Sane(store)
  BY <1>1 DEF Init, Sane, Ids
<1>3. CacheInv(store, cache)
  BY EmptyCacheInv DEF Init
<1> QED BY <1>2, <1>3 DEF Init, IInv

(* A step of the contract that runs.                                       *)
LEMMA RunningIInv ==
  ASSUME IInv, Running, UNCHANGED <<saved, receiver, deletes>>,
         Sane(store'), CacheInv(store', cache')
  PROVE  IInv'
  BY DEF IInv, Running

(* A revert gives back a sane store, and the cache is gone.                *)
LEMMA RollbackIInv ==
  ASSUME IInv, saved # undefined, NEW deleted \in [Ids -> Int],
         Rollback(deleted)
  PROVE  IInv'
<1> DEFINE size == [t \in Ids |-> saved.size[t] - deleted[t]]
<1>1. Sane(saved)
  BY DEF IInv
<1>2. saved.size \in [Ids -> Int]
  BY <1>1 DEF Sane, Stores
<1>3. size \in [Ids -> Int]
  BY <1>2
<1>4. store' = [saved EXCEPT !.size = size]
  BY DEF Rollback
<1> HIDE DEF size
<1>5. Sane(store')
  BY <1>1, <1>3, <1>4, RolledBackSane
<1>6. CacheInv(store', cache')
  BY EmptyCacheInv DEF Rollback
<1>7. deletes' \in [Ids -> Int]
  BY DEF Rollback
<1> QED BY <1>5, <1>6, <1>7 DEF Rollback, IInv

(* Transactions and contexts.                                              *)
LEMMA ContextIInv ==
  ASSUME IInv,
         \/ Begin \/ Return \/ Commit \/ Abort
         \/ \E c \in Contracts : Apply(c)
  PROVE  IInv'
<1>1. CASE Begin
  <2>1. saved # undefined => Sane(saved)
    BY DEF IInv
  <2>2. saved' # undefined => Sane(saved')
    BY <1>1 DEF Begin, IInv
  <2>3. deletes' \in [Ids -> Int]
    BY <1>1 DEF Begin
  <2>4. receiver' # undefined => saved' # undefined
    BY <1>1 DEF Begin, IInv
  <2> QED BY <1>1, <2>2, <2>3, <2>4 DEF Begin, IInv
<1>2. CASE Return
  <2>1. CacheInv(store', cache')
    BY <1>2, EmptyCacheInv DEF Return
  <2> QED BY <1>2, <2>1 DEF Return, IInv
<1>3. CASE Commit
  BY <1>3 DEF Commit, IInv
<1>4. CASE Abort
  BY <1>4, RollbackIInv DEF Abort, IInv
<1>5. ASSUME NEW c \in Contracts, Apply(c)
      PROVE  IInv'
  BY <1>5 DEF Apply, IInv
<1> QED BY <1>1, <1>2, <1>3, <1>4, <1>5

(* db_store_i64, in a table that exists or in a new one.                   *)
LEMMA DbStoreIInv ==
  ASSUME IInv, NEW p \in Prefixes, NEW k \in Keys, DbStore(p, k)
  PROVE  IInv'
<1> DEFINE new == store.tables[p] = undefined
           s == IF new THEN WithNewTable(store, p) ELSE store
           t == s.tables[p]
           c == CacheTable(cache, t)
           obj == [oid |-> Min(FreeOids), tableId |-> t, key |-> k]
<1>1. Sane(store) /\ CacheInv(store, cache)
  BY DEF IInv
<1>2. /\ Running
      /\ FreeOids # {}
      /\ new => store.seq < MaxTables
      /\ store' = Written(s, t, obj)
      /\ cache' = Add(c, obj)
      /\ UNCHANGED <<saved, receiver, deletes>>
  BY DEF DbStore, Cached
<1>3. /\ Sane(s)
      /\ CacheInv(s, c)
      /\ t \in Ids
      /\ t < s.seq
      /\ t \in DOMAIN c.tableCache
  <2>1. CASE new
    <3>1. /\ store.seq \in Ids
          /\ s.tables = [store.tables EXCEPT ![p] = store.seq]
          /\ s.seq = store.seq + 1
      BY <1>1, <1>2, <2>1, NewTableFields DEF Sane
    <3>2. store.tables \in [Prefixes -> Ids \cup {undefined}]
          /\ store.seq \in Int
      BY <1>1 DEF Sane, Stores
    <3>3. t = store.seq
      BY <3>1, <3>2
    <3>4. s = WithNewTable(store, p)
      BY <2>1
    <3>5. Sane(WithNewTable(store, p))
      BY <1>1, <1>2, <2>1, NewTableSane
    <3>6. /\ CacheInv(WithNewTable(store, p), CacheTable(cache, store.seq))
          /\ store.seq \in DOMAIN CacheTable(cache, store.seq).tableCache
      BY <1>1, <1>2, <2>1, NewTableInv
    <3>7. t < s.seq
      BY <3>1, <3>2, <3>3
    <3> HIDE DEF s
    <3> QED BY <3>1, <3>3, <3>4, <3>5, <3>6, <3>7
  <2>2. CASE ~new
    <3>1. s = store
      BY <2>2
    <3>2. t \in Ids
      BY <1>1, <2>2 DEF Sane, Stores
    <3>3. t < store.seq /\ store.prefixOf[t] = p
      BY <1>1, <2>2 DEF Sane
    <3>4. store.tables[store.prefixOf[t]] = t
      BY <3>1, <3>3
    <3> HIDE DEF s
    <3> QED BY <1>1, <3>1, <3>2, <3>3, <3>4, CacheTableInv
  <2> QED BY <2>1, <2>2
<1>4. obj \in Objects /\ obj \notin DOMAIN cache.objectToIterator
  BY <1>2, <1>3, FreshObject
<1>5. c.objectToIterator = cache.objectToIterator
  <2>1. CASE t \in DOMAIN cache.tableCache
    BY <2>1 DEF CacheTable
  <2>2. CASE t \notin DOMAIN cache.tableCache
    BY <1>1, <1>3, <2>2, CacheTableFields DEF CacheInv
  <2> QED BY <2>1, <2>2
<1>6. obj.tableId = t
  OBVIOUS
<1> HIDE DEF s, t, c, obj
<1>7. /\ Sane(Written(s, obj.tableId, obj))
      /\ CacheInv(Written(s, obj.tableId, obj), Add(c, obj))
  BY <1>3, <1>4, <1>5, <1>6, StoredInv
<1>8. Sane(store') /\ CacheInv(store', cache')
  BY <1>2, <1>6, <1>7
<1> QED BY <1>2, <1>8, RunningIInv

(* db_update_i64                                                           *)
LEMMA DbUpdateIInv ==
  ASSUME IInv, NEW it, DbUpdate(it)
  PROVE  IInv'
<1> DEFINE old == ObjectOf(cache, it)
           obj == [oid     |-> Min(FreeOids),
                   tableId |-> old.tableId,
                   key     |-> old.key]
<1>1. Sane(store) /\ CacheInv(store, cache)
  BY DEF IInv
<1>2. Running /\ it \in Live(cache) /\ FreeOids # {}
  BY DEF DbUpdate, Writable
<1>3. old \in Objects
  BY <1>1, <1>2, LiveObjects DEF CacheInv
<1>4. [old EXCEPT !.oid = Min(FreeOids)] = obj
  BY <1>3 DEF Objects
<1>5. /\ store' = Written(store, obj.tableId, obj)
      /\ cache' = SetObject(cache, it, obj)
      /\ UNCHANGED <<saved, receiver, deletes>>
  BY <1>4 DEF DbUpdate
<1>6. obj \in Objects /\ obj \notin DOMAIN cache.objectToIterator
  BY <1>2, <1>3, FreshObject DEF Objects
<1>7. obj.tableId = old.tableId /\ obj.key = old.key
  OBVIOUS
<1> HIDE DEF obj
<1>8. Sane(store') /\ CacheInv(store', cache')
  BY <1>1, <1>2, <1>5, <1>6, <1>7, UpdatedInv
<1> QED BY <1>2, <1>5, <1>8, RunningIInv

(* db_remove_i64, which may throw after it has counted.                    *)
LEMMA DbRemoveIInv ==
  ASSUME IInv, NEW it, DbRemove(it)
  PROVE  IInv'
<1> DEFINE obj == ObjectOf(cache, it)
           t == obj.tableId
           p == store.prefixOf[t]
           r == <<p, obj.key>>
           emptied == store.size[t] = 1
           table == IF emptied THEN undefined ELSE store.tables[p]
           deleted == IF t < saved.seq THEN [deletes EXCEPT ![t] = @ + 1]
                      ELSE deletes
           w == [store EXCEPT !.rows[r] = undefined, !.size[t] = @ - 1,
                              !.tables[p] = table]
<1>1. Sane(store) /\ CacheInv(store, cache)
  BY DEF IInv
<1>2. Running /\ it \in Live(cache)
  BY DEF DbRemove, Writable
<1>3. obj \in Objects
  BY <1>1, <1>2, LiveObjects DEF CacheInv
<1>4. t \in Ids /\ t < store.seq /\ obj.key \in Keys
  BY <1>1, <1>2, <1>3 DEF Objects, CacheInv, ObjectsKnown
<1>5. p \in Prefixes /\ r \in Prefixes \X Keys
  BY <1>1, <1>4 DEF Sane
<1>6. deleted \in [Ids -> Int]
  BY <1>4 DEF IInv
<1>7. saved # undefined
  BY <1>2 DEF Running, IInv
<1>8. \/ /\ store' = w
         /\ cache' = Remove(cache, it)
         /\ deletes' = deleted
         /\ UNCHANGED <<saved, receiver>>
      \/ Rollback(deleted)
  BY DEF DbRemove
<1>9. CASE Rollback(deleted)
  <2> HIDE DEF deleted
  <2> QED BY <1>6, <1>7, <1>9, RollbackIInv
<1>10. CASE /\ store' = w
            /\ cache' = Remove(cache, it)
            /\ deletes' = deleted
            /\ UNCHANGED <<saved, receiver>>
  <2>1. table = store.tables[p] \/ table = undefined
    OBVIOUS
  <2>2. store' = Deleted(store, r, t, p, table)
    BY <1>10 DEF Deleted
  <2> HIDE DEF obj, t, p, r, emptied, table, deleted, w
  <2>3. /\ Sane(store')
        /\ store'.rows = [store.rows EXCEPT ![r] = undefined]
        /\ store'.tables = [store.tables EXCEPT ![p] = table]
        /\ store'.prefixOf = store.prefixOf
        /\ store'.seq = store.seq
    BY <1>1, <1>4, <1>5, <2>1, <2>2, DeletedSane
  <2>4. \A q \in Prefixes \X Keys :
          store'.rows[q] \in {store.rows[q], undefined}
    BY <1>1, <2>3 DEF Sane, Stores
  <2>5. \A q \in Prefixes : store'.tables[q] \in {store.tables[q], undefined}
    BY <1>1, <2>1, <2>3 DEF Sane, Stores
  <2>6. CacheInv(store', Remove(cache, it))
    BY <1>1, <1>2, <2>3, <2>4, <2>5, RemoveInv
  <2>7. CacheInv(store', cache') /\ deletes' \in [Ids -> Int]
    BY <1>6, <1>10, <2>6
  <2> QED BY <1>2, <1>10, <2>3, <2>7 DEF IInv, Running
<1> QED BY <1>8, <1>9, <1>10
(* A lookup in a table that is registered.                                 *)
LEMMA LookupIInv ==
  ASSUME IInv, NEW p \in Prefixes, NEW obj, FoundIn(p, obj), Lookup(p, obj)
  PROVE  IInv'
<1> DEFINE t == store.tables[p]
           c == CacheTable(cache, t)
<1>1. Sane(store) /\ CacheInv(store, cache)
  BY DEF IInv
<1>2. /\ Running
      /\ t # undefined
      /\ cache' = Reach(c, obj)
      /\ UNCHANGED <<store, saved, receiver, deletes>>
  BY DEF Lookup, Cached
<1>3. /\ t \in Ids
      /\ t < store.seq
      /\ store.tables[store.prefixOf[t]] = t
  BY <1>1, <1>2 DEF Sane, Stores
<1>4. CacheInv(store, c) /\ t \in DOMAIN c.tableCache
  BY <1>1, <1>3, CacheTableInv
<1> HIDE DEF c
<1>5. CacheInv(store, Reach(c, obj))
  BY <1>1, <1>4, FoundInv
<1> QED BY <1>1, <1>2, <1>5, RunningIInv

(* db_next_i64 and db_previous_i64 of an iterator to a row: the table that *)
(* they walk is registered, so it was cached with the row.                 *)
LEMMA StepIInv ==
  ASSUME IInv, NEW it, DbNext(it) \/ DbPrevious(it)
  PROVE  IInv'
<1> DEFINE t == ObjectOf(cache, it).tableId
           k == ObjectOf(cache, it).key
           p == store.prefixOf[t]
           next == First(p, (k + 1) .. MaxKey)
           previous == Last(p, 0 .. (k - 1))
<1>1. Sane(store) /\ CacheInv(store, cache)
  BY DEF IInv
<1>2. /\ Running
      /\ it \in Live(cache)
      /\ Registered(t)
      /\ UNCHANGED <<store, saved, receiver, deletes>>
  BY DEF DbNext, DbPrevious
<1>3. cache' = Reach(cache, next) \/ cache' = Reach(cache, previous)
  BY DEF DbNext, DbPrevious, Cached
<1>4. ObjectOf(cache, it) \in Objects
  BY <1>1, <1>2, LiveObjects DEF CacheInv
<1>5. t \in Ids /\ k \in Keys
  BY <1>4 DEF Objects
<1>6. PICK q \in Prefixes : store.tables[q] = t
  BY <1>2 DEF Registered
<1>7. p = q
  BY <1>1, <1>5, <1>6, UndefinedAssumption DEF Sane
<1>8. t \in DOMAIN cache.tableCache
  BY <1>1, <1>2, <1>6, <1>7 DEF CacheInv, ObjectsKnown
<1>9. (k + 1) .. MaxKey \in SUBSET Keys /\ 0 .. (k - 1) \in SUBSET Keys
  BY <1>5, BoundsAssumption DEF Keys
<1>10. FoundIn(p, next) /\ FoundIn(p, previous)
  BY <1>9, SearchFinds
<1> HIDE DEF t, k, p, next, previous
<1>11. CacheInv(store, Reach(cache, next))
  BY <1>1, <1>6, <1>7, <1>8, <1>10, FoundInv
<1>12. CacheInv(store, Reach(cache, previous))
  BY <1>1, <1>6, <1>7, <1>8, <1>10, FoundInv
<1> QED BY <1>1, <1>2, <1>3, <1>11, <1>12, RunningIInv

(* db_previous_i64 of an end iterator, of a table that may be gone.        *)
LEMMA PreviousOfEndIInv ==
  ASSUME IInv, NEW idx \in 0 .. MaxTables - 1,
         DbPreviousOfEnd(indexToEndIterator(idx))
  PROVE  IInv'
<1> DEFINE t == FindTableByEndIterator(cache, indexToEndIterator(idx))
           p == store.prefixOf[t]
           last == Last(p, Keys)
<1>1. Sane(store) /\ CacheInv(store, cache)
  BY DEF IInv
<1>2. /\ Running
      /\ t # undefined
      /\ cache' = Reach(cache, last)
      /\ UNCHANGED <<store, saved, receiver, deletes>>
  BY DEF DbPreviousOfEnd, Cached
<1>3. endIteratorToIndex(indexToEndIterator(idx)) = idx
  BY DEF endIteratorToIndex, indexToEndIterator
<1>4. t \in DOMAIN cache.tableCache
  <2>1. /\ idx < Len(cache.endIteratorToTable)
        /\ t = cache.endIteratorToTable[idx + 1]
    BY <1>2, <1>3 DEF FindTableByEndIterator
  <2>2. Len(cache.endIteratorToTable) \in Nat
    BY <1>1 DEF CacheInv, IsCache
  <2>3. idx + 1 \in 1 .. Len(cache.endIteratorToTable)
    BY <2>1, <2>2
  <2> QED BY <1>1, <2>1, <2>3 DEF CacheInv, EndsMatch
<1>5. t \in Ids /\ t < store.seq
  BY <1>1, <1>4 DEF CacheInv, IsCache, TablesKnown
<1>6. p \in Prefixes
  BY <1>1, <1>5 DEF Sane
<1>7. store.tables[p] # undefined => store.tables[p] \in DOMAIN cache.tableCache
  BY <1>1, <1>4 DEF CacheInv, TablesKnown
<1>8. FoundIn(p, last)
  BY SearchFinds
<1> HIDE DEF t, p, last
<1>9. CacheInv(store, Reach(cache, last))
  BY <1>1, <1>6, <1>7, <1>8, FoundInv
<1> QED BY <1>1, <1>2, <1>9, RunningIInv

(* Every step of a test, of a contract and of the chain keeps the          *)
(* invariant.                                                              *)
LEMMA NextIInv == IInv /\ [Next]_vars => IInv'
<1> SUFFICES ASSUME IInv, [Next]_vars PROVE IInv'
  OBVIOUS
<1>1. ASSUME NEW p \in Prefixes, NEW k \in Keys,
             DbFind(p, k) \/ DbLowerbound(p, k) \/ DbUpperbound(p, k)
      PROVE  IInv'
  <2>1. FoundIn(p, store.rows[<<p, k>>])
    BY DEF FoundIn
  <2>2. FoundIn(p, First(p, k .. MaxKey))
    <3>1. k .. MaxKey \in SUBSET Keys
      BY BoundsAssumption DEF Keys
    <3> QED BY <3>1, SearchFinds
  <2>3. FoundIn(p, First(p, (k + 1) .. MaxKey))
    <3>1. (k + 1) .. MaxKey \in SUBSET Keys
      BY BoundsAssumption DEF Keys
    <3> QED BY <3>1, SearchFinds
  <2> QED BY <1>1, <2>1, <2>2, <2>3, LookupIInv
             DEF DbFind, DbLowerbound, DbUpperbound
<1>2. ASSUME NEW p \in Prefixes, DbEnd(p)
      PROVE  IInv'
  BY <1>2, LookupIInv DEF DbEnd, FoundIn
<1>3. CASE HostFunction
  BY <1>1, <1>2, <1>3, DbStoreIInv, DbUpdateIInv, DbRemoveIInv, StepIInv,
     PreviousOfEndIInv DEF HostFunction
<1>4. CASE UNCHANGED vars
  BY <1>4 DEF vars, IInv
<1> QED BY <1>3, <1>4, ContextIInv DEF Next
-----------------------------------------------------------------------------
(* What follows from the invariant.                                        *)

(* Every reachable state has the invariant.                                *)
THEOREM Invariance == Spec => []IInv
  BY InitIInv, NextIInv, PTL DEF Spec

(* The iterator that a lookup returns for a row it has met before          *)
(* dereferences to that row as it is now.                                  *)
THEOREM LookupsCurrent == Spec => []LookupsAreCurrent
<1>1. IInv => LookupsAreCurrent
  BY DEF IInv, CacheInv, MapCurrent, Known, LookupsAreCurrent
<1> QED BY <1>1, Invariance, PTL

(* A context that has removed no row, and has one iterator to a row, reads *)
(* the row as the store has it.                                            *)
THEOREM SoleIteratorsCurrent == Spec => []SoleIteratorsAreCurrent
<1>1. ASSUME IInv, Live(cache) = All(cache), NEW i \in All(cache),
             \A j \in All(cache) \ {i} :
               Place(store, ObjectOf(cache, j))
                 # Place(store, ObjectOf(cache, i))
      PROVE  store.rows[Place(store, ObjectOf(cache, i))] = ObjectOf(cache, i)
  <2>1. PICK j \in All(cache) :
          /\ Place(store, ObjectOf(cache, j)) = Place(store, ObjectOf(cache, i))
          /\ store.rows[Place(store, ObjectOf(cache, i))] = ObjectOf(cache, j)
    BY <1>1 DEF IInv, CacheInv, RowsHeld
  <2> QED BY <1>1, <2>1
<1>2. IInv => SoleIteratorsAreCurrent
  BY <1>1 DEF SoleIteratorsAreCurrent, All, Place
<1> QED BY <1>2, Invariance, PTL

(* End iterators and tables are in bijection.                              *)
THEOREM EndIteratorsMatch == Spec => []EndIteratorsNameTables
<1>1. ASSUME IInv, NEW t \in DOMAIN cache.tableCache
      PROVE  FindTableByEndIterator(cache, cache.tableCache[t]) = t
  <2>1. EndsMatch(cache) /\ Len(cache.endIteratorToTable) \in Nat
    BY <1>1 DEF IInv, CacheInv, IsCache
  <2>2. PICK k \in 1 .. Len(cache.endIteratorToTable) :
          /\ cache.tableCache[t] = -(k + 1)
          /\ cache.endIteratorToTable[k] = t
    BY <2>1 DEF EndsMatch
  <2>3. endIteratorToIndex(cache.tableCache[t]) = k - 1
    BY <2>1, <2>2 DEF endIteratorToIndex
  <2>4. k - 1 < Len(cache.endIteratorToTable) /\ (k - 1) + 1 = k
    BY <2>1
  <2> QED BY <2>2, <2>3, <2>4 DEF FindTableByEndIterator
<1>2. IInv => EndIteratorsNameTables
  BY <1>1 DEF IInv, CacheInv, EndsMatch, EndIteratorsNameTables
<1> QED BY <1>2, Invariance, PTL

(* As long as the table of a row exists, the cache has it.                 *)
THEOREM RegisteredCached == Spec => []RegisteredTablesCached
<1>1. ASSUME IInv, NEW i \in Live(cache),
             Registered(ObjectOf(cache, i).tableId)
      PROVE  HasTable(cache, ObjectOf(cache, i).tableId)
  <2>1. Sane(store) /\ CacheInv(store, cache)
    BY <1>1 DEF IInv
  <2>2. PICK p \in Prefixes : store.tables[p] = ObjectOf(cache, i).tableId
    BY <1>1 DEF Registered
  <2>3. ObjectOf(cache, i).tableId \in Ids
    BY <2>1, LiveObjects DEF CacheInv, Objects
  <2>4. store.prefixOf[ObjectOf(cache, i).tableId] = p
    BY <2>1, <2>2, <2>3, UndefinedAssumption DEF Sane
  <2> QED BY <2>1, <2>2, <2>4 DEF CacheInv, ObjectsKnown, HasTable
<1>2. IInv => RegisteredTablesCached
  BY <1>1 DEF RegisteredTablesCached
<1> QED BY <1>2, Invariance, PTL

-----------------------------------------------------------------------------
(* Who writes.                                                             *)

(* The rows after a step, given those before it.                           *)
OwnWrite ==
  \/ store'.rows = store.rows
  \/ \E r \in Prefixes \X Keys :
       /\ receiver = Code[r[1]]
       /\ \E x : store'.rows = [store.rows EXCEPT ![r] = x]
  \/ /\ saved # undefined
     /\ saved' = undefined
     /\ store'.rows = saved.rows

(* A revert brings the rows back.                                          *)
LEMMA RollbackRestores ==
  ASSUME IInv, saved # undefined, NEW deleted \in [Ids -> Int],
         Rollback(deleted)
  PROVE  saved' = undefined /\ store'.rows = saved.rows
<1>1. saved \in Stores
  BY DEF IInv, Sane
<1> QED BY <1>1 DEF Rollback, Stores

(* db_store_i64 writes in the table that the contract names.               *)
LEMMA StoreIsOwn ==
  ASSUME IInv, NEW p \in Prefixes, NEW k \in Keys, DbStore(p, k)
  PROVE  OwnWrite
<1> DEFINE new == store.tables[p] = undefined
           s == IF new THEN WithNewTable(store, p) ELSE store
           t == s.tables[p]
           obj == [oid |-> Min(FreeOids), tableId |-> t, key |-> k]
<1>1. Sane(store)
  BY DEF IInv
<1>2. /\ Code[p] = receiver
      /\ FreeOids # {}
      /\ new => store.seq < MaxTables
      /\ store' = Written(s, t, obj)
  BY DEF DbStore
<1>3. Sane(s) /\ t \in Ids /\ s.prefixOf[t] = p /\ s.rows = store.rows
  <2>1. CASE new
    <3>1. /\ store.seq \in Ids
          /\ s.tables = [store.tables EXCEPT ![p] = store.seq]
          /\ s.prefixOf = [store.prefixOf EXCEPT ![store.seq] = p]
          /\ s.rows = store.rows
      BY <1>1, <1>2, <2>1, NewTableFields DEF Sane
    <3>2. /\ store.tables \in [Prefixes -> Ids \cup {undefined}]
          /\ store.prefixOf \in [Ids -> Prefixes \cup {undefined}]
      BY <1>1 DEF Sane, Stores
    <3>3. Sane(s)
      BY <1>1, <1>2, <2>1, NewTableSane
    <3> QED BY <3>1, <3>2, <3>3
  <2>2. CASE ~new
    BY <1>1, <2>2 DEF Sane, Stores
  <2> QED BY <2>1, <2>2
<1>4. obj \in Objects
  BY <1>2, <1>3, FreshObject
<1>5. obj.key = k /\ s \in Stores
  BY <1>3 DEF Sane
<1> HIDE DEF s, t, obj
<1>6. store'.rows = [s.rows EXCEPT ![<<s.prefixOf[t], obj.key>>] = obj]
  BY <1>2, <1>3, <1>4, <1>5, WrittenFields
<1>7. /\ store'.rows = [store.rows EXCEPT ![<<p, k>>] = obj]
      /\ <<p, k>> \in Prefixes \X Keys
      /\ <<p, k>>[1] = p
  BY <1>3, <1>5, <1>6
<1> QED BY <1>2, <1>7 DEF OwnWrite

(* db_update_i64 and db_remove_i64 write where their iterator's row is.    *)
LEMMA WritableIsOwn ==
  ASSUME IInv, NEW it, DbUpdate(it) \/ DbRemove(it)
  PROVE  OwnWrite
<1> DEFINE obj == ObjectOf(cache, it)
           t == obj.tableId
           p == store.prefixOf[t]
           r == <<p, obj.key>>
<1>1. Sane(store) /\ CacheInv(store, cache)
  BY DEF IInv
<1>2. Running /\ it \in Live(cache) /\ Code[p] = receiver
  BY DEF DbUpdate, DbRemove, Writable
<1>3. obj \in Objects
  BY <1>1, <1>2, LiveObjects DEF CacheInv
<1>4. t \in Ids /\ t < store.seq /\ obj.key \in Keys
  BY <1>1, <1>2, <1>3 DEF Objects, CacheInv, ObjectsKnown
<1>5. p \in Prefixes /\ r \in Prefixes \X Keys
  BY <1>1, <1>4 DEF Sane
<1>6. CASE DbUpdate(it)
  <2> DEFINE new == [oid     |-> Min(FreeOids),
                     tableId |-> t,
                     key     |-> obj.key]
  <2>1. [obj EXCEPT !.oid = Min(FreeOids)] = new
    BY <1>3 DEF Objects
  <2>2. store' = Written(store, t, new) /\ FreeOids # {}
    BY <1>6, <2>1 DEF DbUpdate
  <2>3. new \in Objects /\ new.key = obj.key
    BY <1>4, <2>2, FreshObject
  <2> HIDE DEF new, obj, t, p
  <2>4. store'.rows
          = [store.rows EXCEPT ![<<store.prefixOf[t], new.key>>] = new]
    BY <1>1, <1>4, <1>5, <2>2, <2>3, WrittenFields DEF Sane, p
  <2>5. store'.rows = [store.rows EXCEPT ![r] = new] /\ r[1] = p
    BY <2>3, <2>4 DEF p
  <2> QED BY <1>2, <1>5, <2>5 DEF OwnWrite
<1>7. CASE DbRemove(it)
  <2> DEFINE emptied == store.size[t] = 1
             table == IF emptied THEN undefined ELSE store.tables[p]
             deleted == IF t < saved.seq THEN [deletes EXCEPT ![t] = @ + 1]
                        ELSE deletes
  <2>1. store' = Deleted(store, r, t, p, table) \/ Rollback(deleted)
    BY <1>7 DEF DbRemove, Deleted
  <2>2. deleted \in [Ids -> Int] /\ saved # undefined
    BY <1>2, <1>4 DEF IInv, Running
  <2>3. table = store.tables[p] \/ table = undefined
    OBVIOUS
  <2>4. r[1] = p
    OBVIOUS
  <2>5. t \in Ids /\ Sane(store)
    BY <1>1, <1>4
  <2> HIDE DEF obj, t, p, r, table, deleted, emptied
  <2>6. CASE store' = Deleted(store, r, t, p, table)
    <3>1. /\ Sane(store')
          /\ store'.rows = [store.rows EXCEPT ![r] = undefined]
          /\ store'.tables = [store.tables EXCEPT ![p] = table]
      BY <2>5, <1>5, <2>3, <2>6, DeletedSane
    <3> QED BY <1>2, <1>5, <2>4, <3>1 DEF OwnWrite
  <2>7. CASE Rollback(deleted)
    BY <2>2, <2>7, RollbackRestores DEF OwnWrite
  <2> QED BY <2>1, <2>6, <2>7
<1> QED BY <1>6, <1>7

(* Every step writes no row, one that is the running contract's, or all    *)
(* rows back.                                                              *)
LEMMA NextIsOwn == IInv /\ [Next]_vars => OwnWrite
<1> SUFFICES ASSUME IInv, [Next]_vars PROVE OwnWrite
  OBVIOUS
<1>1. CASE Abort
  BY <1>1, RollbackRestores DEF Abort, IInv, OwnWrite
<1>2. CASE \/ Begin \/ Return \/ Commit \/ UNCHANGED vars
           \/ \E c \in Contracts : Apply(c)
  BY <1>2 DEF Begin, Return, Commit, Apply, vars, OwnWrite
<1>3. CASE HostFunction
  <2>1. ASSUME NEW p, NEW obj, Lookup(p, obj)
        PROVE  OwnWrite
    BY <2>1 DEF Lookup, OwnWrite
  <2>2. ASSUME NEW it, DbNext(it) \/ DbPrevious(it) \/ DbPreviousOfEnd(it)
        PROVE  OwnWrite
    BY <2>2 DEF DbNext, DbPrevious, DbPreviousOfEnd, OwnWrite
  <2> QED BY <1>3, <2>1, <2>2, StoreIsOwn, WritableIsOwn
             DEF HostFunction, DbFind, DbLowerbound, DbUpperbound, DbEnd
<1> QED BY <1>1, <1>2, <1>3 DEF Next

(* A row changes while the contract that its table belongs to runs, or     *)
(* when a transaction is rolled back.                                      *)
THEOREM WritesAreOwn == Spec => OnlyOwnTables
<1> DEFINE Own == \A r \in Prefixes \X Keys :
                    store'.rows[r] # store.rows[r]
                      => \/ receiver = Code[r[1]]
                         \/ saved # undefined /\ saved' = undefined
                              /\ store'.rows = saved.rows
<1>1. ASSUME IInv, OwnWrite
      PROVE  Own
  <2>1. store.rows \in [Prefixes \X Keys -> Objects \cup {undefined}]
    BY <1>1 DEF IInv, Sane, Stores
  <2>2. ASSUME NEW q \in Prefixes \X Keys, NEW x, receiver = Code[q[1]],
               store'.rows = [store.rows EXCEPT ![q] = x],
               NEW r \in Prefixes \X Keys, store'.rows[r] # store.rows[r]
        PROVE  receiver = Code[r[1]]
    <3>1. r = q
      BY <2>1, <2>2
    <3> QED BY <2>2, <3>1
  <2> QED BY <1>1, <2>2 DEF OwnWrite
<1>2. IInv /\ [Next]_vars => [Own]_vars
  BY <1>1, NextIsOwn
<1>3. Spec => [][Own]_vars
  <2> HIDE DEF Own
  <2> QED BY <1>2, Invariance, PTL DEF Spec
<1> QED BY <1>3 DEF OnlyOwnTables
=============================================================================
