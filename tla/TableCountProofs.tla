-------------------------- MODULE TableCountProofs --------------------------
(***************************************************************************)
(* Proofs about the counts of rows in TableStore.                          *)
(*                                                                         *)
(* A revert undoes what happened to the database, but the counts are kept  *)
(* by the Table objects.  That they fit again after each undone change, as *)
(* long as it is no deletion of a row, needs three facts besides: that the *)
(* databases of the past had no rows without a table, that the creation of *)
(* a row names the table that was registered, and that a table which is    *)
(* not registered counts no rows, so that it can come back.                *)
(***************************************************************************)
EXTENDS TableStoreProofs, FiniteSetTheorems

(* Rows have a table, whose id they carry.                                 *)
Shaped(d) ==
  \A p \in Prefixes :
    /\ IsFiniteSet(RowsOf(d, p))
    /\ d.prefixes[p] = undefined => RowsOf(d, p) = {}
    /\ d.prefixes[p] # undefined
         => \A k \in RowsOf(d, p) : d.rows[<<p, k>>].tableId = d.prefixes[p]

Counted(d, sz) ==
  /\ sz \in [Ids -> Int]
  /\ \A p \in Prefixes : d.prefixes[p] # undefined
       => sz[d.prefixes[p]] = Cardinality(RowsOf(d, p))
  /\ \A t \in Ids : d.index[t] = undefined => sz[t] = 0

(* The record of the creation of a row has its table.                      *)
Recorded(c, d) == c.kind = "CreateItem" => c.table = d.prefixes[c.key[1]]

CountInv ==
  ~drifted
    => /\ Shaped(db)
       /\ Counted(db, size)
       /\ \A i \in 1 .. InForce :
            Shaped(past[i]) /\ Recorded(changes[i], past[i])

-----------------------------------------------------------------------------
(* One change of a database.                                               *)

(* The keys of a prefix that has another row.                              *)
LEMMA RowsOfWithRow ==
  ASSUME NEW d \in Databases, NEW r \in Prefixes \X Keys,
         NEW x \in Rows \cup {undefined}, NEW p \in Prefixes
  PROVE  RowsOf(WithRow(d, r, x), p)
           = IF p # r[1] THEN RowsOf(d, p)
             ELSE IF x = undefined THEN RowsOf(d, p) \ {r[2]}
             ELSE RowsOf(d, p) \cup {r[2]}
<1> DEFINE e == WithRow(d, r, x)
<1>1. /\ e.rows = [d.rows EXCEPT ![r] = x]
      /\ d.rows \in [Prefixes \X Keys -> Rows \cup {undefined}]
  BY DEF WithRow, Databases
<1>2. ASSUME NEW k \in Keys
      PROVE  e.rows[<<p, k>>]
               = IF p = r[1] /\ k = r[2] THEN x ELSE d.rows[<<p, k>>]
  BY <1>1
<1> HIDE DEF e
<1>3. RowsOf(e, p) = IF p # r[1] THEN RowsOf(d, p)
                     ELSE IF x = undefined THEN RowsOf(d, p) \ {r[2]}
                     ELSE RowsOf(d, p) \cup {r[2]}
  BY <1>2 DEF RowsOf
<1> QED BY <1>3 DEF e

(* No two tables have one id.                                              *)
LEMMA IdsDiffer ==
  ASSUME NEW d, Good(d), NEW p \in Prefixes, d.prefixes[p] # undefined
  PROVE  /\ d.prefixes[p] \in Ids
         /\ d.index[d.prefixes[p]] = p
         /\ \A q \in Prefixes : q # p => d.prefixes[q] # d.prefixes[p]
  BY DEF Good, PrefixesAgree, Databases

(* A row is taken away and its table counts down.                          *)
LEMMA RowRemoved ==
  ASSUME NEW d, Good(d), Shaped(d), NEW sz, Counted(d, sz),
         NEW r \in Prefixes \X Keys, d.rows[r] # undefined
  PROVE  LET e == WithRow(d, r, undefined)
             t == d.prefixes[r[1]]
         IN /\ t # undefined
            /\ Shaped(e)
            /\ Counted(e, [sz EXCEPT ![t] = @ - 1])
<1> DEFINE e == WithRow(d, r, undefined)
           t == d.prefixes[r[1]]
           z == [sz EXCEPT ![t] = @ - 1]
<1>1. /\ d \in Databases
      /\ d.rows \in [Prefixes \X Keys -> Rows \cup {undefined}]
      /\ e.rows = [d.rows EXCEPT ![r] = undefined]
      /\ e.prefixes = d.prefixes
      /\ e.index = d.index
  BY DEF Good, Databases, WithRow
<1>2. r[1] \in Prefixes /\ r[2] \in RowsOf(d, r[1]) /\ r = <<r[1], r[2]>>
  BY DEF RowsOf
<1>3. t # undefined
  BY <1>2 DEF Shaped
<1>4. /\ t \in Ids /\ d.index[t] = r[1]
      /\ \A q \in Prefixes : q # r[1] => d.prefixes[q] # t
  BY <1>2, <1>3, IdsDiffer
<1>5. /\ RowsOf(e, r[1]) = RowsOf(d, r[1]) \ {r[2]}
      /\ \A q \in Prefixes : q # r[1] => RowsOf(e, q) = RowsOf(d, q)
  BY <1>1, <1>2, RowsOfWithRow
<1>6. /\ IsFiniteSet(RowsOf(d, r[1]))
      /\ sz \in [Ids -> Int]
      /\ sz[t] = Cardinality(RowsOf(d, r[1]))
  BY <1>2, <1>3 DEF Shaped, Counted
<1>7. /\ IsFiniteSet(RowsOf(e, r[1]))
      /\ Cardinality(RowsOf(e, r[1])) = Cardinality(RowsOf(d, r[1])) - 1
  BY <1>2, <1>5, <1>6, FS_RemoveElement
<1>8. /\ z \in [Ids -> Int]
      /\ z[t] = sz[t] - 1
      /\ \A u \in Ids : u # t => z[u] = sz[u]
  <2>1. sz[t] - 1 \in Int
    BY <1>4, <1>6
  <2> QED BY <1>4, <1>6, <2>1
<1> HIDE DEF e, z
<1>9. Shaped(e)
  <2> SUFFICES ASSUME NEW p \in Prefixes
               PROVE  /\ IsFiniteSet(RowsOf(e, p))
                      /\ d.prefixes[p] = undefined => RowsOf(e, p) = {}
                      /\ d.prefixes[p] # undefined
                           => \A k \in RowsOf(e, p) :
                                e.rows[<<p, k>>].tableId = d.prefixes[p]
    BY <1>1 DEF Shaped
  <2>1. RowsOf(e, p) \subseteq RowsOf(d, p)
    BY <1>5
  <2>2. IsFiniteSet(RowsOf(e, p))
    BY <1>5, <1>7 DEF Shaped
  <2>3. \A k \in RowsOf(e, p) : e.rows[<<p, k>>] = d.rows[<<p, k>>]
    BY <1>1 DEF RowsOf
  <2> QED BY <2>1, <2>2, <2>3 DEF Shaped
<1>10. Counted(e, z)
  <2>1. ASSUME NEW p \in Prefixes, d.prefixes[p] # undefined
        PROVE  z[d.prefixes[p]] = Cardinality(RowsOf(e, p))
    <3>1. CASE p = r[1]
      BY <1>6, <1>7, <1>8, <3>1
    <3>2. CASE p # r[1]
      <4>1. d.prefixes[p] \in Ids /\ d.prefixes[p] # t
        BY <1>4, <2>1, <3>2, IdsDiffer
      <4>2. z[d.prefixes[p]] = sz[d.prefixes[p]]
        BY <1>8, <4>1
      <4> QED BY <1>5, <2>1, <3>2, <4>2 DEF Counted
    <3> QED BY <3>1, <3>2
  <2>2. ASSUME NEW u \in Ids, d.index[u] = undefined
        PROVE  z[u] = 0
    <3>1. u # t
      BY <1>2, <1>4, <2>2, UndefinedAssumption
    <3> QED BY <1>8, <2>2, <3>1 DEF Counted
  <2> QED BY <1>1, <1>8, <2>1, <2>2 DEF Counted
<1> QED BY <1>3, <1>9, <1>10 DEF e, z

(* A row is put into a table that is registered, which counts up if the    *)
(* row is new.                                                             *)
LEMMA RowPut ==
  ASSUME NEW d, Good(d), Shaped(d), NEW sz, Counted(d, sz),
         NEW r \in Prefixes \X Keys, NEW x \in Rows,
         d.prefixes[r[1]] # undefined, x.tableId = d.prefixes[r[1]],
         NEW z, z = IF d.rows[r] = undefined
                    THEN [sz EXCEPT ![d.prefixes[r[1]]] = @ + 1] ELSE sz
  PROVE  Shaped(WithRow(d, r, x)) /\ Counted(WithRow(d, r, x), z)
<1> DEFINE e == WithRow(d, r, x)
           t == d.prefixes[r[1]]
           n == IF d.rows[r] = undefined THEN 1 ELSE 0
<1>1. /\ d \in Databases
      /\ d.rows \in [Prefixes \X Keys -> Rows \cup {undefined}]
      /\ e.rows = [d.rows EXCEPT ![r] = x]
      /\ e.prefixes = d.prefixes
      /\ e.index = d.index
      /\ x # undefined
  BY UndefinedAssumption DEF Good, Databases, WithRow
<1>2. /\ r[1] \in Prefixes /\ r = <<r[1], r[2]>>
      /\ r[2] \in RowsOf(d, r[1]) <=> d.rows[r] # undefined
  BY DEF RowsOf
<1>3. /\ t \in Ids /\ d.index[t] = r[1]
      /\ \A q \in Prefixes : q # r[1] => d.prefixes[q] # t
  BY <1>2, IdsDiffer
<1>4. /\ RowsOf(e, r[1]) = RowsOf(d, r[1]) \cup {r[2]}
      /\ \A q \in Prefixes : q # r[1] => RowsOf(e, q) = RowsOf(d, q)
  BY <1>1, <1>2, RowsOfWithRow
<1>5. /\ IsFiniteSet(RowsOf(d, r[1]))
      /\ sz \in [Ids -> Int]
      /\ sz[t] = Cardinality(RowsOf(d, r[1]))
  BY <1>2 DEF Shaped, Counted
<1>6. /\ IsFiniteSet(RowsOf(e, r[1]))
      /\ Cardinality(RowsOf(e, r[1])) = Cardinality(RowsOf(d, r[1])) + n
  <2>1. /\ IsFiniteSet(RowsOf(d, r[1]) \cup {r[2]})
        /\ Cardinality(RowsOf(d, r[1]) \cup {r[2]})
             = IF r[2] \in RowsOf(d, r[1]) THEN Cardinality(RowsOf(d, r[1]))
               ELSE Cardinality(RowsOf(d, r[1])) + 1
    BY <1>5, FS_AddElement
  <2>2. Cardinality(RowsOf(d, r[1])) \in Nat
    BY <1>5, FS_CardinalityType
  <2> QED BY <1>2, <1>4, <2>1, <2>2
<1>7. /\ z \in [Ids -> Int]
      /\ z[t] = sz[t] + n
      /\ \A u \in Ids : u # t => z[u] = sz[u]
  <2>1. sz[t] + 1 \in Int
    BY <1>3, <1>5
  <2> QED BY <1>3, <1>5, <2>1
<1> HIDE DEF e, t, n
<1>8. Shaped(e)
  <2> SUFFICES ASSUME NEW p \in Prefixes
               PROVE  /\ IsFiniteSet(RowsOf(e, p))
                      /\ d.prefixes[p] = undefined => RowsOf(e, p) = {}
                      /\ d.prefixes[p] # undefined
                           => \A k \in RowsOf(e, p) :
                                e.rows[<<p, k>>].tableId = d.prefixes[p]
    BY <1>1 DEF Shaped
  <2>1. IsFiniteSet(RowsOf(e, p))
    BY <1>4, <1>6 DEF Shaped
  <2>2. d.prefixes[p] = undefined => RowsOf(e, p) = {}
    BY <1>4 DEF Shaped
  <2>3. ASSUME d.prefixes[p] # undefined, NEW k \in RowsOf(e, p)
        PROVE  e.rows[<<p, k>>].tableId = d.prefixes[p]
    <3>1. k \in Keys
      BY DEF RowsOf
    <3>2. CASE <<p, k>> = r
      BY <1>1, <1>2, <3>2
    <3>3. CASE <<p, k>> # r
      <4>1. e.rows[<<p, k>>] = d.rows[<<p, k>>]
        BY <1>1, <3>1, <3>3
      <4>2. k \in RowsOf(d, p)
        BY <3>1, <4>1 DEF RowsOf
      <4> QED BY <2>3, <4>1, <4>2 DEF Shaped
    <3> QED BY <3>2, <3>3
  <2> QED BY <2>1, <2>2, <2>3
<1>9. Counted(e, z)
  <2>1. ASSUME NEW p \in Prefixes, d.prefixes[p] # undefined
        PROVE  z[d.prefixes[p]] = Cardinality(RowsOf(e, p))
    <3>1. CASE p = r[1]
      BY <1>5, <1>6, <1>7, <3>1 DEF t
    <3>2. CASE p # r[1]
      <4>1. d.prefixes[p] \in Ids /\ d.prefixes[p] # t
        BY <1>3, <2>1, <3>2, IdsDiffer
      <4>2. z[d.prefixes[p]] = sz[d.prefixes[p]]
        BY <1>7, <4>1
      <4> QED BY <1>4, <2>1, <3>2, <4>2 DEF Counted
    <3> QED BY <3>1, <3>2
  <2>2. ASSUME NEW u \in Ids, d.index[u] = undefined
        PROVE  z[u] = 0
    <3>1. u # t
      BY <1>2, <1>3, <2>2, UndefinedAssumption
    <3> QED BY <1>7, <2>2, <3>1 DEF Counted
  <2> QED BY <1>1, <1>7, <2>1, <2>2 DEF Counted
<1> QED BY <1>8, <1>9 DEF e

(* A table without rows is registered, under an id that counts none.       *)
LEMMA TableAdded ==
  ASSUME NEW d, Good(d), Shaped(d), NEW sz, Counted(d, sz),
         NEW p \in Prefixes, d.prefixes[p] = undefined,
         NEW t \in Ids, d.index[t] = undefined, NEW seq,
         NEW e, e = WithTables(d, [d.prefixes EXCEPT ![p] = t],
                                  [d.index EXCEPT ![t] = p], seq)
  PROVE  Shaped(e) /\ Counted(e, sz)
<1>1. /\ d.prefixes \in [Prefixes -> Ids \cup {undefined}]
      /\ d.index \in [Ids -> Prefixes \cup {undefined}]
  BY DEF Good, Databases
<1>2. /\ e.rows = d.rows
      /\ e.prefixes = [d.prefixes EXCEPT ![p] = t]
      /\ e.index = [d.index EXCEPT ![t] = p]
  BY DEF WithTables
<1>3. \A q \in Prefixes : RowsOf(e, q) = RowsOf(d, q)
  BY <1>2 DEF RowsOf
<1>4. RowsOf(d, p) = {} /\ sz[t] = 0 /\ Cardinality(RowsOf(d, p)) = 0
  BY FS_EmptySet DEF Shaped, Counted
<1>5. Shaped(e)
  BY <1>1, <1>2, <1>3, <1>4 DEF Shaped
<1>6. Counted(e, sz)
  <2>1. ASSUME NEW q \in Prefixes, e.prefixes[q] # undefined
        PROVE  sz[e.prefixes[q]] = Cardinality(RowsOf(e, q))
    <3>1. CASE q = p
      BY <1>1, <1>2, <1>3, <1>4, <3>1
    <3>2. CASE q # p
      BY <1>1, <1>2, <1>3, <2>1, <3>2 DEF Counted
    <3> QED BY <3>1, <3>2
  <2>2. ASSUME NEW u \in Ids, e.index[u] = undefined
        PROVE  sz[u] = 0
    <3>1. u # t
      BY <1>1, <1>2, <2>2, UndefinedAssumption
    <3> QED BY <1>1, <1>2, <2>2, <3>1 DEF Counted
  <2> QED BY <2>1, <2>2 DEF Counted
<1> QED BY <1>5, <1>6

(* A table without rows goes.                                              *)
LEMMA TableRemoved ==
  ASSUME NEW d, Good(d), Shaped(d), NEW sz, Counted(d, sz),
         NEW p \in Prefixes, d.prefixes[p] # undefined, RowsOf(d, p) = {},
         NEW seq,
         NEW e, e = WithTables(d, [d.prefixes EXCEPT ![p] = undefined],
                                  [d.index EXCEPT ![d.prefixes[p]] = undefined],
                                  seq)
  PROVE  Shaped(e) /\ Counted(e, sz)
<1> DEFINE t == d.prefixes[p]
<1>1. /\ d.prefixes \in [Prefixes -> Ids \cup {undefined}]
      /\ d.index \in [Ids -> Prefixes \cup {undefined}]
      /\ t \in Ids
  BY DEF Good, Databases
<1>2. /\ e.rows = d.rows
      /\ e.prefixes = [d.prefixes EXCEPT ![p] = undefined]
      /\ e.index = [d.index EXCEPT ![t] = undefined]
  BY DEF WithTables
<1>3. \A q \in Prefixes : RowsOf(e, q) = RowsOf(d, q)
  BY <1>2 DEF RowsOf
<1>4. sz[t] = 0
  BY FS_EmptySet DEF Counted
<1> HIDE DEF t
<1>5. Shaped(e)
  BY <1>1, <1>2, <1>3 DEF Shaped
<1>6. Counted(e, sz)
  <2>1. ASSUME NEW q \in Prefixes, e.prefixes[q] # undefined
        PROVE  sz[e.prefixes[q]] = Cardinality(RowsOf(e, q))
    BY <1>1, <1>2, <1>3, <2>1 DEF Counted
  <2>2. ASSUME NEW u \in Ids, e.index[u] = undefined
        PROVE  sz[u] = 0
    BY <1>1, <1>2, <1>4, <2>2 DEF Counted
  <2> QED BY <2>1, <2>2 DEF Counted
<1> QED BY <1>5, <1>6

(* Secondary keys are not counted.                                         *)
LEMMA SameRows ==
  ASSUME NEW d, Shaped(d), NEW sz, Counted(d, sz),
         NEW e, e.rows = d.rows, e.prefixes = d.prefixes, e.index = d.index
  PROVE  Shaped(e) /\ Counted(e, sz)
<1>1. \A p \in Prefixes : RowsOf(e, p) = RowsOf(d, p)
  BY DEF RowsOf
<1> QED BY <1>1 DEF Shaped, Counted

-----------------------------------------------------------------------------
(* The steps.                                                              *)

(* An operation that pushes one change.                                    *)
LEMMA PushKeepsCounts ==
  ASSUME IInv, CountInv, ~drifted, Usable, NEW c, Push(c), Recorded(c, db),
         Shaped(db'), Counted(db', size'), UNCHANGED <<phase, drifted>>
  PROVE  CountInv'
<1> DEFINE n == Len(changes)
<1>1. /\ changes \in Seq(Changes) /\ past \in Seq(Databases)
      /\ n \in Nat /\ Len(past) = n /\ InForce = n
  BY DEF IInv, TypeOK, Usable, InForce
<1>2. changes' = Append(changes, c) /\ past' = Append(past, db)
  BY DEF Push
<1>3. /\ Len(changes') = n + 1
      /\ changes'[n + 1] = c /\ past'[n + 1] = db
      /\ \A i \in 1 .. n : changes'[i] = changes[i] /\ past'[i] = past[i]
  BY <1>1, <1>2
<1>4. InForce' = n + 1
  BY <1>3 DEF Usable, InForce
<1>5. ASSUME NEW i \in 1 .. n + 1
      PROVE  Shaped(past'[i]) /\ Recorded(changes'[i], past'[i])
  <2>1. CASE i = n + 1
    BY <1>3, <2>1 DEF CountInv
  <2>2. CASE i # n + 1
    <3>1. i \in 1 .. n
      BY <1>1, <2>2
    <3> QED BY <1>1, <1>3, <3>1 DEF CountInv
  <2> QED BY <2>1, <2>2
<1> QED BY <1>4, <1>5 DEF CountInv

(* DeleteRow, which pushes two changes for the last row of a table.        *)
LEMMA DeleteKeepsCounts ==
  ASSUME IInv, CountInv, ~drifted, NEW r \in Prefixes \X Keys, DeleteRow(r)
  PROVE  CountInv'
<1> DEFINE t       == db.prefixes[r[1]]
           removed == WithRow(db, r, undefined)
           item    == [kind |-> "DeleteItem", key |-> r, value |-> db.rows[r]]
           table   == [kind |-> "DeletePrefix", prefix |-> r[1], id |-> t]
           n       == Len(changes)
<1>1. /\ Usable /\ db.rows[r] # undefined /\ t # undefined
      /\ size' = [size EXCEPT ![t] = @ - 1]
      /\ UNCHANGED <<phase, drifted>>
      /\ \/ Push(item) /\ db' = removed
         \/ /\ size[t] - 1 = 0
            /\ changes' = Append(Append(changes, item), table)
            /\ past' = Append(Append(past, db), removed)
            /\ db' = WithTables(removed,
                                [db.prefixes EXCEPT ![r[1]] = undefined],
                                [db.index EXCEPT ![t] = undefined], db.seq)
  BY DEF DeleteRow
<1>2. Good(db) /\ Shaped(db) /\ Counted(db, size)
  BY DEF IInv, CountInv
<1>3. Shaped(removed) /\ Counted(removed, size')
  BY <1>1, <1>2, RowRemoved
<1>4. Recorded(item, db) /\ Recorded(table, removed)
  BY DEF Recorded
<1>5. Good(removed)
  BY <1>1, <1>2, DeleteItemUndone
<1>6. CASE Push(item) /\ db' = removed
  BY <1>1, <1>3, <1>4, <1>6, PushKeepsCounts
<1>7. CASE /\ size[t] - 1 = 0
           /\ changes' = Append(Append(changes, item), table)
           /\ past' = Append(Append(past, db), removed)
           /\ db' = WithTables(removed,
                               [db.prefixes EXCEPT ![r[1]] = undefined],
                               [db.index EXCEPT ![t] = undefined], db.seq)
  <2>1. removed.prefixes = db.prefixes /\ removed.index = db.index
    BY DEF WithRow
  <2>2. r[1] \in Prefixes /\ t \in Ids /\ size \in [Ids -> Int]
    BY <1>1, <1>2, IdsDiffer DEF Counted
  <2>3. size'[t] = 0
    BY <1>1, <1>7, <2>2
  <2>4. IsFiniteSet(RowsOf(removed, r[1]))
        /\ Cardinality(RowsOf(removed, r[1])) = 0
    <3> HIDE DEF removed
    <3> QED BY <1>1, <1>3, <2>1, <2>2, <2>3 DEF Shaped, Counted
  <2>5. RowsOf(removed, r[1]) = {}
    BY <2>4, FS_EmptySet
  <2>6. Shaped(db') /\ Counted(db', size')
    <3> HIDE DEF removed
    <3> QED BY <1>1, <1>3, <1>5, <1>7, <2>1, <2>2, <2>5, TableRemoved
  <2>7. /\ changes \in Seq(Changes) /\ past \in Seq(Databases)
        /\ n \in Nat /\ Len(past) = n /\ InForce = n
    BY <1>1 DEF IInv, TypeOK, Usable, InForce
  <2> HIDE DEF item, table, removed
  <2>8. /\ Len(changes') = n + 2
        /\ changes'[n + 1] = item /\ past'[n + 1] = db
        /\ changes'[n + 2] = table /\ past'[n + 2] = removed
        /\ \A i \in 1 .. n : changes'[i] = changes[i] /\ past'[i] = past[i]
    BY <1>7, <2>7
  <2>9. InForce' = n + 2
    BY <1>1, <2>8 DEF Usable, InForce
  <2>10. ASSUME NEW i \in 1 .. n + 2
         PROVE  Shaped(past'[i]) /\ Recorded(changes'[i], past'[i])
    <3>1. i \in 1 .. n \/ i = n + 1 \/ i = n + 2
      BY <2>7
    <3>2. CASE i \in 1 .. n
      BY <2>7, <2>8, <3>2 DEF CountInv
    <3> QED BY <1>2, <1>3, <1>4, <2>8, <3>1, <3>2
  <2> QED BY <2>6, <2>9, <2>10 DEF CountInv
<1> QED BY <1>1, <1>6, <1>7

(* revertTo undoes a change, on a database whose counts fit, and leaves a  *)
(* database of the past.                                                   *)
LEMMA UndoKeepsCounts ==
  ASSUME NEW c, NEW d, NEW b, Good(d), Good(b), Undoes(c, d, b),
         c \in Changes, c.kind # "DeleteItem",
         NEW sz, Shaped(d), Counted(d, sz), Shaped(b), Recorded(c, b)
  PROVE  Counted(b, UndoSize(c, sz))
<1>1. CASE c.kind = "CreateItem"
  <2>1. c \in CreateItemChange
    BY <1>1 DEF Changes, CreatePrefixChange, DeletePrefixChange,
       UpdateItemChange, DeleteItemChange, CreateSecondaryKeyChange,
       UpdateSecondaryKeyChange, DeleteSecondaryKeyChange
  <2>2. c.key \in Prefixes \X Keys
    BY <2>1 DEF CreateItemChange
  <2>3. d.rows[c.key] # undefined /\ b = WithRow(d, c.key, undefined)
    BY <1>1 DEF Undoes, CanUndo, Undone, UndoCreateItem
  <2>4. c.table = d.prefixes[c.key[1]]
    BY <1>1, <2>3 DEF Recorded, WithRow
  <2> QED BY <1>1, <2>2, <2>3, <2>4, RowRemoved DEF UndoSize
<1>2. CASE c.kind = "UpdateItem"
  <2>1. c \in UpdateItemChange
    BY <1>2 DEF Changes, CreatePrefixChange, DeletePrefixChange,
       CreateItemChange, DeleteItemChange, CreateSecondaryKeyChange,
       UpdateSecondaryKeyChange, DeleteSecondaryKeyChange
  <2>2. c.key \in Prefixes \X Keys /\ c.value \in Rows
    BY <2>1 DEF UpdateItemChange
  <2>3. d.rows[c.key] # undefined /\ b = WithRow(d, c.key, c.value)
    BY <1>2 DEF Undoes, CanUndo, Undone, UndoUpdateItem
  <2>4. d \in Databases /\ b.prefixes = d.prefixes /\ b.index = d.index
    BY <2>3 DEF Good, WithRow
  <2>5. \A p \in Prefixes : RowsOf(b, p) = RowsOf(d, p)
    <3>1. c.key[2] \in RowsOf(d, c.key[1])
      BY <2>2, <2>3 DEF RowsOf
    <3> QED BY <2>2, <2>3, <2>4, <3>1, RowsOfWithRow, UndefinedAssumption
  <2> QED BY <1>2, <2>4, <2>5 DEF Counted, UndoSize
<1>3. CASE c.kind = "CreatePrefix"
  <2>1. c \in CreatePrefixChange
    BY <1>3 DEF Changes, DeletePrefixChange, CreateItemChange,
       UpdateItemChange, DeleteItemChange, CreateSecondaryKeyChange,
       UpdateSecondaryKeyChange, DeleteSecondaryKeyChange
  <2>2. c.prefix \in Prefixes
    BY <2>1 DEF CreatePrefixChange
  <2>3. /\ d.prefixes[c.prefix] # undefined
        /\ b = WithTables(d,
                 [d.prefixes EXCEPT ![c.prefix] = undefined],
                 [d.index EXCEPT ![d.prefixes[c.prefix]] = undefined],
                 d.seq - 1)
    BY <1>3 DEF Undoes, CanUndo, Undone, UndoCreatePrefix
  <2>4. RowsOf(d, c.prefix) = {}
    <3>1. b.rows = d.rows /\ b.prefixes[c.prefix] = undefined
      BY <2>2, <2>3 DEF WithTables, Good, Databases
    <3>2. RowsOf(b, c.prefix) = {}
      BY <2>2, <3>1 DEF Shaped
    <3> QED BY <3>1, <3>2 DEF RowsOf
  <2> QED BY <1>3, <2>2, <2>3, <2>4, TableRemoved DEF UndoSize
<1>4. CASE c.kind = "DeletePrefix"
  <2>1. c \in DeletePrefixChange
    BY <1>4 DEF Changes, CreatePrefixChange, CreateItemChange,
       UpdateItemChange, DeleteItemChange, CreateSecondaryKeyChange,
       UpdateSecondaryKeyChange, DeleteSecondaryKeyChange
  <2>2. c.prefix \in Prefixes /\ c.id \in Ids
    BY <2>1 DEF DeletePrefixChange
  <2>3. /\ d.prefixes[c.prefix] = undefined
        /\ b = WithTables(d, [d.prefixes EXCEPT ![c.prefix] = c.id],
                             [d.index EXCEPT ![c.id] = c.prefix], d.seq)
    BY <1>4 DEF Undoes, CanUndo, Undone, UndoDeletePrefix
  <2>4. d.index[c.id] = undefined
    <3>1. SUFFICES ASSUME d.index[c.id] # undefined PROVE FALSE
      OBVIOUS
    <3>2. PICK q \in Prefixes : q = d.index[c.id]
      BY <2>2, <3>1 DEF Good, Databases
    <3>3. d.prefixes[q] = c.id
      BY <2>2, <3>1, <3>2 DEF Good, PrefixesAgree
    <3>4. q # c.prefix /\ c.id # undefined
      BY <2>2, <2>3, <3>3, UndefinedAssumption
    <3>5. b.prefixes[q] = c.id /\ b.prefixes[c.prefix] = c.id
      BY <2>2, <2>3, <3>3, <3>4 DEF WithTables, Good, Databases
    <3> QED BY <2>2, <3>4, <3>5, IdsDiffer
  <2> QED BY <1>4, <2>2, <2>3, <2>4, TableAdded DEF UndoSize
<1>5. CASE c.kind \notin {"CreateItem", "UpdateItem", "DeleteItem",
                          "CreatePrefix", "DeletePrefix"}
  <2>1. b.rows = d.rows /\ b.prefixes = d.prefixes /\ b.index = d.index
    BY <1>5 DEF Undoes, Undone, UndoCreateSecondary, UndoUpdateSecondary,
                UndoDeleteSecondary, WithEntries
  <2>2. UndoSize(c, sz) = sz
    BY <1>5 DEF UndoSize
  <2> QED BY <2>1, <2>2, SameRows
<1> QED BY <1>1, <1>2, <1>3, <1>4, <1>5

(* Before the first change nothing is there to be counted.                 *)
LEMMA InitCounts == Init => CountInv
<1> SUFFICES ASSUME Init PROVE CountInv
  OBVIOUS
<1>1. \A p \in Prefixes : RowsOf(db, p) = {} /\ db.prefixes[p] = undefined
  BY DEF Init, EmptyDb, RowsOf
<1>2. Shaped(db)
  BY <1>1, FS_EmptySet DEF Shaped
<1>3. Counted(db, size)
  BY <1>1 DEF Init, Counted
<1>4. InForce = 0
  BY DEF Init, InForce
<1> QED BY <1>2, <1>3, <1>4 DEF CountInv

(* A turn of revertTo's loop, unless it undoes the deletion of a row.      *)
LEMMA RevertKeepsCounts ==
  ASSUME IInv, IInv', CountInv, ~drifted', RevertOne
  PROVE  CountInv'
<1> DEFINE c == changes[cursor]
<1>1. /\ phase = "reverting" /\ cursor > snapshot
      /\ changes \in Seq(Changes) /\ cursor <= Len(changes)
      /\ cursor \in Nat /\ snapshot \in Nat /\ InForce = cursor
      /\ phase' # "corrupted"
  BY DEF RevertOne, IInv, TypeOK, InForce
<1>2. cursor \in 1 .. Len(changes) /\ c \in Changes
  BY <1>1
<1>3. Undoes(c, db, past[cursor])
  BY <1>1, <1>2 DEF IInv, Chain
<1>4. /\ Undone(c, db, db') /\ size' = UndoSize(c, size)
      /\ cursor' = cursor - 1
      /\ ~drifted /\ c.kind # "DeleteItem"
      /\ UNCHANGED <<phase, changes, snapshot, past>>
  BY <1>1 DEF RevertOne
<1>5. db' = past[cursor]
  BY <1>3, <1>4, UndoneIsFunction DEF Undoes
<1>6. Good(db) /\ Good(db')
  BY DEF IInv
<1>7. /\ Shaped(db) /\ Counted(db, size)
      /\ Shaped(db') /\ Recorded(c, db')
  BY <1>1, <1>2, <1>4, <1>5 DEF CountInv
<1> HIDE DEF c
<1>8. Counted(db', size')
  BY <1>2, <1>3, <1>4, <1>5, <1>6, <1>7, UndoKeepsCounts
<1>9. InForce' = cursor - 1
  BY <1>1, <1>4 DEF InForce
<1>10. \A i \in 1 .. cursor - 1 :
         Shaped(past[i]) /\ Recorded(changes[i], past[i])
  BY <1>1, <1>4 DEF CountInv
<1> QED BY <1>4, <1>7, <1>8, <1>9, <1>10 DEF CountInv

(* Every operation, and every step of a transaction, keeps the counts.     *)
LEMMA NextCounts == IInv /\ IInv' /\ CountInv /\ [Next]_vars => CountInv'
<1> SUFFICES ASSUME IInv, IInv', CountInv, [Next]_vars, ~drifted'
             PROVE  CountInv'
  BY DEF CountInv
<1>0. ~drifted /\ Good(db)
      /\ Shaped(db) /\ Counted(db, size)
  <2>1. ~drifted
    BY DEF Next, Operation, Revert, CreateTable, CreateRow, UpdateRow,
           DeleteRow, StoreSecondary, UpdateSecondary, DeleteSecondary,
           Begin, Commit, Abort, RevertOne, RevertEnd, vars
  <2> QED BY <2>1 DEF CountInv, IInv
<1>1. ASSUME NEW p \in Prefixes, CreateTable(p)
      PROVE  CountInv'
  <2>1. /\ Usable
        /\ db.prefixes[p] = undefined
        /\ db.seq < MaxTables
        /\ db' = WithTables(db, [db.prefixes EXCEPT ![p] = db.seq],
                                [db.index EXCEPT ![db.seq] = p], db.seq + 1)
        /\ size' = [size EXCEPT ![db.seq] = 0]
        /\ UNCHANGED <<phase, drifted>>
    BY <1>1 DEF CreateTable
  <2>2. db.seq \in Ids
    BY <1>0, <2>1, BoundsAssumption DEF Good, Databases, Ids
  <2>3. db.index[db.seq] = undefined
    <3>1. SUFFICES ASSUME db.index[db.seq] # undefined PROVE FALSE
      OBVIOUS
    <3>2. PICK q \in Prefixes : q = db.index[db.seq]
      BY <1>0, <2>2, <3>1 DEF Good, Databases
    <3>3. db.prefixes[q] = db.seq
      BY <1>0, <2>2, <3>1, <3>2 DEF Good, PrefixesAgree
    <3>4. db.seq < db.seq
      BY <1>0, <2>2, <3>3, UndefinedAssumption DEF Good, PrefixesAgree
    <3> QED BY <2>2, <3>4 DEF Ids
  <2>4. size' = size
    BY <1>0, <2>1, <2>2, <2>3 DEF Counted
  <2>5. Shaped(db') /\ Counted(db', size)
    BY <1>0, <2>1, <2>2, <2>3, TableAdded
  <2>6. Push([kind |-> "CreatePrefix", prefix |-> p])
    BY <1>1 DEF CreateTable
  <2>7. Recorded([kind |-> "CreatePrefix", prefix |-> p], db)
    BY DEF Recorded
  <2> QED BY <1>0, <2>1, <2>4, <2>5, <2>6, <2>7, PushKeepsCounts
<1>2. ASSUME NEW r \in Prefixes \X Keys, NEW v \in Values,
             CreateRow(r, v) \/ UpdateRow(r, v)
      PROVE  CountInv'
  <2> DEFINE x == [tableId |-> db.prefixes[r[1]], value |-> v]
             item == IF db.rows[r] = undefined
                     THEN [kind |-> "CreateItem", key |-> r,
                           table |-> db.prefixes[r[1]]]
                     ELSE [kind |-> "UpdateItem", key |-> r,
                           value |-> db.rows[r]]
  <2>1. /\ Usable
        /\ db.prefixes[r[1]] # undefined
        /\ db' = WithRow(db, r, x)
        /\ size' = IF db.rows[r] = undefined
                   THEN [size EXCEPT ![db.prefixes[r[1]]] = @ + 1] ELSE size
        /\ Push(item)
        /\ UNCHANGED <<phase, drifted>>
    BY <1>2 DEF CreateRow, UpdateRow
  <2>2. x \in Rows /\ x.tableId = db.prefixes[r[1]]
    BY <1>0, <2>1 DEF Rows, Good, Databases
  <2>3. Recorded(item, db)
    BY DEF Recorded
  <2> HIDE DEF x, item
  <2>4. Shaped(db') /\ Counted(db', size')
    BY <1>0, <2>1, <2>2, RowPut
  <2> QED BY <1>0, <2>1, <2>3, <2>4, PushKeepsCounts
<1>3. ASSUME NEW r \in Prefixes \X Keys, DeleteRow(r)
      PROVE  CountInv'
  BY <1>0, <1>3, DeleteKeepsCounts
<1>4. ASSUME Usable,
             \E c : Push(c) /\ c.kind \in {"CreateSecondary",
                                           "UpdateSecondary",
                                           "DeleteSecondary"},
             \E f, g : db' = WithEntries(db, f, g),
             UNCHANGED <<size, phase, drifted>>
      PROVE  CountInv'
  <2>1. /\ db'.rows = db.rows
        /\ db'.prefixes = db.prefixes
        /\ db'.index = db.index
    BY <1>4 DEF WithEntries
  <2>2. Shaped(db') /\ Counted(db', size')
    BY <1>0, <1>4, <2>1, SameRows
  <2>3. PICK c : Push(c) /\ Recorded(c, db)
    BY <1>4 DEF Recorded
  <2> QED BY <1>0, <1>4, <2>1, <2>2, <2>3, PushKeepsCounts
<1>8. ASSUME NEW i \in Indexes, NEW p \in Prefixes, NEW k \in Keys,
             NEW s \in SecKeys, StoreSecondary(i, p, k, s)
      PROVE  CountInv'
  BY <1>4, <1>8 DEF StoreSecondary
<1>9. ASSUME NEW e \in Entries, NEW s \in SecKeys, UpdateSecondary(e, s)
      PROVE  CountInv'
  BY <1>4, <1>9 DEF UpdateSecondary
<1>10. ASSUME NEW e \in Entries, DeleteSecondary(e)
       PROVE  CountInv'
  BY <1>4, <1>10 DEF DeleteSecondary
<1>5. CASE Begin \/ Commit \/ Abort \/ UNCHANGED vars
  <2>1. InForce' = InForce
    BY <1>5 DEF Begin, Commit, Abort, vars, InForce
  <2>2. UNCHANGED <<db, size, changes, past>>
    BY <1>5 DEF Begin, Commit, Abort, vars
  <2> QED BY <1>0, <2>1, <2>2 DEF CountInv
<1>6. CASE RevertOne
  BY <1>6, RevertKeepsCounts
<1>7. CASE RevertEnd
  <2>1. /\ changes \in Seq(Changes) /\ past \in Seq(Databases)
        /\ Len(past) = Len(changes)
        /\ snapshot \in Nat /\ snapshot <= Len(changes)
        /\ InForce = snapshot
        /\ changes' = SubSeq(changes, 1, snapshot)
        /\ past' = SubSeq(past, 1, snapshot)
        /\ phase' = "idle"
        /\ UNCHANGED <<db, size>>
    BY <1>7 DEF RevertEnd, IInv, TypeOK, InForce
  <2>2. /\ Len(changes') = snapshot
        /\ \A i \in 1 .. snapshot :
              changes'[i] = changes[i] /\ past'[i] = past[i]
    BY <2>1
  <2>3. InForce' = snapshot
    BY <2>1, <2>2 DEF InForce
  <2> QED BY <1>0, <2>1, <2>2, <2>3 DEF CountInv
<1> QED
  BY <1>1, <1>2, <1>3, <1>5, <1>6, <1>7, <1>8, <1>9, <1>10
  DEF Next, Operation, Revert

-----------------------------------------------------------------------------
(* The theorem.                                                            *)

(* As long as no deletion of a row was undone, each table counts its rows  *)
(* exactly, they carry its id, and no row outlives its table, during       *)
(* reverts too.                                                            *)
THEOREM CountsExact == Spec => []CountsExactUntilDrift
<1>1. CountInv => CountsExactUntilDrift
  BY DEF CountInv, Shaped, Counted, CountsExactUntilDrift
<1>2. Spec => []CountInv
  BY InitCounts, NextCounts, Invariance, PTL DEF Spec
<1> QED BY <1>1, <1>2, PTL
=============================================================================
