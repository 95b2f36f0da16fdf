-------------------------- MODULE TableStoreProofs --------------------------
(***************************************************************************)
(* Proofs about TableStore for every value of its constants.               *)
(*                                                                         *)
(* The argument.  Every operation pushes a change that undoes exactly what *)
(* it did: undone on the database after it, the change gives the database  *)
(* before it (the lemmas on single changes).  The journal is therefore a   *)
(* chain of such changes from past[1] to db (Chain), each operation makes  *)
(* the chain longer and each turn of revertTo makes it shorter at its end, *)
(* and a revert that has come down to the snapshot has come down to        *)
(* past[snapshot + 1].                                                     *)
(***************************************************************************)
EXTENDS TableStore, TLAPS

(* A database in which the maps agree with each other.                     *)
Good(d) == /\ d \in Databases
           /\ PrefixesAgree(d)
           /\ TreesAgree(d)
           /\ IdsGiven(d)

(* Change c takes database b to d, and undoing it takes d back to b.       *)
Undoes(c, d, b) == /\ CanUndo(c, d)
                   /\ Undone(c, d, b)

-----------------------------------------------------------------------------
(* The database operators keep databases.                                  *)

(* Replacing one row leaves a database with everything else as it was, and *)
(* putting the old row back restores it.                                   *)
LEMMA RowReplaced ==
  ASSUME NEW d \in Databases, NEW r \in Prefixes \X Keys,
         NEW x \in Rows \cup {undefined}
  PROVE  /\ WithRow(d, r, x) \in Databases
         /\ WithRow(d, r, x).rows[r] = x
         /\ WithRow(WithRow(d, r, x), r, d.rows[r]) = d
  BY DEF Databases, WithRow

(* A change of one row, to a row with an id already given, keeps the       *)
(* database good.                                                          *)
LEMMA RowKeepsGood ==
  ASSUME NEW d, Good(d), NEW r \in Prefixes \X Keys,
         NEW x \in Rows \cup {undefined},
         x # undefined => x.tableId < d.seq
  PROVE  Good(WithRow(d, r, x))
<1> DEFINE e == WithRow(d, r, x)
<1>1. d \in Databases
  BY DEF Good
<1>2. e \in Databases /\ e.rows[r] = x
  BY <1>1, RowReplaced
<1>3. PrefixesAgree(e)
  BY DEF Good, PrefixesAgree, WithRow
<1>4. TreesAgree(e)
  BY DEF Good, TreesAgree, WithRow
<1>5. \A q \in Prefixes \X Keys : q # r => e.rows[q] = d.rows[q]
  BY <1>1 DEF WithRow, Databases
<1>6. e.seq = d.seq /\ e.bySecondary = d.bySecondary
  BY DEF WithRow
<1>7. IdsGiven(e)
  BY <1>2, <1>5, <1>6 DEF Good, IdsGiven
<1> QED
  BY <1>2, <1>3, <1>4, <1>7 DEF Good

(* Other tables, of the right types, make another database.                *)
LEMMA TablesReplaced ==
  ASSUME NEW d \in Databases,
         NEW px \in [Prefixes -> Ids \cup {undefined}],
         NEW ix \in [Ids -> Prefixes \cup {undefined}],
         NEW sq \in 0 .. MaxTables
  PROVE  /\ WithTables(d, px, ix, sq) \in Databases
         /\ WithTables(WithTables(d, px, ix, sq), d.prefixes, d.index, d.seq)
              = d
  BY DEF Databases, WithTables

(* Other secondary keys, of the right types, make another database.        *)
LEMMA EntriesReplaced ==
  ASSUME NEW d \in Databases,
         NEW bp \in [Indexes \X Ids \X Keys -> SecKeys \cup {undefined}],
         NEW bs \in SUBSET Entries
  PROVE  /\ WithEntries(d, bp, bs) \in Databases
         /\ WithEntries(WithEntries(d, bp, bs), d.byPrimary, d.bySecondary) = d
  BY DEF Databases, WithEntries

-----------------------------------------------------------------------------
(* The changes of rows.                                                    *)

(* CreateItemChange undoes the creation of a row.                          *)
LEMMA CreateItemUndone ==
  ASSUME NEW d, Good(d), NEW r \in Prefixes \X Keys, NEW v \in Values,
         d.prefixes[r[1]] # undefined, d.rows[r] = undefined
  PROVE  LET c == [kind |-> "CreateItem", key |-> r,
                   table |-> d.prefixes[r[1]]]
             e == WithRow(d, r, [tableId |-> d.prefixes[r[1]], value |-> v])
         IN  Good(e) /\ c \in Changes /\ Undoes(c, e, d)
<1> DEFINE x == [tableId |-> d.prefixes[r[1]], value |-> v]
           c == [kind |-> "CreateItem", key |-> r,
                 table |-> d.prefixes[r[1]]]
           e == WithRow(d, r, x)
<1>1. d \in Databases
  BY DEF Good
<1>2. d.prefixes[r[1]] \in Ids /\ d.prefixes[r[1]] < d.seq
  BY <1>1 DEF Good, PrefixesAgree, Databases
<1>3. x \in Rows /\ x # undefined /\ x.tableId < d.seq
  BY <1>2, UndefinedAssumption DEF Rows
<1>4. c \in Changes
  BY <1>2 DEF Changes, CreateItemChange
<1>5. c.kind = "CreateItem" /\ c.key = r
  OBVIOUS
<1> HIDE DEF x, c
<1>6. Good(e)
  BY <1>3, RowKeepsGood
<1>7. CanUndo(c, e)
  BY <1>1, <1>3, <1>5, RowReplaced DEF CanUndo
<1>8. Undone(c, e, d)
  BY <1>1, <1>3, <1>5, RowReplaced DEF Undone, UndoCreateItem
<1> QED
  BY <1>4, <1>6, <1>7, <1>8 DEF Undoes, x, c

(* UpdateItemChange undoes the update of a row.                            *)
LEMMA UpdateItemUndone ==
  ASSUME NEW d, Good(d), NEW r \in Prefixes \X Keys, NEW v \in Values,
         d.prefixes[r[1]] # undefined, d.rows[r] # undefined
  PROVE  LET c == [kind |-> "UpdateItem", key |-> r, value |-> d.rows[r]]
             e == WithRow(d, r, [tableId |-> d.prefixes[r[1]], value |-> v])
         IN  Good(e) /\ c \in Changes /\ Undoes(c, e, d)
<1> DEFINE x == [tableId |-> d.prefixes[r[1]], value |-> v]
           c == [kind |-> "UpdateItem", key |-> r, value |-> d.rows[r]]
           e == WithRow(d, r, x)
<1>1. d \in Databases
  BY DEF Good
<1>2. d.prefixes[r[1]] \in Ids /\ d.prefixes[r[1]] < d.seq
  BY <1>1 DEF Good, PrefixesAgree, Databases
<1>3. x \in Rows /\ x # undefined /\ x.tableId < d.seq
  BY <1>2, UndefinedAssumption DEF Rows
<1>4. d.rows[r] \in Rows
  BY <1>1 DEF Databases
<1>5. c \in Changes
  BY <1>4 DEF Changes, UpdateItemChange
<1>6. c.kind = "UpdateItem" /\ c.key = r /\ c.value = d.rows[r]
  OBVIOUS
<1> HIDE DEF x, c
<1>7. Good(e)
  BY <1>3, RowKeepsGood
<1>8. CanUndo(c, e)
  BY <1>1, <1>3, <1>6, RowReplaced DEF CanUndo
<1>9. Undone(c, e, d)
  BY <1>1, <1>3, <1>6, RowReplaced DEF Undone, UndoUpdateItem
<1> QED
  BY <1>5, <1>7, <1>8, <1>9 DEF Undoes, x, c

(* DeleteItemChange undoes the deletion of a row.                          *)
LEMMA DeleteItemUndone ==
  ASSUME NEW d, Good(d), NEW r \in Prefixes \X Keys, d.rows[r] # undefined
  PROVE  LET c == [kind |-> "DeleteItem", key |-> r, value |-> d.rows[r]]
             e == WithRow(d, r, undefined)
         IN  Good(e) /\ c \in Changes /\ Undoes(c, e, d)
<1> DEFINE c == [kind |-> "DeleteItem", key |-> r, value |-> d.rows[r]]
           e == WithRow(d, r, undefined)
<1>1. d \in Databases /\ d.rows[r] \in Rows
  BY DEF Good, Databases
<1>2. c \in Changes
  BY <1>1 DEF Changes, DeleteItemChange
<1>3. c.kind = "DeleteItem" /\ c.key = r /\ c.value = d.rows[r]
  OBVIOUS
<1> HIDE DEF c
<1>4. Good(e)
  BY RowKeepsGood
<1>5. CanUndo(c, e)
  BY <1>1, <1>3, RowReplaced DEF CanUndo
<1>6. Undone(c, e, d)
  BY <1>1, <1>3, RowReplaced DEF Undone, UndoDeleteItem
<1> QED
  BY <1>2, <1>4, <1>5, <1>6 DEF Undoes, c

-----------------------------------------------------------------------------
(* The changes of tables.                                                  *)

(* CreatePrefixChange undoes the creation of a table.                      *)
LEMMA CreatePrefixUndone ==
  ASSUME NEW d, Good(d), NEW p \in Prefixes, d.prefixes[p] = undefined,
         d.seq < MaxTables
  PROVE  LET c == [kind |-> "CreatePrefix", prefix |-> p]
             e == WithTables(d, [d.prefixes EXCEPT ![p] = d.seq],
                                [d.index EXCEPT ![d.seq] = p], d.seq + 1)
         IN  Good(e) /\ c \in Changes /\ Undoes(c, e, d)
<1> DEFINE c  == [kind |-> "CreatePrefix", prefix |-> p]
           px == [d.prefixes EXCEPT ![p] = d.seq]
           ix == [d.index EXCEPT ![d.seq] = p]
           e  == WithTables(d, px, ix, d.seq + 1)
<1>1. d \in Databases
  BY DEF Good
<1>2. /\ d.prefixes \in [Prefixes -> Ids \cup {undefined}]
      /\ d.index \in [Ids -> Prefixes \cup {undefined}]
      /\ d.seq \in Ids /\ d.seq + 1 \in 0 .. MaxTables
  BY <1>1, BoundsAssumption DEF Databases, Ids
<1>3. /\ px \in [Prefixes -> Ids \cup {undefined}]
      /\ ix \in [Ids -> Prefixes \cup {undefined}]
      /\ px[p] = d.seq /\ ix[d.seq] = p
      /\ \A q \in Prefixes : q # p => px[q] = d.prefixes[q]
      /\ \A t \in Ids : t # d.seq => ix[t] = d.index[t]
  BY <1>2
<1>4. d.index[d.seq] = undefined
  <2>1. SUFFICES ASSUME d.index[d.seq] # undefined PROVE FALSE
    OBVIOUS
  <2>2. d.index[d.seq] \in Prefixes /\ d.prefixes[d.index[d.seq]] = d.seq
    BY <1>2, <2>1 DEF Good, PrefixesAgree
  <2>3. d.seq < d.seq
    BY <1>2, <2>2, UndefinedAssumption DEF Good, PrefixesAgree
  <2> QED
    BY <1>2, <2>3, BoundsAssumption DEF Ids
<1>5. /\ e.prefixes = px /\ e.index = ix /\ e.seq = d.seq + 1
      /\ e.rows = d.rows /\ e.byPrimary = d.byPrimary
      /\ e.bySecondary = d.bySecondary
  BY DEF WithTables
<1>6. /\ [px EXCEPT ![p] = undefined] = d.prefixes
      /\ [ix EXCEPT ![px[p]] = undefined] = d.index
  BY <1>2, <1>3, <1>4
<1>7. (d.seq + 1) - 1 = d.seq
  BY <1>2, BoundsAssumption DEF Ids
<1>8. e \in Databases
  BY <1>1, <1>2, <1>3, TablesReplaced
<1>9. WithTables(e, d.prefixes, d.index, d.seq) = d
  BY <1>1, <1>2, <1>3, TablesReplaced
<1>10. c.kind = "CreatePrefix" /\ c.prefix = p
  OBVIOUS
<1>11. c \in Changes
  BY DEF Changes, CreatePrefixChange
<1> HIDE DEF c, e, px, ix
<1>12. CanUndo(c, e)
  BY <1>2, <1>3, <1>5, <1>10, UndefinedAssumption DEF CanUndo
<1>13. Undone(c, e, d)
  BY <1>5, <1>6, <1>7, <1>9, <1>10 DEF Undone, UndoCreatePrefix
<1>14. PrefixesAgree(e)
  <2>1. ASSUME NEW q \in Prefixes, e.prefixes[q] # undefined
        PROVE  e.prefixes[q] < e.seq /\ e.index[e.prefixes[q]] = q
    <3>1. CASE q = p
      BY <1>2, <1>3, <1>5, <3>1, BoundsAssumption DEF Ids
    <3>2. CASE q # p
      <4>1. d.prefixes[q] \in Ids /\ d.prefixes[q] < d.seq
            /\ d.index[d.prefixes[q]] = q
        BY <1>2, <1>3, <1>5, <2>1, <3>2 DEF Good, PrefixesAgree
      <4> QED
        BY <1>2, <1>3, <1>5, <3>2, <4>1, BoundsAssumption DEF Ids
    <3> QED
      BY <3>1, <3>2
  <2>2. ASSUME NEW t \in Ids, e.index[t] # undefined
        PROVE  e.prefixes[e.index[t]] = t
    <3>1. CASE t = d.seq
      BY <1>3, <1>5, <3>1
    <3>2. CASE t # d.seq
      <4>1. d.index[t] \in Prefixes /\ d.prefixes[d.index[t]] = t
        BY <1>2, <1>3, <1>5, <2>2, <3>2 DEF Good, PrefixesAgree
      <4>2. d.index[t] # p
        BY <4>1, UndefinedAssumption
      <4> QED
        BY <1>3, <1>5, <3>2, <4>1, <4>2
    <3> QED
      BY <3>1, <3>2
  <2> QED
    BY <2>1, <2>2 DEF PrefixesAgree
<1>15. TreesAgree(e)
  BY <1>5 DEF Good, TreesAgree
<1>16. IdsGiven(e)
  <2>1. ASSUME NEW r \in Prefixes \X Keys, e.rows[r] # undefined
        PROVE  e.rows[r].tableId < e.seq
    <3>1. e.rows[r].tableId < d.seq /\ e.rows[r].tableId \in Ids
      BY <1>1, <1>5, <2>1 DEF Good, IdsGiven, Databases, Rows
    <3> QED
      BY <1>2, <1>5, <3>1, BoundsAssumption DEF Ids
  <2>2. ASSUME NEW k \in Entries, k \in e.bySecondary
        PROVE  k[2] < e.seq
    <3>1. k[2] < d.seq /\ k[2] \in Ids
      BY <1>5, <2>2 DEF Good, IdsGiven, Entries
    <3> QED
      BY <1>2, <1>5, <3>1, BoundsAssumption DEF Ids
  <2> QED
    BY <2>1, <2>2 DEF IdsGiven
<1> QED
  BY <1>8, <1>11, <1>12, <1>13, <1>14, <1>15, <1>16
     DEF Good, Undoes, c, e, px, ix

(* DeletePrefixChange undoes the deletion of a table.                      *)
LEMMA DeletePrefixUndone ==
  ASSUME NEW d, Good(d), NEW p \in Prefixes, d.prefixes[p] # undefined
  PROVE  LET t == d.prefixes[p]
             c == [kind |-> "DeletePrefix", prefix |-> p, id |-> t]
             e == WithTables(d, [d.prefixes EXCEPT ![p] = undefined],
                                [d.index EXCEPT ![t] = undefined], d.seq)
         IN  Good(e) /\ c \in Changes /\ Undoes(c, e, d)
<1> DEFINE t  == d.prefixes[p]
           c  == [kind |-> "DeletePrefix", prefix |-> p, id |-> t]
           px == [d.prefixes EXCEPT ![p] = undefined]
           ix == [d.index EXCEPT ![t] = undefined]
           e  == WithTables(d, px, ix, d.seq)
<1>1. d \in Databases
  BY DEF Good
<1>2. /\ d.prefixes \in [Prefixes -> Ids \cup {undefined}]
      /\ d.index \in [Ids -> Prefixes \cup {undefined}]
      /\ d.seq \in 0 .. MaxTables
      /\ t \in Ids /\ d.index[t] = p
  BY <1>1 DEF Databases, Good, PrefixesAgree
<1>3. /\ px \in [Prefixes -> Ids \cup {undefined}]
      /\ ix \in [Ids -> Prefixes \cup {undefined}]
      /\ px[p] = undefined /\ ix[t] = undefined
      /\ \A q \in Prefixes : q # p => px[q] = d.prefixes[q]
      /\ \A i \in Ids : i # t => ix[i] = d.index[i]
      /\ [px EXCEPT ![p] = t] = d.prefixes
      /\ [ix EXCEPT ![t] = p] = d.index
  BY <1>2
<1>4. /\ e.prefixes = px /\ e.index = ix /\ e.seq = d.seq
      /\ e.rows = d.rows /\ e.byPrimary = d.byPrimary
      /\ e.bySecondary = d.bySecondary
  BY DEF WithTables
<1>5. /\ e \in Databases
      /\ WithTables(e, d.prefixes, d.index, d.seq) = d
  BY <1>1, <1>2, <1>3, TablesReplaced
<1>6. c.kind = "DeletePrefix" /\ c.prefix = p /\ c.id = t
  OBVIOUS
<1>7. c \in Changes
  BY <1>2 DEF Changes, DeletePrefixChange
<1> HIDE DEF c, e, px, ix, t
<1>8. CanUndo(c, e)
  BY <1>3, <1>4, <1>6 DEF CanUndo
<1>9. Undone(c, e, d)
  BY <1>3, <1>4, <1>5, <1>6 DEF Undone, UndoDeletePrefix
<1>10. PrefixesAgree(e)
  <2>1. ASSUME NEW q \in Prefixes, e.prefixes[q] # undefined
        PROVE  e.prefixes[q] < e.seq /\ e.index[e.prefixes[q]] = q
    <3>1. q # p /\ e.prefixes[q] = d.prefixes[q]
      BY <1>3, <1>4, <2>1
    <3>2. /\ d.prefixes[q] \in Ids /\ d.prefixes[q] < d.seq
          /\ d.index[d.prefixes[q]] = q
      BY <1>2, <2>1, <3>1 DEF Good, PrefixesAgree
    <3>3. d.prefixes[q] # t
      BY <1>2, <3>1, <3>2
    <3> QED
      BY <1>3, <1>4, <3>1, <3>2, <3>3
  <2>2. ASSUME NEW i \in Ids, e.index[i] # undefined
        PROVE  e.prefixes[e.index[i]] = i
    <3>1. i # t /\ e.index[i] = d.index[i]
      BY <1>3, <1>4, <2>2
    <3>2. d.index[i] \in Prefixes /\ d.prefixes[d.index[i]] = i
      BY <1>2, <2>2, <3>1 DEF Good, PrefixesAgree
    <3>3. d.index[i] # p
      BY <3>1, <3>2 DEF t
    <3> QED
      BY <1>3, <1>4, <3>1, <3>2, <3>3
  <2> QED
    BY <2>1, <2>2 DEF PrefixesAgree
<1>11. TreesAgree(e)
  BY <1>4 DEF Good, TreesAgree
<1>12. IdsGiven(e)
  BY <1>4 DEF Good, IdsGiven
<1> QED
  BY <1>5, <1>7, <1>8, <1>9, <1>10, <1>11, <1>12
     DEF Good, Undoes, c, e, px, ix, t

-----------------------------------------------------------------------------
(* The changes of secondary keys.                                          *)

(* An entry is its row in the secondary key store and its key.             *)
LEMMA EntryParts ==
  /\ \A e \in Entries : /\ RowOf(e) \in Indexes \X Ids \X Keys
                        /\ e[4] \in SecKeys
  /\ \A e, f \in Entries : RowOf(e) = RowOf(f) /\ e[4] = f[4] => e = f
  BY DEF Entries, RowOf

(* Giving one row of a key store another entry, or none, and taking the    *)
(* entries of that row out of the tree of secondary keys or putting the    *)
(* new one in, keeps the database good.                                    *)
LEMMA EntriesKeepGood ==
  ASSUME NEW d, Good(d), NEW k \in Entries,
         NEW x \in SecKeys \cup {undefined},
         NEW bs \in SUBSET Entries,
         k[2] < d.seq,
         \A e \in Entries :
            IF RowOf(e) = RowOf(k) THEN e \in bs <=> e[4] = x
                                   ELSE e \in bs <=> e \in d.bySecondary
  PROVE  Good(WithEntries(d, [d.byPrimary EXCEPT ![RowOf(k)] = x], bs))
<1> DEFINE bp == [d.byPrimary EXCEPT ![RowOf(k)] = x]
           e  == WithEntries(d, bp, bs)
<1>1. d \in Databases
  BY DEF Good
<1>2. d.byPrimary \in [Indexes \X Ids \X Keys -> SecKeys \cup {undefined}]
  BY <1>1 DEF Databases
<1>3. /\ bp \in [Indexes \X Ids \X Keys -> SecKeys \cup {undefined}]
      /\ bp[RowOf(k)] = x
      /\ \A r \in Indexes \X Ids \X Keys : r # RowOf(k) => bp[r] = d.byPrimary[r]
  BY <1>2, EntryParts
<1>4. /\ e.byPrimary = bp /\ e.bySecondary = bs
      /\ e.rows = d.rows /\ e.prefixes = d.prefixes /\ e.index = d.index
      /\ e.seq = d.seq
  BY DEF WithEntries
<1>5. e \in Databases
  BY <1>1, <1>3, EntriesReplaced
<1> HIDE DEF bp, e
<1>6. PrefixesAgree(e)
  BY <1>4 DEF Good, PrefixesAgree
<1>7. TreesAgree(e)
  <2>1. SUFFICES ASSUME NEW f \in Entries
                 PROVE  f \in bs <=> bp[RowOf(f)] = f[4]
    BY <1>4 DEF TreesAgree
  <2>2. CASE RowOf(f) = RowOf(k)
    BY <1>3, <2>2
  <2>3. CASE RowOf(f) # RowOf(k)
    <3>1. bp[RowOf(f)] = d.byPrimary[RowOf(f)]
      BY <1>3, <2>3, EntryParts
    <3>2. f \in d.bySecondary <=> d.byPrimary[RowOf(f)] = f[4]
      BY DEF Good, TreesAgree
    <3> QED
      BY <2>3, <3>1, <3>2
  <2> QED
    BY <2>2, <2>3
<1>8. IdsGiven(e)
  <2>1. ASSUME NEW f \in Entries, f \in bs
        PROVE  f[2] < d.seq
    <3>1. CASE RowOf(f) = RowOf(k)
      BY <3>1 DEF RowOf
    <3>2. CASE RowOf(f) # RowOf(k)
      BY <2>1, <3>2 DEF Good, IdsGiven
    <3> QED
      BY <3>1, <3>2
  <2> QED
    BY <1>4, <2>1 DEF Good, IdsGiven
<1> QED
  BY <1>5, <1>6, <1>7, <1>8 DEF Good, e, bp

(* CreateSecondaryKeyChange undoes the creation of an entry of a row that  *)
(* had none.                                                               *)
LEMMA CreateSecondaryUndone ==
  ASSUME NEW d, Good(d), NEW k \in Entries,
         d.byPrimary[RowOf(k)] = undefined, k[2] < d.seq
  PROVE  LET c == [kind |-> "CreateSecondary", key |-> k]
             e == WithEntries(d, [d.byPrimary EXCEPT ![RowOf(k)] = k[4]],
                                 d.bySecondary \cup {k})
         IN  Good(e) /\ c \in Changes /\ Undoes(c, e, d)
<1> DEFINE c  == [kind |-> "CreateSecondary", key |-> k]
           bp == [d.byPrimary EXCEPT ![RowOf(k)] = k[4]]
           bs == d.bySecondary \cup {k}
           e  == WithEntries(d, bp, bs)
<1>1. d \in Databases
  BY DEF Good
<1>2. /\ d.byPrimary \in [Indexes \X Ids \X Keys -> SecKeys \cup {undefined}]
      /\ d.bySecondary \in SUBSET Entries
  BY <1>1 DEF Databases
<1>3. \A f \in Entries : RowOf(f) = RowOf(k) => f \notin d.bySecondary
  BY EntryParts, UndefinedAssumption DEF Good, TreesAgree
<1>4. \A f \in Entries :
        IF RowOf(f) = RowOf(k) THEN f \in bs <=> f[4] = k[4]
                               ELSE f \in bs <=> f \in d.bySecondary
  BY <1>3, EntryParts
<1>5. bs \in SUBSET Entries /\ k[4] \in SecKeys \cup {undefined}
  BY <1>2, EntryParts
<1>6. Good(e)
  BY <1>4, <1>5, EntriesKeepGood
<1>7. c \in Changes
  BY DEF Changes, CreateSecondaryKeyChange
<1>8. c.kind = "CreateSecondary" /\ c.key = k
  OBVIOUS
<1>9. e.byPrimary = bp /\ e.bySecondary = bs
  BY DEF WithEntries
<1>10. /\ bp \in [Indexes \X Ids \X Keys -> SecKeys \cup {undefined}]
       /\ bp[RowOf(k)] = k[4]
       /\ [bp EXCEPT ![RowOf(k)] = undefined] = d.byPrimary
  BY <1>2, EntryParts
<1>11. bs \ {k} = d.bySecondary
  BY <1>3
<1>12. WithEntries(e, d.byPrimary, d.bySecondary) = d
  BY <1>1, <1>5, <1>10, EntriesReplaced
<1> HIDE DEF c, bp, bs, e
<1>13. CanUndo(c, e)
  BY <1>8, <1>9, <1>10, EntryParts, UndefinedAssumption DEF CanUndo
<1>14. Undone(c, e, d)
  BY <1>8, <1>9, <1>10, <1>11, <1>12 DEF Undone, UndoCreateSecondary
<1> QED
  BY <1>6, <1>7, <1>13, <1>14 DEF Undoes, c, e, bp, bs

(* UpdateSecondaryKeyChange undoes the change of a row's secondary key.    *)
LEMMA UpdateSecondaryUndone ==
  ASSUME NEW d, Good(d), NEW k \in Entries, k \in d.bySecondary,
         NEW s \in SecKeys
  PROVE  LET n == <<k[1], k[2], k[3], s>>
             c == [kind |-> "UpdateSecondary", key |-> k, newKey |-> n]
             e == WithEntries(d, [d.byPrimary EXCEPT ![RowOf(k)] = s],
                                 (d.bySecondary \ {k}) \cup {n})
         IN  Good(e) /\ c \in Changes /\ Undoes(c, e, d)
<1> DEFINE n  == <<k[1], k[2], k[3], s>>
           c  == [kind |-> "UpdateSecondary", key |-> k, newKey |-> n]
           bp == [d.byPrimary EXCEPT ![RowOf(k)] = s]
           bs == (d.bySecondary \ {k}) \cup {n}
           e  == WithEntries(d, bp, bs)
<1>1. d \in Databases
  BY DEF Good
<1>2. /\ d.byPrimary \in [Indexes \X Ids \X Keys -> SecKeys \cup {undefined}]
      /\ d.bySecondary \in SUBSET Entries
  BY <1>1 DEF Databases
<1>3. n \in Entries /\ RowOf(n) = RowOf(k) /\ n[4] = s
  BY DEF Entries, RowOf
<1>4. d.byPrimary[RowOf(k)] = k[4] /\ k[2] < d.seq
  BY DEF Good, TreesAgree, IdsGiven
<1>5. \A f \in Entries :
        RowOf(f) = RowOf(k) => (f \in d.bySecondary <=> f = k)
  BY <1>4, EntryParts DEF Good, TreesAgree
<1>6. \A f \in Entries :
        IF RowOf(f) = RowOf(k) THEN f \in bs <=> f[4] = s
                               ELSE f \in bs <=> f \in d.bySecondary
  BY <1>3, <1>5, EntryParts
<1>7. bs \in SUBSET Entries /\ s \in SecKeys \cup {undefined}
  BY <1>2, <1>3
<1>8. Good(e)
  BY <1>4, <1>6, <1>7, EntriesKeepGood
<1>9. c \in Changes
  BY <1>3 DEF Changes, UpdateSecondaryKeyChange
<1>10. c.kind = "UpdateSecondary" /\ c.key = k /\ c.newKey = n
  OBVIOUS
<1>11. e.byPrimary = bp /\ e.bySecondary = bs
  BY DEF WithEntries
<1>12. /\ bp \in [Indexes \X Ids \X Keys -> SecKeys \cup {undefined}]
       /\ bp[RowOf(k)] = s
       /\ [bp EXCEPT ![RowOf(k)] = k[4]] = d.byPrimary
  BY <1>2, <1>4, EntryParts
<1>13. (bs \ {n}) \cup {k} = d.bySecondary
  BY <1>3, <1>5
<1>14. WithEntries(e, d.byPrimary, d.bySecondary) = d
  BY <1>1, <1>7, <1>12, EntriesReplaced
<1> HIDE DEF n, c, bp, bs, e
<1>15. CanUndo(c, e)
  BY <1>3, <1>10, <1>11, <1>12, UndefinedAssumption DEF CanUndo
<1>16. Undone(c, e, d)
  BY <1>10, <1>11, <1>12, <1>13, <1>14 DEF Undone, UndoUpdateSecondary
<1> QED
  BY <1>8, <1>9, <1>15, <1>16 DEF Undoes, n, c, e, bp, bs

(* DeleteSecondaryKeyChange undoes the deletion of an entry.               *)
LEMMA DeleteSecondaryUndone ==
  ASSUME NEW d, Good(d), NEW k \in Entries, k \in d.bySecondary
  PROVE  LET n == <<k[1], k[2], k[3], d.byPrimary[RowOf(k)]>>
             c == [kind |-> "DeleteSecondary", key |-> n]
             e == WithEntries(d, [d.byPrimary EXCEPT ![RowOf(k)] = undefined],
                                 d.bySecondary \ {k})
         IN  Good(e) /\ c \in Changes /\ Undoes(c, e, d)
<1> DEFINE n  == <<k[1], k[2], k[3], d.byPrimary[RowOf(k)]>>
           c  == [kind |-> "DeleteSecondary", key |-> n]
           bp == [d.byPrimary EXCEPT ![RowOf(k)] = undefined]
           bs == d.bySecondary \ {k}
           e  == WithEntries(d, bp, bs)
<1>1. d \in Databases
  BY DEF Good
<1>2. /\ d.byPrimary \in [Indexes \X Ids \X Keys -> SecKeys \cup {undefined}]
      /\ d.bySecondary \in SUBSET Entries
  BY <1>1 DEF Databases
<1>3. d.byPrimary[RowOf(k)] = k[4] /\ k[2] < d.seq
  BY DEF Good, TreesAgree, IdsGiven
<1>4. n = k
  BY <1>3 DEF Entries
<1>5. \A f \in Entries :
        RowOf(f) = RowOf(k) => (f \in d.bySecondary <=> f = k)
  BY <1>3, EntryParts DEF Good, TreesAgree
<1>6. \A f \in Entries :
        IF RowOf(f) = RowOf(k) THEN f \in bs <=> f[4] = undefined
                               ELSE f \in bs <=> f \in d.bySecondary
  BY <1>5, EntryParts, UndefinedAssumption
<1>7. bs \in SUBSET Entries
  BY <1>2
<1>8. Good(e)
  BY <1>3, <1>6, <1>7, EntriesKeepGood
<1>9. c \in Changes
  BY <1>4 DEF Changes, DeleteSecondaryKeyChange
<1>10. c.kind = "DeleteSecondary" /\ c.key = k
  BY <1>4
<1>11. e.byPrimary = bp /\ e.bySecondary = bs
  BY DEF WithEntries
<1>12. /\ bp \in [Indexes \X Ids \X Keys -> SecKeys \cup {undefined}]
       /\ bp[RowOf(k)] = undefined
       /\ [bp EXCEPT ![RowOf(k)] = k[4]] = d.byPrimary
  BY <1>2, <1>3, EntryParts
<1>13. bs \cup {k} = d.bySecondary
  OBVIOUS
<1>14. WithEntries(e, d.byPrimary, d.bySecondary) = d
  BY <1>1, <1>7, <1>12, EntriesReplaced
<1> HIDE DEF n, c, bp, bs, e
<1>15. CanUndo(c, e)
  BY <1>10, <1>11, <1>12 DEF CanUndo
<1>16. Undone(c, e, d)
  BY <1>10, <1>11, <1>12, <1>13, <1>14 DEF Undone, UndoDeleteSecondary
<1> QED
  BY <1>8, <1>9, <1>15, <1>16 DEF Undoes, n, c, e, bp, bs

-----------------------------------------------------------------------------
(* The journal.                                                            *)

(* The first n changes of the journal lead from one database of the past   *)
(* to the next, and the last of them to d.                                 *)
Chain(chs, pst, d, n) ==
  \A i \in 1 .. n : Undoes(chs[i], IF i < n THEN pst[i + 1] ELSE d, pst[i])

Journal(chs, pst, d) ==
  /\ chs \in Seq(Changes)
  /\ pst \in Seq(Databases)
  /\ Len(pst) = Len(chs)
  /\ Good(d)
  /\ \A i \in 1 .. Len(pst) : Good(pst[i])
  /\ Chain(chs, pst, d, Len(chs))

(* A change that can be undone makes the journal longer.                   *)
LEMMA JournalExtended ==
  ASSUME NEW chs, NEW pst, NEW d, Journal(chs, pst, d),
         NEW c \in Changes, NEW e, Good(e), Undoes(c, e, d)
  PROVE  Journal(Append(chs, c), Append(pst, d), e)
<1> DEFINE n == Len(chs)
<1>1. /\ chs \in Seq(Changes) /\ pst \in Seq(Databases) /\ n \in Nat
      /\ Len(pst) = n /\ d \in Databases
  BY DEF Journal, Good
<1>2. /\ Append(chs, c) \in Seq(Changes) /\ Len(Append(chs, c)) = n + 1
      /\ Append(pst, d) \in Seq(Databases) /\ Len(Append(pst, d)) = n + 1
  BY <1>1
<1>3. /\ \A i \in 1 .. n : /\ Append(chs, c)[i] = chs[i]
                          /\ Append(pst, d)[i] = pst[i]
      /\ Append(chs, c)[n + 1] = c /\ Append(pst, d)[n + 1] = d
  BY <1>1
<1>4. \A i \in 1 .. n + 1 : Good(Append(pst, d)[i])
  <2>1. TAKE i \in 1 .. n + 1
  <2>2. CASE i \in 1 .. n
    BY <1>1, <1>3, <2>2 DEF Journal
  <2>3. CASE i = n + 1
    BY <1>3, <2>3 DEF Journal
  <2> QED
    BY <1>1, <2>2, <2>3
<1>5. Chain(Append(chs, c), Append(pst, d), e, n + 1)
  <2>1. SUFFICES ASSUME NEW i \in 1 .. n + 1
                 PROVE  Undoes(Append(chs, c)[i],
                               IF i < n + 1 THEN Append(pst, d)[i + 1] ELSE e,
                               Append(pst, d)[i])
    BY DEF Chain
  <2>2. CASE i = n + 1
    BY <1>1, <1>3, <2>2
  <2>3. CASE i = n /\ n # 0
    <3>1. Undoes(chs[n], d, pst[n])
      BY <1>1, <2>3 DEF Journal, Chain
    <3> QED
      BY <1>1, <1>3, <2>3, <3>1
  <2>4. CASE i \in 1 .. n - 1
    <3>1. Undoes(chs[i], pst[i + 1], pst[i])
      BY <1>1, <2>4 DEF Journal, Chain
    <3>2. i \in 1 .. n /\ i + 1 \in 1 .. n /\ i < n + 1
      BY <1>1, <2>4
    <3> QED
      BY <1>3, <3>1, <3>2
  <2> QED
    BY <1>1, <2>2, <2>3, <2>4
<1> QED
  BY <1>2, <1>4, <1>5 DEF Journal

(* What undoing a change gives is determined by the change.                *)
LEMMA UndoneIsFunction ==
  ASSUME NEW c, NEW d, NEW e, NEW f, Undone(c, d, e), Undone(c, d, f)
  PROVE  e = f
  BY DEF Undone

-----------------------------------------------------------------------------
(* The inductive invariant: the journal accounts for the database, and     *)
(* while it is undone the database is the one before the last undone       *)
(* change.  TypeOK and the properties of single databases alone are not    *)
(* inductive: what a revert does next depends on the whole journal.        *)
InForce == IF phase = "reverting" THEN cursor ELSE Len(changes)

IInv ==
  /\ TypeOK
  /\ phase # "corrupted"
  /\ Len(past) = Len(changes)
  /\ snapshot <= Len(changes)
  /\ Good(db)
  /\ \A i \in 1 .. Len(past) : Good(past[i])
  /\ Chain(changes, past, db, InForce)
  /\ phase = "reverting" =>
       /\ snapshot <= cursor
       /\ cursor <= Len(changes)
       /\ cursor < Len(changes) => db = past[cursor + 1]

(* An operation that leaves a journal behind keeps the invariant.          *)
LEMMA OperationKeepsIInv ==
  ASSUME IInv, Usable, Journal(changes', past', db'),
         Len(changes') >= Len(changes), size' \in [Ids -> Int],
         UNCHANGED <<phase, snapshot, cursor, drifted>>
  PROVE  IInv'
<1>1. Len(changes) \in Nat /\ Len(changes') \in Nat /\ snapshot \in Nat
  BY DEF IInv, TypeOK, Journal
<1>2. TypeOK'
  BY DEF IInv, TypeOK, Journal, Good
<1>3. phase' # "reverting" /\ phase' # "corrupted"
  BY DEF Usable
<1>4. snapshot' <= Len(changes')
  BY <1>1 DEF IInv
<1>5. Chain(changes', past', db', InForce')
  BY <1>3 DEF Journal, InForce
<1> QED
  BY <1>2, <1>3, <1>4, <1>5 DEF IInv, Journal

(* The journal of a state in which operations run.                         *)
LEMMA IInvJournal ==
  ASSUME IInv, Usable
  PROVE  Journal(changes, past, db)
  BY DEF IInv, Usable, InForce, Journal, TypeOK

(* The case of an operation that pushes one change.                        *)
LEMMA PushKeepsIInv ==
  ASSUME IInv, Usable, NEW c, Push(c),
         Good(db') /\ c \in Changes /\ Undoes(c, db', db),
         size' \in [Ids -> Int],
         UNCHANGED <<phase, snapshot, cursor, drifted>>
  PROVE  IInv'
<1>1. Journal(changes, past, db)
  BY IInvJournal
<1>2. Journal(changes', past', db')
  BY <1>1, JournalExtended DEF Push
<1>3. Len(changes') >= Len(changes)
  BY <1>1 DEF Push, Journal
<1> QED
  BY <1>2, <1>3, OperationKeepsIInv

-----------------------------------------------------------------------------
(* Counting rows up, down or from zero leaves counts.                      *)
LEMMA SizeCounts ==
  ASSUME NEW sz \in [Ids -> Int], NEW t
  PROVE  /\ [sz EXCEPT ![t] = 0] \in [Ids -> Int]
         /\ [sz EXCEPT ![t] = @ + 1] \in [Ids -> Int]
         /\ [sz EXCEPT ![t] = @ - 1] \in [Ids -> Int]
<1>1. CASE t \in Ids
  BY <1>1
<1>2. CASE t \notin Ids
  BY <1>2
<1> QED
  BY <1>1, <1>2

(* The store starts with an empty journal.                                 *)
LEMMA InitIInv == Init => IInv
<1> SUFFICES ASSUME Init PROVE IInv
  OBVIOUS
<1>1. EmptyDb \in Databases
  BY BoundsAssumption DEF EmptyDb, Databases
<1>2. PrefixesAgree(EmptyDb)
  BY DEF PrefixesAgree, EmptyDb
<1>3. TreesAgree(EmptyDb)
  BY EntryParts, UndefinedAssumption DEF TreesAgree, EmptyDb
<1>4. IdsGiven(EmptyDb)
  BY DEF IdsGiven, EmptyDb
<1>5. Good(db)
  BY <1>1, <1>2, <1>3, <1>4 DEF Good, Init
<1>6. TypeOK
  <2>1. changes \in Seq(Changes) /\ past \in Seq(Databases)
    BY DEF Init
  <2>2. size \in [Ids -> Int]
    BY DEF Init
  <2> QED
    BY <1>1, <2>1, <2>2 DEF Init, TypeOK
<1>7. Chain(changes, past, db, InForce)
  BY DEF Init, Chain, InForce
<1> QED
  BY <1>5, <1>6, <1>7 DEF IInv, Init

(* Every operation, and every step of a transaction, keeps the invariant.  *)
LEMMA NextIInv == IInv /\ [Next]_vars => IInv'
<1> SUFFICES ASSUME IInv, [Next]_vars PROVE IInv'
  OBVIOUS
<1> USE DEF IInv
<1>0. size \in [Ids -> Int]
  BY DEF TypeOK
<1>1. ASSUME NEW p \in Prefixes, CreateTable(p)
      PROVE  IInv'
  <2>1. size' \in [Ids -> Int]
    BY <1>0, <1>1, SizeCounts DEF CreateTable
  <2>2. Usable /\ Push([kind |-> "CreatePrefix", prefix |-> p])
        /\ UNCHANGED <<phase, snapshot, cursor, drifted>>
    BY <1>1 DEF CreateTable
  <2>3. LET c == [kind |-> "CreatePrefix", prefix |-> p]
        IN  Good(db') /\ c \in Changes /\ Undoes(c, db', db)
    BY <1>1, CreatePrefixUndone DEF CreateTable
  <2> QED
    BY <2>1, <2>2, <2>3, PushKeepsIInv
<1>2. ASSUME NEW r \in Prefixes \X Keys, NEW v \in Values, CreateRow(r, v)
      PROVE  IInv'
  <2>1. size' \in [Ids -> Int]
    BY <1>0, <1>2, SizeCounts DEF CreateRow
  <2>2. Usable /\ Push([kind |-> "CreateItem", key |-> r,
                       table |-> db.prefixes[r[1]]])
        /\ UNCHANGED <<phase, snapshot, cursor, drifted>>
    BY <1>2 DEF CreateRow
  <2>3. LET c == [kind |-> "CreateItem", key |-> r,
                  table |-> db.prefixes[r[1]]]
        IN  Good(db') /\ c \in Changes /\ Undoes(c, db', db)
    BY <1>2, CreateItemUndone DEF CreateRow
  <2> QED
    BY <2>1, <2>2, <2>3, PushKeepsIInv
<1>3. ASSUME NEW r \in Prefixes \X Keys, NEW v \in Values, UpdateRow(r, v)
      PROVE  IInv'
  <2>1. size' \in [Ids -> Int]
    BY <1>3 DEF UpdateRow, TypeOK
  <2>2. Usable /\ Push([kind |-> "UpdateItem", key |-> r,
                       value |-> db.rows[r]])
        /\ UNCHANGED <<phase, snapshot, cursor, drifted>>
    BY <1>3 DEF UpdateRow
  <2>3. LET c == [kind |-> "UpdateItem", key |-> r, value |-> db.rows[r]]
        IN  Good(db') /\ c \in Changes /\ Undoes(c, db', db)
    BY <1>3, UpdateItemUndone DEF UpdateRow
  <2> QED
    BY <2>1, <2>2, <2>3, PushKeepsIInv
<1>4. ASSUME NEW r \in Prefixes \X Keys, DeleteRow(r)
      PROVE  IInv'
  <2> DEFINE t       == db.prefixes[r[1]]
             removed == WithRow(db, r, undefined)
             item    == [kind |-> "DeleteItem", key |-> r,
                         value |-> db.rows[r]]
             table   == [kind |-> "DeletePrefix", prefix |-> r[1], id |-> t]
  <2>1. /\ Usable /\ t # undefined /\ db.rows[r] # undefined
        /\ size' \in [Ids -> Int]
        /\ UNCHANGED <<phase, snapshot, cursor, drifted>>
    BY <1>0, <1>4, SizeCounts DEF DeleteRow
  <2>2. Good(removed) /\ item \in Changes /\ Undoes(item, removed, db)
    BY <2>1, DeleteItemUndone
  <2>3. CASE Push(item) /\ db' = removed
    BY <2>1, <2>2, <2>3, PushKeepsIInv
  <2>4. CASE /\ changes' = Append(Append(changes, item), table)
             /\ past' = Append(Append(past, db), removed)
             /\ db' = WithTables(removed,
                                 [db.prefixes EXCEPT ![r[1]] = undefined],
                                 [db.index EXCEPT ![t] = undefined], db.seq)
    <3>1. Journal(changes, past, db)
      BY <2>1, IInvJournal
    <3>2. Journal(Append(changes, item), Append(past, db), removed)
      BY <2>2, <3>1, JournalExtended
    <3>3. removed.prefixes = db.prefixes /\ removed.index = db.index
          /\ removed.seq = db.seq
      BY DEF WithRow
    <3> HIDE DEF removed, item
    <3>4. Good(db') /\ table \in Changes /\ Undoes(table, db', removed)
      BY <2>1, <2>2, <2>4, <3>3, DeletePrefixUndone
    <3> HIDE DEF table
    <3>5. Journal(changes', past', db')
      BY <2>4, <3>2, <3>4, JournalExtended
    <3>6. Len(changes') >= Len(changes)
      BY <2>4, <3>1, <3>5 DEF Journal
    <3> QED
      BY <2>1, <3>5, <3>6, OperationKeepsIInv
  <2> QED
    BY <1>4, <2>3, <2>4 DEF DeleteRow
<1>5. ASSUME NEW i \in Indexes, NEW p \in Prefixes, NEW k \in Keys,
             NEW s \in SecKeys, StoreSecondary(i, p, k, s)
      PROVE  IInv'
  <2> DEFINE e == <<i, db.prefixes[p], k, s>>
             c == [kind |-> "CreateSecondary", key |-> e]
  <2>1. /\ Usable /\ Push(c)
        /\ db.prefixes[p] # undefined /\ db.byPrimary[RowOf(e)] = undefined
        /\ db' = WithEntries(db, [db.byPrimary EXCEPT ![RowOf(e)] = s],
                                 db.bySecondary \cup {e})
        /\ size' \in [Ids -> Int]
        /\ UNCHANGED <<phase, snapshot, cursor, drifted>>
    BY <1>5 DEF StoreSecondary, TypeOK
  <2>2. db.prefixes[p] \in Ids /\ db.prefixes[p] < db.seq
    BY <2>1 DEF Good, PrefixesAgree, Databases
  <2>3. e \in Entries /\ e[2] = db.prefixes[p] /\ e[4] = s
    BY <2>2 DEF Entries
  <2> HIDE DEF e
  <2>4. Good(db') /\ c \in Changes /\ Undoes(c, db', db)
    BY <2>1, <2>2, <2>3, CreateSecondaryUndone
  <2> QED
    BY <2>1, <2>4, PushKeepsIInv
<1>6. ASSUME NEW k \in Entries, NEW s \in SecKeys, UpdateSecondary(k, s)
      PROVE  IInv'
  <2> DEFINE n == <<k[1], k[2], k[3], s>>
             c == [kind |-> "UpdateSecondary", key |-> k, newKey |-> n]
  <2>1. /\ Usable /\ Push(c) /\ k \in db.bySecondary
        /\ db' = WithEntries(db, [db.byPrimary EXCEPT ![RowOf(k)] = s],
                                 (db.bySecondary \ {k}) \cup {n})
        /\ size' \in [Ids -> Int]
        /\ UNCHANGED <<phase, snapshot, cursor, drifted>>
    BY <1>6 DEF UpdateSecondary, TypeOK
  <2>2. Good(db') /\ c \in Changes /\ Undoes(c, db', db)
    BY <2>1, UpdateSecondaryUndone
  <2> QED
    BY <2>1, <2>2, PushKeepsIInv
<1>7. ASSUME NEW k \in Entries, DeleteSecondary(k)
      PROVE  IInv'
  <2> DEFINE n == <<k[1], k[2], k[3], db.byPrimary[RowOf(k)]>>
             c == [kind |-> "DeleteSecondary", key |-> n]
  <2>1. /\ Usable /\ Push(c) /\ k \in db.bySecondary
        /\ db' = WithEntries(db, [db.byPrimary EXCEPT ![RowOf(k)] = undefined],
                                 db.bySecondary \ {k})
        /\ size' \in [Ids -> Int]
        /\ UNCHANGED <<phase, snapshot, cursor, drifted>>
    BY <1>7 DEF DeleteSecondary, TypeOK
  <2>2. Good(db') /\ c \in Changes /\ Undoes(c, db', db)
    BY <2>1, DeleteSecondaryUndone
  <2> QED
    BY <2>1, <2>2, PushKeepsIInv
<1>8. CASE Begin
  BY <1>8 DEF Begin, TypeOK, InForce
<1>9. CASE Commit
  BY <1>9 DEF Commit, TypeOK, InForce
<1>10. CASE Abort
  BY <1>10 DEF Abort, TypeOK, InForce
<1>11. CASE RevertOne
  <2> DEFINE c == changes[cursor]
  <2>1. /\ phase = "reverting" /\ cursor > snapshot
        /\ cursor \in 1 .. Len(changes) /\ InForce = cursor
        /\ cursor \in Nat /\ snapshot \in Nat /\ Len(changes) \in Nat
    BY <1>11 DEF RevertOne, TypeOK, InForce
  <2>2. Undoes(c, db, past[cursor])
    BY <2>1 DEF Chain
  <2>3. /\ Undone(c, db, db') /\ size' = UndoSize(c, size)
        /\ cursor' = cursor - 1
        /\ drifted' = (drifted \/ c.kind = "DeleteItem")
        /\ UNCHANGED <<phase, changes, snapshot, past>>
    BY <1>11, <2>2 DEF RevertOne, Undoes
  <2>4. db' = past[cursor]
    BY <2>2, <2>3, UndoneIsFunction DEF Undoes
  <2>5. Good(db')
    BY <2>1, <2>4
  <2>6. size' \in [Ids -> Int]
    BY <1>0, <2>3, SizeCounts DEF UndoSize
  <2>7. TypeOK'
    BY <2>1, <2>3, <2>5, <2>6 DEF TypeOK, Good
  <2>8. Chain(changes', past', db', InForce')
    <3>1. InForce' = cursor - 1
      BY <2>1, <2>3 DEF InForce
    <3>2. SUFFICES ASSUME NEW i \in 1 .. cursor - 1
                   PROVE  Undoes(changes[i],
                                 IF i < cursor - 1 THEN past[i + 1] ELSE db',
                                 past[i])
      BY <2>3, <3>1 DEF Chain
    <3>3. Undoes(changes[i], past[i + 1], past[i])
      BY <2>1 DEF Chain
    <3>4. CASE i < cursor - 1
      BY <3>3, <3>4
    <3>5. CASE i = cursor - 1
      BY <2>1, <2>4, <3>3, <3>5
    <3> QED
      BY <2>1, <3>4, <3>5
  <2> QED
    BY <2>1, <2>3, <2>4, <2>5, <2>7, <2>8
<1>12. CASE RevertEnd
  <2>1. /\ phase = "reverting" /\ phase' = "idle" /\ cursor = snapshot
        /\ snapshot \in Nat /\ snapshot <= Len(changes)
        /\ changes \in Seq(Changes) /\ past \in Seq(Databases)
        /\ changes' = SubSeq(changes, 1, snapshot)
        /\ past' = SubSeq(past, 1, snapshot)
        /\ snapshot' = 0 /\ cursor' = 0
        /\ UNCHANGED <<db, size, drifted>>
    BY <1>12 DEF RevertEnd, TypeOK
  <2>2. /\ changes' \in Seq(Changes) /\ Len(changes') = snapshot
        /\ past' \in Seq(Databases) /\ Len(past') = snapshot
        /\ \A i \in 1 .. snapshot : changes'[i] = changes[i] /\ past'[i] = past[i]
    BY <2>1
  <2>3. TypeOK'
    BY <2>1, <2>2 DEF TypeOK
  <2>4. InForce = snapshot /\ InForce' = snapshot
    BY <2>1, <2>2 DEF InForce
  <2>5. Chain(changes', past', db', InForce')
    BY <2>1, <2>2, <2>4 DEF Chain
  <2> QED
    BY <2>1, <2>2, <2>3, <2>5
<1>13. CASE UNCHANGED vars
  BY <1>13 DEF vars, TypeOK, InForce
<1> QED
  BY <1>1, <1>2, <1>3, <1>4, <1>5, <1>6, <1>7, <1>8, <1>9, <1>10, <1>11,
     <1>12, <1>13 DEF Next, Operation, Revert

-----------------------------------------------------------------------------
(* The theorems.                                                           *)

(* The inductive invariant holds of every behaviour of the store.          *)
THEOREM Invariance == Spec => []IInv
  BY InitIInv, NextIInv, PTL DEF Spec

(* Every variable of the store keeps to its type.                          *)
THEOREM TypeCorrect == Spec => []TypeOK
<1>1. IInv => TypeOK
  BY DEF IInv
<1> QED
  BY <1>1, Invariance, PTL

(* No revert throws 'revert stack is corrupted'.                           *)
THEOREM NeverCorrupted == Spec => []RevertNeverThrows
<1>1. IInv => RevertNeverThrows
  BY DEF IInv, RevertNeverThrows
<1> QED
  BY <1>1, Invariance, PTL

(* prefixes and prefixesIndex agree, the two trees of each secondary key   *)
(* store agree, and nothing refers to a table id that is yet to be given.  *)
THEOREM StoreConsistent ==
  Spec => [](StorePrefixesAgree /\ StoreTreesAgree /\ StoreIdsGiven)
<1>1. IInv => StorePrefixesAgree /\ StoreTreesAgree /\ StoreIdsGiven
  BY DEF IInv, Good, StorePrefixesAgree, StoreTreesAgree, StoreIdsGiven
<1> QED
  BY <1>1, Invariance, PTL

(* When revertTo returns, the database is the one the snapshot was taken   *)
(* of.                                                                     *)
THEOREM RollbackExact == Spec => RollbackIsExact
<1> DEFINE A == phase = "reverting" /\ phase' = "idle" /\ snapshot < Len(past)
                   => db' = past[snapshot + 1]
<1>1. IInv /\ [Next]_vars => [A]_vars
  <2> SUFFICES ASSUME IInv, Next, phase = "reverting", phase' = "idle",
                      snapshot < Len(past)
               PROVE  db' = past[snapshot + 1]
    OBVIOUS
  <2>1. RevertEnd
    BY DEF Next, Operation, Revert, CreateTable, CreateRow, UpdateRow,
           DeleteRow, StoreSecondary, UpdateSecondary, DeleteSecondary,
           Usable, Begin, Commit, Abort, RevertOne
  <2> QED
    BY <2>1 DEF RevertEnd, IInv
<1> QED
  BY <1>1, Invariance, PTL DEF Spec, RollbackIsExact

(* The journalled store implements AtomicStore.  A step maps to the step   *)
(* of the same name; undoing one change is a stutter, because from outside *)
(* the database already is the saved one.                                  *)
THEOREM Implementation == Spec => ImplementsAtomicStore
<1>1. Init => Atomic!Init
  BY DEF Init, Atomic!Init
<1>2. IInv /\ IInv' /\ [Next]_vars => [Atomic!Next]_(Atomic!vars)
  <2> SUFFICES ASSUME IInv, IInv', [Next]_vars
               PROVE  [Atomic!Next]_(Atomic!vars)
    OBVIOUS
  <2>0. /\ Len(past) = Len(changes) /\ snapshot <= Len(past)
        /\ snapshot \in Nat /\ Len(past) \in Nat
        /\ db' \in Databases
    BY DEF IInv, TypeOK
  <2>1. CASE Operation
    <3>1. /\ Usable /\ UNCHANGED <<phase, snapshot>>
      BY <2>1 DEF Operation, CreateTable, CreateRow, UpdateRow,
           DeleteRow, StoreSecondary, UpdateSecondary, DeleteSecondary
    <3>2. \/ past' = Append(past, db)
          \/ \E d \in Databases : past' = Append(Append(past, db), d)
      <4>1. CASE \E x \in Prefixes \X Keys : DeleteRow(x)
        <5>1. PICK x \in Prefixes \X Keys : DeleteRow(x)
          BY <4>1
        <5>2. WithRow(db, x, undefined) \in Databases
          BY RowReplaced DEF IInv, Good
        <5> QED
          BY <5>1, <5>2 DEF DeleteRow, Push
      <4>2. CASE ~ \E x \in Prefixes \X Keys : DeleteRow(x)
        BY <2>1, <4>2 DEF Operation, CreateTable, CreateRow, UpdateRow,
           StoreSecondary, UpdateSecondary, DeleteSecondary, Push
      <4> QED
        BY <4>1, <4>2
    <3>3. Saved' = Saved
      <4>1. past \in Seq(Databases) /\ db \in Databases
        BY DEF IInv, TypeOK
      <4>2. CASE past' = Append(past, db)
        BY <2>0, <3>1, <4>1, <4>2 DEF Saved
      <4>3. CASE \E d \in Databases : past' = Append(Append(past, db), d)
        BY <2>0, <3>1, <4>1, <4>3 DEF Saved
      <4> QED
        BY <3>2, <4>2, <4>3
    <3>4. Atomic!Write
      BY <2>0, <3>1, <3>3 DEF Atomic!Write, Usable
    <3> QED
      BY <3>4 DEF Atomic!Next
  <2>2. CASE Begin
    BY <2>0, <2>2 DEF Begin, Atomic!Begin, Atomic!Next, Saved
  <2>3. CASE Commit
    BY <2>0, <2>3 DEF Commit, Atomic!Commit, Atomic!Next
  <2>4. CASE Abort
    BY <2>0, <2>4 DEF Abort, Atomic!Abort, Atomic!Next, Saved
  <2>5. CASE RevertOne
    <3>1. /\ phase = "reverting" /\ phase' = "reverting"
          /\ snapshot < cursor /\ cursor <= Len(past)
          /\ UNCHANGED <<snapshot, past>>
      BY <2>0, <2>5 DEF RevertOne, IInv
    <3>2. Saved' = Saved
      BY <2>0, <3>1 DEF Saved, IInv, TypeOK
    <3> QED
      BY <3>1, <3>2 DEF Atomic!vars
  <2>6. CASE RevertEnd
    BY <2>0, <2>6 DEF RevertEnd, Atomic!Restored, Atomic!Next, Saved, IInv
  <2>7. CASE UNCHANGED vars
    BY <2>7 DEF vars, Atomic!vars, Saved
  <2> QED
    BY <2>1, <2>2, <2>3, <2>4, <2>5, <2>6, <2>7 DEF Next, Revert
<1> QED
  BY <1>1, <1>2, Invariance, PTL DEF Spec, ImplementsAtomicStore, Atomic!Spec
=============================================================================
