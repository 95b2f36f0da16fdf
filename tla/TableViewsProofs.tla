-------------------------- MODULE TableViewsProofs --------------------------
(***************************************************************************)
(* Proofs about TableViews: the views that tests hold, across commits,     *)
(* aborts, dropped tables and resetTables.                                 *)
(*                                                                         *)
(* The argument.  All steps but those of the test are steps of TableStore, *)
(* whose invariant IInv and whose counts they keep.  A view writes what a  *)
(* contract could write, but for the id, which may be that of a table that *)
(* was dropped: the row still is one that the journal undoes, and a count  *)
(* is spoilt only in a store that is misused from then on.  The same holds *)
(* of the stores that resetTables took away.  A held id is given to no     *)
(* other table because an aborted transaction takes the store back to a    *)
(* database that the view was made in or after: while a transaction may    *)
(* still be undone, the databases that it passed keep the ids too.         *)
(***************************************************************************)
EXTENDS TableViews, TableCountProofs

(* A store that is not the chain's: its journal accounts for it, and its   *)
(* counts fit as long as nothing spoilt them.                              *)
Whole(c) == /\ Journal(c.changes, c.past, c.db)
            /\ c.size \in [Ids -> Int]
            /\ c.drifted \in BOOLEAN

CountsFit(c) ==
  ~c.drifted => /\ Shaped(c.db)
                /\ Counted(c.db, c.size)
                /\ \A i \in 1 .. Len(c.changes) :
                     Shaped(c.past[i]) /\ Recorded(c.changes[i], c.past[i])

(* The id of a view is not another table's, nor still to be given.         *)
Kept(d, v) == d.index[v.id] \in {v.prefix, undefined} /\ v.id < d.seq

Views == [store : Stores, prefix : Prefixes, id : Ids]

(* All the databases that an abort would pass have the view's id.          *)
KeptInStore(v) ==
  IF v.store = current
  THEN /\ Kept(db, v)
       /\ phase # "idle" =>
            \A k \in snapshot + 1 .. InForce : Kept(past[k], v)
  ELSE Kept(stored[v.store].db, v)

(* The inductive invariant.  The properties alone are not inductive:       *)
(* whether an abort or resetTables keeps a view's id is a matter of the    *)
(* databases that are not there now.                                       *)
StoresOK == /\ current \in Stores
            /\ DOMAIN stored = Stores
            /\ stored = [s \in Stores |-> stored[s]]
            /\ \A s \in Stores \ {current} :
                 Whole(stored[s]) /\ (s \notin misused => CountsFit(stored[s]))

ViewsOK == /\ views \in [1 .. MaxViews -> Views \cup {undefined}]
           /\ \A i \in Held : KeptInStore(views[i])

VInv == /\ IInv
        /\ current \notin misused => CountInv
        /\ phase = "idle" => snapshot = 0
        /\ StoresOK
        /\ ViewsOK

-----------------------------------------------------------------------------
(* What a view writes.                                                     *)

(* The change of a row written under any id that was given undoes it.      *)
LEMMA RowWrittenUndone ==
  ASSUME NEW d, Good(d), NEW r \in Prefixes \X Keys, NEW v \in Values,
         NEW t \in Ids, t < d.seq
  PROVE  LET x == [tableId |-> t, value |-> v]
             c == IF d.rows[r] = undefined
                  THEN [kind |-> "CreateItem", key |-> r, table |-> t]
                  ELSE [kind |-> "UpdateItem", key |-> r,
                        value |-> d.rows[r]]
         IN  /\ Good(WithRow(d, r, x))
             /\ c \in Changes
             /\ Undoes(c, WithRow(d, r, x), d)
<1> DEFINE x == [tableId |-> t, value |-> v]
           e == WithRow(d, r, x)
           m == [kind |-> "CreateItem", key |-> r, table |-> t]
           u == [kind |-> "UpdateItem", key |-> r, value |-> d.rows[r]]
<1>1. d \in Databases /\ d.rows[r] \in Rows \cup {undefined}
  BY DEF Good, Databases
<1>2. x \in Rows /\ x # undefined /\ x.tableId < d.seq
  BY UndefinedAssumption DEF Rows
<1>3. m \in Changes /\ m.kind = "CreateItem" /\ m.key = r
  BY DEF Changes, CreateItemChange
<1>4. /\ d.rows[r] # undefined => u \in Changes
      /\ u.kind = "UpdateItem" /\ u.key = r /\ u.value = d.rows[r]
  BY <1>1 DEF Changes, UpdateItemChange
<1> HIDE DEF x, m, u
<1>5. Good(e)
  BY <1>2, RowKeepsGood
<1>6. e.rows[r] # undefined /\ WithRow(e, r, d.rows[r]) = d
  BY <1>1, <1>2, RowReplaced
<1> HIDE DEF e
<1>7. d.rows[r] = undefined => Undoes(m, e, d)
  BY <1>3, <1>6 DEF Undoes, CanUndo, Undone, UndoCreateItem
<1>8. d.rows[r] # undefined => Undoes(u, e, d)
  BY <1>4, <1>6 DEF Undoes, CanUndo, Undone, UndoUpdateItem
<1> QED BY <1>3, <1>4, <1>5, <1>7, <1>8 DEF x, e, m, u

(* The store that a view wrote to, whatever became of the view's table.    *)
LEMMA SetByKeepsWhole ==
  ASSUME NEW c, Whole(c), NEW v \in Views, Kept(c.db, v),
         NEW k \in Keys, NEW val \in Values
  PROVE  LET e == SetBy(v, k, val, c)
         IN  /\ Whole(e)
             /\ e.db.index = c.db.index /\ e.db.seq = c.db.seq
             /\ Len(e.changes) >= Len(c.changes)
             /\ e.drifted = c.drifted
<1> DEFINE e == SetBy(v, k, val, c)
           r == <<v.prefix, k>>
           x == [tableId |-> v.id, value |-> val]
           m == IF c.db.rows[r] = undefined
                THEN [kind |-> "CreateItem", key |-> r, table |-> v.id]
                ELSE [kind |-> "UpdateItem", key |-> r,
                      value |-> c.db.rows[r]]
<1>1. v.prefix \in Prefixes /\ v.id \in Ids /\ v.id < c.db.seq
      /\ r \in Prefixes \X Keys
  BY DEF Views, Kept
<1>2. /\ e.db = WithRow(c.db, r, x)
      /\ e.changes = Append(c.changes, m)
      /\ e.past = Append(c.past, c.db)
      /\ e.size = IF c.db.rows[r] = undefined
                  THEN [c.size EXCEPT ![v.id] = @ + 1] ELSE c.size
      /\ e.drifted = c.drifted
  BY DEF SetBy
<1>3. Good(WithRow(c.db, r, x)) /\ m \in Changes
      /\ Undoes(m, WithRow(c.db, r, x), c.db)
  BY <1>1, RowWrittenUndone DEF Whole, Journal
<1> HIDE DEF x, m, e, r
<1>4. Journal(e.changes, e.past, e.db)
  BY <1>2, <1>3, JournalExtended DEF Whole
<1>5. e.size \in [Ids -> Int]
  <2>1. c.size \in [Ids -> Int]
    BY DEF Whole
  <2>2. [c.size EXCEPT ![v.id] = @ + 1] \in [Ids -> Int]
    BY <2>1, SizeCounts
  <2> QED BY <1>2, <2>1, <2>2
<1>6. Len(e.changes) >= Len(c.changes)
  BY <1>2, <1>3 DEF Whole, Journal
<1>7. e.db.index = c.db.index /\ e.db.seq = c.db.seq
  BY <1>2 DEF WithRow
<1> QED BY <1>2, <1>4, <1>5, <1>6, <1>7 DEF Whole, e

(* A view of a registered table counts as its table would.                 *)
LEMMA SetByKeepsCounts ==
  ASSUME NEW c, Whole(c), CountsFit(c), NEW v \in Views,
         c.db.prefixes[v.prefix] = v.id, NEW k \in Keys, NEW val \in Values
  PROVE  CountsFit(SetBy(v, k, val, c))
<1> DEFINE e == SetBy(v, k, val, c)
           r == <<v.prefix, k>>
           x == [tableId |-> v.id, value |-> val]
           m == IF c.db.rows[r] = undefined
                THEN [kind |-> "CreateItem", key |-> r, table |-> v.id]
                ELSE [kind |-> "UpdateItem", key |-> r,
                      value |-> c.db.rows[r]]
           n == Len(c.changes)
<1>1. /\ v.prefix \in Prefixes /\ v.id \in Ids /\ v.id # undefined
      /\ r \in Prefixes \X Keys /\ r[1] = v.prefix
      /\ x \in Rows /\ x.tableId = v.id
  BY UndefinedAssumption DEF Views, Rows
<1>2. /\ e.db = WithRow(c.db, r, x)
      /\ e.changes = Append(c.changes, m)
      /\ e.past = Append(c.past, c.db)
      /\ e.size = IF c.db.rows[r] = undefined
                  THEN [c.size EXCEPT ![v.id] = @ + 1] ELSE c.size
      /\ e.drifted = c.drifted
  BY DEF SetBy
<1>3. Recorded(m, c.db)
  BY <1>1 DEF Recorded
<1> HIDE DEF x, m, e, r
<1> SUFFICES ASSUME ~c.drifted
             PROVE  /\ Shaped(e.db)
                    /\ Counted(e.db, e.size)
                    /\ \A i \in 1 .. Len(e.changes) :
                         Shaped(e.past[i]) /\ Recorded(e.changes[i], e.past[i])
  BY <1>2 DEF CountsFit, e
<1>4. Good(c.db) /\ Shaped(c.db) /\ Counted(c.db, c.size)
  BY DEF Whole, Journal, CountsFit
<1>5. Shaped(e.db) /\ Counted(e.db, e.size)
  BY <1>1, <1>2, <1>4, RowPut
<1>6. /\ c.changes \in Seq(Changes) /\ c.past \in Seq(Databases)
      /\ n \in Nat /\ Len(c.past) = n
  BY DEF Whole, Journal
<1>7. /\ Len(e.changes) = n + 1
      /\ e.changes[n + 1] = m /\ e.past[n + 1] = c.db
      /\ \A i \in 1 .. n :
           e.changes[i] = c.changes[i] /\ e.past[i] = c.past[i]
  BY <1>2, <1>6
<1>8. ASSUME NEW i \in 1 .. n + 1
      PROVE  Shaped(e.past[i]) /\ Recorded(e.changes[i], e.past[i])
  <2>1. CASE i = n + 1
    BY <1>3, <1>4, <1>7, <2>1
  <2>2. CASE i \in 1 .. n
    BY <1>7, <2>2 DEF CountsFit
  <2> QED BY <1>6, <2>1, <2>2
<1> QED BY <1>5, <1>7, <1>8

-----------------------------------------------------------------------------
(* The ids of views while the store's own steps are taken.                 *)

(* One operation, which pushes one change or two.                          *)
LEMMA OperationKeepsIds ==
  ASSUME IInv, Operation, NEW v \in Views, Kept(db, v)
  PROVE  /\ Usable /\ UNCHANGED <<phase, snapshot>>
         /\ Kept(db', v)
         /\ \E d : /\ Kept(d, v)
                  /\ \/ past' = Append(past, db)
                     \/ past' = Append(Append(past, db), d)
<1>0. Good(db)
  BY DEF IInv
<1>1. v.id \in Ids /\ v.id < db.seq
  BY DEF Views, Kept
<1>2. ASSUME NEW p \in Prefixes, CreateTable(p)
      PROVE  Kept(db', v)
  <2>1. /\ db'.index = [db.index EXCEPT ![db.seq] = p]
        /\ db'.seq = db.seq + 1
    BY <1>2 DEF CreateTable, WithTables
  <2>2. db.seq \in Nat /\ v.id \in Nat
    BY <1>0, <1>1, BoundsAssumption DEF Good, Databases, Ids
  <2>3. v.id # db.seq /\ v.id < db.seq + 1
    BY <1>1, <2>2
  <2>4. db'.index[v.id] = db.index[v.id]
    BY <1>0, <2>1, <2>3 DEF Good, Databases
  <2> QED BY <2>1, <2>3, <2>4 DEF Kept
<1>3. ASSUME NEW r \in Prefixes \X Keys, DeleteRow(r)
      PROVE  /\ Kept(db', v)
             /\ \E d : /\ Kept(d, v)
                      /\ \/ past' = Append(past, db)
                         \/ past' = Append(Append(past, db), d)
  <2> DEFINE removed == WithRow(db, r, undefined)
  <2>1. Kept(removed, v)
    BY DEF Kept, WithRow
  <2>2. \/ db' = removed /\ past' = Append(past, db)
        \/ /\ past' = Append(Append(past, db), removed)
           /\ db' = WithTables(removed,
                               [db.prefixes EXCEPT ![r[1]] = undefined],
                               [db.index EXCEPT ![db.prefixes[r[1]]]
                                                   = undefined],
                               db.seq)
    BY <1>3 DEF DeleteRow, Push
  <2> HIDE DEF removed
  <2>3. ASSUME NEW t, db'.index = [db.index EXCEPT ![t] = undefined],
               db'.seq = db.seq
        PROVE  Kept(db', v)
    BY <1>0, <1>1, <2>3 DEF Kept, Good, Databases
  <2> QED BY <2>1, <2>2, <2>3 DEF WithTables
<1>4. ASSUME NEW r \in Prefixes \X Keys, NEW val \in Values,
             CreateRow(r, val) \/ UpdateRow(r, val)
      PROVE  Kept(db', v) /\ past' = Append(past, db)
  BY <1>4 DEF CreateRow, UpdateRow, WithRow, Kept, Push
<1>5. ASSUME NEW i \in Indexes, NEW p \in Prefixes, NEW k \in Keys,
             NEW s \in SecKeys, StoreSecondary(i, p, k, s)
      PROVE  Kept(db', v) /\ past' = Append(past, db)
  BY <1>5 DEF StoreSecondary, WithEntries, Kept, Push
<1>6. ASSUME NEW e \in Entries, NEW s \in SecKeys, UpdateSecondary(e, s)
      PROVE  Kept(db', v) /\ past' = Append(past, db)
  BY <1>6 DEF UpdateSecondary, WithEntries, Kept, Push
<1>7. ASSUME NEW e \in Entries, DeleteSecondary(e)
      PROVE  Kept(db', v) /\ past' = Append(past, db)
  BY <1>7 DEF DeleteSecondary, WithEntries, Kept, Push
<1>8. Usable /\ UNCHANGED <<phase, snapshot>>
  BY DEF Operation, CreateTable, CreateRow, UpdateRow, DeleteRow,
         StoreSecondary, UpdateSecondary, DeleteSecondary
<1>9. ASSUME NEW p \in Prefixes, CreateTable(p)
      PROVE  past' = Append(past, db)
  BY <1>9 DEF CreateTable, Push
<1> QED
  BY <1>2, <1>3, <1>4, <1>5, <1>6, <1>7, <1>8, <1>9 DEF Operation

(* All databases that an abort would pass keep the id, those that a step   *)
(* adds to them too.                                                       *)
LEMMA NextKeepsIds ==
  ASSUME IInv, IInv', [Next]_vars, NEW v \in Views, Kept(db, v),
         phase # "idle" =>
           \A k \in snapshot + 1 .. InForce : Kept(past[k], v)
  PROVE  /\ Kept(db', v)
         /\ phase' # "idle" =>
              \A k \in snapshot' + 1 .. InForce' : Kept(past'[k], v)
<1> DEFINE n == Len(changes)
<1>1. /\ past \in Seq(Databases) /\ n \in Nat /\ Len(past) = n
      /\ snapshot \in Nat /\ cursor \in Nat
      /\ phase # "corrupted" /\ phase' # "corrupted"
      /\ Len(past') = Len(changes')
  BY DEF IInv, TypeOK
<1>2. CASE Operation
  <2>1. /\ Usable /\ UNCHANGED <<phase, snapshot>>
        /\ Kept(db', v)
    BY <1>2, OperationKeepsIds
  <2>2. PICK d : /\ Kept(d, v)
                 /\ \/ past' = Append(past, db)
                    \/ past' = Append(Append(past, db), d)
    BY <1>2, OperationKeepsIds
  <2>3. InForce = n /\ InForce' = Len(past')
    BY <1>1, <2>1 DEF InForce, Usable
  <2>4. ASSUME phase # "idle", NEW k \in snapshot + 1 .. Len(past')
        PROVE  Kept(past'[k], v)
    <3>1. CASE past' = Append(past, db)
      <4>1. /\ Len(past') = n + 1 /\ past'[n + 1] = db
            /\ \A i \in 1 .. n : past'[i] = past[i]
        BY <1>1, <3>1
      <4>2. k = n + 1 \/ (k \in snapshot + 1 .. n /\ k \in 1 .. n)
        BY <1>1, <2>4, <4>1
      <4> QED BY <2>3, <2>4, <4>1, <4>2
    <3>2. CASE past' = Append(Append(past, db), d)
      <4>1. /\ Len(past') = n + 2
            /\ past'[n + 1] = db /\ past'[n + 2] = d
            /\ \A i \in 1 .. n : past'[i] = past[i]
        BY <1>1, <3>2
      <4>2. \/ k = n + 1
            \/ k = n + 2
            \/ (k \in snapshot + 1 .. n /\ k \in 1 .. n)
        BY <1>1, <2>4, <4>1
      <4> QED BY <2>2, <2>3, <2>4, <4>1, <4>2
    <3> QED BY <2>2, <3>1, <3>2
  <2> QED BY <2>1, <2>3, <2>4
<1>3. CASE Begin
  <2>1. /\ UNCHANGED <<db, changes, past>> /\ phase' = "open"
        /\ snapshot' = n /\ InForce' = n
    BY <1>3 DEF Begin, InForce
  <2>2. \A k \in n + 1 .. n : FALSE
    BY <1>1
  <2> QED BY <2>1, <2>2
<1>4. CASE Commit \/ RevertEnd
  BY <1>4 DEF Commit, RevertEnd
<1>5. CASE Abort \/ UNCHANGED vars
  <2>1. /\ UNCHANGED <<db, past, snapshot>> /\ InForce' = InForce
        /\ phase' # "idle" => phase # "idle"
    BY <1>5 DEF Abort, vars, InForce
  <2> QED BY <2>1
<1>6. CASE RevertOne
  <2> DEFINE c == changes[cursor]
  <2>1. /\ phase = "reverting" /\ cursor > snapshot /\ InForce = cursor
        /\ cursor \in 1 .. n /\ cursor \in snapshot + 1 .. cursor
    BY <1>1, <1>6 DEF RevertOne, InForce, IInv
  <2>2. Undoes(c, db, past[cursor])
    BY <2>1 DEF IInv, Chain
  <2>3. /\ Undone(c, db, db')
        /\ cursor' = cursor - 1
        /\ UNCHANGED <<phase, past, snapshot>>
    BY <1>6, <2>2 DEF RevertOne, Undoes
  <2>4. db' = past[cursor]
    BY <2>2, <2>3, UndoneIsFunction DEF Undoes
  <2>5. InForce' = cursor - 1
    BY <2>1, <2>3 DEF InForce
  <2> QED BY <1>1, <2>1, <2>3, <2>4, <2>5
<1> QED BY <1>2, <1>3, <1>4, <1>5, <1>6 DEF Next, Revert

-----------------------------------------------------------------------------
(* The steps.                                                              *)

(* A step of the store that is the chain's, while views stay as they are.  *)
LEMMA StoreStepKeepsVInv ==
  ASSUME VInv, [Next]_vars, UNCHANGED <<current, stored, views, misused>>
  PROVE  VInv'
<1>1. IInv'
  BY NextIInv DEF VInv
<1>2. current' \notin misused' => CountInv'
  BY <1>1, NextCounts DEF VInv
<1>3. phase' = "idle" => snapshot' = 0
  <2>1. CASE Operation \/ UNCHANGED vars
    <3>1. UNCHANGED <<phase, snapshot>>
      BY <2>1 DEF vars, Operation, CreateTable, CreateRow, UpdateRow,
         DeleteRow, StoreSecondary, UpdateSecondary, DeleteSecondary
    <3> QED BY <3>1 DEF VInv
  <2>2. CASE Begin \/ Commit \/ Abort \/ Revert
    BY <2>2 DEF Begin, Commit, Abort, Revert, RevertOne, RevertEnd
  <2> QED BY <2>1, <2>2 DEF Next
<1>4. StoresOK'
  BY DEF VInv, StoresOK
<1>5. ViewsOK'
  <2>1. Held' = Held
    BY DEF Held
  <2>2. SUFFICES ASSUME NEW i \in Held PROVE KeptInStore(views[i])'
    BY <2>1 DEF VInv, ViewsOK
  <2>3. views[i] \in Views /\ KeptInStore(views[i])
    BY DEF VInv, ViewsOK, Held
  <2>4. CASE views[i].store = current
    <3> DEFINE v == views[i]
    <3>1. /\ v \in Views /\ Kept(db, v)
          /\ phase # "idle" =>
               \A k \in snapshot + 1 .. InForce : Kept(past[k], v)
      BY <2>3, <2>4 DEF KeptInStore
    <3> HIDE DEF v
    <3>2. /\ Kept(db', v)
          /\ phase' # "idle" =>
               \A k \in snapshot' + 1 .. InForce' : Kept(past'[k], v)
      BY <1>1, <3>1, NextKeepsIds DEF VInv
    <3> QED BY <2>4, <3>2 DEF KeptInStore, v, Kept
  <2>5. CASE views[i].store # current
    BY <2>3, <2>5 DEF KeptInStore, Kept
  <2> QED BY <2>4, <2>5
<1> QED BY <1>1, <1>2, <1>3, <1>4, <1>5 DEF VInv

(* A view is made of a table that is there, or that is made for it.        *)
LEMMA OpenViewKeepsVInv ==
  ASSUME VInv, NEW i \in DOMAIN views, NEW p \in Prefixes, OpenView(i, p)
  PROVE  VInv'
<1>1. /\ phase = "idle" /\ UNCHANGED <<current, stored, misused>>
      /\ IInv /\ Good(db) /\ i \in 1 .. MaxViews
  BY DEF OpenView, Between, VInv, IInv, ViewsOK
<1> DEFINE id == IF db.prefixes[p] # undefined THEN db.prefixes[p]
                 ELSE db.seq
           w == [store |-> current, prefix |-> p, id |-> id]
<1>2. /\ views' = [views EXCEPT ![i] = w]
      /\ [Next]_vars
      /\ phase' = "idle"
  BY <1>1 DEF OpenView, CreateTable, Next, Operation, vars
<1>3. w \in Views /\ Kept(db', w)
  <2>1. CASE db.prefixes[p] # undefined
    <3>1. UNCHANGED vars
      BY <2>1 DEF OpenView, CreateTable
    <3>2. /\ id \in Ids /\ id < db.seq /\ db.index[id] = p
      BY <1>1, <2>1 DEF Good, PrefixesAgree, Databases
    <3> QED BY <3>1, <3>2 DEF Views, Kept, VInv, StoresOK, vars
  <2>2. CASE db.prefixes[p] = undefined
    <3>1. CreateTable(p) /\ id = db.seq
      BY <2>2 DEF OpenView
    <3>2. /\ db.seq \in Ids
          /\ db'.index = [db.index EXCEPT ![db.seq] = p]
          /\ db'.seq = db.seq + 1
      BY <1>1, <3>1, BoundsAssumption
         DEF CreateTable, WithTables, Good, Databases, Ids
    <3>3. db'.index[id] = p /\ id < db'.seq
      BY <1>1, <3>1, <3>2, BoundsAssumption DEF Good, Databases, Ids
    <3> QED BY <3>1, <3>2, <3>3 DEF Views, Kept, VInv, StoresOK
  <2> QED BY <2>1, <2>2
<1> HIDE DEF w, id
<1>4. IInv'
  BY <1>1, <1>2, NextIInv
<1>5. current' \notin misused' => CountInv'
  BY <1>1, <1>2, <1>4, NextCounts DEF VInv
<1>6. snapshot' = 0
  BY <1>1 DEF VInv, OpenView, CreateTable, vars
<1>7. StoresOK'
  BY <1>1 DEF VInv, StoresOK
<1>8. views' \in [1 .. MaxViews -> Views \cup {undefined}]
  BY <1>2, <1>3 DEF VInv, ViewsOK
<1>9. ASSUME NEW j \in Held'
      PROVE  KeptInStore(views[j])'
  <2>1. j \in 1 .. MaxViews /\ views'[j] # undefined
    BY <1>8 DEF Held
  <2>2. CASE j = i
    <3>1. views'[j] = w
      BY <1>1, <1>2, <2>2 DEF VInv, ViewsOK
    <3>2. w.store = current
      BY DEF w
    <3> QED BY <1>1, <1>2, <1>3, <3>1, <3>2 DEF KeptInStore
  <2>3. CASE j # i
    <3>1. views'[j] = views[j] /\ j \in Held
      BY <1>2, <2>1, <2>3 DEF VInv, ViewsOK, Held
    <3>2. views[j] \in Views /\ KeptInStore(views[j])
      BY <3>1 DEF VInv, ViewsOK, Held
    <3> DEFINE v == views[j]
    <3>3. CASE v.store = current
      <4>1. Kept(db, v) /\ v \in Views
        BY <3>2, <3>3 DEF KeptInStore
      <4> HIDE DEF v
      <4>2. Kept(db', v)
        BY <1>1, <1>2, <1>4, <4>1, NextKeepsIds
      <4> QED BY <1>1, <1>2, <3>1, <3>3, <4>2 DEF KeptInStore, v
    <3>4. CASE v.store # current
      BY <1>1, <3>1, <3>2, <3>4 DEF KeptInStore
    <3> QED BY <3>3, <3>4
  <2> QED BY <2>2, <2>3
<1>10. ViewsOK'
  BY <1>8, <1>9 DEF ViewsOK
<1> QED BY <1>4, <1>5, <1>6, <1>7, <1>10 DEF VInv

(* A view writes to the chain's store.                                     *)
LEMMA SetInCurrentKeepsVInv ==
  ASSUME VInv, NEW i \in Held, NEW k \in Keys, NEW val \in Values,
         ViewSet(views[i], k, val), views[i].store = current
  PROVE  VInv'
<1> DEFINE v == views[i]
           e == SetBy(v, k, val, Content)
<1>1. /\ IInv /\ v \in Views /\ Kept(db, v)
  BY DEF VInv, ViewsOK, Held, KeptInStore
<1>2. /\ phase = "idle" /\ Usable
      /\ Holds(e)
      /\ misused' = IF db.prefixes[v.prefix] = v.id THEN misused
                    ELSE misused \cup {current}
      /\ UNCHANGED <<phase, snapshot, cursor, current, stored, views>>
  BY DEF ViewSet, Between, Usable, StoreOf, Content
<1> HIDE DEF v
<1>3. /\ Content.db = db /\ Content.size = size
      /\ Content.changes = changes /\ Content.past = past
      /\ Content.drifted = drifted
  BY DEF Content
<1>4. Whole(Content)
  BY <1>1, <1>2, <1>3, IInvJournal DEF Whole, IInv, TypeOK
<1>5. /\ Whole(e)
      /\ e.db.index = db.index /\ e.db.seq = db.seq
      /\ Len(e.changes) >= Len(changes)
      /\ e.drifted = drifted
  <2> HIDE DEF e
  <2>1. Kept(Content.db, v)
    BY <1>1, <1>3
  <2> HIDE DEF Content
  <2> QED BY <1>1, <1>3, <1>4, <2>1, SetByKeepsWhole DEF e
<1>6. db.prefixes[v.prefix] = v.id /\ CountsFit(Content) => CountsFit(e)
  BY <1>1, <1>3, <1>4, SetByKeepsCounts
<1> HIDE DEF e
<1>7. /\ db' = e.db /\ size' = e.size /\ changes' = e.changes
      /\ past' = e.past /\ drifted' = e.drifted
  BY <1>2 DEF Holds
<1>8. IInv'
  BY <1>1, <1>2, <1>5, <1>7, OperationKeepsIInv DEF Whole
<1>9. ASSUME current' \notin misused'
      PROVE  CountInv'
  <2>1. current \notin misused /\ db.prefixes[v.prefix] = v.id
    BY <1>2, <1>9
  <2>2. InForce = Len(changes) /\ InForce' = Len(changes')
    BY <1>2 DEF InForce
  <2>3. CountsFit(Content)
    BY <1>3, <2>1, <2>2 DEF VInv, CountInv, CountsFit
  <2> QED BY <1>6, <1>7, <2>1, <2>2, <2>3 DEF CountInv, CountsFit
<1>10. phase' = "idle" /\ snapshot' = 0
  BY <1>2 DEF VInv
<1>11. StoresOK'
  <2>1. \A s \in Stores \ {current} : s \notin misused' => s \notin misused
    BY <1>2
  <2> QED BY <1>2, <2>1 DEF VInv, StoresOK
<1>12. ViewsOK'
  <2>1. Held' = Held
    BY <1>2 DEF Held
  <2>2. ASSUME NEW j \in Held
        PROVE  KeptInStore(views[j])'
    <3>1. db'.index = db.index /\ db'.seq = db.seq
      BY <1>5, <1>7
    <3>2. KeptInStore(views[j])
      BY DEF VInv, ViewsOK
    <3> QED BY <1>2, <1>10, <3>1, <3>2 DEF KeptInStore, Kept
  <2> QED BY <1>2, <2>1, <2>2 DEF VInv, ViewsOK
<1> QED BY <1>8, <1>9, <1>10, <1>11, <1>12 DEF VInv

(* A view writes to a store that resetTables took away.                    *)
LEMMA SetInStoredKeepsVInv ==
  ASSUME VInv, NEW i \in Held, NEW k \in Keys, NEW val \in Values,
         ViewSet(views[i], k, val), views[i].store # current
  PROVE  VInv'
<1> DEFINE v == views[i]
           q == v.store
           c == stored[q]
           e == SetBy(v, k, val, c)
<1>1. v \in Views /\ q \in Stores \ {current} /\ Kept(c.db, v)
  BY DEF VInv, ViewsOK, Held, KeptInStore, Views
<1>2. /\ phase = "idle"
      /\ stored' = [stored EXCEPT ![q] = e]
      /\ misused' = IF c.db.prefixes[v.prefix] = v.id THEN misused
                    ELSE misused \cup {q}
      /\ UNCHANGED <<vars, current, views>>
  BY DEF ViewSet, Between, StoreOf, vars, storeVars
<1>3. Whole(c) /\ (q \notin misused => CountsFit(c))
  BY <1>1 DEF VInv, StoresOK
<1> HIDE DEF v, c
<1>4. Whole(e) /\ e.db.index = c.db.index /\ e.db.seq = c.db.seq
  BY <1>1, <1>3, SetByKeepsWhole
<1>5. c.db.prefixes[v.prefix] = v.id /\ CountsFit(c) => CountsFit(e)
  BY <1>1, <1>3, SetByKeepsCounts
<1> HIDE DEF e, q
<1>6. /\ DOMAIN stored' = Stores
      /\ stored' = [s \in Stores |-> stored'[s]]
      /\ stored'[q] = e
      /\ \A s \in Stores : s # q => stored'[s] = stored[s]
  BY <1>1, <1>2 DEF VInv, StoresOK
<1>7. IInv' /\ (phase' = "idle" => snapshot' = 0)
  BY <1>2, NextIInv DEF VInv, vars
<1>8. current' \notin misused' => CountInv'
  <2>1. current' \notin misused' => current \notin misused
    BY <1>2
  <2> QED BY <1>2, <1>7, <2>1, NextCounts DEF VInv
<1>9. StoresOK'
  <2>1. ASSUME NEW s \in Stores \ {current}
        PROVE  Whole(stored'[s])
               /\ (s \notin misused' => CountsFit(stored'[s]))
    <3>1. CASE s = q
      BY <1>1, <1>2, <1>3, <1>4, <1>5, <1>6, <3>1
    <3>2. CASE s # q
      BY <1>2, <1>6, <2>1, <3>2 DEF VInv, StoresOK
    <3> QED BY <3>1, <3>2
  <2> QED BY <1>2, <1>6, <2>1 DEF VInv, StoresOK
<1>10. ViewsOK'
  <2>1. Held' = Held
    BY <1>2 DEF Held
  <2>2. ASSUME NEW j \in Held
        PROVE  KeptInStore(views[j])'
    <3>1. views[j] \in Views /\ KeptInStore(views[j])
      BY DEF VInv, ViewsOK, Held
    <3>2. CASE views[j].store = current
      BY <1>2, <3>1, <3>2 DEF KeptInStore, vars
    <3>3. CASE views[j].store = q
      BY <1>1, <1>2, <1>4, <1>6, <3>1, <3>3 DEF KeptInStore, Kept, c
    <3>4. CASE views[j].store # current /\ views[j].store # q
      BY <1>2, <1>6, <3>1, <3>4 DEF KeptInStore, Views
    <3> QED BY <3>2, <3>3, <3>4
  <2> QED BY <1>2, <2>1, <2>2 DEF VInv, ViewsOK
<1> QED BY <1>7, <1>8, <1>9, <1>10 DEF VInv

(* resetTables exchanges the chain's store for another one.                *)
LEMMA ResetKeepsVInv ==
  ASSUME VInv, NEW s \in Stores, ResetTables(s)
  PROVE  VInv'
<1> DEFINE c == stored[s]
<1>1. /\ phase = "idle" /\ s \in Stores \ {current}
      /\ current' = s
      /\ Holds(c)
      /\ stored' = [stored EXCEPT ![s] = EmptyStore, ![current] = Content]
      /\ UNCHANGED <<phase, snapshot, cursor, views, misused>>
  BY DEF ResetTables, Between
<1>2. /\ IInv /\ snapshot = 0 /\ current \in Stores
      /\ Whole(c) /\ (s \notin misused => CountsFit(c))
  BY <1>1 DEF VInv, StoresOK
<1>3. /\ DOMAIN stored' = Stores
      /\ stored' = [q \in Stores |-> stored'[q]]
      /\ stored'[current] = Content
      /\ \A q \in Stores : q # s /\ q # current => stored'[q] = stored[q]
  BY <1>1, <1>2 DEF VInv, StoresOK
<1> HIDE DEF c
<1>4. /\ db' = c.db /\ size' = c.size /\ changes' = c.changes
      /\ past' = c.past /\ drifted' = c.drifted
  BY <1>1 DEF Holds
<1>5. InForce = Len(changes) /\ InForce' = Len(changes')
  BY <1>1 DEF InForce
<1>6. IInv'
  <2>1. TypeOK'
    BY <1>1, <1>2, <1>4 DEF IInv, TypeOK, Whole, Journal, Good
  <2>2. Journal(changes', past', db')
    BY <1>2, <1>4 DEF Whole
  <2>3. snapshot' <= Len(changes')
    BY <1>1, <1>2, <2>2 DEF Journal
  <2> QED BY <1>1, <1>5, <2>1, <2>2, <2>3 DEF IInv, Journal
<1>7. current' \notin misused' => CountInv'
  BY <1>1, <1>2, <1>4, <1>5 DEF CountInv, CountsFit
<1>8. /\ Content.db = db /\ Content.size = size
      /\ Content.changes = changes /\ Content.past = past
      /\ Content.drifted = drifted
  BY DEF Content
<1>9. Whole(Content) /\ (current \notin misused => CountsFit(Content))
  <2>1. Journal(changes, past, db)
    BY <1>1, <1>2, IInvJournal DEF Usable
  <2>2. Whole(Content)
    BY <1>2, <1>8, <2>1 DEF Whole, IInv, TypeOK
  <2>3. current \notin misused => CountsFit(Content)
    BY <1>5, <1>8 DEF VInv, CountInv, CountsFit
  <2> QED BY <2>2, <2>3
<1>10. StoresOK'
  <2>1. ASSUME NEW q \in Stores \ {s}
        PROVE  Whole(stored'[q])
               /\ (q \notin misused => CountsFit(stored'[q]))
    <3>1. CASE q = current
      BY <1>3, <1>9, <3>1
    <3>2. CASE q # current
      BY <1>3, <2>1, <3>2 DEF VInv, StoresOK
    <3> QED BY <3>1, <3>2
  <2> QED BY <1>1, <1>3, <2>1 DEF StoresOK
<1>11. ViewsOK'
  <2>1. Held' = Held
    BY <1>1 DEF Held
  <2>2. ASSUME NEW j \in Held
        PROVE  KeptInStore(views[j])'
    <3>1. views[j] \in Views /\ KeptInStore(views[j])
      BY DEF VInv, ViewsOK, Held
    <3>2. CASE views[j].store = current
      BY <1>1, <1>3, <1>8, <3>1, <3>2 DEF KeptInStore
    <3>3. CASE views[j].store = s
      BY <1>1, <1>4, <3>1, <3>3 DEF KeptInStore, c
    <3>4. CASE views[j].store # current /\ views[j].store # s
      BY <1>1, <1>3, <3>1, <3>4 DEF KeptInStore, Views
    <3> QED BY <3>2, <3>3, <3>4
  <2> QED BY <1>1, <2>1, <2>2 DEF VInv, ViewsOK
<1> QED BY <1>1, <1>2, <1>6, <1>7, <1>10, <1>11 DEF VInv

(* All stores start empty, and the test holds no views.                    *)
LEMMA InitVInv == ViewInit => VInv
<1> SUFFICES ASSUME ViewInit PROVE VInv
  OBVIOUS
<1>1. IInv /\ CountInv
  BY InitIInv, InitCounts DEF ViewInit
<1>2. /\ EmptyStore.db = db /\ EmptyStore.size = size
      /\ EmptyStore.changes = changes /\ EmptyStore.past = past
      /\ EmptyStore.drifted = drifted
      /\ phase = "idle" /\ snapshot = 0
  BY DEF ViewInit, Init, EmptyStore
<1>3. Whole(EmptyStore)
  BY <1>1, <1>2, IInvJournal DEF Usable, Whole, IInv, TypeOK
<1>4. CountsFit(EmptyStore)
  BY <1>1, <1>2 DEF CountInv, CountsFit, InForce
<1>5. /\ stored = [s \in Stores |-> EmptyStore]
      /\ current = 1
      /\ views = [i \in 1 .. MaxViews |-> undefined]
  BY DEF ViewInit
<1> HIDE DEF EmptyStore
<1>6. StoresOK
  <2>1. current \in Stores
    BY <1>5, ViewsAssumption DEF Stores
  <2> QED BY <1>3, <1>4, <1>5, <2>1 DEF StoresOK
<1>7. ViewsOK
  BY <1>5 DEF ViewsOK, Held
<1> QED BY <1>1, <1>2, <1>6, <1>7 DEF VInv

(* The other steps are the store's own.                                    *)
LEMMA TransactionSteps ==
  ASSUME BeginTransaction \/ ContractStep \/ FinishTransaction
           \/ UNCHANGED allVars
  PROVE  [Next]_vars /\ UNCHANGED <<current, stored, views, misused>>
<1>1. CASE BeginTransaction
  BY <1>1 DEF BeginTransaction, UnchangedViews, Next
<1>2. CASE ContractStep
  BY <1>2 DEF ContractStep, viewVars, Next, Operation
<1>3. CASE FinishTransaction
  BY <1>3 DEF FinishTransaction, UnchangedViews, viewVars, Next, Revert
<1>4. CASE UNCHANGED allVars
  BY <1>4 DEF allVars, viewVars
<1> QED BY <1>1, <1>2, <1>3, <1>4

(* Every step keeps the invariant.                                         *)
LEMMA NextVInv == VInv /\ [ViewNext]_allVars => VInv'
<1> SUFFICES ASSUME VInv, [ViewNext]_allVars PROVE VInv'
  OBVIOUS
<1>1. ASSUME NEW i \in DOMAIN views, NEW p \in Prefixes, OpenView(i, p)
      PROVE  VInv'
  BY <1>1, OpenViewKeepsVInv
<1>2. ASSUME NEW i \in Held, NEW k \in Keys, NEW val \in Values,
             ViewSet(views[i], k, val)
      PROVE  VInv'
  BY <1>2, SetInCurrentKeepsVInv, SetInStoredKeepsVInv
<1>3. ASSUME NEW s \in Stores, ResetTables(s)
      PROVE  VInv'
  BY <1>3, ResetKeepsVInv
<1>4. CASE BeginTransaction \/ ContractStep \/ FinishTransaction
             \/ UNCHANGED allVars
  BY <1>4, TransactionSteps, StoreStepKeepsVInv
<1> QED BY <1>1, <1>2, <1>3, <1>4 DEF ViewNext, ViewStep

-----------------------------------------------------------------------------
(* Listings.                                                               *)

Sorts(f, S) == /\ f \in [1 .. Cardinality(S) -> S]
               /\ \A i, j \in DOMAIN f : i < j => f[i] < f[j]

(* A finite set of numbers can be put in order: the place of a number is   *)
(* how many numbers of the set are at most it.                             *)
LEMMA OrderExists ==
  ASSUME NEW S, S \subseteq Nat, IsFiniteSet(S)
  PROVE  \E f : Sorts(f, S)
<1> DEFINE n       == Cardinality(S)
           Upto(x) == {y \in S : y <= x}
           rank    == [x \in S |-> Cardinality(Upto(x))]
<1>1. n \in Nat
  BY FS_CardinalityType
<1>2. ASSUME NEW x \in S
      PROVE  rank[x] \in 1 .. n /\ IsFiniteSet(Upto(x))
  <2>1. Upto(x) \subseteq S /\ x \in Upto(x)
    OBVIOUS
  <2> HIDE DEF Upto
  <2>2. /\ IsFiniteSet(Upto(x)) /\ Cardinality(Upto(x)) <= n
        /\ Cardinality(Upto(x)) \in Nat /\ Cardinality(Upto(x)) # 0
    BY <2>1, FS_Subset, FS_CardinalityType, FS_EmptySet
  <2> QED BY <1>1, <2>2
<1>3. ASSUME NEW x \in S, NEW y \in S, x < y
      PROVE  rank[x] < rank[y]
  <2>1. Upto(x) \subseteq Upto(y) /\ y \in Upto(y) /\ y \notin Upto(x)
    <3>1. x \in Nat /\ y \in Nat /\ \A z \in S : z \in Nat
      OBVIOUS
    <3>2. \A z \in S : z <= x => z <= y
      BY <1>3, <3>1
    <3>3. y <= y /\ ~ (y <= x)
      BY <1>3, <3>1
    <3> QED BY <3>2, <3>3
  <2>2. IsFiniteSet(Upto(y)) /\ rank[x] \in 1 .. n /\ rank[y] \in 1 .. n
        /\ rank[x] = Cardinality(Upto(x)) /\ rank[y] = Cardinality(Upto(y))
    BY <1>2
  <2> HIDE DEF Upto, rank
  <2>3. /\ Cardinality(Upto(x)) <= Cardinality(Upto(y))
        /\ Cardinality(Upto(x)) # Cardinality(Upto(y))
    BY <2>1, <2>2, FS_Subset
  <2> QED BY <1>1, <2>2, <2>3
<1>4. rank \in [S -> 1 .. n]
  BY <1>2
<1> HIDE DEF rank
<1>5. rank \in Injection(S, 1 .. n)
  <2>1. ASSUME NEW x \in S, NEW y \in S, rank[x] = rank[y]
        PROVE  x = y
    <3>1. x \in Nat /\ y \in Nat /\ rank[x] \in Nat
      BY <1>1, <1>4
    <3> QED BY <1>3, <2>1, <3>1
  <2> QED BY <1>4, <2>1 DEF Injection, IsInjective
<1>6. IsFiniteSet(1 .. n) /\ Cardinality(1 .. n) = n
  BY <1>1, FS_Interval
<1>7. rank \in Surjection(S, 1 .. n)
  BY <1>5, <1>6, FS_Injection
<1>8. \A i \in 1 .. n : \E x \in S : rank[x] = i
  BY <1>7 DEF Surjection
<1> DEFINE f == [i \in 1 .. n |-> CHOOSE x \in S : rank[x] = i]
<1>9. \A i \in 1 .. n : f[i] \in S /\ rank[f[i]] = i
  BY <1>8
<1>10. f \in [1 .. n -> S]
  BY <1>9
<1> HIDE DEF f
<1>11. ASSUME NEW i \in 1 .. n, NEW j \in 1 .. n, i < j
       PROVE  f[i] < f[j]
  <2>1. f[i] \in S /\ f[j] \in S /\ i # j
    BY <1>1, <1>9, <1>11
  <2>2. f[i] \in Nat /\ f[j] \in Nat /\ f[i] # f[j]
    BY <1>9, <2>1
  <2>3. ~ (f[j] < f[i])
    <3>1. f[j] < f[i] => j < i
      BY <1>3, <1>9
    <3> QED BY <1>1, <1>11, <3>1
  <2> QED BY <2>2, <2>3
<1> QED BY <1>10, <1>11 DEF Sorts

(* All keys are in the listing, in ascending order.                        *)
LEMMA ListedInOrder ==
  ASSUME NEW S, S \subseteq Nat, IsFiniteSet(S)
  PROVE  /\ Sorts(InOrder(S), S)
         /\ \A x \in S : \E i \in 1 .. Cardinality(S) : InOrder(S)[i] = x
         /\ Len(InOrder(S)) = Cardinality(S)
         /\ Cardinality(S) \in Nat
<1> DEFINE n == Cardinality(S)
           f == InOrder(S)
<1>1. n \in Nat
  BY FS_CardinalityType
<1>2. Sorts(f, S)
  <2>1. PICK g : Sorts(g, S)
    BY OrderExists
  <2>2. \E h \in [1 .. Cardinality(S) -> S] :
          \A i, j \in DOMAIN h : i < j => h[i] < h[j]
    BY <2>1 DEF Sorts
  <2> QED BY <2>2 DEF InOrder, Sorts
<1> HIDE DEF f
<1>3. f \in Injection(1 .. n, S)
  <2>1. ASSUME NEW i \in 1 .. n, NEW j \in 1 .. n, f[i] = f[j]
        PROVE  i = j
    <3>1. f[i] \in Nat
      BY <1>2 DEF Sorts
    <3> QED BY <1>1, <1>2, <2>1, <3>1 DEF Sorts
  <2> QED BY <1>2, <2>1 DEF Sorts, Injection, IsInjective
<1>4. Cardinality(1 .. n) = n
  BY <1>1, FS_Interval
<1>5. f \in Surjection(1 .. n, S)
  BY <1>3, <1>4, FS_Injection
<1>6. \A x \in S : \E i \in 1 .. n : f[i] = x
  BY <1>5 DEF Surjection
<1>7. Len(f) = n
  <2>1. f \in Seq(S)
    BY <1>1, <1>2 DEF Sorts
  <2>2. DOMAIN f = 1 .. n /\ DOMAIN f = 1 .. Len(f) /\ Len(f) \in Nat
    BY <1>2, <2>1 DEF Sorts
  <2> QED BY <1>1, <2>2
<1> QED BY <1>1, <1>2, <1>6, <1>7 DEF f

(* The rows of a table from a key on, a limit of 0 being none.             *)
Listing(p, lowerBound, limit) ==
  LET S     == KeysFrom(db, p, lowerBound)
      n     == Cardinality(S)
      shown == IF limit = 0 \/ limit >= n THEN n ELSE limit
  IN [j \in 1 .. shown |-> db.rows[<<p, InOrder(S)[j]>>].value]

(* A view of a registered table reads the rows of the table's keys.        *)
LEMMA RowsListed ==
  ASSUME VInv, NEW i \in Held, views[i].store = current,
         db.prefixes[views[i].prefix] = views[i].id,
         NEW lowerBound \in Nat, NEW limit \in Nat
  PROVE  getTableRows(views[i], lowerBound, limit)
           = Listing(views[i].prefix, lowerBound, limit)
<1> DEFINE v     == views[i]
           p     == v.prefix
           S     == KeysFrom(db, p, lowerBound)
           n     == Cardinality(S)
           shown == IF limit = 0 \/ limit >= n THEN n ELSE limit
<1>1. /\ v \in Views /\ p \in Prefixes /\ v.id \in Ids
      /\ Good(db) /\ p # undefined
  BY UndefinedAssumption DEF VInv, ViewsOK, Held, Views, IInv
<1>2. db.index[v.id] = p
  BY <1>1, UndefinedAssumption DEF Good, PrefixesAgree
<1>3. /\ S \subseteq Nat /\ IsFiniteSet(S)
      /\ \A k \in S : db.rows[<<p, k>>] # undefined
  <2>1. /\ S \subseteq Keys
        /\ \A k \in S : db.rows[<<p, k>>] # undefined
    BY DEF KeysFrom, RowsOf
  <2> HIDE DEF S
  <2> QED BY <2>1, FS_Subset, ViewsAssumption
<1>4. StoreOf(v).db = db
  BY DEF StoreOf, Content
<1> HIDE DEF S
<1>5. /\ Sorts(InOrder(S), S) /\ Len(InOrder(S)) = n /\ n \in Nat
  BY <1>3, ListedInOrder
<1>6. getTableRows(v, lowerBound, limit)
        = [j \in 1 .. shown |-> ShownRow(v, InOrder(S)[j])]
  BY <1>1, <1>2, <1>5 DEF getTableRows, S
<1>7. ASSUME NEW j \in 1 .. shown
      PROVE  ShownRow(v, InOrder(S)[j]) = db.rows[<<p, InOrder(S)[j]>>].value
  <2>1. InOrder(S)[j] \in S
    BY <1>5 DEF Sorts
  <2> HIDE DEF v
  <2> QED BY <1>3, <1>4, <2>1 DEF ShownRow, getTableRow
<1> HIDE DEF v, shown, p
<1>8. getTableRows(v, lowerBound, limit)
        = [j \in 1 .. shown |-> db.rows[<<p, InOrder(S)[j]>>].value]
  BY <1>6, <1>7
<1> QED BY <1>8 DEF Listing, v, p, S, shown

(* Where a page starts that begins with the n-th key of a listing.         *)
PageStart(f, n) == IF n = 1 THEN 0 ELSE f[n - 1] + 1

(* The first key after the keys that come before the n-th is the n-th.     *)
LEMMA NextPage ==
  ASSUME NEW S, S \subseteq Nat, IsFiniteSet(S),
         NEW n \in 1 .. Cardinality(S), NEW T \in SUBSET S,
         \A k \in S : k \in T <=> k >= PageStart(InOrder(S), n)
  PROVE  /\ Cardinality(T) \in Nat /\ Cardinality(T) # 0
         /\ InOrder(T)[1] = InOrder(S)[n]
<1> DEFINE f == InOrder(S)
           g == InOrder(T)
           lowerBound == PageStart(f, n)
<1>1. T \subseteq Nat /\ IsFiniteSet(T)
  BY FS_Subset
<1>2. /\ Sorts(f, S) /\ Cardinality(S) \in Nat
      /\ \A x \in S : \E i \in 1 .. Cardinality(S) : f[i] = x
  BY ListedInOrder
<1>3. /\ Sorts(g, T) /\ Cardinality(T) \in Nat
      /\ \A x \in T : \E i \in 1 .. Cardinality(T) : g[i] = x
  BY <1>1, ListedInOrder
<1>4. /\ lowerBound = IF n = 1 THEN 0 ELSE f[n - 1] + 1
      /\ \A k \in S : k \in T <=> k >= lowerBound
  BY DEF PageStart
<1> HIDE DEF f, g, lowerBound
<1>5. f[n] \in S /\ f[n] \in Nat
  BY <1>2 DEF Sorts
<1>6. f[n] \in T
  <2>1. CASE n = 1
    BY <1>4, <1>5, <2>1
  <2>2. CASE n # 1
    <3>1. n - 1 \in 1 .. Cardinality(S) /\ n - 1 < n
      BY <1>2, <2>2
    <3>2. f[n - 1] \in S /\ f[n - 1] < f[n]
      BY <1>2, <3>1 DEF Sorts
    <3>3. f[n - 1] \in Nat
      BY <3>2
    <3> QED BY <1>4, <1>5, <2>2, <3>2, <3>3
  <2> QED BY <2>1, <2>2
<1>7. Cardinality(T) # 0
  BY <1>1, <1>6, FS_EmptySet
<1>8. 1 \in 1 .. Cardinality(T) /\ g[1] \in T /\ g[1] \in Nat
  <2>1. 1 \in 1 .. Cardinality(T)
    BY <1>3, <1>7
  <2>2. g[1] \in T
    BY <1>3, <2>1 DEF Sorts
  <2> QED BY <1>1, <2>1, <2>2
<1>9. g[1] <= f[n]
  <2>1. PICK i \in 1 .. Cardinality(T) : g[i] = f[n]
    BY <1>3, <1>6
  <2>2. i = 1 \/ 1 < i
    BY <1>3
  <2>3. 1 < i => g[1] < g[i]
    BY <1>3, <1>8 DEF Sorts
  <2> QED BY <1>5, <1>8, <2>1, <2>2, <2>3
<1>10. f[n] <= g[1]
  <2>1. PICK j \in 1 .. Cardinality(S) : f[j] = g[1]
    BY <1>2, <1>8
  <2>2. g[1] >= lowerBound
    BY <1>4, <1>8
  <2>3. ~ (j < n)
    <3>1. SUFFICES ASSUME j < n PROVE FALSE
      OBVIOUS
    <3>2. n # 1 /\ n - 1 \in 1 .. Cardinality(S) /\ j <= n - 1
      BY <1>2, <3>1
    <3>3. f[n - 1] \in Nat /\ lowerBound = f[n - 1] + 1
      BY <1>2, <1>4, <3>2 DEF Sorts
    <3>4. j = n - 1 \/ j < n - 1
      BY <1>2, <3>2
    <3>5. f[j] <= f[n - 1]
      <4>1. j < n - 1 => f[j] < f[n - 1]
        BY <1>2, <3>2 DEF Sorts
      <4> QED BY <1>8, <2>1, <3>3, <3>4, <4>1
    <3> QED BY <1>8, <2>1, <2>2, <3>3, <3>5
  <2>4. j = n \/ n < j
    BY <1>2, <2>3
  <2>5. n < j => f[n] < f[j]
    BY <1>2 DEF Sorts
  <2> QED BY <1>5, <1>8, <2>1, <2>4, <2>5
<1> QED BY <1>3, <1>5, <1>7, <1>8, <1>9, <1>10 DEF f, g

-----------------------------------------------------------------------------
(* The theorems.                                                           *)

(* The inductive invariant holds of every behaviour.                       *)
THEOREM ViewsInvariance == ViewSpec => []VInv
  BY InitVInv, NextVInv, PTL DEF ViewSpec

(* The store's own invariant, and with it that no revert is corrupted and  *)
(* that the maps of the store agree, holds although tests write to tables  *)
(* that were dropped and exchange the store.                               *)
THEOREM StoreStaysConsistent ==
  ViewSpec => []( /\ RevertNeverThrows
                  /\ StorePrefixesAgree /\ StoreTreesAgree /\ StoreIdsGiven)
<1>1. VInv => /\ RevertNeverThrows
              /\ StorePrefixesAgree /\ StoreTreesAgree /\ StoreIdsGiven
  BY DEF VInv, IInv, Good, RevertNeverThrows, StorePrefixesAgree,
         StoreTreesAgree, StoreIdsGiven
<1> QED BY <1>1, ViewsInvariance, PTL

(* The id of a view's table is never given to another table of the same    *)
(* store, although aborted transactions take ids back.                     *)
THEOREM IdsKept == ViewSpec => []HeldIdsAreKept
<1>1. VInv => HeldIdsAreKept
  BY DEF VInv, ViewsOK, KeptInStore, Kept, HeldIdsAreKept, StoreOf, Content
<1> QED BY <1>1, ViewsInvariance, PTL

(* A view made since the last reset lists its rows, all of them, in order, *)
(* in pages too, or throws because its table was dropped.                  *)
THEOREM OwnListings == ViewSpec => []ListingsAreOwn
<1>1. VInv => ListingsAreOwn
  <2> SUFFICES ASSUME VInv, NEW i \in Held, views[i].store = current
               PROVE  LET v    == views[i]
                          keys == InOrder(RowsOf(db, v.prefix))
                          rows == [n \in 1 .. Len(keys) |->
                                     db.rows[<<v.prefix, keys[n]>>].value]
                      IN IF db.prefixes[v.prefix] = v.id
                         THEN /\ getTableRows(v, 0, 0) = rows
                              /\ \A n \in 1 .. Len(keys) :
                                   getTableRows(v, IF n = 1 THEN 0
                                                   ELSE keys[n - 1] + 1, 1)
                                     = <<rows[n]>>
                         ELSE getTableRows(v, 0, 0) = "TypeError"
    BY DEF ListingsAreOwn
  <2> DEFINE v    == views[i]
             p    == v.prefix
             S    == RowsOf(db, p)
             keys == InOrder(S)
             rows == [n \in 1 .. Len(keys) |-> db.rows[<<p, keys[n]>>].value]
  <2>1. /\ v \in Views /\ p \in Prefixes /\ v.id \in Ids
        /\ Good(db) /\ Kept(db, v)
    BY DEF VInv, ViewsOK, Held, Views, IInv, KeptInStore
  <2>2. CASE db.prefixes[p] # v.id
    <3>1. db.index[v.id] = undefined
      BY <2>1, <2>2, UndefinedAssumption DEF Kept, Good, PrefixesAgree
    <3> QED BY <2>2, <3>1 DEF getTableRows
  <2>3. ASSUME db.prefixes[p] = v.id, NEW b \in Nat, NEW l \in Nat
        PROVE  getTableRows(v, b, l) = Listing(p, b, l)
    BY <2>3, RowsListed
  <2>4. CASE db.prefixes[p] = v.id
    <3>1. S \subseteq Keys
      BY DEF RowsOf
    <3> HIDE DEF v, p, S
    <3>2. /\ S \subseteq Nat
          /\ \A b \in Nat : KeysFrom(db, p, b) = {k \in S : k >= b}
          /\ KeysFrom(db, p, 0) = S
      <4>1. S \subseteq Nat
        BY <3>1, ViewsAssumption
      <4>2. ASSUME NEW b \in Nat
            PROVE  KeysFrom(db, p, b) = {k \in S : k >= b}
        BY DEF KeysFrom, S
      <4>3. S = {k \in S : k >= 0}
        <5>1. \A k \in S : k >= 0
          BY <4>1
        <5> QED BY <5>1
      <4> QED BY <4>1, <4>2, <4>3
    <3>3. IsFiniteSet(S)
      BY <3>1, FS_Subset, ViewsAssumption
    <3> DEFINE c == Cardinality(S)
    <3>4. /\ Sorts(keys, S) /\ Len(keys) = c /\ c \in Nat
      BY <3>2, <3>3, ListedInOrder
    <3>5. getTableRows(v, 0, 0) = rows
      <4> DEFINE m == IF 0 = 0 \/ 0 >= c THEN c ELSE 0
      <4>1. getTableRows(v, 0, 0)
              = [j \in 1 .. m |-> db.rows[<<p, keys[j]>>].value]
        <5> DEFINE U == KeysFrom(db, p, 0)
                   u == Cardinality(U)
                   l == IF 0 = 0 \/ 0 >= u THEN u ELSE 0
        <5>1. getTableRows(v, 0, 0)
                = [j \in 1 .. l |-> db.rows[<<p, InOrder(U)[j]>>].value]
          BY <2>3, <2>4 DEF Listing
        <5>2. U = S
          BY <3>2
        <5> HIDE DEF U
        <5> QED BY <5>1, <5>2
      <4>2. m = Len(keys)
        BY <3>4
      <4> HIDE DEF m, keys
      <4> QED BY <4>1, <4>2
    <3>6. ASSUME NEW n \in 1 .. Len(keys)
          PROVE  getTableRows(v, IF n = 1 THEN 0 ELSE keys[n - 1] + 1, 1)
                   = <<rows[n]>>
      <4> DEFINE b == IF n = 1 THEN 0 ELSE keys[n - 1] + 1
                 T == KeysFrom(db, p, b)
                 m == IF 1 = 0 \/ 1 >= Cardinality(T) THEN Cardinality(T)
                      ELSE 1
      <4>1. b \in Nat
        <5>1. n # 1 => n - 1 \in 1 .. c
          BY <3>4
        <5>2. n # 1 => keys[n - 1] \in Nat
          BY <3>2, <3>4, <5>1 DEF Sorts
        <5> HIDE DEF keys
        <5> QED BY <5>2
      <4>2. T = {k \in S : k >= b}
        BY <3>2, <4>1
      <4>3. n \in 1 .. Cardinality(S)
        BY <3>4
      <4>4. /\ Cardinality(T) \in Nat /\ Cardinality(T) # 0
            /\ InOrder(T)[1] = keys[n]
        <5>1. b = PageStart(InOrder(S), n) /\ keys = InOrder(S)
          BY DEF PageStart
        <5>2. S \subseteq Nat
          BY <3>2
        <5> HIDE DEF T, b, keys
        <5>3. T \in SUBSET S
          BY <4>2
        <5>4. \A k \in S : k \in T <=> k >= PageStart(InOrder(S), n)
          BY <4>2, <5>1
        <5>5. /\ Cardinality(T) \in Nat /\ Cardinality(T) # 0
              /\ InOrder(T)[1] = InOrder(S)[n]
          BY ONLY <3>3, <4>3, <5>2, <5>3, <5>4, NextPage, Zenon
        <5> QED BY <5>1, <5>5
      <4>5. getTableRows(v, b, 1)
              = [j \in 1 .. m |-> db.rows[<<p, InOrder(T)[j]>>].value]
        <5> HIDE DEF b
        <5> QED BY <2>3, <2>4, <4>1 DEF Listing
      <4>6. m = 1
        BY <4>4
      <4> HIDE DEF m, T, keys
      <4>7. getTableRows(v, b, 1) = <<db.rows[<<p, keys[n]>>].value>>
        <5> HIDE DEF b
        <5> QED BY <4>4, <4>5, <4>6
      <4>8. rows[n] = db.rows[<<p, keys[n]>>].value
        OBVIOUS
      <4> QED BY <4>7, <4>8
    <3> QED BY <2>4, <3>5, <3>6 DEF v, p, S
  <2> QED BY <2>2, <2>4
<1> QED BY <1>1, ViewsInvariance, PTL

(* Every row can be read and removed by its contract, as long as no        *)
(* aborted deletion spoilt a count and no view of a dropped table wrote.   *)
THEOREM RowsStayRemovable == ViewSpec => []RowsRemovable
<1>1. VInv => RowsRemovable
  <2> SUFFICES ASSUME VInv, ~drifted, current \notin misused,
                      NEW r \in Prefixes \X Keys, db.rows[r] # undefined
               PROVE  /\ db.prefixes[r[1]] # undefined
                      /\ db.rows[r].tableId = db.prefixes[r[1]]
    BY DEF RowsRemovable
  <2>1. Shaped(db)
    BY DEF VInv, CountInv
  <2>2. r[1] \in Prefixes /\ r = <<r[1], r[2]>> /\ r[2] \in RowsOf(db, r[1])
    BY DEF RowsOf
  <2> QED BY <2>1, <2>2 DEF Shaped
<1> QED BY <1>1, ViewsInvariance, PTL

(* A transaction that is rejected leaves the store as it was before,       *)
(* unless an unlisted table has rows while deltas are enabled.             *)
THEOREM RejectedUndone == ViewSpec => RejectionsChangeNothing
<1> DEFINE A == phase # "idle" /\ phase' = "idle" /\ rejected'
                  => \/ db' = Saved
                     \/ deltas /\ \E p \in Unlisted : RowsOf(db', p) # {}
<1>1. VInv /\ [ViewNext]_allVars => [A]_allVars
  <2> SUFFICES ASSUME VInv, ViewNext, phase # "idle", phase' = "idle",
                      rejected'
               PROVE  \/ db' = Saved
                      \/ deltas /\ \E p \in Unlisted : RowsOf(db', p) # {}
    OBVIOUS
  <2>1. FinishTransaction
    BY DEF ViewNext, ViewStep, OpenView, ViewSet, ResetTables, Between,
           BeginTransaction, Begin, ContractStep, CreateTable, CreateRow,
           UpdateRow, DeleteRow
  <2>2. CASE Commit /\ rejected' = (deltas /\ getStorageThrows(db))
    BY <2>2 DEF Commit, getStorageThrows
  <2>3. CASE RevertEnd
    <3>1. cursor = snapshot /\ db' = db /\ phase = "reverting"
      BY <2>3 DEF RevertEnd
    <3> QED BY <3>1 DEF VInv, IInv, Saved
  <2>4. CASE Abort \/ RevertOne
    BY <2>4 DEF Abort, RevertOne
  <2> QED BY <2>1, <2>2, <2>3, <2>4 DEF FinishTransaction
<1> QED BY <1>1, ViewsInvariance, PTL DEF ViewSpec, RejectionsChangeNothing
=============================================================================
