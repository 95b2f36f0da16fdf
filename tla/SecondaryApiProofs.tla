------------------------- MODULE SecondaryApiProofs -------------------------
(***************************************************************************)
(* Proofs about SecondaryApi, for any contracts, tables, keys and bounds.  *)
(***************************************************************************)
EXTENDS SecondaryApi, SequenceTheorems, FiniteSetTheorems,
        WellFoundedInduction, TLAPS

-----------------------------------------------------------------------------
(* The index as a value.                                                   *)

RowKeys == Prefixes \X Keys

Index(bp, bs, ts) == [byPrimary |-> bp, bySecondary |-> bs, tables |-> ts]

Contents == [byPrimary   : [RowKeys -> Entries \cup {undefined}],
             bySecondary : SUBSET Entries,
             tables      : SUBSET Prefixes]

(* Entries are found under their row, and the order can tell them apart,   *)
(* whatever contracts do.                                                  *)
Ordered(s) ==
  /\ s \in Contents
  /\ \A r \in RowKeys : s.byPrimary[r] # undefined
       => RowOf(s.byPrimary[r]) = r
  /\ \A e, f \in s.bySecondary : Same(e, f) => e = f

(* The two trees agree.                                                    *)
Agreed(s) ==
  \A e \in Entries : e \in s.bySecondary <=> s.byPrimary[RowOf(e)] = e

Good(s) == Ordered(s) /\ Agreed(s)

(* CanUndo and Undone with any index instead of the one at hand.           *)
Undoable(c, s) ==
  \/ c.kind = "CreatePrefix" /\ c.prefix \in s.tables
  \/ c.kind = "Create" /\ s.byPrimary[RowOf(c.key)] # undefined
  \/ c.kind = "Update" /\ s.byPrimary[RowOf(c.newKey)] # undefined
  \/ c.kind = "Delete" /\ c.key # undefined
       /\ s.byPrimary[RowOf(c.key)] = undefined

Undoes(c, s, b) ==
  \/ /\ c.kind = "CreatePrefix"
     /\ b = Index(s.byPrimary, s.bySecondary, s.tables \ {c.prefix})
  \/ /\ c.kind = "Create"
     /\ b = Index([s.byPrimary EXCEPT ![RowOf(c.key)] = undefined],
                  Without(c.key, s.bySecondary), s.tables)
  \/ /\ c.kind = "Update"
     /\ b = Index([s.byPrimary EXCEPT ![RowOf(c.key)] = c.key],
                  With(c.key, Without(c.newKey, s.bySecondary)), s.tables)
  \/ /\ c.kind = "Delete"
     /\ b = Index([s.byPrimary EXCEPT ![RowOf(c.key)] = c.key],
                  With(c.key, s.bySecondary), s.tables)

Changes == [kind : {"CreatePrefix"}, prefix : Prefixes]
             \cup [kind : {"Create"}, key : Entries]
             \cup [kind : {"Update"}, key : Entries, newKey : Entries]
             \cup [kind : {"Delete"}, key : Entries \cup {undefined}]

(* The trail from index a to index b: the journal, undone from its end,    *)
(* goes back along it.                                                     *)
Trail(trail, chs, a, b) ==
  /\ Len(trail) = Len(chs) + 1
  /\ trail[1] = a
  /\ trail[Len(trail)] = b
  /\ \A i \in 1 .. Len(trail) : Good(trail[i])
  /\ \A i \in 1 .. Len(chs) : /\ Undoable(chs[i], trail[i + 1])
                              /\ Undoes(chs[i], trail[i + 1], trail[i])

Back(chs, a, b) == \E trail \in Seq(Contents) : Trail(trail, chs, a, b)

-----------------------------------------------------------------------------
(* The invariant.                                                          *)

IsCache(c) ==
  /\ c = [tableCache         |-> c.tableCache,
          endIteratorToTable |-> c.endIteratorToTable,
          iteratorToObject   |-> c.iteratorToObject,
          objectToIterator   |-> c.objectToIterator]
  /\ c.endIteratorToTable \in Seq(Prefixes)
  /\ c.iteratorToObject \in Seq(Entries \cup {undefined})

All(c) == 0 .. Len(c.iteratorToObject) - 1

(* Before the first removal, one of the iterators for each row has the     *)
(* entry of that row.                                                      *)
RowsHeld(bp, c) ==
  Live(c) = All(c)
    => \A i \in All(c) : \E j \in All(c) :
         /\ RowOf(ObjectOf(c, j)) = RowOf(ObjectOf(c, i))
         /\ bp[RowOf(ObjectOf(c, i))] = ObjectOf(c, j)

TypeInv ==
  /\ Ordered(Snapshot)
  /\ changes \in Seq(Changes)
  /\ phase \in {"idle", "open", "reverting"}
  /\ receiver \in Contracts \cup {undefined}
  /\ phase # "open" => receiver = undefined
  /\ receiver = undefined => cache = EmptyCache
  /\ IsCache(cache)

UsedWell ==
  /\ Agreed(Snapshot)
  /\ ~thrown
  /\ Back(changes, saved, Snapshot)
  /\ RowsHeld(byPrimary, cache)

IInv == TypeInv /\ (~misused => UsedWell)

-----------------------------------------------------------------------------
(* The trees.                                                              *)

(* The parts of an entry.                                                  *)
LEMMA EntryParts ==
  ASSUME NEW e \in Entries
  PROVE  /\ e.table \in Prefixes /\ e.key \in Nat /\ e.sec \in Nat
         /\ e.key \in Keys /\ e.sec \in SecKeys /\ e.oid \in 0 .. MaxObjects - 1
         /\ RowOf(e) \in RowKeys
         /\ e # undefined
  BY BoundsAssumption, UndefinedAssumption
     DEF Entries, Keys, SecKeys, RowOf, RowKeys

(* Entries that are the same to the order belong to one row.               *)
LEMMA SameRow ==
  ASSUME NEW e \in Entries, NEW f \in Entries
  PROVE  Same(e, f) <=> RowOf(e) = RowOf(f) /\ e.sec = f.sec
  BY DEF Same, RowOf

(* An entry is written, and the order loses some others or none.           *)
LEMMA PutOrdered ==
  ASSUME NEW s, Ordered(s), NEW x \in Entries,
         NEW S \in SUBSET s.bySecondary, NEW T \in SUBSET Prefixes
  PROVE  Ordered(Index([s.byPrimary EXCEPT ![RowOf(x)] = x], With(x, S), T))
<1> DEFINE bp == [s.byPrimary EXCEPT ![RowOf(x)] = x]
           bs == With(x, S)
<1>1. /\ s.byPrimary \in [RowKeys -> Entries \cup {undefined}]
      /\ s.bySecondary \subseteq Entries
      /\ RowOf(x) \in RowKeys
  BY EntryParts DEF Ordered, Contents
<1>2. /\ bp \in [RowKeys -> Entries \cup {undefined}]
      /\ \A r \in RowKeys : bp[r] # undefined => RowOf(bp[r]) = r
  BY <1>1 DEF Ordered
<1>3. bs \subseteq Entries
  BY <1>1 DEF With, Without
<1>4. ASSUME NEW e \in bs, NEW f \in bs, Same(e, f)
      PROVE  e = f
  <2>1. /\ e = x \/ (e \in S /\ ~Same(x, e))
        /\ f = x \/ (f \in S /\ ~Same(x, f))
    BY DEF With, Without
  <2>2. Same(f, e)
    BY <1>4 DEF Same
  <2>3. CASE e = x \/ f = x
    BY <1>4, <2>1, <2>2, <2>3
  <2>4. CASE e \in S /\ f \in S
    BY <1>4, <2>4 DEF Ordered
  <2> QED BY <2>1, <2>3, <2>4
<1> HIDE DEF bp, bs
<1>5. Ordered(Index(bp, bs, T))
  BY <1>2, <1>3, <1>4 DEF Ordered, Index, Contents
<1> QED BY <1>5 DEF bp, bs

(* A row loses its entry, and the order some.                              *)
LEMMA CutOrdered ==
  ASSUME NEW s, Ordered(s), NEW r \in RowKeys,
         NEW S \in SUBSET s.bySecondary, NEW T \in SUBSET Prefixes
  PROVE  Ordered(Index([s.byPrimary EXCEPT ![r] = undefined], S, T))
<1> DEFINE bp == [s.byPrimary EXCEPT ![r] = undefined]
<1>1. /\ s.byPrimary \in [RowKeys -> Entries \cup {undefined}]
      /\ s.bySecondary \subseteq Entries
  BY DEF Ordered, Contents
<1>2. /\ bp \in [RowKeys -> Entries \cup {undefined}]
      /\ \A q \in RowKeys : bp[q] # undefined => RowOf(bp[q]) = q
  BY <1>1 DEF Ordered
<1> HIDE DEF bp
<1>3. Ordered(Index(bp, S, T))
  BY <1>1, <1>2 DEF Ordered, Index, Contents
<1> QED BY <1>3 DEF bp

(* What the order has of a row, in an index whose trees agree.             *)
LEMMA RowsEntry ==
  ASSUME NEW s, Good(s), NEW e \in s.bySecondary
  PROVE  /\ e \in Entries
         /\ s.byPrimary[RowOf(e)] = e
         /\ \A f \in s.bySecondary : RowOf(f) = RowOf(e) => f = e
  BY DEF Good, Ordered, Agreed, Contents

(* Equal records.                                                          *)
LEMMA SameIndex ==
  ASSUME NEW s, Good(s), NEW bp, bp = s.byPrimary, NEW bs, bs = s.bySecondary,
         NEW T, T = s.tables
  PROVE  s = Index(bp, bs, T)
  BY DEF Good, Ordered, Contents, Index

(* genericIndex.store for a row that has no entry.                         *)
LEMMA CreateUndone ==
  ASSUME NEW s, Good(s), NEW x \in Entries,
         s.byPrimary[RowOf(x)] = undefined
  PROVE  LET t == Index([s.byPrimary EXCEPT ![RowOf(x)] = x],
                        With(x, s.bySecondary), s.tables)
             c == [kind |-> "Create", key |-> x]
         IN /\ Good(t)
            /\ Undoable(c, t)
            /\ Undoes(c, t, s)
<1> DEFINE bp == [s.byPrimary EXCEPT ![RowOf(x)] = x]
           bs == With(x, s.bySecondary)
           c == [kind |-> "Create", key |-> x]
           t == Index(bp, bs, s.tables)
<1>1. /\ s.byPrimary \in [RowKeys -> Entries \cup {undefined}]
      /\ s.bySecondary \subseteq Entries
      /\ s.tables \subseteq Prefixes
      /\ RowOf(x) \in RowKeys
      /\ x # undefined
  BY EntryParts DEF Good, Ordered, Contents
<1>2. \A e \in s.bySecondary : RowOf(e) # RowOf(x)
  BY <1>1, RowsEntry, EntryParts
<1>3. Without(x, s.bySecondary) = s.bySecondary
  BY <1>1, <1>2, SameRow DEF Without
<1>4. bs = s.bySecondary \cup {x}
  BY <1>3 DEF With
<1>5. Ordered(t)
  BY <1>1, PutOrdered DEF Good
<1>6. /\ bp[RowOf(x)] = x
      /\ \A r \in RowKeys : r # RowOf(x) => bp[r] = s.byPrimary[r]
      /\ [bp EXCEPT ![RowOf(x)] = undefined] = s.byPrimary
  BY <1>1
<1> HIDE DEF bp, bs
<1>7. Agreed(t)
  <2> SUFFICES ASSUME NEW e \in Entries
               PROVE  e \in bs <=> bp[RowOf(e)] = e
    BY DEF Agreed, Index
  <2>1. e \in s.bySecondary <=> s.byPrimary[RowOf(e)] = e
    BY DEF Good, Agreed
  <2>2. CASE RowOf(e) = RowOf(x)
    BY <1>2, <1>4, <1>6, <2>2
  <2>3. CASE RowOf(e) # RowOf(x)
    BY <1>4, <1>6, <2>1, <2>3, EntryParts
  <2> QED BY <2>2, <2>3
<1>8. Without(x, bs) = s.bySecondary
  <2>1. Same(x, x)
    BY DEF Same
  <2> QED BY <1>3, <1>4, <2>1 DEF Without
<1>9. Undoable(c, t)
  BY <1>1, <1>6 DEF Undoable, Index
<1>10. Undoes(c, t, s)
  <2>1. s = Index([bp EXCEPT ![RowOf(x)] = undefined], Without(x, bs), s.tables)
    BY <1>6, <1>8, SameIndex
  <2> QED BY <2>1 DEF Undoes, Index
<1> QED BY <1>5, <1>7, <1>9, <1>10 DEF Good, bp, bs

(* genericIndex.update of the current entry of a row.                      *)
LEMMA UpdateUndone ==
  ASSUME NEW s, Good(s), NEW e \in Entries, s.byPrimary[RowOf(e)] = e,
         NEW x \in Entries, RowOf(x) = RowOf(e)
  PROVE  LET t == Index([s.byPrimary EXCEPT ![RowOf(e)] = x],
                        With(x, Without(e, s.bySecondary)), s.tables)
             c == [kind |-> "Update", key |-> e, newKey |-> x]
         IN /\ Good(t)
            /\ Undoable(c, t)
            /\ Undoes(c, t, s)
<1> DEFINE bp == [s.byPrimary EXCEPT ![RowOf(e)] = x]
           bs == With(x, Without(e, s.bySecondary))
           c == [kind |-> "Update", key |-> e, newKey |-> x]
           t == Index(bp, bs, s.tables)
<1>1. /\ s.byPrimary \in [RowKeys -> Entries \cup {undefined}]
      /\ s.bySecondary \subseteq Entries
      /\ s.tables \subseteq Prefixes
      /\ RowOf(e) \in RowKeys
      /\ x # undefined
  BY EntryParts DEF Good, Ordered, Contents
<1>2. e \in s.bySecondary
  BY DEF Good, Agreed
<1>3. \A f \in s.bySecondary : RowOf(f) = RowOf(e) => f = e
  BY <1>2, RowsEntry
<1>4. Same(e, e) /\ Same(x, x)
  BY DEF Same
<1>5. Without(e, s.bySecondary) = s.bySecondary \ {e}
  BY <1>1, <1>3, <1>4, SameRow DEF Without
<1>6. \A f \in s.bySecondary \ {e} : ~Same(x, f) /\ ~Same(e, f)
  BY <1>1, <1>3, SameRow
<1>7. bs = (s.bySecondary \ {e}) \cup {x}
  BY <1>5, <1>6 DEF With, Without
<1>8. Ordered(t)
  <2>1. Without(e, s.bySecondary) \in SUBSET s.bySecondary
    BY <1>5
  <2> QED BY <1>1, <2>1, PutOrdered DEF Good
<1>9. /\ bp[RowOf(e)] = x
      /\ \A r \in RowKeys : r # RowOf(e) => bp[r] = s.byPrimary[r]
      /\ [bp EXCEPT ![RowOf(e)] = e] = s.byPrimary
  BY <1>1
<1> HIDE DEF bp, bs
<1>10. Agreed(t)
  <2> SUFFICES ASSUME NEW f \in Entries
               PROVE  f \in bs <=> bp[RowOf(f)] = f
    BY DEF Agreed, Index
  <2>1. f \in s.bySecondary <=> s.byPrimary[RowOf(f)] = f
    BY DEF Good, Agreed
  <2>2. CASE RowOf(f) = RowOf(e)
    BY <1>3, <1>7, <1>9, <2>2
  <2>3. CASE RowOf(f) # RowOf(e)
    BY <1>7, <1>9, <2>1, <2>3, EntryParts
  <2> QED BY <2>2, <2>3
<1>11. With(e, Without(x, bs)) = s.bySecondary
  <2>1. Without(x, bs) = s.bySecondary \ {e}
    BY <1>4, <1>6, <1>7 DEF Without
  <2> QED BY <1>2, <1>6, <2>1 DEF With, Without
<1>12. Undoable(c, t)
  BY <1>1, <1>9 DEF Undoable, Index
<1>13. Undoes(c, t, s)
  <2>1. s = Index([bp EXCEPT ![RowOf(e)] = e], With(e, Without(x, bs)),
                  s.tables)
    BY <1>9, <1>11, SameIndex
  <2> QED BY <2>1 DEF Undoes, Index
<1> QED BY <1>8, <1>10, <1>12, <1>13 DEF Good, bp, bs

(* genericIndex.remove of the current entry of a row.                      *)
LEMMA DeleteUndone ==
  ASSUME NEW s, Good(s), NEW e \in Entries, s.byPrimary[RowOf(e)] = e
  PROVE  LET t == Index([s.byPrimary EXCEPT ![RowOf(e)] = undefined],
                        Without(e, s.bySecondary), s.tables)
             c == [kind |-> "Delete", key |-> e]
         IN /\ Good(t)
            /\ Undoable(c, t)
            /\ Undoes(c, t, s)
<1> DEFINE bp == [s.byPrimary EXCEPT ![RowOf(e)] = undefined]
           bs == Without(e, s.bySecondary)
           c == [kind |-> "Delete", key |-> e]
           t == Index(bp, bs, s.tables)
<1>1. /\ s.byPrimary \in [RowKeys -> Entries \cup {undefined}]
      /\ s.bySecondary \subseteq Entries
      /\ s.tables \subseteq Prefixes
      /\ RowOf(e) \in RowKeys
      /\ e # undefined
  BY EntryParts DEF Good, Ordered, Contents
<1>2. e \in s.bySecondary
  BY DEF Good, Agreed
<1>3. \A f \in s.bySecondary : RowOf(f) = RowOf(e) => f = e
  BY <1>2, RowsEntry
<1>4. Same(e, e)
  BY DEF Same
<1>5. bs = s.bySecondary \ {e}
  BY <1>1, <1>3, <1>4, SameRow DEF Without
<1>6. Ordered(t)
  BY <1>1, <1>5, CutOrdered DEF Good
<1>7. /\ bp[RowOf(e)] = undefined
      /\ \A r \in RowKeys : r # RowOf(e) => bp[r] = s.byPrimary[r]
      /\ [bp EXCEPT ![RowOf(e)] = e] = s.byPrimary
  BY <1>1
<1> HIDE DEF bp, bs
<1>8. Agreed(t)
  <2> SUFFICES ASSUME NEW f \in Entries
               PROVE  f \in bs <=> bp[RowOf(f)] = f
    BY DEF Agreed, Index
  <2>1. f \in s.bySecondary <=> s.byPrimary[RowOf(f)] = f
    BY DEF Good, Agreed
  <2>2. CASE RowOf(f) = RowOf(e)
    BY <1>3, <1>5, <1>7, <2>2, EntryParts
  <2>3. CASE RowOf(f) # RowOf(e)
    BY <1>5, <1>7, <2>1, <2>3, EntryParts
  <2> QED BY <2>2, <2>3
<1>9. With(e, bs) = s.bySecondary
  <2>1. Without(e, bs) = bs
    BY <1>1, <1>3, <1>5, SameRow DEF Without
  <2> QED BY <1>2, <1>5, <2>1 DEF With
<1>10. Undoable(c, t)
  BY <1>1, <1>7 DEF Undoable, Index
<1>11. Undoes(c, t, s)
  <2>1. s = Index([bp EXCEPT ![RowOf(e)] = e], With(e, bs), s.tables)
    BY <1>7, <1>9, SameIndex
  <2> QED BY <2>1 DEF Undoes, Index
<1> QED BY <1>6, <1>8, <1>10, <1>11 DEF Good, bp, bs

(* findOrCreateTable makes a table.                                        *)
LEMMA CreatePrefixUndone ==
  ASSUME NEW s, Good(s), NEW p \in Prefixes, p \notin s.tables
  PROVE  LET t == Index(s.byPrimary, s.bySecondary, s.tables \cup {p})
             c == [kind |-> "CreatePrefix", prefix |-> p]
         IN /\ Good(t)
            /\ Undoable(c, t)
            /\ Undoes(c, t, s)
<1> DEFINE t == Index(s.byPrimary, s.bySecondary, s.tables \cup {p})
           c == [kind |-> "CreatePrefix", prefix |-> p]
<1>1. Good(t)
  BY DEF Good, Ordered, Agreed, Contents, Index
<1>2. Undoable(c, t)
  BY DEF Undoable, Index
<1>3. s.tables = (s.tables \cup {p}) \ {p}
  OBVIOUS
<1>4. s = Index(s.byPrimary, s.bySecondary, (s.tables \cup {p}) \ {p})
  BY <1>3, SameIndex
<1>5. Undoes(c, t, s)
  BY <1>4 DEF Undoes, Index
<1> QED BY <1>1, <1>2, <1>5

-----------------------------------------------------------------------------
(* The journal and the trail.                                              *)

(* No change has been made yet.                                            *)
LEMMA BackStart ==
  ASSUME NEW s, Good(s)
  PROVE  Back(<< >>, s, s)
<1> DEFINE trail == <<s>>
<1>1. /\ s \in Contents
      /\ trail \in Seq(Contents)
      /\ Len(trail) = 1
      /\ trail[1] = s
  BY DEF Good, Ordered
<1>2. Trail(trail, << >>, s, s)
  BY <1>1 DEF Trail
<1> QED BY <1>1, <1>2 DEF Back

(* One more change.                                                        *)
LEMMA BackExtended ==
  ASSUME NEW chs \in Seq(Changes), NEW a, NEW s, Back(chs, a, s),
         NEW c \in Changes, NEW t, Good(t), Undoable(c, t), Undoes(c, t, s)
  PROVE  Back(Append(chs, c), a, t)
<1>1. PICK trail \in Seq(Contents) : Trail(trail, chs, a, s)
  BY DEF Back
<1> DEFINE long == Append(trail, t)
           more == Append(chs, c)
           n == Len(chs)
<1>2. /\ n \in Nat
      /\ Len(trail) = n + 1
      /\ Len(more) = n + 1
      /\ more[n + 1] = c
      /\ \A i \in 1 .. n : more[i] = chs[i]
  BY <1>1 DEF Trail
<1>3. /\ t \in Contents
      /\ long \in Seq(Contents)
      /\ Len(long) = n + 2
      /\ long[n + 2] = t
      /\ \A i \in 1 .. n + 1 : long[i] = trail[i]
  BY <1>2 DEF Good, Ordered
<1> HIDE DEF long, more
<1>4. /\ long[1] = a
      /\ long[n + 1] = s
  BY <1>1, <1>2, <1>3 DEF Trail
<1>5. ASSUME NEW i \in 1 .. Len(long)
      PROVE  Good(long[i])
  <2>1. CASE i = n + 2
    BY <1>3, <2>1
  <2>2. CASE i \in 1 .. n + 1
    BY <1>1, <1>2, <1>3, <2>2 DEF Trail
  <2> QED BY <1>2, <1>3, <2>1, <2>2
<1>6. ASSUME NEW i \in 1 .. Len(more)
      PROVE  /\ Undoable(more[i], long[i + 1])
             /\ Undoes(more[i], long[i + 1], long[i])
  <2>1. CASE i = n + 1
    <3>1. i + 1 = n + 2
      BY <1>2, <2>1
    <3> QED BY <1>2, <1>3, <1>4, <2>1, <3>1
  <2>2. CASE i \in 1 .. n
    <3>1. i \in 1 .. n + 1 /\ i + 1 \in 1 .. n + 1
      BY <1>2, <2>2
    <3>2. /\ Undoable(chs[i], trail[i + 1])
          /\ Undoes(chs[i], trail[i + 1], trail[i])
      BY <1>1, <2>2 DEF Trail
    <3> QED BY <1>2, <1>3, <2>2, <3>1, <3>2
  <2> QED BY <1>2, <2>1, <2>2
<1>7. Trail(long, more, a, t)
  BY <1>2, <1>3, <1>4, <1>5, <1>6 DEF Trail
<1> QED BY <1>3, <1>7 DEF Back, more

(* The first members of a sequence.                                        *)
LEMMA FirstOnes ==
  ASSUME NEW S, NEW q \in Seq(S), NEW m \in 0 .. Len(q)
  PROVE  /\ SubSeq(q, 1, m) \in Seq(S)
         /\ Len(SubSeq(q, 1, m)) = m
         /\ \A i \in 1 .. m : SubSeq(q, 1, m)[i] = q[i]
  OBVIOUS

(* The last change can be undone, which goes one step back.                *)
LEMMA BackCut ==
  ASSUME NEW chs \in Seq(Changes), chs # << >>, NEW a, NEW t,
         Back(chs, a, t), NEW c, c = chs[Len(chs)]
  PROVE  /\ Undoable(c, t)
         /\ \E s : /\ Good(s)
                  /\ Undoes(c, t, s)
                  /\ Back(SubSeq(chs, 1, Len(chs) - 1), a, s)
<1>1. PICK trail \in Seq(Contents) : Trail(trail, chs, a, t)
  BY DEF Back
<1> DEFINE n == Len(chs)
           less == SubSeq(chs, 1, n - 1)
           short == SubSeq(trail, 1, n)
           s == trail[n]
<1>2. /\ n \in Nat \ {0}
      /\ Len(trail) = n + 1
      /\ trail[n + 1] = t
  BY <1>1, EmptySeq DEF Trail
<1>3. /\ Len(less) = n - 1
      /\ \A i \in 1 .. n - 1 : less[i] = chs[i]
      /\ short \in Seq(Contents)
      /\ Len(short) = n
      /\ \A i \in 1 .. n : short[i] = trail[i]
  <2>1. n - 1 \in 0 .. Len(chs) /\ n \in 0 .. Len(trail)
    BY <1>2
  <2>2. Len(less) = n - 1 /\ \A i \in 1 .. n - 1 : less[i] = chs[i]
    <3> HIDE DEF n
    <3> QED BY <2>1, FirstOnes
  <2>3. /\ short \in Seq(Contents)
        /\ Len(short) = n
        /\ \A i \in 1 .. n : short[i] = trail[i]
    <3> HIDE DEF n
    <3> QED BY <2>1, FirstOnes
  <2> QED BY <2>2, <2>3
<1> HIDE DEF less, short
<1>4. /\ Undoable(c, t)
      /\ Undoes(c, t, s)
      /\ Good(s)
  <2>1. n \in 1 .. Len(chs) /\ n \in 1 .. Len(trail)
    BY <1>2
  <2> QED BY <1>1, <1>2, <2>1 DEF Trail
<1>5. ASSUME NEW i \in 1 .. Len(short)
      PROVE  Good(short[i])
  BY <1>1, <1>2, <1>3 DEF Trail
<1>6. ASSUME NEW i \in 1 .. Len(less)
      PROVE  /\ Undoable(less[i], short[i + 1])
             /\ Undoes(less[i], short[i + 1], short[i])
  <2>1. /\ i \in 1 .. n - 1 /\ i \in 1 .. n /\ i + 1 \in 1 .. n
    BY <1>2, <1>3
  <2>2. /\ Undoable(chs[i], trail[i + 1])
        /\ Undoes(chs[i], trail[i + 1], trail[i])
    BY <1>1, <2>1 DEF Trail
  <2> QED BY <1>3, <2>1, <2>2
<1>7. /\ Len(short) = Len(less) + 1
      /\ short[1] = a
      /\ short[Len(short)] = s
  BY <1>1, <1>2, <1>3 DEF Trail
<1>8. Trail(short, less, a, s)
  BY <1>5, <1>6, <1>7 DEF Trail
<1>9. Back(less, a, s)
  BY <1>3, <1>8 DEF Back
<1> QED BY <1>4, <1>9 DEF less

(* Nothing is left to be undone.                                           *)
LEMMA BackEnd ==
  ASSUME NEW a, NEW t, Back(<< >>, a, t)
  PROVE  a = t
<1>1. PICK trail \in Seq(Contents) : Trail(trail, << >>, a, t)
  BY DEF Back
<1>2. Len(trail) = 1
  BY <1>1 DEF Trail
<1> QED BY <1>1, <1>2 DEF Trail

(* A change can be undone in one way.                                      *)
LEMMA OneUndoing ==
  ASSUME NEW c \in Changes, NEW t, NEW a, NEW b, Undoes(c, t, a),
         Undoes(c, t, b)
  PROVE  a = b
<1>1. CASE c \in [kind : {"CreatePrefix"}, prefix : Prefixes]
  BY <1>1 DEF Undoes
<1>2. CASE c \in [kind : {"Create"}, key : Entries]
  BY <1>2 DEF Undoes
<1>3. CASE c \in [kind : {"Update"}, key : Entries, newKey : Entries]
  BY <1>3 DEF Undoes
<1>4. CASE c \in [kind : {"Delete"}, key : Entries \cup {undefined}]
  BY <1>4 DEF Undoes
<1> QED BY <1>1, <1>2, <1>3, <1>4 DEF Changes

-----------------------------------------------------------------------------
(* What lookups find.                                                      *)

(* The least element of a set of numbers.                                  *)
LEMMA LeastExists ==
  ASSUME NEW S \in SUBSET Nat, S # {}
  PROVE  \E x \in S : \A y \in S : x <= y
<1> DEFINE R == {ss \in Nat \X Nat : ss[1] < ss[2]}
<1>1. IsWellFoundedOn(R, Nat)
  <2>1. OpToRel(<, Nat) = R
    BY DEF OpToRel
  <2> HIDE DEF R
  <2> QED BY <2>1, NatLessThanWellFounded
<1>2. PICK x \in S : \A y \in S : ~(<<y, x>> \in R)
  <2> HIDE DEF R
  <2> QED BY <1>1, WFMin
<1>3. ASSUME NEW y \in S
      PROVE  x <= y
  <2>1. y < x => <<y, x>> \in R
    OBVIOUS
  <2>2. ~(y < x)
    <3> HIDE DEF R
    <3> QED BY <1>2, <2>1
  <2> QED BY <2>2
<1> QED BY <1>3

(* The Min of FiniteSetsExt.                                               *)
LEMMA MinIsElement ==
  ASSUME NEW S \in SUBSET Nat, S # {}
  PROVE  Min(S) \in S
  BY LeastExists DEF Min

(* The first entry in the order of a table is one of them.                 *)
LEMMA LeastIsElement ==
  ASSUME Ordered(Snapshot), NEW p, NEW S \in SUBSET In(p), S # {}
  PROVE  Least(S) \in S
<1>1. /\ S \subseteq Entries
      /\ \A e, f \in S : Same(e, f) => e = f
      /\ \A e \in S : e.table = p
  BY DEF In, Ordered, Contents, Snapshot
<1>2. \A e \in S : e.sec \in Nat /\ e.key \in Nat
  BY <1>1, EntryParts
<1> DEFINE Secs == {e.sec : e \in S}
<1>3. PICK m \in Secs : \A y \in Secs : m <= y
  <2>1. Secs \in SUBSET Nat /\ Secs # {}
    BY <1>2
  <2> HIDE DEF Secs
  <2> QED BY <2>1, LeastExists
<1> DEFINE Firsts == {e \in S : e.sec = m}
           Numbers == {e.key : e \in Firsts}
<1>4. PICK k \in Numbers : \A y \in Numbers : k <= y
  <2>1. Numbers \in SUBSET Nat /\ Numbers # {}
    BY <1>2
  <2> HIDE DEF Numbers
  <2> QED BY <2>1, LeastExists
<1>5. PICK e \in S : e.sec = m /\ e.key = k
  OBVIOUS
<1>6. ASSUME NEW f \in S \ {e}
      PROVE  Before(e, f)
  <2>1. f.sec \in Secs
    OBVIOUS
  <2>2. m <= f.sec
    BY <1>3, <2>1
  <2>3. CASE f.sec = m
    <3>1. f.key \in Numbers
      BY <2>3
    <3>2. k <= f.key
      BY <1>4, <3>1
    <3>3. f.key # k
      BY <1>1, <1>5, <2>3 DEF Same
    <3>4. e.key \in Nat /\ f.key \in Nat
      BY <1>2
    <3> HIDE DEF Secs, Firsts, Numbers
    <3> QED BY <1>5, <2>3, <3>2, <3>3, <3>4 DEF Before
  <2>4. CASE f.sec # m
    <3>1. e.sec \in Nat /\ f.sec \in Nat
      BY <1>2
    <3> HIDE DEF Secs, Firsts, Numbers
    <3> QED BY <1>5, <2>2, <2>4, <3>1 DEF Before
  <2> QED BY <2>3, <2>4
<1>7. \E x \in S : \A f \in S \ {x} : Before(x, f)
  BY <1>6
<1> HIDE DEF Secs, Firsts, Numbers
<1> QED BY <1>7 DEF Least

(* The last one, likewise.                                                 *)
LEMMA GreatestIsElement ==
  ASSUME Ordered(Snapshot), NEW p, NEW S \in SUBSET In(p), S # {}
  PROVE  Greatest(S) \in S
<1>1. /\ S \subseteq Entries
      /\ \A e, f \in S : Same(e, f) => e = f
      /\ \A e \in S : e.table = p
  BY DEF In, Ordered, Contents, Snapshot
<1>2. \A e \in S : /\ e.sec \in Nat /\ MaxSecKey - e.sec \in Nat
                   /\ e.key \in Nat /\ MaxKey - e.key \in Nat
  BY <1>1, EntryParts, BoundsAssumption DEF SecKeys, Keys
<1> DEFINE Secs == {MaxSecKey - e.sec : e \in S}
<1>3. PICK m \in Secs : \A y \in Secs : m <= y
  <2>1. Secs \in SUBSET Nat /\ Secs # {}
    BY <1>2
  <2> HIDE DEF Secs
  <2> QED BY <2>1, LeastExists
<1> DEFINE Lasts == {e \in S : MaxSecKey - e.sec = m}
           Numbers == {MaxKey - e.key : e \in Lasts}
<1>4. PICK k \in Numbers : \A y \in Numbers : k <= y
  <2>1. Numbers \in SUBSET Nat /\ Numbers # {}
    BY <1>2
  <2> HIDE DEF Numbers
  <2> QED BY <2>1, LeastExists
<1>5. PICK e \in S : MaxSecKey - e.sec = m /\ MaxKey - e.key = k
  OBVIOUS
<1>6. ASSUME NEW f \in S \ {e}
      PROVE  Before(f, e)
  <2>1. MaxSecKey - f.sec \in Secs
    OBVIOUS
  <2>2. m <= MaxSecKey - f.sec
    BY <1>3, <2>1
  <2>3. CASE f.sec = e.sec
    <3>1. MaxKey - f.key \in Numbers
      BY <1>5, <2>3
    <3>2. k <= MaxKey - f.key
      BY <1>4, <3>1
    <3>3. f.key # e.key
      BY <1>1, <2>3 DEF Same
    <3>4. e.key \in Nat /\ f.key \in Nat
      BY <1>2
    <3> HIDE DEF Secs, Lasts, Numbers
    <3> QED BY <1>5, <2>3, <3>2, <3>3, <3>4, BoundsAssumption DEF Before
  <2>4. CASE f.sec # e.sec
    <3>1. e.sec \in Nat /\ f.sec \in Nat
      BY <1>2
    <3> HIDE DEF Secs, Lasts, Numbers
    <3> QED BY <1>5, <2>2, <2>4, <3>1, BoundsAssumption DEF Before
  <2> QED BY <2>3, <2>4
<1>7. \E x \in S : \A f \in S \ {x} : Before(f, x)
  BY <1>6
<1> HIDE DEF Secs, Lasts, Numbers
<1> QED BY <1>7 DEF Greatest

(* An object that a lookup may find: it is the entry of its row.           *)
Stored(obj) ==
  obj # undefined => /\ obj \in Entries
                     /\ ~misused => byPrimary[RowOf(obj)] = obj

(* What is in the order is stored.                                         *)
LEMMA OrderIsStored ==
  ASSUME IInv, NEW obj \in bySecondary \cup {undefined}
  PROVE  Stored(obj)
  BY DEF IInv, TypeInv, UsedWell, Ordered, Agreed, Contents, Snapshot, Stored

(* So is what byPrimary has.                                               *)
LEMMA RowIsStored ==
  ASSUME IInv, NEW r \in RowKeys
  PROVE  Stored(byPrimary[r])
  BY DEF IInv, TypeInv, Ordered, Contents, Snapshot, Stored

(* So are the ends of a part of a table.                                   *)
LEMMA EndsAreStored ==
  ASSUME IInv, NEW p, NEW S \in SUBSET In(p)
  PROVE  Stored(Least(S)) /\ Stored(Greatest(S))
<1>1. CASE S = {}
  BY <1>1 DEF Least, Greatest, Stored
<1>2. CASE S # {}
  <2>1. Least(S) \in S /\ Greatest(S) \in S
    BY <1>2, LeastIsElement, GreatestIsElement DEF IInv, TypeInv
  <2>2. S \subseteq bySecondary
    BY DEF In
  <2> QED BY <2>1, <2>2, OrderIsStored
<1> QED BY <1>1, <1>2

-----------------------------------------------------------------------------
(* The cache.                                                              *)

(* IteratorCache.cacheTable does not touch the objects.                    *)
LEMMA CacheTableFields ==
  ASSUME NEW c, IsCache(c), NEW t \in Prefixes
  PROVE  LET d == CacheTable(c, t)
         IN /\ IsCache(d)
            /\ d.iteratorToObject = c.iteratorToObject
            /\ d.objectToIterator = c.objectToIterator
<1>1. CASE t \in DOMAIN c.tableCache
  BY <1>1 DEF CacheTable
<1>2. CASE t \notin DOMAIN c.tableCache
  <2> DEFINE ends == Append(c.endIteratorToTable, t)
             end == indexToEndIterator(Len(c.endIteratorToTable))
             map == MapSet(c.tableCache, t, end)
             d == [tableCache         |-> map,
                   endIteratorToTable |-> ends,
                   iteratorToObject   |-> c.iteratorToObject,
                   objectToIterator   |-> c.objectToIterator]
  <2>1. CacheTable(c, t) = d
    <3>1. CacheTable(c, t)
            = [c EXCEPT !.endIteratorToTable = ends, !.tableCache = map]
      BY <1>2 DEF CacheTable
    <3> HIDE DEF ends, map
    <3> QED BY <3>1 DEF IsCache
  <2>2. ends \in Seq(Prefixes)
    BY DEF IsCache
  <2> HIDE DEF ends, map
  <2>3. IsCache(d)
    BY <2>2 DEF IsCache
  <2> QED BY <2>1, <2>3
<1> QED BY <1>1, <1>2

(* IteratorCache.set                                                       *)
LEMMA SetObjectFields ==
  ASSUME NEW c, IsCache(c), NEW i \in 0 .. Len(c.iteratorToObject) - 1,
         NEW obj \in Entries
  PROVE  LET d == SetObject(c, i, obj)
         IN /\ IsCache(d)
            /\ d.iteratorToObject = [c.iteratorToObject EXCEPT ![i + 1] = obj]
            /\ Len(d.iteratorToObject) = Len(c.iteratorToObject)
<1> DEFINE objects == [c.iteratorToObject EXCEPT ![i + 1] = obj]
           d == [tableCache         |-> c.tableCache,
                 endIteratorToTable |-> c.endIteratorToTable,
                 iteratorToObject   |-> objects,
                 objectToIterator   |-> c.objectToIterator]
<1>1. SetObject(c, i, obj) = d
  <2>1. SetObject(c, i, obj) = [c EXCEPT !.iteratorToObject = objects]
    BY DEF SetObject, IsCache
  <2> HIDE DEF objects
  <2> QED BY <2>1 DEF IsCache
<1>2. /\ objects \in Seq(Entries \cup {undefined})
      /\ Len(objects) = Len(c.iteratorToObject)
  BY DEF IsCache
<1> HIDE DEF objects
<1>3. IsCache(d)
  BY <1>2 DEF IsCache
<1> QED BY <1>1, <1>2, <1>3 DEF objects

(* IteratorCache.remove                                                    *)
LEMMA RemoveFields ==
  ASSUME NEW c, IsCache(c), NEW i \in 0 .. Len(c.iteratorToObject) - 1
  PROVE  LET d == Remove(c, i)
         IN /\ IsCache(d)
            /\ d.iteratorToObject
                 = [c.iteratorToObject EXCEPT ![i + 1] = undefined]
            /\ Len(d.iteratorToObject) = Len(c.iteratorToObject)
<1> DEFINE objects == [c.iteratorToObject EXCEPT ![i + 1] = undefined]
           map == Restrict(c.objectToIterator,
                           DOMAIN c.objectToIterator \ {ObjectOf(c, i)})
           d == [tableCache         |-> c.tableCache,
                 endIteratorToTable |-> c.endIteratorToTable,
                 iteratorToObject   |-> objects,
                 objectToIterator   |-> map]
<1>1. Remove(c, i) = d
  <2>1. Remove(c, i) = [c EXCEPT !.iteratorToObject = objects,
                                 !.objectToIterator = map]
    BY DEF Remove, IsCache
  <2> HIDE DEF objects, map
  <2> QED BY <2>1 DEF IsCache
<1>2. /\ objects \in Seq(Entries \cup {undefined})
      /\ Len(objects) = Len(c.iteratorToObject)
  BY DEF IsCache
<1> HIDE DEF objects, map
<1>3. IsCache(d)
  BY <1>2 DEF IsCache
<1> QED BY <1>1, <1>2, <1>3 DEF objects

(* IteratorCache.add of an object that it does not find.                   *)
LEMMA AddFields ==
  ASSUME NEW c, IsCache(c), NEW obj \in Entries, ~Known(c, obj)
  PROVE  LET d == Add(c, obj)
         IN /\ IsCache(d)
            /\ d.iteratorToObject = Append(c.iteratorToObject, obj)
<1> DEFINE n == Len(c.iteratorToObject)
           objects == Append(c.iteratorToObject, obj)
           map == MapSet(c.objectToIterator, obj, n)
           d == [tableCache         |-> c.tableCache,
                 endIteratorToTable |-> c.endIteratorToTable,
                 iteratorToObject   |-> objects,
                 objectToIterator   |-> map]
<1>1. Add(c, obj) = d
  <2>1. Add(c, obj) = [c EXCEPT !.iteratorToObject = objects,
                                !.objectToIterator = map]
    BY DEF Add
  <2> HIDE DEF objects, map
  <2> QED BY <2>1 DEF IsCache
<1>2. objects \in Seq(Entries \cup {undefined})
  BY DEF IsCache
<1> HIDE DEF objects, map
<1>3. IsCache(d)
  BY <1>2 DEF IsCache
<1> QED BY <1>1, <1>3 DEF objects

(* Which iterators are live, and what they have.                           *)
LEMMA LiveObjects ==
  ASSUME NEW c, IsCache(c)
  PROVE  /\ Live(c) \subseteq All(c)
         /\ \A i \in Live(c) : ObjectOf(c, i) \in Entries
         /\ \A i : i \in Live(c) <=> i \in All(c) /\ ObjectOf(c, i) # undefined
  BY DEF IsCache, Live, All, ObjectOf

(* A context begins without iterators.                                     *)
LEMMA EmptyCacheHeld ==
  /\ IsCache(EmptyCache)
  /\ \A bp : RowsHeld(bp, EmptyCache)
<1>1. EmptyCache.iteratorToObject = << >>
  BY DEF EmptyCache
<1>2. All(EmptyCache) = {}
  BY <1>1 DEF All
<1> QED BY <1>2 DEF IsCache, RowsHeld, EmptyCache

(* A table is cached: the iterators are the same.                          *)
LEMMA CacheTableHeld ==
  ASSUME NEW c, IsCache(c), NEW t \in Prefixes, NEW bp, RowsHeld(bp, c)
  PROVE  RowsHeld(bp, CacheTable(c, t))
<1> DEFINE d == CacheTable(c, t)
<1>1. d.iteratorToObject = c.iteratorToObject
  BY CacheTableFields
<1> HIDE DEF d
<1>2. RowsHeld(bp, d)
  BY <1>1 DEF RowsHeld, Live, All, ObjectOf
<1> QED BY <1>2 DEF d

(* An iterator is made for the entry that a row has from now on.           *)
LEMMA AddHeld ==
  ASSUME NEW c, IsCache(c), NEW obj \in Entries, ~Known(c, obj),
         NEW bp \in [RowKeys -> Entries \cup {undefined}], RowsHeld(bp, c)
  PROVE  RowsHeld([bp EXCEPT ![RowOf(obj)] = obj], Add(c, obj))
<1> DEFINE d == Add(c, obj)
           n == Len(c.iteratorToObject)
           bq == [bp EXCEPT ![RowOf(obj)] = obj]
<1>1. /\ IsCache(d)
      /\ d.iteratorToObject = Append(c.iteratorToObject, obj)
  BY AddFields
<1>2. /\ RowOf(obj) \in RowKeys
      /\ bq[RowOf(obj)] = obj
      /\ \A r \in RowKeys : r # RowOf(obj) => bq[r] = bp[r]
  BY EntryParts
<1>3. /\ n \in Nat
      /\ Len(d.iteratorToObject) = n + 1
      /\ d.iteratorToObject[n + 1] = obj
      /\ \A i \in 0 .. n - 1 :
           d.iteratorToObject[i + 1] = c.iteratorToObject[i + 1]
  BY <1>1 DEF IsCache
<1> HIDE DEF d, bq
<1>4. /\ All(d) = All(c) \cup {n}
      /\ n \notin All(c)
      /\ ObjectOf(d, n) = obj
      /\ \A i \in All(c) : ObjectOf(d, i) = ObjectOf(c, i)
  BY <1>3 DEF All, ObjectOf
<1>5. SUFFICES ASSUME Live(d) = All(d), NEW i \in All(d)
               PROVE  \E j \in All(d) :
                        /\ RowOf(ObjectOf(d, j)) = RowOf(ObjectOf(d, i))
                        /\ bq[RowOf(ObjectOf(d, i))] = ObjectOf(d, j)
  BY DEF RowsHeld, d, bq
<1>6. CASE RowOf(ObjectOf(d, i)) = RowOf(obj)
  BY <1>2, <1>4, <1>6
<1>7. CASE RowOf(ObjectOf(d, i)) # RowOf(obj)
  <2>1. i \in All(c)
    BY <1>4, <1>7
  <2>2. Live(c) = All(c)
    BY <1>1, <1>4, <1>5, LiveObjects
  <2>3. PICK j \in All(c) :
          /\ RowOf(ObjectOf(c, j)) = RowOf(ObjectOf(c, i))
          /\ bp[RowOf(ObjectOf(c, i))] = ObjectOf(c, j)
    BY <2>1, <2>2 DEF RowsHeld
  <2>4. RowOf(ObjectOf(c, i)) \in RowKeys
    BY <2>1, <2>2, LiveObjects, EntryParts
  <2> QED BY <1>2, <1>4, <1>7, <2>1, <2>3, <2>4
<1> QED BY <1>6, <1>7

(* An iterator writes the entry of its row, and has it.                    *)
LEMMA SetHeld ==
  ASSUME NEW c, IsCache(c), NEW i \in Live(c),
         NEW obj \in Entries, RowOf(obj) = RowOf(ObjectOf(c, i)),
         NEW bp \in [RowKeys -> Entries \cup {undefined}], RowsHeld(bp, c)
  PROVE  RowsHeld([bp EXCEPT ![RowOf(obj)] = obj], SetObject(c, i, obj))
<1> DEFINE d == SetObject(c, i, obj)
           bq == [bp EXCEPT ![RowOf(obj)] = obj]
<1>1. /\ i \in All(c)
      /\ ObjectOf(c, i) \in Entries
  BY LiveObjects
<1>2. /\ IsCache(d)
      /\ d.iteratorToObject = [c.iteratorToObject EXCEPT ![i + 1] = obj]
      /\ Len(d.iteratorToObject) = Len(c.iteratorToObject)
  BY <1>1, SetObjectFields DEF All
<1>3. /\ RowOf(obj) \in RowKeys
      /\ bq[RowOf(obj)] = obj
      /\ \A r \in RowKeys : r # RowOf(obj) => bq[r] = bp[r]
  BY EntryParts
<1> HIDE DEF d, bq
<1>4. /\ All(d) = All(c)
      /\ ObjectOf(d, i) = obj
      /\ \A j \in All(c) \ {i} : ObjectOf(d, j) = ObjectOf(c, j)
  <2>1. c.iteratorToObject \in Seq(Entries \cup {undefined})
    BY DEF IsCache
  <2> QED BY <1>1, <1>2, <2>1 DEF All, ObjectOf
<1>5. \A j \in All(c) : RowOf(ObjectOf(d, j)) = RowOf(ObjectOf(c, j))
  BY <1>4
<1>6. SUFFICES ASSUME Live(d) = All(d), NEW k \in All(c)
               PROVE  \E j \in All(c) :
                        /\ RowOf(ObjectOf(d, j)) = RowOf(ObjectOf(d, k))
                        /\ bq[RowOf(ObjectOf(d, k))] = ObjectOf(d, j)
  BY <1>4 DEF RowsHeld, d, bq
<1>7. CASE RowOf(ObjectOf(d, k)) = RowOf(obj)
  BY <1>1, <1>3, <1>4, <1>7
<1>8. CASE RowOf(ObjectOf(d, k)) # RowOf(obj)
  <2>1. Live(c) = All(c)
    <3>1. ASSUME NEW j \in All(c)
          PROVE  ObjectOf(c, j) # undefined
      BY <1>1, <1>2, <1>4, <1>6, <3>1, LiveObjects, EntryParts
    <3> QED BY <3>1, LiveObjects
  <2>2. PICK j \in All(c) :
          /\ RowOf(ObjectOf(c, j)) = RowOf(ObjectOf(c, k))
          /\ bp[RowOf(ObjectOf(c, k))] = ObjectOf(c, j)
    BY <2>1 DEF RowsHeld
  <2>3. j # i
    BY <1>5, <1>8, <2>2
  <2>4. RowOf(ObjectOf(c, k)) \in RowKeys
    BY <2>1, LiveObjects, EntryParts
  <2> QED BY <1>3, <1>4, <1>5, <1>8, <2>2, <2>3, <2>4
<1> QED BY <1>7, <1>8

(* A removed iterator is not live.                                         *)
LEMMA RemoveHeld ==
  ASSUME NEW c, IsCache(c), NEW i \in Live(c), NEW bp
  PROVE  RowsHeld(bp, Remove(c, i))
<1> DEFINE d == Remove(c, i)
<1>1. i \in All(c)
  BY LiveObjects
<1>2. /\ d.iteratorToObject = [c.iteratorToObject EXCEPT ![i + 1] = undefined]
      /\ Len(d.iteratorToObject) = Len(c.iteratorToObject)
  BY <1>1, RemoveFields DEF All
<1> HIDE DEF d
<1>3. i \in All(d) /\ d.iteratorToObject[i + 1] = undefined
  <2>1. c.iteratorToObject \in Seq(Entries \cup {undefined})
    BY DEF IsCache
  <2> QED BY <1>1, <1>2, <2>1 DEF All
<1>4. RowsHeld(bp, d)
  BY <1>3 DEF RowsHeld, Live
<1> QED BY <1>4 DEF d

-----------------------------------------------------------------------------
(* Initial states and steps.                                               *)

(* The index at hand, as a value.                                          *)
LEMMA SnapshotIndex ==
  /\ Snapshot = Index(byPrimary, bySecondary, tables)
  /\ Snapshot' = Index(byPrimary', bySecondary', tables')
  BY DEF Snapshot, Index

(* The parts of an index that is ordered.                                  *)
LEMMA OrderedParts ==
  ASSUME Ordered(Snapshot)
  PROVE  /\ byPrimary \in [RowKeys -> Entries \cup {undefined}]
         /\ bySecondary \subseteq Entries
         /\ tables \subseteq Prefixes
         /\ \A r \in RowKeys : byPrimary[r] # undefined
              => RowOf(byPrimary[r]) = r
         /\ \A e, f \in bySecondary : Same(e, f) => e = f
  BY DEF Ordered, Contents, Snapshot

(* No entry, and no table.                                                 *)
LEMMA InitInvariant ==
  ASSUME Init
  PROVE  IInv
<1>1. byPrimary = [r \in RowKeys |-> undefined] /\ bySecondary = {}
        /\ tables = {}
  BY DEF Init, RowKeys
<1>2. Ordered(Snapshot)
  BY <1>1 DEF Ordered, Contents, Snapshot
<1>3. Agreed(Snapshot)
  <2>1. \A e \in Entries : byPrimary[RowOf(e)] = undefined /\ e # undefined
    BY <1>1, EntryParts
  <2> QED BY <1>1, <2>1 DEF Agreed, Snapshot
<1>4. Back(<< >>, Snapshot, Snapshot)
  BY <1>2, <1>3, BackStart DEF Good
<1>5. TypeInv
  BY <1>2, EmptyCacheHeld DEF Init, TypeInv
<1>6. UsedWell
  BY <1>3, <1>4, EmptyCacheHeld DEF Init, UsedWell
<1> QED BY <1>5, <1>6 DEF IInv

(* One change is journalled.                                               *)
LEMMA OnePushed ==
  ASSUME changes \in Seq(Changes), NEW c \in Changes, Push(c)
  PROVE  /\ changes' = Append(changes, c)
         /\ changes' \in Seq(Changes)
  BY DEF Push, PushAll

(* A change that can be undone is journalled, and the iterators keep up    *)
(* with it.                                                                *)
LEMMA ChangeUsedWell ==
  ASSUME IInv, changes' \in Seq(Changes), ~misused,
         NEW c \in Changes, changes' = Append(changes, c),
         Good(Snapshot'), Undoable(c, Snapshot'),
         Undoes(c, Snapshot', Snapshot),
         RowsHeld(byPrimary', cache'), UNCHANGED <<saved, thrown>>
  PROVE  UsedWell'
<1>1. Back(changes, saved, Snapshot) /\ changes \in Seq(Changes) /\ ~thrown
  BY DEF IInv, TypeInv, UsedWell
<1>2. Back(changes', saved', Snapshot')
  BY <1>1, BackExtended
<1> QED BY <1>1, <1>2 DEF UsedWell, Good

(* A transaction begins.                                                   *)
LEMMA BeginInvariant ==
  ASSUME IInv, Begin
  PROVE  IInv'
<1> USE DEF Begin, index
<1>1. Snapshot' = Snapshot
  BY DEF Snapshot
<1>2. TypeInv'
  BY <1>1 DEF IInv, TypeInv
<1>3. ~misused' => UsedWell'
  <2> SUFFICES ASSUME ~misused
               PROVE  UsedWell'
    BY DEF misused
  <2>1. Good(Snapshot) /\ RowsHeld(byPrimary, cache)
    BY DEF IInv, TypeInv, UsedWell, Good
  <2>2. Back(<< >>, Snapshot, Snapshot)
    BY <2>1, BackStart
  <2> QED BY <1>1, <2>1, <2>2 DEF UsedWell, Good
<1> QED BY <1>2, <1>3 DEF IInv

(* Contracts begin and end.                                                *)
LEMMA ContextInvariant ==
  ASSUME IInv, (\E c \in Contracts : Apply(c)) \/ Return \/ Abort
  PROVE  IInv'
<1> USE DEF index, history
<1>1. /\ Snapshot' = Snapshot
      /\ misused' = misused
      /\ UNCHANGED <<byPrimary, changes, saved, thrown>>
  BY DEF Apply, Return, Abort, Snapshot, misused
<1>2. cache' = cache \/ cache' = EmptyCache
  BY DEF Apply, Return, Abort
<1>3. TypeInv'
  <2>1. ASSUME NEW c \in Contracts, Apply(c)
        PROVE  TypeInv'
    BY <1>1, <2>1 DEF Apply, IInv, TypeInv
  <2>2. CASE Return \/ Abort
    BY <1>1, <2>2, EmptyCacheHeld DEF Return, Abort, IInv, TypeInv
  <2> QED BY <2>1, <2>2
<1>4. ~misused => UsedWell'
  BY <1>1, <1>2, EmptyCacheHeld DEF IInv, UsedWell
<1> QED BY <1>1, <1>3, <1>4 DEF IInv

(* The journal is dropped.                                                 *)
LEMMA CommitInvariant ==
  ASSUME IInv, Commit
  PROVE  IInv'
<1> USE DEF Commit, index
<1>1. Snapshot' = Snapshot
  BY DEF Snapshot
<1>2. TypeInv'
  BY <1>1 DEF IInv, TypeInv
<1>3. ~misused' => UsedWell'
  <2> SUFFICES ASSUME ~misused
               PROVE  UsedWell'
    BY DEF misused
  <2>1. Good(Snapshot) /\ RowsHeld(byPrimary, cache)
    BY DEF IInv, TypeInv, UsedWell, Good
  <2>2. Back(<< >>, Snapshot, Snapshot)
    BY <2>1, BackStart
  <2> QED BY <1>1, <2>1, <2>2 DEF IInv, UsedWell, Good
<1> QED BY <1>2, <1>3 DEF IInv

(* The change that is undone next.                                         *)
LEMMA LastChange ==
  ASSUME IInv, changes # << >>, NEW c, c = changes[Len(changes)]
  PROVE  /\ c \in Changes
         /\ SubSeq(changes, 1, Len(changes) - 1) \in Seq(Changes)
         /\ CanUndo(c) <=> Undoable(c, Snapshot)
         /\ ~misused => Undoable(c, Snapshot)
<1>1. changes \in Seq(Changes) /\ Len(changes) \in Nat \ {0}
  BY EmptySeq DEF IInv, TypeInv
<1>2. c \in Changes
  BY <1>1
<1>3. SubSeq(changes, 1, Len(changes) - 1) \in Seq(Changes)
  <2>1. Len(changes) - 1 \in 0 .. Len(changes)
    BY <1>1
  <2> QED BY <1>1, <2>1, FirstOnes
<1>4. CanUndo(c) <=> Undoable(c, Snapshot)
  BY DEF CanUndo, Undoable, Snapshot
<1>5. ~misused => Undoable(c, Snapshot)
  BY <1>1, BackCut DEF IInv, UsedWell
<1> QED BY <1>2, <1>3, <1>4, <1>5

(* One change is undone.                                                   *)
LEMMA RevertOneInvariant ==
  ASSUME IInv, RevertOne
  PROVE  IInv'
<1> DEFINE c == changes[Len(changes)]
<1>1. /\ phase = "reverting"
      /\ changes # << >>
      /\ CanUndo(c)
      /\ Undone(c)
      /\ tables' = tables \ {p \in Prefixes :
                              c.kind = "CreatePrefix" /\ p = c.prefix}
      /\ changes' = SubSeq(changes, 1, Len(changes) - 1)
      /\ UNCHANGED <<phase, receiver, cache, saved, misuse, thrown>>
  BY DEF RevertOne, history
<1>2. /\ c \in Changes
      /\ changes' \in Seq(Changes)
      /\ Undoable(c, Snapshot)
  BY <1>1, LastChange
<1>3. Ordered(Snapshot)
  BY DEF IInv, TypeInv
<1>4. /\ byPrimary \in [RowKeys -> Entries \cup {undefined}]
      /\ bySecondary \subseteq Entries
      /\ tables \subseteq Prefixes
  BY <1>3, OrderedParts
<1>5. /\ Snapshot.byPrimary = byPrimary
      /\ Snapshot.bySecondary = bySecondary
  BY DEF Snapshot
<1> HIDE DEF c
<1>6. /\ Undoes(c, Snapshot, Snapshot')
      /\ Ordered(Snapshot')
  <2>1. CASE c \in [kind : {"CreatePrefix"}, prefix : Prefixes]
    <3>1. /\ UNCHANGED <<byPrimary, bySecondary>>
          /\ tables' = tables \ {c.prefix}
      BY <1>1, <1>4, <2>1 DEF Undone, index
    <3>2. Snapshot' = Index(byPrimary, bySecondary, tables \ {c.prefix})
      BY <3>1, SnapshotIndex
    <3>3. Ordered(Snapshot')
      BY <1>3, <1>4, <3>2, OrderedParts DEF Ordered, Index, Contents
    <3> QED BY <2>1, <3>2, <3>3 DEF Undoes, Snapshot
  <2>2. CASE c \in [kind : {"Create"}, key : Entries]
    <3>1. /\ byPrimary' = [byPrimary EXCEPT ![RowOf(c.key)] = undefined]
          /\ bySecondary' = Without(c.key, bySecondary)
          /\ tables' = tables
      BY <1>1, <1>4, <2>2 DEF Undone, index
    <3>2. Snapshot' = Index([byPrimary EXCEPT ![RowOf(c.key)] = undefined],
                            Without(c.key, bySecondary), tables)
      BY <3>1, SnapshotIndex
    <3>3. Ordered(Snapshot')
      <4>1. /\ RowOf(c.key) \in RowKeys
            /\ Without(c.key, bySecondary) \in SUBSET bySecondary
        BY <2>2, EntryParts DEF Without
      <4> QED BY <1>3, <1>4, <1>5, <3>2, <4>1, CutOrdered
    <3> QED BY <2>2, <3>2, <3>3 DEF Undoes, Snapshot
  <2>3. CASE c \in [kind : {"Update"}, key : Entries, newKey : Entries]
    <3>1. /\ byPrimary' = [byPrimary EXCEPT ![RowOf(c.key)] = c.key]
          /\ bySecondary' = With(c.key, Without(c.newKey, bySecondary))
          /\ tables' = tables
      BY <1>1, <1>4, <2>3 DEF Undone, index
    <3>2. Snapshot' = Index([byPrimary EXCEPT ![RowOf(c.key)] = c.key],
                            With(c.key, Without(c.newKey, bySecondary)),
                            tables)
      BY <3>1, SnapshotIndex
    <3>3. Ordered(Snapshot')
      <4>1. /\ c.key \in Entries
            /\ Without(c.newKey, bySecondary) \in SUBSET bySecondary
        BY <2>3 DEF Without
      <4> QED BY <1>3, <1>4, <1>5, <3>2, <4>1, PutOrdered
    <3> QED BY <2>3, <3>2, <3>3 DEF Undoes, Snapshot
  <2>4. CASE c \in [kind : {"Delete"}, key : Entries \cup {undefined}]
    <3>1. /\ byPrimary' = [byPrimary EXCEPT ![RowOf(c.key)] = c.key]
          /\ bySecondary' = With(c.key, bySecondary)
          /\ tables' = tables
      BY <1>1, <1>4, <2>4 DEF Undone, index
    <3>2. Snapshot' = Index([byPrimary EXCEPT ![RowOf(c.key)] = c.key],
                            With(c.key, bySecondary), tables)
      BY <3>1, SnapshotIndex
    <3>3. Ordered(Snapshot')
      <4>1. c.key \in Entries
        BY <1>2, <2>4 DEF Undoable
      <4> QED BY <1>3, <1>4, <1>5, <3>2, <4>1, PutOrdered
    <3> QED BY <2>4, <3>2, <3>3 DEF Undoes, Snapshot
  <2> QED BY <1>2, <2>1, <2>2, <2>3, <2>4 DEF Changes
<1>7. TypeInv'
  BY <1>1, <1>2, <1>6 DEF IInv, TypeInv
<1>8. ASSUME ~misused
      PROVE  UsedWell'
  <2>1. /\ changes \in Seq(Changes)
        /\ Back(changes, saved, Snapshot)
        /\ ~thrown
    BY <1>8 DEF IInv, TypeInv, UsedWell
  <2>2. PICK s : /\ Good(s)
                 /\ Undoes(c, Snapshot, s)
                 /\ Back(changes', saved, s)
    BY <1>1, <2>1, BackCut DEF c
  <2>3. s = Snapshot'
    BY <1>2, <1>6, <2>2, OneUndoing
  <2>4. RowsHeld(byPrimary', cache')
    BY <1>1, EmptyCacheHeld DEF IInv, TypeInv
  <2> QED BY <1>1, <2>1, <2>2, <2>3, <2>4 DEF UsedWell, Good
<1> QED BY <1>1, <1>7, <1>8 DEF IInv, misused

(* A revert throws only after misuse.                                      *)
LEMMA RevertThrowsInvariant ==
  ASSUME IInv, RevertThrows
  PROVE  misused /\ IInv'
<1> USE DEF RevertThrows, index
<1>1. misused
  <2>1. ~CanUndo(changes[Len(changes)])
    OBVIOUS
  <2> QED BY <2>1, LastChange
<1>2. Snapshot' = Snapshot /\ misused' = misused
  BY DEF Snapshot, misused
<1>3. TypeInv'
  BY <1>2 DEF IInv, TypeInv
<1> QED BY <1>1, <1>2, <1>3 DEF IInv

(* The revert is over.                                                     *)
LEMMA RevertEndInvariant ==
  ASSUME IInv, RevertEnd
  PROVE  IInv'
<1> USE DEF RevertEnd, index, history
<1>1. Snapshot' = Snapshot /\ misused' = misused
  BY DEF Snapshot, misused
<1>2. TypeInv'
  BY <1>1 DEF IInv, TypeInv
<1>3. ~misused => UsedWell'
  BY <1>1 DEF IInv, UsedWell
<1> QED BY <1>1, <1>2, <1>3 DEF IInv

-----------------------------------------------------------------------------
(* Host functions.                                                         *)

(* A contract runs in an open transaction.                                 *)
LEMMA RunsOpen ==
  ASSUME IInv, Running
  PROVE  phase = "open" /\ receiver # undefined
  BY DEF IInv, TypeInv, Running

(* The index and the journal stay, and the iterators are fit for them.     *)
LEMMA CacheInvariant ==
  ASSUME IInv, Running, IsCache(cache'),
         ~misused => RowsHeld(byPrimary, cache'),
         UNCHANGED <<index, tables, changes, phase, receiver, history>>
  PROVE  IInv'
<1> USE DEF index, history
<1>1. Snapshot' = Snapshot /\ misused' = misused
  BY DEF Snapshot, misused
<1>2. TypeInv'
  BY <1>1 DEF IInv, TypeInv, Running
<1>3. ~misused => UsedWell'
  BY <1>1 DEF IInv, UsedWell
<1> QED BY <1>1, <1>2, <1>3 DEF IInv

(* cache.add of what was found.                                            *)
LEMMA ReachHeld ==
  ASSUME IInv, NEW c, IsCache(c), ~misused => RowsHeld(byPrimary, c),
         NEW obj, Stored(obj)
  PROVE  /\ IsCache(Reach(c, obj))
         /\ ~misused => RowsHeld(byPrimary, Reach(c, obj))
<1>1. CASE obj = undefined
  BY <1>1 DEF Reach
<1>2. CASE obj # undefined /\ Known(c, obj)
  BY <1>2 DEF Reach, Add
<1>3. CASE obj # undefined /\ ~Known(c, obj)
  <2>1. Reach(c, obj) = Add(c, obj)
    BY <1>3 DEF Reach
  <2>2. obj \in Entries
    BY <1>3 DEF Stored
  <2>3. IsCache(Add(c, obj))
    BY <1>3, <2>2, AddFields
  <2>4. ASSUME ~misused
        PROVE  RowsHeld(byPrimary, Add(c, obj))
    <3>1. byPrimary[RowOf(obj)] = obj
      BY <1>3, <2>4 DEF Stored
    <3>2. byPrimary \in [RowKeys -> Entries \cup {undefined}]
      BY OrderedParts DEF IInv, TypeInv
    <3>3. [byPrimary EXCEPT ![RowOf(obj)] = obj] = byPrimary
      BY <3>1, <3>2
    <3> QED BY <1>3, <2>2, <2>4, <3>2, <3>3, AddHeld
  <2> QED BY <2>1, <2>3, <2>4
<1> QED BY <1>1, <1>2, <1>3

(* find, lowerbound, upperbound, end.                                      *)
LEMMA LookupInvariant ==
  ASSUME IInv, NEW p \in Prefixes, NEW objects,
         \A obj \in objects : Stored(obj), Lookup(p, objects)
  PROVE  IInv'
<1>1. PICK obj \in objects : Cached(Reach(CacheTable(cache, p), obj))
  BY DEF Lookup
<1>2. /\ IsCache(cache)
      /\ ~misused => RowsHeld(byPrimary, cache)
  BY DEF IInv, TypeInv, UsedWell
<1>3. /\ IsCache(CacheTable(cache, p))
      /\ ~misused => RowsHeld(byPrimary, CacheTable(cache, p))
  BY <1>2, CacheTableFields, CacheTableHeld
<1>4. /\ IsCache(cache')
      /\ ~misused => RowsHeld(byPrimary, cache')
  BY <1>1, <1>3, ReachHeld DEF Cached
<1> QED BY <1>4, CacheInvariant DEF Lookup

(* next, previous.                                                         *)
LEMMA StepInvariant ==
  ASSUME IInv, Running, NEW obj, Stored(obj), Step(obj)
  PROVE  IInv'
<1>1. /\ IsCache(cache')
      /\ ~misused => RowsHeld(byPrimary, cache')
  BY ReachHeld DEF Step, Cached, IInv, TypeInv, UsedWell
<1> QED BY <1>1, CacheInvariant DEF Step

(* What the lookups by secondary key find is stored.                       *)
LEMMA LookupsFindStored ==
  ASSUME IInv, NEW p, NEW s
  PROVE  /\ \A obj \in Found(p, s) : Stored(obj)
         /\ Stored(Lower(p, s))
         /\ \A obj \in Uppers(p, s) : Stored(obj)
<1>1. \A e : Stored(After(e))
  <2>1. \A e : {f \in In(e.table) : Before(e, f)} \in SUBSET In(e.table)
    OBVIOUS
  <2> QED BY <2>1, EndsAreStored DEF After
<1>2. \A obj \in Found(p, s) : Stored(obj)
  <2>1. Found(p, s) \subseteq bySecondary \cup {undefined}
    BY DEF Found, Hits, In
  <2> QED BY <2>1, OrderIsStored
<1>3. Stored(Lower(p, s))
  BY EndsAreStored DEF Lower
<1>4. \A obj \in Uppers(p, s) : Stored(obj)
  <2>1. Stored(Least({e \in In(p) : e.sec > s}))
    BY EndsAreStored
  <2> QED BY <1>1, <2>1 DEF Uppers
<1> QED BY <1>2, <1>3, <1>4

(* An identity that no reachable object has.                               *)
LEMMA FreshEntry ==
  ASSUME FreeOids # {}, NEW p \in Prefixes, NEW k \in Keys,
         NEW s \in SecKeys,
         NEW obj, obj = [oid |-> Min(FreeOids), table |-> p, key |-> k,
                         sec |-> s]
  PROVE  obj \in Entries /\ obj \notin InUse
<1>1. FreeOids \in SUBSET Nat
  BY BoundsAssumption DEF FreeOids
<1>2. Min(FreeOids) \in FreeOids
  BY <1>1, MinIsElement
<1>3. /\ Min(FreeOids) \in 0 .. MaxObjects - 1
      /\ \A o \in InUse \ {undefined} : o.oid # Min(FreeOids)
  BY <1>2 DEF FreeOids
<1>4. obj \in Entries
  BY <1>3 DEF Entries
<1>5. obj # undefined
  BY <1>4, UndefinedAssumption
<1>6. obj.oid = Min(FreeOids)
  OBVIOUS
<1> QED BY <1>3, <1>4, <1>5, <1>6

(* Two changes are journalled at once.                                     *)
LEMMA PushedAfter ==
  ASSUME NEW S, NEW q \in Seq(S), NEW m \in S, NEW c \in S
  PROVE  q \o Append(<<m>>, c) = Append(Append(q, m), c)
<1>1. /\ Append(<<m>>, c) \in Seq(S)
      /\ Len(Append(<<m>>, c)) = 2
      /\ Append(<<m>>, c)[1] = m
      /\ Append(<<m>>, c)[2] = c
  OBVIOUS
<1> QED BY <1>1

(* genericIndex.store.                                                     *)
LEMMA StoreInvariant ==
  ASSUME IInv, NEW p \in Prefixes, NEW k \in Keys, NEW s \in SecKeys,
         IdxStore(p, k, s)
  PROVE  IInv'
<1> DEFINE obj == [oid |-> Min(FreeOids), table |-> p, key |-> k, sec |-> s]
           made == [kind |-> "CreatePrefix", prefix |-> p]
           c == [kind |-> "Create", key |-> obj]
           mid == Index(byPrimary, bySecondary, tables \cup {p})
<1>1. /\ Running
      /\ FreeOids # {}
      /\ PushAll(Append(Creation(p), c))
      /\ tables' = tables \cup {p}
      /\ byPrimary' = [byPrimary EXCEPT ![<<p, k>>] = obj]
      /\ bySecondary' = With(obj, bySecondary)
      /\ cache' = Add(CacheTable(cache, p), obj)
      /\ misuse' = IF byPrimary[<<p, k>>] = undefined THEN misuse
                   ELSE "double"
      /\ UNCHANGED <<phase, receiver, saved, thrown>>
  BY DEF IdxStore, Cached
<1>2. obj \in Entries /\ obj \notin InUse
  BY <1>1, FreshEntry
<1>3. RowOf(obj) = <<p, k>>
  BY DEF RowOf
<1>4. made \in Changes /\ c \in Changes
  BY <1>2 DEF Changes
<1>5. Ordered(Snapshot) /\ changes \in Seq(Changes) /\ IsCache(cache)
  BY DEF IInv, TypeInv
<1>6. /\ byPrimary \in [RowKeys -> Entries \cup {undefined}]
      /\ bySecondary \subseteq Entries
      /\ tables \subseteq Prefixes
  BY <1>5, OrderedParts
<1> HIDE DEF obj
<1>7. /\ Snapshot.byPrimary = byPrimary
      /\ Snapshot.bySecondary = bySecondary
      /\ Snapshot.tables = tables
      /\ mid.byPrimary = byPrimary
      /\ mid.bySecondary = bySecondary
      /\ mid.tables = tables \cup {p}
  BY DEF Snapshot, Index
<1>8. Snapshot' = Index([byPrimary EXCEPT ![RowOf(obj)] = obj],
                        With(obj, bySecondary), tables \cup {p})
  BY <1>1, <1>3, SnapshotIndex
<1>9. Ordered(Snapshot')
  <2>1. tables \cup {p} \in SUBSET Prefixes
    BY <1>6
  <2>2. bySecondary \in SUBSET bySecondary
    OBVIOUS
  <2> QED BY <1>2, <1>5, <1>7, <1>8, <2>1, <2>2, PutOrdered
<1>10. \/ p \in tables /\ changes' = Append(changes, c)
       \/ p \notin tables /\ changes' = Append(Append(changes, made), c)
  <2> HIDE DEF c, made
  <2>1. CASE p \in tables
    <3>1. Append(Creation(p), c) = <<c>>
      BY <2>1 DEF Creation
    <3> QED BY <1>1, <1>4, <1>5, <2>1, <3>1 DEF PushAll
  <2>2. CASE p \notin tables
    <3>1. Creation(p) = <<made>>
      BY <2>2 DEF Creation, made
    <3> QED BY <1>1, <1>4, <1>5, <2>2, <3>1, PushedAfter DEF PushAll
  <2> QED BY <2>1, <2>2
<1> HIDE DEF c, made
<1>11. changes' \in Seq(Changes)
  BY <1>4, <1>5, <1>10
<1>12. /\ IsCache(CacheTable(cache, p))
       /\ CacheTable(cache, p).objectToIterator = cache.objectToIterator
  BY <1>5, CacheTableFields
<1>13. ~Known(CacheTable(cache, p), obj)
  BY <1>2, <1>12 DEF Known, InUse
<1>14. IsCache(cache')
  BY <1>1, <1>2, <1>12, <1>13, AddFields
<1>15. TypeInv'
  BY <1>1, <1>9, <1>11, <1>14 DEF IInv, TypeInv, Running
<1>16. ASSUME ~misused'
       PROVE  UsedWell'
  <2>1. ~misused /\ byPrimary[RowOf(obj)] = undefined
    BY <1>1, <1>3, <1>16 DEF misused
  <2>2. /\ Good(Snapshot)
        /\ ~thrown
        /\ Back(changes, saved, Snapshot)
        /\ RowsHeld(byPrimary, cache)
    BY <2>1 DEF IInv, TypeInv, UsedWell, Good
  <2>3. /\ Good(mid)
        /\ \/ p \in tables /\ Back(changes, saved, mid)
           \/ p \notin tables /\ Back(Append(changes, made), saved, mid)
    <3>1. CASE p \in tables
      <4>1. tables \cup {p} = tables
        BY <3>1
      <4>2. mid = Snapshot
        BY <4>1, SnapshotIndex
      <4> QED BY <2>2, <3>1, <4>2
    <3>2. CASE p \notin tables
      <4> HIDE DEF mid
      <4>1. mid = Index(Snapshot.byPrimary, Snapshot.bySecondary,
                        Snapshot.tables \cup {p})
        BY <1>7 DEF mid
      <4>2. /\ Good(mid)
            /\ Undoable(made, mid)
            /\ Undoes(made, mid, Snapshot)
        BY <1>7, <2>2, <3>2, <4>1, CreatePrefixUndone DEF made
      <4>3. Back(Append(changes, made), saved, mid)
        BY <1>4, <1>5, <2>2, <4>2, BackExtended
      <4> QED BY <3>2, <4>2, <4>3
    <3> QED BY <3>1, <3>2
  <2>4. /\ Good(Snapshot')
        /\ Undoable(c, Snapshot')
        /\ Undoes(c, Snapshot', mid)
    <3> HIDE DEF mid
    <3>1. Snapshot' = Index([mid.byPrimary EXCEPT ![RowOf(obj)] = obj],
                            With(obj, mid.bySecondary), mid.tables)
      BY <1>7, <1>8
    <3>2. mid.byPrimary[RowOf(obj)] = undefined
      BY <1>7, <2>1
    <3> QED BY <1>2, <2>3, <3>1, <3>2, CreateUndone DEF c
  <2>5. Back(changes', saved', Snapshot')
    <3> HIDE DEF mid
    <3>1. Append(changes, made) \in Seq(Changes)
      BY <1>4, <1>5
    <3> QED BY <1>1, <1>4, <1>5, <1>10, <2>3, <2>4, <3>1, BackExtended
  <2>6. RowsHeld(byPrimary', cache')
    <3>1. RowsHeld(byPrimary, CacheTable(cache, p))
      BY <1>5, <2>2, CacheTableHeld
    <3> QED BY <1>1, <1>2, <1>3, <1>6, <1>12, <1>13, <3>1, AddHeld
  <2> QED BY <1>1, <2>2, <2>4, <2>5, <2>6 DEF UsedWell, Good
<1> QED BY <1>15, <1>16 DEF IInv

(* What an iterator that update and remove accept has.                     *)
LEMMA WrittenObject ==
  ASSUME IInv, NEW it, Writable(it), NEW obj, obj = ObjectOf(cache, it)
  PROVE  /\ obj \in Entries
         /\ it \in All(cache)
         /\ RowOf(obj) \in RowKeys
  BY LiveObjects, EntryParts DEF IInv, TypeInv, Writable

(* A write through an iterator that is not stale.                          *)
LEMMA NotStale ==
  ASSUME IInv, NEW it, misuse' = Through(it), ~misused'
  PROVE  /\ ~misused
         /\ byPrimary[RowOf(ObjectOf(cache, it))] = ObjectOf(cache, it)
  BY DEF Through, Stale, misused

(* The clone of an entry that update changes.                              *)
LEMMA ChangedEntry ==
  ASSUME NEW e \in Entries, NEW n, NEW s
  PROVE  [e EXCEPT !.oid = n, !.sec = s]
           = [oid |-> n, table |-> e.table, key |-> e.key, sec |-> s]
<1>1. e = [oid |-> e.oid, table |-> e.table, key |-> e.key, sec |-> e.sec]
  BY DEF Entries
<1> DEFINE f == [e EXCEPT !.oid = n]
<1>2. f = [oid |-> n, table |-> e.table, key |-> e.key, sec |-> e.sec]
  BY <1>1
<1>3. [e EXCEPT !.oid = n, !.sec = s] = [f EXCEPT !.sec = s]
  BY Zenon
<1> HIDE DEF f
<1>4. [f EXCEPT !.sec = s]
        = [oid |-> n, table |-> e.table, key |-> e.key, sec |-> s]
  BY <1>2
<1> QED BY <1>3, <1>4

(* genericIndex.update.                                                    *)
LEMMA UpdateInvariant ==
  ASSUME IInv, NEW it, NEW s \in SecKeys, IdxUpdate(it, s)
  PROVE  IInv'
<1> DEFINE obj == ObjectOf(cache, it)
           newObj == [obj EXCEPT !.oid = Min(FreeOids), !.sec = s]
           c == [kind |-> "Update", key |-> obj, newKey |-> newObj]
<1>1. /\ Writable(it)
      /\ FreeOids # {}
      /\ \/ \E e \in bySecondary :
              /\ Same(e, obj)
              /\ Push([kind |-> "Update", key |-> e, newKey |-> newObj])
         \/ /\ \A e \in bySecondary : ~Same(e, obj)
            /\ Push([kind |-> "Create", key |-> newObj])
      /\ byPrimary' = [byPrimary EXCEPT ![RowOf(obj)] = newObj]
      /\ bySecondary' = With(newObj, Without(obj, bySecondary))
      /\ cache' = SetObject(cache, it, newObj)
      /\ misuse' = Through(it)
      /\ UNCHANGED <<tables, phase, receiver, saved, thrown>>
  BY DEF IdxUpdate
<1>2. obj \in Entries /\ it \in All(cache) /\ RowOf(obj) \in RowKeys
  BY <1>1, WrittenObject
<1>3. newObj \in Entries /\ RowOf(newObj) = RowOf(obj)
  <2>1. newObj = [oid |-> Min(FreeOids), table |-> obj.table,
                  key |-> obj.key, sec |-> s]
    BY <1>2, ChangedEntry
  <2>2. obj.table \in Prefixes /\ obj.key \in Keys
    BY <1>2, EntryParts
  <2>3. newObj \in Entries
    BY <1>1, <2>1, <2>2, FreshEntry
  <2> QED BY <2>1, <2>3 DEF RowOf
<1>4. Ordered(Snapshot) /\ changes \in Seq(Changes) /\ IsCache(cache)
  BY DEF IInv, TypeInv
<1>5. /\ byPrimary \in [RowKeys -> Entries \cup {undefined}]
      /\ bySecondary \subseteq Entries
      /\ tables \subseteq Prefixes
      /\ \A e, f \in bySecondary : Same(e, f) => e = f
  BY <1>4, OrderedParts
<1>6. /\ Snapshot.byPrimary = byPrimary
      /\ Snapshot.bySecondary = bySecondary
      /\ Snapshot.tables = tables
  BY DEF Snapshot
<1> HIDE DEF obj, newObj
<1>7. Snapshot' = Index([byPrimary EXCEPT ![RowOf(obj)] = newObj],
                        With(newObj, Without(obj, bySecondary)), tables)
  BY <1>1, SnapshotIndex
<1>8. Ordered(Snapshot')
  <2>1. Without(obj, bySecondary) \in SUBSET bySecondary
    BY DEF Without
  <2> QED BY <1>3, <1>4, <1>5, <1>6, <1>7, <2>1, PutOrdered
<1>9. changes' \in Seq(Changes)
  <2>1. ASSUME NEW e \in bySecondary,
               Push([kind |-> "Update", key |-> e, newKey |-> newObj])
        PROVE  changes' \in Seq(Changes)
    <3>1. [kind |-> "Update", key |-> e, newKey |-> newObj] \in Changes
      BY <1>3, <1>5 DEF Changes
    <3> QED BY <1>4, <2>1, <3>1, OnePushed
  <2>2. ASSUME Push([kind |-> "Create", key |-> newObj])
        PROVE  changes' \in Seq(Changes)
    <3>1. [kind |-> "Create", key |-> newObj] \in Changes
      BY <1>3 DEF Changes
    <3> QED BY <1>4, <2>2, <3>1, OnePushed
  <2> QED BY <1>1, <2>1, <2>2
<1>10. IsCache(cache')
  BY <1>1, <1>2, <1>3, <1>4, SetObjectFields DEF All
<1>11. TypeInv'
  BY <1>1, <1>8, <1>9, <1>10 DEF IInv, TypeInv, Writable, Running
<1>12. ASSUME ~misused'
       PROVE  UsedWell'
  <2>1. ~misused /\ byPrimary[RowOf(obj)] = obj
    BY <1>1, <1>12, NotStale DEF obj
  <2>2. Good(Snapshot) /\ RowsHeld(byPrimary, cache)
    BY <2>1 DEF IInv, TypeInv, UsedWell, Good
  <2>3. obj \in bySecondary
    BY <1>2, <1>6, <2>1, <2>2 DEF Good, Agreed
  <2>4. Push(c)
    <3>1. Same(obj, obj)
      BY DEF Same
    <3>2. \A e \in bySecondary : Same(e, obj) => e = obj
      BY <1>5, <2>3
    <3> QED BY <1>1, <2>3, <3>1, <3>2
  <2>5. c \in Changes
    BY <1>2, <1>3 DEF Changes
  <2>6. changes' = Append(changes, c)
    BY <1>4, <2>4, <2>5, OnePushed
  <2>7. /\ Good(Snapshot')
        /\ Undoable(c, Snapshot')
        /\ Undoes(c, Snapshot', Snapshot)
    BY <1>2, <1>3, <1>6, <1>7, <2>1, <2>2, UpdateUndone
  <2>8. RowsHeld(byPrimary', cache')
    <3>1. it \in Live(cache) /\ RowOf(newObj) = RowOf(ObjectOf(cache, it))
      BY <1>1, <1>3 DEF Writable, obj
    <3> QED BY <1>1, <1>3, <1>4, <1>5, <2>2, <3>1, SetHeld
  <2> HIDE DEF c
  <2> QED BY <1>1, <1>9, <2>1, <2>5, <2>6, <2>7, <2>8, ChangeUsedWell
<1> QED BY <1>11, <1>12 DEF IInv

(* genericIndex.remove.                                                    *)
LEMMA IdxRemoveInvariant ==
  ASSUME IInv, NEW it, IdxRemove(it)
  PROVE  IInv'
<1> DEFINE obj == ObjectOf(cache, it)
           old == byPrimary[RowOf(obj)]
           c == [kind |-> "Delete", key |-> old]
<1>1. /\ Writable(it)
      /\ Push(c)
      /\ byPrimary' = [byPrimary EXCEPT ![RowOf(obj)] = undefined]
      /\ bySecondary' = Without(obj, bySecondary)
      /\ cache' = Remove(cache, it)
      /\ misuse' = Through(it)
      /\ UNCHANGED <<tables, phase, receiver, saved, thrown>>
  BY DEF IdxRemove
<1>2. obj \in Entries /\ it \in All(cache) /\ RowOf(obj) \in RowKeys
  BY <1>1, WrittenObject
<1>3. Ordered(Snapshot) /\ changes \in Seq(Changes) /\ IsCache(cache)
  BY DEF IInv, TypeInv
<1>4. /\ byPrimary \in [RowKeys -> Entries \cup {undefined}]
      /\ bySecondary \subseteq Entries
      /\ tables \subseteq Prefixes
  BY <1>3, OrderedParts
<1>5. /\ Snapshot.byPrimary = byPrimary
      /\ Snapshot.bySecondary = bySecondary
      /\ Snapshot.tables = tables
  BY DEF Snapshot
<1>6. c \in Changes
  BY <1>2, <1>4 DEF Changes
<1> HIDE DEF obj, old
<1>7. /\ changes' = Append(changes, c)
      /\ changes' \in Seq(Changes)
  <2> HIDE DEF c
  <2> QED BY <1>1, <1>3, <1>6, OnePushed
<1>8. Snapshot' = Index([byPrimary EXCEPT ![RowOf(obj)] = undefined],
                        Without(obj, bySecondary), tables)
  BY <1>1, SnapshotIndex
<1>9. Ordered(Snapshot')
  <2>1. Without(obj, bySecondary) \in SUBSET bySecondary
    BY DEF Without
  <2> QED BY <1>2, <1>3, <1>4, <1>5, <1>8, <2>1, CutOrdered
<1>10. IsCache(cache')
  BY <1>1, <1>2, <1>3, RemoveFields DEF All
<1>11. TypeInv'
  BY <1>1, <1>7, <1>9, <1>10 DEF IInv, TypeInv, Writable, Running
<1>12. ASSUME ~misused'
       PROVE  UsedWell'
  <2>1. ~misused /\ byPrimary[RowOf(obj)] = obj
    BY <1>1, <1>12, NotStale DEF obj
  <2>2. Good(Snapshot)
    BY <2>1 DEF IInv, TypeInv, UsedWell, Good
  <2>3. c = [kind |-> "Delete", key |-> obj]
    BY <2>1 DEF old
  <2>4. /\ Good(Snapshot')
        /\ Undoable(c, Snapshot')
        /\ Undoes(c, Snapshot', Snapshot)
    <3> HIDE DEF c
    <3> QED BY <1>2, <1>5, <1>8, <2>1, <2>2, <2>3, DeleteUndone
  <2>5. RowsHeld(byPrimary', cache')
    <3>1. it \in Live(cache)
      BY <1>1 DEF Writable
    <3> QED BY <1>1, <1>3, <3>1, RemoveHeld
  <2> HIDE DEF c
  <2> QED BY <1>1, <1>6, <1>7, <2>1, <2>4, <2>5, ChangeUsedWell
<1> QED BY <1>11, <1>12 DEF IInv

(* Every host function.                                                    *)
LEMMA HostFunctionInvariant ==
  ASSUME IInv, HostFunction
  PROVE  IInv'
<1>1. ASSUME NEW p \in Prefixes, NEW k \in Keys, FindPrimary(p, k)
      PROVE  IInv'
  <2>1. <<p, k>> \in RowKeys
    BY DEF RowKeys
  <2>2. \A obj \in {byPrimary[<<p, k>>]} : Stored(obj)
    BY <2>1, RowIsStored
  <2> QED BY <1>1, <2>2, LookupInvariant DEF FindPrimary
<1>2. ASSUME NEW p \in Prefixes, NEW k \in Keys, NEW s \in SecKeys,
             IdxStore(p, k, s)
      PROVE  IInv'
  BY <1>2, StoreInvariant
<1>3. ASSUME NEW p \in Prefixes, NEW s \in SecKeys,
             FindSecondary(p, s) \/ Lowerbound(p, s) \/ Upperbound(p, s)
      PROVE  IInv'
  <2>1. CASE FindSecondary(p, s)
    BY <2>1, LookupsFindStored, LookupInvariant DEF FindSecondary
  <2>2. CASE Lowerbound(p, s)
    <3>1. \A obj \in {Lower(p, s)} : Stored(obj)
      BY LookupsFindStored
    <3> QED BY <2>2, <3>1, LookupInvariant DEF Lowerbound
  <2>3. CASE Upperbound(p, s)
    BY <2>3, LookupsFindStored, LookupInvariant DEF Upperbound
  <2> QED BY <1>3, <2>1, <2>2, <2>3
<1>4. ASSUME NEW p \in Prefixes, EndSecondary(p)
      PROVE  IInv'
  <2>1. \A obj \in {undefined} : Stored(obj)
    BY DEF Stored
  <2> QED BY <1>4, <2>1, LookupInvariant DEF EndSecondary
<1>5. ASSUME NEW it, IdxRemove(it)
      PROVE  IInv'
  BY <1>5, IdxRemoveInvariant
<1>6. ASSUME NEW it, NextSecondary(it)
      PROVE  IInv'
  <2>1. Stored(After(ObjectOf(cache, it)))
    BY EndsAreStored DEF After
  <2> QED BY <1>6, <2>1, StepInvariant DEF NextSecondary
<1>7. ASSUME NEW it, PreviousSecondary(it)
      PROVE  IInv'
  <2> DEFINE obj == ObjectOf(cache, it)
             S == {e \in In(obj.table) : Before(e, obj)}
  <2>1. Stored(Greatest(S))
    BY EndsAreStored
  <2> QED BY <1>7, <2>1, StepInvariant DEF PreviousSecondary
<1>8. ASSUME NEW ei, PreviousOfEnd(ei)
      PROVE  IInv'
  <2> DEFINE t == FindTableByEndIterator(cache, ei)
  <2>1. Stored(Greatest(In(t)))
    BY EndsAreStored
  <2> QED BY <1>8, <2>1, StepInvariant DEF PreviousOfEnd
<1>9. ASSUME NEW it, NEW s \in SecKeys, IdxUpdate(it, s)
      PROVE  IInv'
  BY <1>9, UpdateInvariant
<1> QED BY <1>1, <1>2, <1>3, <1>4, <1>5, <1>6, <1>7, <1>8, <1>9
     DEF HostFunction

-----------------------------------------------------------------------------
(* Theorems.                                                               *)

(* Every step keeps the invariant.                                         *)
LEMMA StepKeepsInvariant ==
  IInv /\ [Next]_vars => IInv'
<1> SUFFICES ASSUME IInv, [Next]_vars
             PROVE  IInv'
  OBVIOUS
<1>1. CASE UNCHANGED vars
  <2>1. Snapshot' = Snapshot /\ misused' = misused
    BY <1>1 DEF vars, Snapshot, misused
  <2>2. TypeInv' /\ (~misused => UsedWell')
    BY <1>1, <2>1 DEF vars, IInv, TypeInv, UsedWell
  <2> QED BY <2>1, <2>2 DEF IInv
<1>2. CASE Next
  BY <1>2, BeginInvariant, ContextInvariant, CommitInvariant,
     RevertOneInvariant, RevertThrowsInvariant, RevertEndInvariant,
     HostFunctionInvariant DEF Next
<1> QED BY <1>1, <1>2

(* The invariant holds in every reachable state: whatever contracts do,    *)
(* entries are found under their row and the order tells them apart; and   *)
(* unless they misuse the functions the trees agree, the journal leads     *)
(* back to the snapshot, and the iterators hold the rows they were made    *)
(* for.                                                                    *)
THEOREM Invariance == Spec => []IInv
<1>1. Init => IInv
  BY InitInvariant
<1>2. IInv /\ [Next]_vars => IInv'
  BY StepKeepsInvariant
<1> QED BY <1>1, <1>2, PTL DEF Spec

(* The two trees of SecondaryKeyStore hold the same objects, one for each  *)
(* row, unless contracts misuse the host functions.                        *)
THEOREM TreesAgree == Spec => []TreesAgreeUnlessMisused
<1>1. IInv => TreesAgreeUnlessMisused
  <2> SUFFICES ASSUME IInv, ~misused
               PROVE  bySecondary = Range(byPrimary) \ {undefined}
    BY DEF TreesAgreeUnlessMisused
  <2>1. /\ byPrimary \in [RowKeys -> Entries \cup {undefined}]
        /\ bySecondary \subseteq Entries
        /\ \A r \in RowKeys : byPrimary[r] # undefined
             => RowOf(byPrimary[r]) = r
    BY OrderedParts DEF IInv, TypeInv
  <2>2. \A e \in Entries : e \in bySecondary <=> byPrimary[RowOf(e)] = e
    BY DEF IInv, UsedWell, Agreed, Snapshot
  <2>3. ASSUME NEW e \in bySecondary
        PROVE  e \in Range(byPrimary) \ {undefined}
    <3>1. RowOf(e) \in RowKeys /\ e # undefined
      BY <2>1, EntryParts
    <3> QED BY <2>1, <2>2, <3>1 DEF Range
  <2>4. ASSUME NEW e \in Range(byPrimary) \ {undefined}
        PROVE  e \in bySecondary
    <3>1. PICK r \in RowKeys : byPrimary[r] = e
      BY <2>1 DEF Range
    <3> QED BY <2>1, <2>2, <3>1
  <2> QED BY <2>3, <2>4
<1> QED BY <1>1, Invariance, PTL

(* No revert of SecondaryKeyStore's changes throws, under the same         *)
(* condition.                                                              *)
THEOREM RevertsWork == Spec => []RevertWorksUnlessMisused
<1>1. IInv => RevertWorksUnlessMisused
  BY DEF IInv, UsedWell, RevertWorksUnlessMisused
<1> QED BY <1>1, Invariance, PTL

(* Store.revertTo gives the tables and both trees back as they were, to    *)
(* the objects, under the same condition.                                  *)
THEOREM RollbackExact == Spec => RollbackExactUnlessMisused
<1> DEFINE Exact == phase = "reverting" /\ phase' = "idle" /\ ~misused
                      => /\ byPrimary' = saved.byPrimary
                         /\ bySecondary' = saved.bySecondary
                         /\ tables' = saved.tables
<1>1. ASSUME IInv, Next, phase = "reverting", phase' = "idle", ~misused
      PROVE  /\ byPrimary' = saved.byPrimary
             /\ bySecondary' = saved.bySecondary
             /\ tables' = saved.tables
  <2>1. receiver = undefined
    BY <1>1 DEF IInv, TypeInv
  <2>2. RevertThrows \/ RevertEnd
    <3>1. ~HostFunction
      BY <2>1 DEF HostFunction, FindPrimary, IdxStore, FindSecondary,
         Lowerbound, Upperbound, EndSecondary, Lookup, IdxRemove, IdxUpdate,
         NextSecondary, PreviousSecondary, PreviousOfEnd, Writable, Running
    <3> QED BY <1>1, <2>1, <3>1
         DEF Next, Begin, Apply, Return, Commit, Abort, RevertOne
  <2>3. RevertEnd
    BY <1>1, <2>2, RevertThrowsInvariant
  <2>4. saved = Snapshot
    BY <1>1, <2>3, BackEnd DEF RevertEnd, IInv, UsedWell
  <2> QED BY <2>3, <2>4 DEF RevertEnd, Snapshot, index
<1>2. IInv /\ [Next]_vars => [Exact]_vars
  BY <1>1
<1> QED BY <1>2, Invariance, PTL DEF Spec, RollbackExactUnlessMisused

(* IteratorCache: what makes an iterator stale is another one for its row. *)
THEOREM SoleIteratorsCurrent == Spec => []SoleIteratorsAreCurrent
<1>1. IInv => SoleIteratorsAreCurrent
  BY DEF IInv, UsedWell, RowsHeld, All, SoleIteratorsAreCurrent, Stale
<1> QED BY <1>1, Invariance, PTL

(* There are finitely many entries with one secondary key in a table.      *)
LEMMA HitsAreFinite ==
  ASSUME IInv, NEW p, NEW s
  PROVE  IsFiniteSet(Hits(p, s))
<1> DEFINE f == [e \in Hits(p, s) |-> e.key]
<1>1. /\ bySecondary \subseteq Entries
      /\ \A e, g \in bySecondary : Same(e, g) => e = g
  BY OrderedParts DEF IInv, TypeInv
<1>2. f \in [Hits(p, s) -> Keys]
  BY <1>1, EntryParts DEF Hits, In
<1>3. \A e, g \in Hits(p, s) : f[e] = f[g] => e = g
  BY <1>1 DEF Hits, In, Same
<1> HIDE DEF f
<1>4. f \in Injection(Hits(p, s), Keys)
  BY <1>2, <1>3 DEF Injection, IsInjective
<1>5. IsFiniteSet(Keys)
  BY FS_Interval, BoundsAssumption DEF Keys
<1> QED BY <1>4, <1>5, FS_Injection

(* upperbound_secondary ignores the primary key, and finds the least entry *)
(* above all the same while no two entries share the secondary key.        *)
THEOREM UpperboundSkips == Spec => []UpperboundSkipsUnlessShared
<1>1. IInv => UpperboundSkipsUnlessShared
  <2> SUFFICES ASSUME IInv, NEW p \in Prefixes, NEW s \in SecKeys,
                      Cardinality(Hits(p, s)) <= 1
               PROVE  Uppers(p, s) = {Least({e \in In(p) : e.sec > s})}
    BY DEF UpperboundSkipsUnlessShared
  <2>1. CASE Hits(p, s) = {}
    BY <2>1 DEF Uppers
  <2>2. CASE Hits(p, s) # {}
    <3>1. PICK e : Hits(p, s) = {e}
      <4>1. IsFiniteSet(Hits(p, s))
        BY HitsAreFinite
      <4>2. Cardinality(Hits(p, s)) \in Nat
        BY <4>1, FS_CardinalityType
      <4>3. Cardinality(Hits(p, s)) # 0
        BY <2>2, <4>1, FS_EmptySet
      <4>4. Cardinality(Hits(p, s)) = 1
        BY <4>2, <4>3
      <4> QED BY <4>1, <4>4, FS_Singleton
    <3>2. e \in In(p) /\ e.sec = s /\ e.table = p
      BY <3>1 DEF Hits, In
    <3>3. \A g \in In(p) : /\ g.sec \in Nat /\ g.key \in Nat
                           /\ g.sec = s => g = e
      <4>1. In(p) \subseteq Entries
        BY OrderedParts DEF IInv, TypeInv, In
      <4> QED BY <3>1, <4>1, EntryParts DEF Hits
    <3>4. \A g \in In(p) : Before(e, g) <=> g.sec > s
      BY <3>2, <3>3 DEF Before
    <3>5. After(e) = Least({g \in In(p) : g.sec > s})
      <4>1. {g \in In(e.table) : Before(e, g)} = {g \in In(p) : g.sec > s}
        BY <3>2, <3>4
      <4> QED BY <4>1 DEF After
    <3> QED BY <2>2, <3>1, <3>5 DEF Uppers
  <2> QED BY <2>1, <2>2
<1> QED BY <1>1, Invariance, PTL

(* The host functions write entries of tables of the contract that runs.   *)
THEOREM OwnEntries == Spec => OnlyOwnEntries
<1> DEFINE Own == phase = "open"
                    => \A r \in Prefixes \X Keys :
                         byPrimary'[r] # byPrimary[r] => Code[r[1]] = receiver
<1>1. ASSUME IInv, Next, phase = "open", NEW r \in RowKeys,
             byPrimary'[r] # byPrimary[r]
      PROVE  Code[r[1]] = receiver
  <2> USE DEF index
  <2>1. byPrimary \in [RowKeys -> Entries \cup {undefined}]
    BY <1>1, OrderedParts DEF IInv, TypeInv
  <2>2. CASE HostFunction
    <3>1. ASSUME NEW p \in Prefixes, NEW k \in Keys, NEW s \in SecKeys,
                 IdxStore(p, k, s)
          PROVE  Code[r[1]] = receiver
      BY <1>1, <2>1, <3>1 DEF IdxStore
    <3>2. ASSUME NEW it, \/ IdxRemove(it)
                         \/ \E s \in SecKeys : IdxUpdate(it, s)
          PROVE  Code[r[1]] = receiver
      <4> DEFINE obj == ObjectOf(cache, it)
      <4>1. /\ Code[obj.table] = receiver
            /\ \E v : byPrimary' = [byPrimary EXCEPT ![RowOf(obj)] = v]
        BY <3>2 DEF IdxRemove, IdxUpdate, Writable
      <4> HIDE DEF obj
      <4>2. r = RowOf(obj)
        BY <1>1, <2>1, <4>1
      <4> QED BY <4>1, <4>2 DEF RowOf
    <3>3. CASE UNCHANGED byPrimary
      BY <1>1, <3>3
    <3> QED BY <2>2, <3>1, <3>2, <3>3
         DEF HostFunction, FindPrimary, FindSecondary, Lowerbound, Upperbound,
             EndSecondary, Lookup, NextSecondary, PreviousSecondary,
             PreviousOfEnd, Step
  <2>3. CASE ~HostFunction
    BY <1>1, <2>3 DEF Next, Begin, Apply, Return, Commit, Abort, RevertOne,
       RevertThrows, RevertEnd
  <2> QED BY <2>2, <2>3
<1>2. ASSUME IInv, [Next]_vars
      PROVE  [Own]_vars
  BY <1>1, <1>2 DEF RowKeys
<1>3. IInv /\ [Next]_vars => [Own]_vars
  BY <1>2
<1> QED BY <1>3, Invariance, PTL DEF Spec, OnlyOwnEntries
=============================================================================
