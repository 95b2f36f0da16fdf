---------------------------- MODULE StorageDeltas ----------------------------
(***************************************************************************)
(* The storage deltas of a transaction: setStorageDeltas (antelope/        *)
(* blockchain.ts), diff and flattenChangeset (utils/diff.ts).              *)
(*                                                                         *)
(* A tree stands for a JSON value: an "Object" or "Array" maps keys to     *)
(* trees, the keys of an array being Indexes, and a leaf has a value and   *)
(* its type for kind: types other than that of null are not told apart.  A *)
(* "Buffer" maps the keys of an array to bytes.  The storage is a tree of  *)
(* accounts, tables, scopes and arrays of rows.  Tables without rows are   *)
(* left out, and so are secondary indexes of a multi_index other than the  *)
(* first, which have tables of their own, where getStorage does not look.  *)
(*                                                                         *)
(* diff is called without keys for arrays: they are compared by index, and *)
(* embeddedKey is '$index' for their changes.                              *)
(***************************************************************************)
EXTENDS HostCall, Integers, Sequences, FiniteSets

LOCAL INSTANCE SequencesExt
LOCAL INSTANCE Functions

CONSTANTS Slots,         \* <<<<account, table, scope>>, primary key>> of rows
          Contents,      \* of rows: payer, value and secondary keys
          StartContent,  \* the one of them that rows have at first
          KeyOrder,      \* all keys of trees, as objects and arrays list them
          null, absent,  \* the value null, and what is not a row
          ByteSize,      \* 256 in the code; a key of 128 bits has two bytes
          MaxEdits       \* bound: rows that the transaction changes

Indexes == <<"0", "1", "2">>

Scopes == {slot[1] : slot \in Slots}
PrimaryKeys(scope) == {k \in {slot[2] : slot \in Slots} :
                        <<scope, k>> \in Slots}

Leaf(value) == [kind  |-> IF value = null THEN "Null" ELSE "Primitive",
                value |-> value]
Object(of) == [kind |-> "Object", of |-> of]
ArrayOf(items) == [kind |-> "Array",
                   of |-> [k \in {Indexes[i] : i \in DOMAIN items} |->
                            items[CHOOSE i \in DOMAIN items : Indexes[i] = k]]]
BufferOf(bytes) == [ArrayOf(bytes) EXCEPT !.kind = "Buffer"]
Empty == [k \in {} |-> absent]

ASSUME DeltasAssumption ==
  /\ \A slot \in Slots : slot[2] \in Nat
  /\ \A scope \in Scopes : Cardinality(PrimaryKeys(scope)) <= Len(Indexes)
  /\ StartContent \in Contents
  /\ \A content \in Contents :
       /\ content.value.kind = "Object"
       /\ \A i \in DOMAIN content.secondary :
            content.secondary[i].key \in 0 .. ByteSize * ByteSize - 1
  /\ ByteSize \in Nat \ {0}
  /\ MaxEdits \in Nat

IsTree(node) == node.kind \in {"Object", "Array", "Buffer"}
InOrder(keys) == SelectSeq(KeyOrder, LAMBDA k : k \in keys)

-----------------------------------------------------------------------------
(* The storage, of the rows <<scope, primary key>> of a database.          *)

(* An entry of the index of a row.                                         *)
ShownIndex(entry) ==
  LET bytes == <<Leaf(entry.key \div ByteSize), Leaf(entry.key % ByteSize)>>
  IN Object(("type" :> Leaf(entry.type)) @@ ("value" :> Leaf(entry.key)) @@
            (IF entry.type = "idxU128" THEN "rawValue" :> BufferOf(bytes)
                                       ELSE Empty))

primaryObj(key, content) ==
  LET entries == [i \in DOMAIN content.secondary |->
                   ShownIndex(content.secondary[i])]
  IN Object(("primaryKey" :> Leaf(key)) @@ ("payer" :> Leaf(content.payer)) @@
            ("value" :> content.value) @@
            (IF entries = << >> THEN Empty
                                ELSE "secondaryIndexes" :> ArrayOf(entries)))

Rows(d, scope) ==
  LET keys == SetToSortSeq({k \in PrimaryKeys(scope) :
                             d[<<scope, k>>] # absent}, <)
  IN [i \in DOMAIN keys |-> primaryObj(keys[i], d[<<scope, keys[i]>>])]

Used(d) == {slot[1] : slot \in {x \in Slots : d[x] # absent}}

(* What getStorage returns.                                                *)
Storage(d) ==
  LET used == Used(d)
  IN Object([a \in {u[1] : u \in used} |->
       Object([t \in {u[2] : u \in {v \in used : v[1] = a}} |->
         Object([s \in {u[3] : u \in {v \in used : v[1] = a /\ v[2] = t}} |->
           ArrayOf(Rows(d, <<a, t, s>>))])])])

-----------------------------------------------------------------------------
(* diff                                                                    *)

(* The sequences that op gives for each element, one after the other.      *)
Each(op(_), seq) == FoldLeft(LAMBDA all, x : all \o op(x), << >>, seq)

Changed(type, key, value) == <<[type |-> type, key |-> key, value |-> value]>>

RECURSIVE compare(_, _, _), compareObject(_, _)

(* A value that changes its type is removed and added.                     *)
compare(old, new, key) ==
  IF old.kind # new.kind
  THEN Changed("REMOVE", key, old) \o Changed("ADD", key, new)
  ELSE IF old = new THEN << >>
  ELSE IF IsTree(old)
  THEN <<[type |-> "UPDATE", key |-> key, array |-> old.kind = "Array",
          changes |-> compareObject(old.of, new.of)]>>
  ELSE <<[type |-> "UPDATE", key |-> key, oldValue |-> old, value |-> new]>>

compareObject(old, new) ==
  Each(LAMBDA k : compare(old[k], new[k], k),
       InOrder(DOMAIN old \cap DOMAIN new))
  \o Each(LAMBDA k : Changed("ADD", k, new[k]),
          InOrder(DOMAIN new \ DOMAIN old))
  \o Each(LAMBDA k : Changed("REMOVE", k, old[k]),
          InOrder(DOMAIN old \ DOMAIN new))

diff(old, new) == compareObject(old.of, new.of)

(* flattenChangeset of one change: the changes that have no changes within *)
(* them, each with the path that the code gives it.  An object's path is   *)
(* that of its parent, and so is that of a leaf whose key ends its         *)
(* parent's path.                                                          *)
RECURSIVE flattenChange(_, _, _)
flattenChange(change, path, embedded) ==
  LET below == Append(path, change.key)
  IN IF "changes" \in DOMAIN change
     THEN Each(LAMBDA c : flattenChange(c, below, change.array),
               change.changes)
     ELSE <<change @@
            [path |-> IF embedded THEN below
                      ELSE IF \/ change.value.kind = "Object"
                              \/ path # << >> /\ Last(path) = change.key
                      THEN path ELSE below]>>

flattenChangeset(changes) ==
  Each(LAMBDA c : flattenChange(c, << >>, FALSE), changes)

-----------------------------------------------------------------------------
(* setStorageDeltas                                                        *)

(* lodash's set, which makes the objects or arrays that are missing.  Only *)
(* bytes are kept in a Buffer: an object becomes 0.                        *)
RECURSIVE set(_, _, _)
set(node, path, value) ==
  IF path = << >> THEN value
  ELSE LET key  == Head(path)
           base == IF IsTree(node) THEN node
                   ELSE IF key \in Range(Indexes) THEN ArrayOf(<< >>)
                   ELSE Object(Empty)
           next == IF key \in DOMAIN base.of THEN base.of[key] ELSE Leaf(null)
           kept == IF base.kind = "Buffer" THEN Leaf(0)
                   ELSE set(next, Tail(path), value)
       IN [base EXCEPT !.of = (key :> kept) @@ @]

RECURSIVE At(_, _)
At(node, path) ==
  IF path = << >> THEN node ELSE At(node.of[Head(path)], Tail(path))

(* The deltas hold the rows of preStorage themselves, which later changes  *)
(* write to: a reference by the path of the row.                           *)
Reference(path) == [kind |-> "Reference", path |-> path]

RECURSIVE Resolved(_, _)
Resolved(node, pre) ==
  IF node.kind = "Reference" THEN At(pre, node.path)
  ELSE IF IsTree(node)
  THEN [node EXCEPT !.of = [k \in DOMAIN @ |-> Resolved(@[k], pre)]]
  ELSE node

OldAndNew(old, new) == Object(("old" :> old) @@ ("new" :> new))
New(value) == Object("new" :> value)

(* filter(_ => !!_), which closes the gaps.                                *)
Filtered(array) ==
  LET keys == InOrder(DOMAIN array.of)
  IN ArrayOf([i \in DOMAIN keys |-> array.of[keys[i]]])


(* A changed leaf: the row of preStorage is shown, with both values in it. *)
UpdateRow(state, change) ==
  LET row   == SubSeq(change.path, 1, 4)
      scope == SubSeq(change.path, 1, 3)
      shown == set(state.deltas, row, Reference(row))
  IN [deltas |-> set(shown, scope, Filtered(At(shown, scope))),
      pre    |-> set(state.pre, change.path,
                     OldAndNew(change.oldValue, change.value))]


(* Where `fill` puts what was added: a path with a scope has an index, or  *)
(* `undefined` in the place of one.                                        *)
FilledPath(change) ==
  IF Len(change.path) >= 4 THEN SubSeq(change.path, 1, 4)
  ELSE IF Len(change.path) = 3 THEN Append(change.path, "undefined")
  ELSE Append(change.path, change.key)

(* The tables of a new account are also put beside the accounts.           *)
Fill(deltas, change) ==
  IF change.path = << >> THEN Object(change.value.of @@ deltas.of) ELSE deltas

setStorageDeltas(preStorage, postStorage) ==
  LET step(change, state) ==
        CASE change.type = "UPDATE" -> UpdateRow(state, change)
          [] change.type = "ADD"    ->
               [state EXCEPT !.deltas = set(Fill(@, change),
                                            FilledPath(change),
                                            New(change.value))]
          [] change.type = "REMOVE" -> state
      changes == flattenChangeset(diff(preStorage, postStorage))
      end == FoldLeft(LAMBDA state, change : step(change, state),
                      [deltas |-> Object(Empty), pre |-> preStorage], changes)
  IN Resolved(end.deltas, end.pre)

-----------------------------------------------------------------------------
CallSetStorageDeltas ==
  Call({"setStorageDeltas"},
       setStorageDeltas(Storage(call.before), Storage(call.after)))

(* A transaction that commits: it changes, adds and removes rows.          *)
DeltasInit ==
  /\ result = pending
  /\ \E before \in [Slots -> {absent, StartContent}], edited \in SUBSET Slots :
       /\ Cardinality(edited) <= MaxEdits
       /\ \E after \in [edited -> Contents \cup {absent}] :
            /\ \A slot \in edited : after[slot] # before[slot]
            /\ call = [fn |-> "setStorageDeltas", before |-> before,
                       after |-> after @@ before]

-----------------------------------------------------------------------------
(* Properties.                                                             *)

HasPath(node, path) ==
  \A i \in DOMAIN path : LET parent == At(node, SubSeq(path, 1, i - 1))
                         IN IsTree(parent) /\ path[i] \in DOMAIN parent.of

(* The paths of the primitive values of two rows that differ, and of what  *)
(* is new in the second row, or has another type than in the first.        *)
RECURSIVE Updated(_, _), Added(_, _)
Below(op(_), keys) == UNION {{<<k>> \o path : path \in op(k)} : k \in keys}

Updated(old, new) ==
  IF old.kind # new.kind \/ old = new THEN {}
  ELSE IF ~IsTree(old) THEN {<< >>}
  ELSE Below(LAMBDA k : Updated(old.of[k], new.of[k]),
             DOMAIN old.of \cap DOMAIN new.of)

Added(old, new) ==
  IF old.kind # new.kind THEN {<< >>}
  ELSE IF old = new \/ ~IsTree(old) THEN {}
  ELSE {<<k>> : k \in DOMAIN new.of \ DOMAIN old.of}
         \cup Below(LAMBDA k : Added(old.of[k], new.of[k]),
                    DOMAIN old.of \cap DOMAIN new.of)

(* The old row, with old and new value in the place of each primitive one  *)
(* that differs, or with 0 if that is a byte of a Buffer.                  *)
RECURSIVE Annotated(_, _)
Annotated(old, new) ==
  IF old.kind # new.kind \/ old = new THEN old
  ELSE IF ~IsTree(old) THEN OldAndNew(old, new)
  ELSE [old EXCEPT !.of =
         [k \in DOMAIN @ |->
           IF k \notin DOMAIN new.of \/ @[k] = new.of[k] THEN @[k]
           ELSE IF old.kind = "Buffer" THEN Leaf(0)
           ELSE Annotated(@[k], new.of[k])]]

(* What the deltas may show of a row.                                      *)
Entries(old, new) ==
  {New(At(new, path)) : path \in Added(old, new)}
    \cup (IF Updated(old, new) = {} THEN {} ELSE {Annotated(old, new)})

(* A field that has changed is named like the member that it is in.        *)
Obscured(old, new) ==
  \E path \in Updated(old, new) :
    /\ Len(path) > 1
    /\ At(old, Front(path)).kind = "Object"
    /\ Last(Front(path)) = Last(path)

(* An account without rows before has a table with the name of another.    *)
Overwritten(account) ==
  \E u \in Used(call.after) : /\ u[2] = account
                              /\ \A v \in Used(call.before) : v[1] # u[1]

(* There are several changes in a row other than the first: UpdateRow may  *)
(* show the row again, where the gap before it has been closed.            *)
Repeated(old, new, i) ==
  /\ i > 1
  /\ Updated(old[i], new[i]) # {}
  /\ Cardinality(Updated(old[i], new[i]) \cup Added(old[i], new[i])) > 1


=============================================================================
