---------------------------- MODULE MCInlinesTest ----------------------------
(***************************************************************************)
(* The test 'check inline action and recipient ordering' of                *)
(* examples/inline/inline.spec.ts: TransactionActions with the contracts   *)
(* of examples/inline/src, each of which sends the inline actions and      *)
(* notifies the accounts listed here.                                      *)
(***************************************************************************)
EXTENDS TransactionActions, TLC

Sends == ("r1"   :> <<"i11", "i14">>) @@
         ("i11"  :> <<"i112">>)       @@
         ("n12"  :> <<"i121">>)       @@
         ("n13"  :> <<"i131">>)       @@
         ("n122" :> <<"i1222">>)      @@
         ("i121" :> <<"i1211">>)      @@
         ("i14"  :> <<"i141">>)       @@
         ("r2"   :> <<"i21">>)

Notifies == ("r1"   :> <<"n12", "n13">>) @@
            ("i11"  :> <<"n111">>)       @@
            ("n12"  :> <<"n122">>)       @@
            ("n13"  :> <<"n132">>)       @@
            ("n122" :> <<"n1221">>)      @@
            ("i121" :> <<"n1212">>)      @@
            ("i14"  :> <<"n142">>)       @@
            ("r2"   :> <<"n22">>)

(* The contracts by the number that each prints: " 1 ", " 2 ", ...         *)
Printed == <<"r1", "i11", "n111", "i112", "n12", "i121", "i1211", "n1212",
             "n122", "n1221", "i1222", "n13", "i131", "n132", "i14", "i141",
             "n142", "r2", "i21", "n22">>

(* The numbers in the order in which the test expects to find them.        *)
Console == <<1, 5, 12, 9, 14, 10, 2, 3, 4, 15, 17, 16, 6, 8, 7, 13, 11, 18,
             20, 19>>

MCNames == {Printed[i] : i \in 1 .. 20}
Self(name) == {Level(name, "active")}
MCSelves == {Self(name) : name \in MCNames}
MCInlinePermissions ==
  [name \in MCNames |-> addInlinePermission(name, generatePermissions(name))]
MCTransactions ==
  {<<[account |-> "r1", authorization |-> Self("r1")],
     [account |-> "r2", authorization |-> Self("r2")]>>}

(* What the contract applied asks for is the beginning of its list, and it *)
(* returns at the end of both.                                             *)
Listed(lists, name) == IF name \in DOMAIN lists THEN lists[name] ELSE << >>

Begins(queue, list) == /\ Len(queue) <= Len(list)
                       /\ \A i \in 1 .. Len(queue) : queue[i].receiver = list[i]

Scripted ==
  status = "applying" /\ status' # "idle"
    => LET name == context.receiver
       IN IF status' = "queueing"
          THEN /\ Len(sent) = Len(Listed(Sends, name))
               /\ Len(notified) = Len(Listed(Notifies, name))
          ELSE /\ Begins(sent', Listed(Sends, name))
               /\ Begins(notified', Listed(Notifies, name))
               /\ \A i \in 1 .. Len(sent') :
                    sent'[i].authorization = Self(name)

InlinesTest == Init /\ [][Next /\ Scripted]_vars

(* The contracts run in the order that the test expects.                   *)
ConsoleAsTested ==
  \A i \in Executed : actionTraces[i].receiver = Printed[Console[i]]
=============================================================================
