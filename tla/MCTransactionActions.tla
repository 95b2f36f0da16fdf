------------------------- MODULE MCTransactionActions -------------------------
(* Small instances of TransactionActions.                                  *)
EXTENDS TransactionActions, TLC

CONSTANTS MaxAuthorized, alice, bob, carol,  \* contracts
          user, ghost         \* an account without contract, and no account

(* alice may send inline actions in her own name, bob may not; the         *)
(* authority of carol asks for the code of both.                           *)
MCPermissions ==
  (alice :> addInlinePermission(alice, generatePermissions(alice))) @@
  (bob :> generatePermissions(bob)) @@
  (carol :> {[perm_name |-> "active", threshold |-> 2,
          accounts |-> {Entry(Level(alice, "eosio.code")),
                        Entry(Level(bob, "eosio.code"))}]}) @@
  (user :> generatePermissions(user))

Send(name, authorization) == [account |-> name, authorization |-> authorization]

(* Contracts that ask for nobody's authority.                              *)
MCUnauthorized == {{}}
MCOrderTransactions == {<<Send(alice, {})>>, <<Send(bob, {}), Send(alice, {})>>}

(* Actions in the name of a user, of contracts, of two of them, of no      *)
(* account, and with a permission that nobody has.                         *)
MCAuthorizations ==
  {{}, {Level(user, "active")}, {Level(alice, "active")}, {Level(bob, "active")},
   {Level(carol, "active")}, {Level(ghost, "active")}, {Level(alice, "eosio.code")},
   {Level(alice, "active"), Level(user, "active")}}
MCAuthorityTransactions ==
  {<<Send(alice, {Level(user, "active")})>>,
   <<Send(bob, {Level(bob, "active")})>>,
   <<Send(alice, {Level(alice, "active")}), Send(user, {})>>}

MCTransactions == MCOrderTransactions \cup MCAuthorityTransactions

(* The contexts of the transaction, executed or queued.                    *)
Wanted == actionTraces \o actionsQueue \o notificationsQueue \o sent \o notified
            \o [i \in DOMAIN pending |-> TopLevel(pending[i])]

(* Bounds: more contexts if they concern contracts alone and nobody's      *)
(* authority.                                                              *)
Unauthorized == \A i \in DOMAIN Wanted : Wanted[i].authorization = {}

Bounded == Len(Wanted) <= IF Unauthorized THEN MaxTraces ELSE MaxAuthorized

MCSpec == Init /\ [][Next /\ Bounded']_vars
=============================================================================
