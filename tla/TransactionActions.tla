-------------------------- MODULE TransactionActions --------------------------
(***************************************************************************)
(* How the actions of a transaction, the inline actions they send and the  *)
(* notifications they ask for are executed: applyTransactionActions        *)
(* (antelope/blockchain.ts), VM.apply and the host functions               *)
(* require_recipient and send_inline (antelope/vm.ts), and the permissions *)
(* of accounts (antelope/utils.ts).                                        *)
(*                                                                         *)
(* Abstractions.  Contracts do what they like: they call the two host      *)
(* functions in any order, return or throw.  The name and the data of an   *)
(* action are left out; send_inline drops an action that the abi does not  *)
(* name.  What contracts do to the store is the subject of DbApi.          *)
(***************************************************************************)
EXTENDS Integers, Sequences, FiniteSets, FiniteSetsExt

CONSTANTS Names,         \* account names
          Accounts,      \* those of existing accounts
          Contracts,     \* those of accounts that hold a contract
          Privileged,    \* those of privileged accounts
          Permissions,   \* Account.permissions of each account
          Authorizations,\* the authorizations that actions are sent with
          Transactions,  \* the transactions that are applied
          MaxTraces,     \* bound: contexts executed by one transaction
          none           \* the sender 0, the context of a top-level action

ASSUME NamesAssumption == /\ Accounts \subseteq Names
                          /\ Contracts \subseteq Accounts
                          /\ Privileged \subseteq Accounts
                          /\ none \notin Names

Actions == [account : Names, authorization : Authorizations]

ASSUME TransactionsAssumption == /\ Transactions \subseteq Seq(Actions)
                                 /\ MaxTraces \in Nat

(* No authority is satisfied by nobody.                                    *)
ASSUME ThresholdAssumption ==
  \A name \in Accounts : \A perm \in Permissions[name] :
     perm.threshold \in Nat \ {0}

-----------------------------------------------------------------------------
(* Permissions.                                                            *)

Level(actor, permission) == [actor |-> actor, permission |-> permission]

Entry(level) == [weight |-> 1, permission |-> level]

generatePermissions(name) ==
  {[perm_name |-> perm, threshold |-> 1, accounts |-> {Entry(Level(name, perm))}] :
     perm \in {"owner", "active"}}

addInlinePermission(name, permissions) ==
  {IF perm.perm_name = "active"
   THEN [perm EXCEPT !.accounts = @ \cup {Entry(Level(name, "eosio.code"))}]
   ELSE perm : perm \in permissions}

(* Mutated form: the threshold has to be exceeded.                         *)
isAuthorityExceeded(perm, level) ==
  MapThenSumSet(LAMBDA entry : entry.weight,
                {entry \in perm.accounts : entry.permission = level})
    > perm.threshold

isAuthoritySatisfied(perm, level) ==
  MapThenSumSet(LAMBDA entry : entry.weight,
                {entry \in perm.accounts : entry.permission = level})
    >= perm.threshold

Granted(level) == {perm \in Permissions[level.actor] :
                     perm.perm_name = level.permission}

-----------------------------------------------------------------------------
VARIABLES status,         \* "idle", "queueing", or "applying" a context
          pending,        \* actions of the transaction still to be reached
          actionsQueue,
          notificationsQueue,
          actionTraces,   \* contexts executed; the last is the one applied
          actionOrdinal,
          sent,           \* the actionsQueue of the context applied
          notified        \* the notificationsQueue of the context applied

vars == <<status, pending, actionsQueue, notificationsQueue, actionTraces,
          actionOrdinal, sent, notified>>

(* VM.Context.  parent and via are history: the position in actionTraces   *)
(* of the context that asked for this one, 0 for a top-level action, and   *)
(* the queue that it came by.                                              *)
Contexts == [receiver      : Contracts,
             firstReceiver : Contracts,
             sender        : Contracts \cup {none},
             authorization : Authorizations \cup {{}},
             actionOrdinal : Int,
             parent        : 0 .. MaxTraces,
             via           : {"action", "notification"}]

TypeOK == /\ status \in {"idle", "queueing", "applying"}
          /\ pending \in Seq(Actions)
          /\ actionsQueue \in Seq(Contexts)
          /\ notificationsQueue \in Seq(Contexts)
          /\ actionTraces \in Seq(Contexts)
          /\ actionOrdinal \in Int
          /\ sent \in Seq(Contexts)
          /\ notified \in Seq(Contexts)

Init == /\ status = "idle"
        /\ pending = << >>
        /\ actionsQueue = << >>
        /\ notificationsQueue = << >>
        /\ actionTraces = << >>
        /\ actionOrdinal = -1
        /\ sent = << >>
        /\ notified = << >>

isNotification(c) == c.receiver # c.firstReceiver
isInline(c) == c.sender # none

(* Position in actionTraces of the context applied, which is the last one. *)
Here == Len(actionTraces)
context == actionTraces[Here]

-----------------------------------------------------------------------------
(* applyTransaction resets the traces and enters applyTransactionActions.  *)
ApplyTransaction(actions) ==
  /\ status = "idle"
  /\ status' = "queueing"
  /\ pending' = actions
  /\ actionsQueue' = << >>
  /\ notificationsQueue' = << >>
  /\ actionTraces' = << >>
  /\ actionOrdinal' = -1
  /\ sent' = << >>
  /\ notified' = << >>

(* The transaction is over: an exception ends it, or it has no actions     *)
(* left.                                                                   *)
Throw == /\ status' = "idle"
         /\ UNCHANGED <<pending, actionsQueue, notificationsQueue, sent,
                        notified>>

Finish == /\ status = "queueing"
          /\ pending = << >>
          /\ actionsQueue = << >>
          /\ notificationsQueue = << >>
          /\ Throw
          /\ UNCHANGED <<actionTraces, actionOrdinal>>

(* The context of an action of the transaction.                            *)
TopLevel(action) == [receiver      |-> action.account,
                     firstReceiver |-> action.account,
                     sender        |-> none,
                     authorization |-> action.authorization,
                     actionOrdinal |-> -1,
                     parent        |-> 0,
                     via           |-> "action"]

(* The next action of the transaction, once the queues are empty.          *)
NextAction ==
  LET action == Head(pending)
  IN /\ status = "queueing"
     /\ actionsQueue = << >>
     /\ notificationsQueue = << >>
     /\ pending # << >>
     /\ \/ /\ action.account \in Contracts
           /\ pending' = Tail(pending)
           /\ actionsQueue' = <<TopLevel(action)>>
           /\ UNCHANGED <<status, notificationsQueue, sent, notified>>
        \/ /\ action.account \notin Contracts
           /\ Throw
     /\ UNCHANGED <<actionTraces, actionOrdinal>>

(* Mutated form: inline actions are checked like those of the transaction. *)
AuthorizedAsTopLevel(c) ==
  \A level \in c.authorization :
     /\ level.actor \in Accounts
     /\ Granted(level) # {}

(* VM.apply's check of the authorization of a context.                     *)
Authorized(c) ==
  \A level \in c.authorization :
     /\ level.actor \in Accounts
     /\ Granted(level) # {}
     /\ isInline(c)
          => \/ c.sender \in Privileged
             \/ \E perm \in Granted(level) :
                  isAuthoritySatisfied(perm, Level(c.sender, "eosio.code"))

(* A context is traced, then applied: VM.apply throws before it runs the   *)
(* contract, or the contract runs.                                         *)
Start(c) ==
  /\ actionTraces' = Append(actionTraces, c)
  /\ \/ Authorized(c) /\ status' = "applying"
     \/ ~Authorized(c) /\ status' = "idle"
  /\ UNCHANGED <<pending, sent, notified>>

(* Notifications come first, and have the ordinal of the last action.      *)
ShiftNotification ==
  /\ status = "queueing"
  /\ notificationsQueue # << >>
  /\ notificationsQueue' = Tail(notificationsQueue)
  /\ Start([Head(notificationsQueue) EXCEPT !.actionOrdinal = actionOrdinal])
  /\ UNCHANGED <<actionsQueue, actionOrdinal>>

(* Mutated form: an action does not wait for the notifications.            *)
ShiftActionFirst ==
  /\ status = "queueing"
  /\ actionsQueue # << >>
  /\ actionsQueue' = Tail(actionsQueue)
  /\ actionOrdinal' = actionOrdinal + 1
  /\ Start([Head(actionsQueue) EXCEPT !.actionOrdinal = actionOrdinal + 1])
  /\ UNCHANGED notificationsQueue

ShiftAction ==
  /\ status = "queueing"
  /\ notificationsQueue = << >>
  /\ actionsQueue # << >>
  /\ actionsQueue' = Tail(actionsQueue)
  /\ actionOrdinal' = actionOrdinal + 1
  /\ Start([Head(actionsQueue) EXCEPT !.actionOrdinal = actionOrdinal + 1])
  /\ UNCHANGED notificationsQueue

-----------------------------------------------------------------------------
(* What the contract applied does.                                         *)

(* The bound on contexts limits what a contract asks for.                  *)
Room == Len(actionTraces) + Len(actionsQueue) + Len(notificationsQueue)
          + Len(sent) + Len(notified) + Len(pending) < MaxTraces

(* Mutated form: an account is notified each time it is asked.             *)
SkippedSelf(name) == name \notin Contracts \/ name = context.receiver

(* require_recipient does nothing: a duplicate, no contract, or itself.    *)
Skipped(name) ==
  \/ \E i \in 1 .. Here :
       /\ isNotification(actionTraces[i])
       /\ actionTraces[i].receiver = name
       /\ actionTraces[i].actionOrdinal = context.actionOrdinal
  \/ name \notin Contracts
  \/ name = context.receiver

(* require_recipient                                                       *)
RequireRecipient(name) ==
  /\ status = "applying"
  /\ \/ /\ name \in Accounts
        /\ ~Skipped(name)
        /\ Room
        /\ notified' =
             Append(notified,
                    [receiver      |-> name,
                     firstReceiver |-> IF isNotification(context)
                                       THEN context.firstReceiver
                                       ELSE context.receiver,
                     sender        |-> none,
                     authorization |-> {},
                     actionOrdinal |-> context.actionOrdinal,
                     parent        |-> Here,
                     via           |-> "notification"])
        /\ UNCHANGED <<status, pending, actionsQueue, notificationsQueue, sent>>
     \/ /\ name \in Accounts
        /\ Skipped(name)
        /\ UNCHANGED <<status, pending, actionsQueue, notificationsQueue, sent,
                       notified>>
     \/ /\ name \notin Accounts
        /\ Throw
  /\ UNCHANGED <<actionTraces, actionOrdinal>>

(* send_inline of an action that the abi names                             *)
SendInline(name, authorization) ==
  /\ status = "applying"
  /\ \/ /\ name \in Contracts
        /\ Room
        /\ sent' = Append(sent,
                          [receiver      |-> name,
                           firstReceiver |-> name,
                           sender        |-> context.receiver,
                           authorization |-> authorization,
                           actionOrdinal |-> -1,
                           parent        |-> Here,
                           via           |-> "action"])
        /\ UNCHANGED <<status, pending, actionsQueue, notificationsQueue,
                       notified>>
     \/ /\ name \notin Contracts
        /\ Throw
  /\ UNCHANGED <<actionTraces, actionOrdinal>>

(* The contract, or another host function, throws.                         *)
Fail == /\ status = "applying"
        /\ Throw
        /\ UNCHANGED <<actionTraces, actionOrdinal>>

(* Mutated form: inline actions go to the end of the queue.                *)
ReturnAppending ==
  /\ status = "applying"
  /\ status' = "queueing"
  /\ notificationsQueue' = notificationsQueue \o notified
  /\ actionsQueue' = actionsQueue \o sent
  /\ sent' = << >>
  /\ notified' = << >>
  /\ UNCHANGED <<pending, actionTraces, actionOrdinal>>

(* Mutated form: notifications queue their inline actions like actions do. *)
ReturnPrepending ==
  /\ status = "applying"
  /\ status' = "queueing"
  /\ notificationsQueue' = notificationsQueue \o notified
  /\ actionsQueue' = sent \o actionsQueue
  /\ sent' = << >>
  /\ notified' = << >>
  /\ UNCHANGED <<pending, actionTraces, actionOrdinal>>

(* apply returns: what the context asked for is queued, inline actions     *)
(* before those that wait if the context is an action, after them if it is *)
(* a notification.                                                         *)
Return ==
  /\ status = "applying"
  /\ status' = "queueing"
  /\ notificationsQueue' = notificationsQueue \o notified
  /\ actionsQueue' = IF isNotification(context)
                     THEN actionsQueue \o sent
                     ELSE sent \o actionsQueue
  /\ sent' = << >>
  /\ notified' = << >>
  /\ UNCHANGED <<pending, actionTraces, actionOrdinal>>

Next == \/ \E actions \in Transactions : ApplyTransaction(actions)
        \/ NextAction \/ ShiftNotification \/ ShiftAction \/ Finish
        \/ \E name \in Names : RequireRecipient(name)
        \/ \E name \in Names, auth \in Authorizations : SendInline(name, auth)
        \/ Return \/ Fail

Spec == Init /\ [][Next]_vars

-----------------------------------------------------------------------------
(* Properties.                                                             *)

Executed == 1 .. Here

(* The contexts that ran: only the last of a transaction that is over may  *)
(* have been refused by VM.apply.                                          *)
Ran == IF status = "idle" THEN 1 .. Here - 1 ELSE Executed

(* All notifications of an action run right after it, those that its       *)
(* handlers ask for included: each context has the ordinal of the one      *)
(* before it and belongs to the same first receiver, or is an action and   *)
(* has the next ordinal.                                                   *)
NotificationsFollowTheirAction ==
  \A i \in Executed \ {1} :
     LET before == actionTraces[i - 1]
         c      == actionTraces[i]
     IN \/ /\ c.via = "notification"
           /\ c.actionOrdinal = before.actionOrdinal
           /\ c.firstReceiver = before.firstReceiver
        \/ /\ c.via = "action"
           /\ c.actionOrdinal = before.actionOrdinal + 1

(* Inline actions of an action run depth first: between the action and its *)
(* inline action only descendants of the action run.  It is stated by each *)
(* of them having its parent in between.                                   *)
InlinesDepthFirst ==
  \A i \in Executed :
     LET p == actionTraces[i].parent
     IN actionTraces[i].via = "action" /\ p # 0 /\ actionTraces[p].via = "action"
          => \A j \in (p + 1) .. (i - 1) : actionTraces[j].parent >= p

(* A contract that has handled the notification of an action is not        *)
(* notified of it again by contexts that run later.                        *)
NotNotifiedAfterwards ==
  \A j \in Executed : \A i \in 1 .. j - 1 :
     LET early == actionTraces[i]
         late  == actionTraces[j]
     IN (/\ isNotification(early)
         /\ late.via = "notification"
         /\ late.receiver = early.receiver
         /\ late.actionOrdinal = early.actionOrdinal)
          => late.parent < i

(* No contract speaks for an account that did not let it: the authority of *)
(* an actor is found in a context only if the transaction brought it, a    *)
(* privileged account claimed it, or the actor lists the code of the       *)
(* sender in that permission.                                              *)
ListsCode(level, name) ==
  \E perm \in Granted(level) : \E entry \in perm.accounts :
     entry.permission = Level(name, "eosio.code")

AuthorityIsGiven ==
  \A i \in Ran : \A level \in actionTraces[i].authorization :
     \/ actionTraces[i].parent = 0
     \/ actionTraces[i].sender \in Privileged
     \/ ListsCode(level, actionTraces[i].sender)

(* A contract made with inline actions enabled may act in its own name: an *)
(* inline action that it sends with its active permission is not refused.  *)
InlineEnabled(name) ==
  Permissions[name] = addInlinePermission(name, generatePermissions(name))

OwnInlinesAccepted ==
  [][LET c == actionTraces'[Len(actionTraces')]
     IN (/\ status = "queueing"
         /\ Len(actionTraces') > Len(actionTraces)
         /\ isInline(c)
         /\ c.authorization = {Level(c.sender, "active")}
         /\ InlineEnabled(c.sender))
          => status' = "applying"]_vars

(* require_recipient skips duplicates (its log says 'Skip notification:    *)
(* duplicate'), so that a contract runs once for an action.  The code      *)
(* looks for the duplicate among contexts that have run: a contract that   *)
(* waits in a queue is queued again, and so is the one the action was sent *)
(* to.                                                                     *)
NotifiedOnce ==
  \A j \in Executed : \A i \in 1 .. j - 1 :
     actionTraces[i].actionOrdinal = actionTraces[j].actionOrdinal
       => actionTraces[i].receiver # actionTraces[j].receiver
=============================================================================
