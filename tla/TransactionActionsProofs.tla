----------------------- MODULE TransactionActionsProofs -----------------------
(***************************************************************************)
(* Proofs about the order in which TransactionActions executes contexts,   *)
(* for any accounts, transactions and numbers of contexts.                 *)
(*                                                                         *)
(* The argument.  What waits in the queues is bound to the traces: a       *)
(* notification to the action executed last (Notes), an inline action of   *)
(* an action to the contexts executed since, all of which its parent's     *)
(* descendants have asked for (Inlines).  An inline action waits behind    *)
(* those whose parents ran no earlier (Nested), and so what is executed    *)
(* next leaves the others bound to the traces.                             *)
(***************************************************************************)
EXTENDS TransactionActions, SequenceTheorems, TLAPS

(* The notifications that may wait after the traces tr: of the first       *)
(* receiver and with the ordinal of the last trace, for no contract that   *)
(* was notified of it up to their parent, which the last action is not     *)
(* after.                                                                  *)
Notes(tr, ordinal) ==
  {q \in Contexts :
     /\ q.via = "notification"
     /\ q.parent \in 1 .. Len(tr)
     /\ q.firstReceiver = tr[Len(tr)].firstReceiver
     /\ q.actionOrdinal = ordinal
     /\ \A j \in q.parent + 1 .. Len(tr) : tr[j].via = "notification"
     /\ \A i \in 1 .. q.parent : ~ /\ isNotification(tr[i])
                                   /\ tr[i].receiver = q.receiver
                                   /\ tr[i].actionOrdinal = ordinal}

(* q has an action for its parent.                                         *)
OfAction(tr, q) == q.parent # 0 /\ tr[q.parent].via = "action"

(* The actions that may: only descendants of their parent ran after it.    *)
Inlines(tr) ==
  {q \in Contexts :
     /\ q.via = "action"
     /\ q.receiver = q.firstReceiver
     /\ q.parent \in 0 .. Len(tr)
     /\ OfAction(tr, q)
          => \A j \in q.parent + 1 .. Len(tr) : tr[j].parent >= q.parent}

Nested(tr, queue) ==
  \A i, j \in 1 .. Len(queue) :
     i < j /\ OfAction(tr, queue[j]) => queue[i].parent >= queue[j].parent

IInv ==
  /\ TypeOK
  /\ notificationsQueue \in Seq(Notes(actionTraces, actionOrdinal))
  /\ notified \in Seq(Notes(actionTraces, actionOrdinal))
  /\ actionsQueue \in Seq(Inlines(actionTraces))
  /\ sent \in Seq(Inlines(actionTraces))
  /\ Nested(actionTraces, actionsQueue)
  /\ \A i \in 1 .. Len(sent) : sent[i].parent = Here
  /\ status = "applying" => Here > 0
  /\ status = "queueing" => sent = << >> /\ notified = << >>
  /\ Here > 0 => actionTraces[Here].actionOrdinal = actionOrdinal
  /\ \A i \in Executed : actionTraces[i].via = "action"
       => actionTraces[i].receiver = actionTraces[i].firstReceiver
  /\ NotificationsFollowTheirAction
  /\ InlinesDepthFirst
  /\ NotNotifiedAfterwards

-----------------------------------------------------------------------------
(* A context more is traced.                                               *)

(* A context that gets its ordinal.                                        *)
LEMMA OrdinalGiven ==
  ASSUME NEW q \in Contexts, NEW n \in Int
  PROVE  /\ [q EXCEPT !.actionOrdinal = n] \in Contexts
         /\ [q EXCEPT !.actionOrdinal = n].actionOrdinal = n
         /\ [q EXCEPT !.actionOrdinal = n].receiver = q.receiver
         /\ [q EXCEPT !.actionOrdinal = n].firstReceiver = q.firstReceiver
         /\ [q EXCEPT !.actionOrdinal = n].parent = q.parent
         /\ [q EXCEPT !.actionOrdinal = n].via = q.via
  BY DEF Contexts

(* The parent of a context is a position, or 0.                            *)
LEMMA ParentType ==
  ASSUME NEW q \in Contexts
  PROVE  q.parent \in Nat
<1>1. q.parent \in 0 .. MaxTraces
  BY DEF Contexts
<1> QED BY <1>1, TransactionsAssumption

(* Notifications that wait go on waiting when a notification of the same   *)
(* first receiver is executed.                                             *)
LEMMA NotesStay ==
  ASSUME NEW tr \in Seq(Contexts), NEW ordinal \in Int, NEW c \in Contexts,
         c.via = "notification", c.firstReceiver = tr[Len(tr)].firstReceiver
  PROVE  Notes(tr, ordinal) \subseteq Notes(Append(tr, c), ordinal)
<1> SUFFICES ASSUME NEW q \in Notes(tr, ordinal)
             PROVE  q \in Notes(Append(tr, c), ordinal)
  OBVIOUS
<1> DEFINE s == Append(tr, c)
<1>1. /\ Len(s) = Len(tr) + 1 /\ Len(tr) \in Nat
      /\ \A i \in 1 .. Len(tr) : s[i] = tr[i]
      /\ s[Len(s)] = c
  BY AppendProperties
<1>2. q \in Contexts /\ q.parent \in 1 .. Len(tr)
  BY DEF Notes
<1> HIDE DEF s
<1>3. q.firstReceiver = s[Len(s)].firstReceiver
  BY <1>1 DEF Notes
<1>4. \A j \in q.parent + 1 .. Len(s) : s[j].via = "notification"
  BY <1>1, <1>2 DEF Notes
<1>5. \A i \in 1 .. q.parent : s[i] = tr[i]
  BY <1>1, <1>2
<1>6. q.parent \in 1 .. Len(s)
  BY <1>1, <1>2
<1>7. q \in Notes(s, ordinal)
  BY <1>2, <1>3, <1>4, <1>5, <1>6 DEF Notes
<1> QED BY <1>7 DEF s

(* An inline action goes on waiting when a context is executed that is a   *)
(* descendant of its parent.                                               *)
LEMMA InlineStays ==
  ASSUME NEW tr \in Seq(Contexts), NEW c \in Contexts, NEW q \in Inlines(tr),
         OfAction(tr, q) => c.parent >= q.parent
  PROVE  /\ q \in Inlines(Append(tr, c))
         /\ OfAction(Append(tr, c), q) <=> OfAction(tr, q)
<1> DEFINE s == Append(tr, c)
<1>1. /\ Len(s) = Len(tr) + 1 /\ Len(tr) \in Nat
      /\ \A i \in 1 .. Len(tr) : s[i] = tr[i]
      /\ s[Len(s)] = c
  BY AppendProperties
<1>2. q \in Contexts /\ q.parent \in 0 .. Len(tr)
  BY DEF Inlines
<1> HIDE DEF s
<1>3. OfAction(s, q) <=> OfAction(tr, q)
  BY <1>1, <1>2 DEF OfAction
<1>4. ASSUME OfAction(tr, q), NEW j \in q.parent + 1 .. Len(s)
      PROVE  s[j].parent >= q.parent
  <2>1. CASE j = Len(s)
    BY <1>1, <1>4, <2>1
  <2>2. CASE j # Len(s)
    <3>1. j \in q.parent + 1 .. Len(tr) /\ s[j] = tr[j]
      BY <1>1, <1>2, <2>2
    <3> QED BY <1>4, <3>1 DEF Inlines
  <2> QED BY <2>1, <2>2
<1>5. q.parent \in 0 .. Len(s)
  BY <1>1, <1>2
<1>6. q \in Inlines(s)
  BY <1>2, <1>3, <1>4, <1>5 DEF Inlines
<1> QED BY <1>3, <1>6 DEF s

(* The properties hold of one trace more, if it waited in a queue.         *)
LEMMA TracesExtend ==
  ASSUME IInv, NEW c \in Contexts, actionTraces' = Append(actionTraces, c),
         c.parent \in 0 .. Here,
         c.via = "action"
           => /\ c.receiver = c.firstReceiver
              /\ Here > 0 => c.actionOrdinal = actionOrdinal + 1
              /\ OfAction(actionTraces, c)
                   => \A j \in c.parent + 1 .. Here :
                         actionTraces[j].parent >= c.parent,
         c.via = "notification"
           => /\ Here > 0
              /\ c.actionOrdinal = actionOrdinal
              /\ c.firstReceiver = actionTraces[Here].firstReceiver
              /\ \A i \in 1 .. c.parent :
                    ~ /\ isNotification(actionTraces[i])
                      /\ actionTraces[i].receiver = c.receiver
                      /\ actionTraces[i].actionOrdinal = actionOrdinal
  PROVE  /\ actionTraces' \in Seq(Contexts)
         /\ Here' = Here + 1 /\ actionTraces'[Here'] = c
         /\ NotificationsFollowTheirAction'
         /\ InlinesDepthFirst'
         /\ NotNotifiedAfterwards'
         /\ \A i \in 1 .. Here' : actionTraces'[i].via = "action"
              => actionTraces'[i].receiver = actionTraces'[i].firstReceiver
<1> DEFINE tr == actionTraces
           s  == actionTraces'
           n  == Len(tr)
<1>1. tr \in Seq(Contexts) /\ n \in Nat
  BY DEF IInv, TypeOK
<1>2. /\ s \in Seq(Contexts) /\ Len(s) = n + 1
      /\ \A i \in 1 .. n : s[i] = tr[i]
      /\ s[n + 1] = c
  BY <1>1, AppendProperties
<1>3. c.via = "action" \/ c.via = "notification"
  BY DEF Contexts
<1>4. n > 0 => tr[n].actionOrdinal = actionOrdinal
  BY DEF IInv, Here
<1>5. c.parent \in 0 .. n
  BY DEF Here
<1>6. ASSUME NEW i \in 2 .. n + 1
      PROVE  \/ /\ s[i].via = "notification"
                /\ s[i].actionOrdinal = s[i - 1].actionOrdinal
                /\ s[i].firstReceiver = s[i - 1].firstReceiver
             \/ /\ s[i].via = "action"
                /\ s[i].actionOrdinal = s[i - 1].actionOrdinal + 1
  <2>1. CASE i = n + 1
    <3>1. n > 0 /\ s[i] = c /\ s[i - 1] = tr[n]
      BY <1>1, <1>2, <2>1
    <3> QED BY <1>3, <1>4, <3>1 DEF Here
  <2>2. CASE i # n + 1
    <3>1. i \in Executed \ {1} /\ s[i] = tr[i] /\ s[i - 1] = tr[i - 1]
      BY <1>1, <1>2, <2>2 DEF Executed, Here
    <3> QED BY <3>1 DEF IInv, NotificationsFollowTheirAction
  <2> QED BY <2>1, <2>2
<1>7. ASSUME NEW i \in 1 .. n + 1, s[i].via = "action", s[i].parent # 0,
             s[s[i].parent].via = "action",
             NEW j \in s[i].parent + 1 .. i - 1
      PROVE  s[j].parent >= s[i].parent
  <2>1. CASE i = n + 1
    <3>1. s[i] = c /\ c.parent \in 1 .. n /\ j \in c.parent + 1 .. n
      BY <1>1, <1>2, <1>5, <1>7, <2>1
    <3>2. s[c.parent] = tr[c.parent] /\ s[j] = tr[j]
      BY <1>1, <1>2, <3>1
    <3> QED BY <1>7, <3>1, <3>2 DEF OfAction, Here
  <2>2. CASE i # n + 1
    <3>1. i \in Executed /\ s[i] = tr[i]
      BY <1>1, <1>2, <2>2 DEF Executed, Here
    <3>2. tr[i].parent \in Nat
      <4>1. tr[i] \in Contexts
        BY <1>1, <3>1 DEF Executed, Here
      <4> QED BY <4>1, ParentType
    <3>3. j \in Int /\ j <= i - 1 /\ i <= n /\ j > tr[i].parent
      BY <1>1, <1>7, <2>2, <3>1, <3>2
    <3>4. tr[i].parent \in 1 .. n /\ j \in 1 .. n
      BY <1>1, <1>7, <3>1, <3>2, <3>3
    <3>5. s[tr[i].parent] = tr[tr[i].parent] /\ s[j] = tr[j]
      BY <1>2, <3>4
    <3> QED BY <1>7, <3>1, <3>5 DEF IInv, InlinesDepthFirst
  <2> QED BY <2>1, <2>2
<1>8. ASSUME NEW j \in 1 .. n + 1, NEW i \in 1 .. j - 1,
             isNotification(s[i]), s[j].via = "notification",
             s[j].receiver = s[i].receiver,
             s[j].actionOrdinal = s[i].actionOrdinal
      PROVE  s[j].parent < i
  <2>1. i \in 1 .. n /\ s[i] = tr[i]
    BY <1>1, <1>2
  <2>2. CASE j = n + 1
    <3>1. s[j] = c
      BY <1>2, <2>2
    <3>2. i \notin 1 .. c.parent
      BY <1>8, <2>1, <3>1 DEF isNotification
    <3> QED BY <1>5, <2>1, <3>1, <3>2
  <2>3. CASE j # n + 1
    <3>1. j \in Executed /\ s[j] = tr[j]
      BY <1>1, <1>2, <2>3 DEF Executed, Here
    <3> QED BY <1>8, <2>1, <3>1 DEF IInv, NotNotifiedAfterwards
  <2> QED BY <2>2, <2>3
<1>9. ASSUME NEW i \in 1 .. n + 1, s[i].via = "action"
      PROVE  s[i].receiver = s[i].firstReceiver
  <2>1. CASE i = n + 1
    BY <1>2, <1>9, <2>1
  <2>2. CASE i # n + 1
    <3>1. i \in Executed /\ s[i] = tr[i]
      BY <1>1, <1>2, <2>2 DEF Executed, Here
    <3> QED BY <1>9, <3>1 DEF IInv
  <2> QED BY <2>1, <2>2
<1>10. Here = n /\ Here' = n + 1 /\ Executed' = 1 .. n + 1
  BY <1>2 DEF Here, Executed
<1>11. NotificationsFollowTheirAction'
  BY <1>1, <1>6, <1>10 DEF NotificationsFollowTheirAction
<1>12. InlinesDepthFirst'
  BY <1>7, <1>10 DEF InlinesDepthFirst
<1>13. NotNotifiedAfterwards'
  BY <1>8, <1>10 DEF NotNotifiedAfterwards, isNotification
<1> QED BY <1>2, <1>9, <1>10, <1>11, <1>12, <1>13

(* A sequence is one over every set that has its elements.                 *)
LEMMA SeqOfElements ==
  ASSUME NEW S, NEW T, NEW s \in Seq(S), \A i \in 1 .. Len(s) : s[i] \in T
  PROVE  s \in Seq(T)
  OBVIOUS

(* A queue of actions goes on waiting when each does.                      *)
LEMMA QueueStays ==
  ASSUME NEW tr \in Seq(Contexts), NEW c \in Contexts,
         NEW queue \in Seq(Inlines(tr)), Nested(tr, queue),
         \A i \in 1 .. Len(queue) :
            OfAction(tr, queue[i]) => c.parent >= queue[i].parent
  PROVE  /\ queue \in Seq(Inlines(Append(tr, c)))
         /\ Nested(Append(tr, c), queue)
<1>1. ASSUME NEW i \in 1 .. Len(queue)
      PROVE  /\ queue[i] \in Inlines(Append(tr, c))
             /\ OfAction(Append(tr, c), queue[i]) <=> OfAction(tr, queue[i])
  <2>1. queue[i] \in Inlines(tr)
    OBVIOUS
  <2> QED BY <2>1, InlineStays
<1>2. queue \in Seq(Inlines(Append(tr, c)))
  BY <1>1, SeqOfElements
<1>3. Nested(Append(tr, c), queue)
  BY <1>1 DEF Nested
<1> QED BY <1>2, <1>3

(* What remains of a queue without its first action.                       *)
LEMMA NestedTail ==
  ASSUME NEW tr, NEW queue \in Seq(Contexts), queue # << >>, Nested(tr, queue)
  PROVE  /\ Nested(tr, Tail(queue))
         /\ \A i \in 1 .. Len(Tail(queue)) :
              OfAction(tr, Tail(queue)[i])
                => Head(queue).parent >= Tail(queue)[i].parent
<1>1. /\ Len(Tail(queue)) = Len(queue) - 1 /\ Len(queue) \in Nat
      /\ Len(queue) > 0 /\ Head(queue) = queue[1]
      /\ \A i \in 1 .. Len(queue) - 1 : Tail(queue)[i] = queue[i + 1]
  BY HeadTailProperties
<1>2. ASSUME NEW i \in 1 .. Len(Tail(queue)), OfAction(tr, Tail(queue)[i])
      PROVE  Head(queue).parent >= Tail(queue)[i].parent
  <2>1. Tail(queue)[i] = queue[i + 1] /\ i + 1 \in 1 .. Len(queue) /\ 1 < i + 1
        /\ 1 \in 1 .. Len(queue)
    BY <1>1
  <2>2. queue[1].parent >= queue[i + 1].parent
    BY <1>2, <2>1 DEF Nested
  <2> QED BY <1>1, <2>1, <2>2
<1>3. ASSUME NEW i \in 1 .. Len(Tail(queue)), NEW j \in 1 .. Len(Tail(queue)),
             i < j, OfAction(tr, Tail(queue)[j])
      PROVE  Tail(queue)[i].parent >= Tail(queue)[j].parent
  <2>1. /\ Tail(queue)[i] = queue[i + 1] /\ i + 1 \in 1 .. Len(queue)
        /\ Tail(queue)[j] = queue[j + 1] /\ j + 1 \in 1 .. Len(queue)
        /\ i + 1 < j + 1
    BY <1>1, <1>3
  <2>2. queue[i + 1].parent >= queue[j + 1].parent
    BY <1>3, <2>1 DEF Nested
  <2> QED BY <2>1, <2>2
<1> QED BY <1>2, <1>3 DEF Nested

-----------------------------------------------------------------------------
(* The steps keep the invariant.                                           *)

(* The types of what waits.                                                *)
LEMMA QueueTypes ==
  /\ \A tr, ordinal : Notes(tr, ordinal) \subseteq Contexts
  /\ \A tr : Inlines(tr) \subseteq Contexts
  BY DEF Notes, Inlines

(* A transaction starts without traces and with empty queues.              *)
LEMMA ApplyTransactionKeeps ==
  ASSUME IInv, NEW actions \in Transactions, ApplyTransaction(actions)
  PROVE  IInv'
<1>1. /\ status' = "queueing" /\ pending' = actions /\ actionOrdinal' = -1
      /\ actionsQueue' = << >> /\ notificationsQueue' = << >>
      /\ actionTraces' = << >> /\ sent' = << >> /\ notified' = << >>
      /\ Here' = 0
  BY DEF ApplyTransaction, Here
<1>2. TypeOK'
  BY <1>1, TransactionsAssumption DEF TypeOK
<1>3. /\ NotificationsFollowTheirAction' /\ InlinesDepthFirst'
      /\ NotNotifiedAfterwards' /\ Executed' = {}
  BY <1>1 DEF NotificationsFollowTheirAction, InlinesDepthFirst,
              NotNotifiedAfterwards, Executed, Here
<1>4. Nested(actionTraces, actionsQueue)'
  BY <1>1 DEF Nested
<1> QED BY <1>1, <1>2, <1>3, <1>4 DEF IInv

(* The transaction ends, and nothing else changes but `pending`.           *)
LEMMA ThrowKeeps ==
  ASSUME IInv, status' = "idle" \/ status' = status, pending' \in Seq(Actions),
         UNCHANGED <<actionsQueue, notificationsQueue, actionTraces,
                     actionOrdinal, sent, notified>>
  PROVE  IInv'
<1>1. TypeOK' /\ Here' = Here /\ Executed' = Executed
  BY DEF IInv, TypeOK, Here, Executed
<1>2. /\ NotificationsFollowTheirAction' /\ InlinesDepthFirst'
      /\ NotNotifiedAfterwards'
  BY <1>1 DEF IInv, NotificationsFollowTheirAction, InlinesDepthFirst,
              NotNotifiedAfterwards, isNotification
<1> QED BY <1>1, <1>2 DEF IInv

(* The next action of the transaction has no parent.                       *)
LEMMA NextActionKeeps ==
  ASSUME IInv, NextAction
  PROVE  IInv'
<1> DEFINE action == Head(pending)
<1>1. /\ status = "queueing" /\ actionsQueue = << >> /\ pending # << >>
      /\ pending \in Seq(Actions)
      /\ UNCHANGED <<actionTraces, actionOrdinal>>
  BY DEF NextAction, IInv, TypeOK
<1>2. action \in Actions /\ Tail(pending) \in Seq(Actions)
  BY <1>1, HeadTailProperties
<1>3. CASE action.account \notin Contracts
  BY <1>1, <1>3, ThrowKeeps DEF NextAction, Throw
<1>4. CASE action.account \in Contracts
  <2> DEFINE q == TopLevel(action)
  <2>1. /\ pending' = Tail(pending) /\ actionsQueue' = <<q>>
        /\ UNCHANGED <<status, notificationsQueue, sent, notified>>
    BY <1>4 DEF NextAction
  <2>2. q \in Contexts
    BY <1>2, <1>4, TransactionsAssumption DEF TopLevel, Contexts, Actions
  <2>3. Len(actionTraces) \in Nat
    BY DEF IInv, TypeOK
  <2>4. q \in Inlines(actionTraces)
    BY <2>2, <2>3 DEF Inlines, TopLevel, OfAction
  <2>5. TypeOK' /\ Here' = Here /\ Executed' = Executed
    BY <1>1, <1>2, <2>1, <2>2 DEF IInv, TypeOK, Here, Executed
  <2>6. /\ NotificationsFollowTheirAction' /\ InlinesDepthFirst'
        /\ NotNotifiedAfterwards'
    BY <1>1, <2>5 DEF IInv, NotificationsFollowTheirAction, InlinesDepthFirst,
                NotNotifiedAfterwards, isNotification
  <2>7. Nested(actionTraces, <<q>>)
    BY DEF Nested
  <2>8. actionsQueue' \in Seq(Inlines(actionTraces'))
        /\ Nested(actionTraces', actionsQueue')
    BY <1>1, <2>1, <2>4, <2>7
  <2> QED BY <1>1, <2>1, <2>5, <2>6, <2>8 DEF IInv
<1> QED BY <1>3, <1>4

(* A notification is executed.                                             *)
LEMMA ShiftNotificationKeeps ==
  ASSUME IInv, ShiftNotification
  PROVE  IInv'
<1> DEFINE tr == actionTraces
           q  == Head(notificationsQueue)
           c  == [q EXCEPT !.actionOrdinal = actionOrdinal]
<1>1. /\ status = "queueing" /\ sent = << >> /\ notified = << >>
      /\ notificationsQueue # << >> /\ actionOrdinal \in Int
      /\ notificationsQueue \in Seq(Notes(tr, actionOrdinal))
      /\ actionsQueue \in Seq(Inlines(tr)) /\ Nested(tr, actionsQueue)
      /\ tr \in Seq(Contexts) /\ Len(tr) \in Nat
  BY DEF ShiftNotification, IInv, TypeOK
<1>2. /\ notificationsQueue' = Tail(notificationsQueue)
      /\ tr' = Append(tr, c)
      /\ status' \in {"applying", "idle"}
      /\ UNCHANGED <<pending, sent, notified, actionsQueue, actionOrdinal>>
  BY DEF ShiftNotification, Start
<1>3. q \in Notes(tr, actionOrdinal)
      /\ Tail(notificationsQueue) \in Seq(Notes(tr, actionOrdinal))
  BY <1>1, HeadTailProperties
<1>4. q \in Contexts
  BY <1>3, QueueTypes
<1>5. /\ c \in Contexts /\ c.actionOrdinal = actionOrdinal
      /\ c.receiver = q.receiver /\ c.firstReceiver = q.firstReceiver
      /\ c.parent = q.parent /\ c.via = q.via
  BY <1>1, <1>4, OrdinalGiven
<1>6. /\ c.via = "notification" /\ c.parent \in 1 .. Len(tr)
      /\ c.firstReceiver = tr[Len(tr)].firstReceiver
      /\ \A j \in c.parent + 1 .. Len(tr) : tr[j].via = "notification"
      /\ \A i \in 1 .. c.parent : ~ /\ isNotification(tr[i])
                                    /\ tr[i].receiver = c.receiver
                                    /\ tr[i].actionOrdinal = actionOrdinal
  BY <1>3, <1>5 DEF Notes
<1> HIDE DEF c
<1>7. c.parent \in 0 .. Here /\ Here > 0
  BY <1>1, <1>6 DEF Here
<1>8. /\ tr' \in Seq(Contexts)
      /\ Here' = Here + 1 /\ tr'[Here'] = c
      /\ NotificationsFollowTheirAction'
      /\ InlinesDepthFirst'
      /\ NotNotifiedAfterwards'
      /\ \A i \in 1 .. Here' : tr'[i].via = "action"
           => tr'[i].receiver = tr'[i].firstReceiver
  BY <1>2, <1>5, <1>6, <1>7, TracesExtend DEF Here
<1>9. Notes(tr, actionOrdinal) \subseteq Notes(tr', actionOrdinal)
  BY <1>1, <1>2, <1>5, <1>6, NotesStay
<1>10. notificationsQueue' \in Seq(Notes(tr', actionOrdinal'))
  BY <1>2, <1>3, <1>9, SeqOfElements
<1>11. ASSUME NEW i \in 1 .. Len(actionsQueue), OfAction(tr, actionsQueue[i])
       PROVE  c.parent >= actionsQueue[i].parent
  <2> DEFINE p == actionsQueue[i].parent
  <2>1. actionsQueue[i] \in Inlines(tr)
    BY <1>1
  <2>2. p \in 1 .. Len(tr) /\ tr[p].via = "action"
    BY <1>1, <1>11, <2>1 DEF Inlines, OfAction
  <2>3. p \notin c.parent + 1 .. Len(tr)
    BY <1>6, <2>2
  <2> QED BY <1>1, <1>6, <2>2, <2>3
<1>12. actionsQueue' \in Seq(Inlines(tr')) /\ Nested(tr', actionsQueue')
  BY <1>1, <1>2, <1>5, <1>11, QueueStays
<1>13. TypeOK'
  <2>1. notificationsQueue' \in Seq(Contexts)
    BY <1>10, QueueTypes, SeqOfElements
  <2> QED BY <1>1, <1>2, <1>8, <2>1 DEF IInv, TypeOK
<1>14. Executed' = 1 .. Here' /\ Here' > 0
  BY <1>7, <1>8 DEF Executed, Here
<1>15. /\ sent' = << >> /\ notified' = << >> /\ status' # "queueing"
       /\ sent' \in Seq(Inlines(tr'))
       /\ notified' \in Seq(Notes(tr', actionOrdinal'))
       /\ \A i \in 1 .. Len(sent') : sent'[i].parent = Here'
  BY <1>1, <1>2
<1>16. (Here > 0 => actionTraces[Here].actionOrdinal = actionOrdinal)'
  BY <1>2, <1>5, <1>8
<1>17. (\A i \in Executed : actionTraces[i].via = "action"
          => actionTraces[i].receiver = actionTraces[i].firstReceiver)'
  BY <1>8, <1>14
<1> QED BY <1>8, <1>10, <1>12, <1>13, <1>14, <1>15, <1>16, <1>17 DEF IInv

(* An action is executed: no notification waits.                           *)
LEMMA ShiftActionKeeps ==
  ASSUME IInv, ShiftAction
  PROVE  IInv'
<1> DEFINE tr == actionTraces
           q  == Head(actionsQueue)
           c  == [q EXCEPT !.actionOrdinal = actionOrdinal + 1]
           rest == Tail(actionsQueue)
<1>1. /\ status = "queueing" /\ sent = << >> /\ notified = << >>
      /\ notificationsQueue = << >> /\ actionsQueue # << >>
      /\ actionsQueue \in Seq(Inlines(tr)) /\ Nested(tr, actionsQueue)
      /\ actionsQueue \in Seq(Contexts)
      /\ tr \in Seq(Contexts) /\ Len(tr) \in Nat /\ actionOrdinal + 1 \in Int
  BY DEF ShiftAction, IInv, TypeOK
<1>2. /\ actionsQueue' = rest /\ actionOrdinal' = actionOrdinal + 1
      /\ tr' = Append(tr, c)
      /\ status' \in {"applying", "idle"}
      /\ UNCHANGED <<pending, sent, notified, notificationsQueue>>
  BY DEF ShiftAction, Start
<1>3. q \in Inlines(tr) /\ rest \in Seq(Inlines(tr))
  BY <1>1, HeadTailProperties
<1>4. q \in Contexts
  BY <1>3, QueueTypes
<1>5. /\ c \in Contexts /\ c.actionOrdinal = actionOrdinal + 1
      /\ c.receiver = q.receiver /\ c.firstReceiver = q.firstReceiver
      /\ c.parent = q.parent /\ c.via = q.via
  BY <1>1, <1>4, OrdinalGiven
<1>6. /\ c.via = "action" /\ c.receiver = c.firstReceiver
      /\ c.parent \in 0 .. Len(tr)
      /\ OfAction(tr, c)
           => \A j \in c.parent + 1 .. Len(tr) : tr[j].parent >= c.parent
  BY <1>3, <1>5 DEF Inlines, OfAction
<1>7. /\ Nested(tr, rest)
      /\ \A i \in 1 .. Len(rest) :
           OfAction(tr, rest[i]) => c.parent >= rest[i].parent
  BY <1>1, <1>5, NestedTail
<1> HIDE DEF c, rest
<1>8. /\ tr' \in Seq(Contexts)
      /\ Here' = Here + 1 /\ tr'[Here'] = c
      /\ NotificationsFollowTheirAction'
      /\ InlinesDepthFirst'
      /\ NotNotifiedAfterwards'
      /\ \A i \in 1 .. Here' : tr'[i].via = "action"
           => tr'[i].receiver = tr'[i].firstReceiver
  BY <1>2, <1>5, <1>6, TracesExtend DEF Here
<1>9. rest \in Seq(Inlines(tr')) /\ Nested(tr', rest)
  BY <1>1, <1>2, <1>3, <1>5, <1>7, QueueStays
<1>10. TypeOK'
  <2>1. rest \in Seq(Contexts)
    BY <1>3, QueueTypes, SeqOfElements
  <2> QED BY <1>1, <1>2, <1>8, <2>1 DEF IInv, TypeOK
<1>11. Executed' = 1 .. Here' /\ Here' > 0
  BY <1>1, <1>8 DEF Executed, Here
<1>12. /\ sent' = << >> /\ notified' = << >> /\ status' # "queueing"
       /\ sent' \in Seq(Inlines(tr'))
       /\ notified' \in Seq(Notes(tr', actionOrdinal'))
       /\ notificationsQueue' \in Seq(Notes(tr', actionOrdinal'))
       /\ \A i \in 1 .. Len(sent') : sent'[i].parent = Here'
  BY <1>1, <1>2
<1>13. (Here > 0 => actionTraces[Here].actionOrdinal = actionOrdinal)'
  BY <1>2, <1>5, <1>8
<1>14. (\A i \in Executed : actionTraces[i].via = "action"
          => actionTraces[i].receiver = actionTraces[i].firstReceiver)'
  BY <1>8, <1>11
<1>15. actionsQueue' \in Seq(Inlines(tr')) /\ Nested(tr', actionsQueue')
  BY <1>2, <1>9
<1> QED BY <1>8, <1>10, <1>11, <1>12, <1>13, <1>14, <1>15 DEF IInv

(* The context that is applied.                                            *)
LEMMA ContextApplied ==
  ASSUME IInv, status = "applying"
  PROVE  /\ Here \in Nat /\ Here > 0 /\ Here = Len(actionTraces)
         /\ context = actionTraces[Here] /\ context \in Contexts
         /\ context.actionOrdinal = actionOrdinal
         /\ context.via = "action" => ~isNotification(context)
<1>1. /\ Here \in Nat /\ Here > 0 /\ Here = Len(actionTraces)
      /\ Here \in Executed /\ actionTraces \in Seq(Contexts)
  BY DEF IInv, TypeOK, Here, Executed
<1>2. context = actionTraces[Here] /\ context \in Contexts
  BY <1>1 DEF context
<1> QED BY <1>1, <1>2 DEF IInv, isNotification

(* The bound leaves room for a parent.                                     *)
LEMMA RoomForParent ==
  ASSUME IInv, Room
  PROVE  Here \in 0 .. MaxTraces
<1>1. /\ Len(actionTraces) \in Nat /\ Len(actionsQueue) \in Nat
      /\ Len(notificationsQueue) \in Nat /\ Len(sent) \in Nat
      /\ Len(notified) \in Nat /\ Len(pending) \in Nat
  BY DEF IInv, TypeOK
<1> QED BY <1>1, TransactionsAssumption DEF Room, Here

(* The contract asks for something: the traces and queues stay.            *)
LEMMA AskKeeps ==
  ASSUME IInv, status = "applying",
         sent' \in Seq(Inlines(actionTraces)), sent' \in Seq(Contexts),
         \A i \in 1 .. Len(sent') : sent'[i].parent = Here,
         notified' \in Seq(Notes(actionTraces, actionOrdinal)),
         notified' \in Seq(Contexts),
         UNCHANGED <<status, pending, actionsQueue, notificationsQueue,
                     actionTraces, actionOrdinal>>
  PROVE  IInv'
<1>1. TypeOK' /\ Here' = Here /\ Executed' = Executed
  BY DEF IInv, TypeOK, Here, Executed
<1>2. /\ NotificationsFollowTheirAction' /\ InlinesDepthFirst'
      /\ NotNotifiedAfterwards'
  BY <1>1 DEF IInv, NotificationsFollowTheirAction, InlinesDepthFirst,
              NotNotifiedAfterwards, isNotification
<1>3. status' # "queueing"
  OBVIOUS
<1> QED BY <1>1, <1>2, <1>3 DEF IInv

(* A notification that is asked for is one of the last action.             *)
LEMMA RequireRecipientKeeps ==
  ASSUME IInv, NEW name \in Names, RequireRecipient(name)
  PROVE  IInv'
<1>1. status = "applying"
  BY DEF RequireRecipient
<1>2. CASE name \notin Accounts \/ Skipped(name)
  <2>1. /\ status' = "idle" \/ status' = status
        /\ UNCHANGED <<pending, actionsQueue, notificationsQueue, actionTraces,
                       actionOrdinal, sent, notified>>
    BY <1>2 DEF RequireRecipient, Throw
  <2>2. pending' \in Seq(Actions)
    BY <2>1 DEF IInv, TypeOK
  <2> QED BY <2>1, <2>2, ThrowKeeps
<1>3. CASE name \in Accounts /\ ~Skipped(name)
  <2> DEFINE q == [receiver      |-> name,
                   firstReceiver |-> IF isNotification(context)
                                     THEN context.firstReceiver
                                     ELSE context.receiver,
                   sender        |-> none,
                   authorization |-> {},
                   actionOrdinal |-> context.actionOrdinal,
                   parent        |-> Here,
                   via           |-> "notification"]
  <2>1. /\ Room /\ notified' = Append(notified, q)
        /\ UNCHANGED <<status, pending, actionsQueue, notificationsQueue, sent,
                       actionTraces, actionOrdinal>>
    BY <1>3 DEF RequireRecipient, Throw
  <2>2. /\ name \in Contracts
        /\ \A i \in 1 .. Here : ~ /\ isNotification(actionTraces[i])
                                  /\ actionTraces[i].receiver = name
                                  /\ actionTraces[i].actionOrdinal
                                       = context.actionOrdinal
    BY <1>3 DEF Skipped
  <2>3. /\ q.firstReceiver = context.firstReceiver
        /\ q.firstReceiver \in Contracts
    BY <1>1, ContextApplied DEF isNotification, Contexts
  <2>4. actionOrdinal \in Int
    BY DEF IInv, TypeOK
  <2>5. q \in Contexts
    BY <1>1, <2>1, <2>2, <2>3, <2>4, ContextApplied, RoomForParent DEF Contexts
  <2>6. q \in Notes(actionTraces, actionOrdinal)
    <3>1. /\ Here \in 1 .. Len(actionTraces) /\ Here = Len(actionTraces)
          /\ Here + 1 .. Len(actionTraces) = {}
      BY <1>1, ContextApplied
    <3> QED BY <1>1, <2>2, <2>3, <2>5, <3>1, ContextApplied DEF Notes
  <2>7. /\ notified' \in Seq(Notes(actionTraces, actionOrdinal))
        /\ notified' \in Seq(Contexts)
    BY <2>1, <2>5, <2>6, AppendProperties DEF IInv, TypeOK
  <2>8. /\ sent' \in Seq(Inlines(actionTraces)) /\ sent' \in Seq(Contexts)
        /\ \A i \in 1 .. Len(sent') : sent'[i].parent = Here
    BY <2>1 DEF IInv, TypeOK
  <2> QED BY <1>1, <2>1, <2>7, <2>8, AskKeeps
<1> QED BY <1>2, <1>3

(* An inline action that is sent has the context applied for its parent.   *)
LEMMA SendInlineKeeps ==
  ASSUME IInv, NEW name \in Names, NEW auth \in Authorizations,
         SendInline(name, auth)
  PROVE  IInv'
<1>1. status = "applying"
  BY DEF SendInline
<1>2. CASE name \notin Contracts
  <2>1. /\ status' = "idle"
        /\ UNCHANGED <<pending, actionsQueue, notificationsQueue, actionTraces,
                       actionOrdinal, sent, notified>>
    BY <1>2 DEF SendInline, Throw
  <2>2. pending' \in Seq(Actions)
    BY <2>1 DEF IInv, TypeOK
  <2> QED BY <2>1, <2>2, ThrowKeeps
<1>3. CASE name \in Contracts
  <2> DEFINE q == [receiver      |-> name,
                   firstReceiver |-> name,
                   sender        |-> context.receiver,
                   authorization |-> auth,
                   actionOrdinal |-> -1,
                   parent        |-> Here,
                   via           |-> "action"]
  <2>1. /\ Room /\ sent' = Append(sent, q)
        /\ UNCHANGED <<status, pending, actionsQueue, notificationsQueue,
                       notified, actionTraces, actionOrdinal>>
    BY <1>3 DEF SendInline, Throw
  <2>2. context.receiver \in Contracts
    BY <1>1, ContextApplied DEF Contexts
  <2>3. q \in Contexts
    BY <1>3, <2>1, <2>2, RoomForParent DEF Contexts
  <2>4. q \in Inlines(actionTraces)
    <3>1. /\ Here \in 0 .. Len(actionTraces)
          /\ Here + 1 .. Len(actionTraces) = {}
      BY <1>1, ContextApplied
    <3> QED BY <2>3, <3>1 DEF Inlines
  <2>5. sent \in Seq(Inlines(actionTraces)) /\ sent \in Seq(Contexts)
    BY DEF IInv, TypeOK
  <2>6. sent' \in Seq(Inlines(actionTraces)) /\ sent' \in Seq(Contexts)
    BY <2>1, <2>3, <2>4, <2>5, AppendProperties
  <2>7. ASSUME NEW i \in 1 .. Len(sent')
        PROVE  sent'[i].parent = Here
    <3>1. /\ Len(sent') = Len(sent) + 1 /\ Len(sent) \in Nat
          /\ \A k \in 1 .. Len(sent) : sent'[k] = sent[k]
          /\ sent'[Len(sent) + 1] = q
      BY <2>1, <2>3, <2>5, AppendProperties
    <3>2. CASE i = Len(sent) + 1
      BY <3>1, <3>2
    <3>3. CASE i # Len(sent) + 1
      <4>1. i \in 1 .. Len(sent)
        BY <3>1, <3>3
      <4> QED BY <3>1, <4>1 DEF IInv
    <3> QED BY <3>2, <3>3
  <2>8. /\ notified' \in Seq(Notes(actionTraces, actionOrdinal))
        /\ notified' \in Seq(Contexts)
    BY <2>1 DEF IInv, TypeOK
  <2> QED BY <1>1, <2>1, <2>6, <2>7, <2>8, AskKeeps
<1> QED BY <1>2, <1>3

(* A queue after another, if its actions' parents ran no later.            *)
LEMMA NestedConcat ==
  ASSUME NEW tr, NEW a \in Seq(Contexts), NEW b \in Seq(Contexts),
         Nested(tr, a), Nested(tr, b),
         \A i \in 1 .. Len(a), j \in 1 .. Len(b) :
            OfAction(tr, b[j]) => a[i].parent >= b[j].parent
  PROVE  Nested(tr, a \o b)
<1> DEFINE c == a \o b
           m == Len(a)
<1>1. /\ m \in Nat /\ Len(b) \in Nat /\ Len(c) = m + Len(b)
      /\ \A i \in 1 .. m + Len(b) : c[i] = IF i <= m THEN a[i] ELSE b[i - m]
  <2>1. m \in Nat /\ Len(b) \in Nat
    OBVIOUS
  <2> QED BY <2>1, ConcatProperties, Zenon
<1> HIDE DEF c
<1>2. ASSUME NEW i \in 1 .. Len(c), NEW j \in 1 .. Len(c), i < j,
             OfAction(tr, c[j])
      PROVE  c[i].parent >= c[j].parent
  <2>1. CASE j <= m
    <3>1. i \in 1 .. m /\ j \in 1 .. m /\ c[i] = a[i] /\ c[j] = a[j]
      BY <1>1, <1>2, <2>1
    <3> QED BY <1>2, <3>1 DEF Nested
  <2>2. CASE m < i
    <3>1. /\ i - m \in 1 .. Len(b) /\ j - m \in 1 .. Len(b) /\ i - m < j - m
          /\ c[i] = b[i - m] /\ c[j] = b[j - m]
      BY <1>1, <1>2, <2>2
    <3> QED BY <1>2, <3>1 DEF Nested
  <2>3. CASE i <= m /\ m < j
    <3>1. /\ i \in 1 .. m /\ j - m \in 1 .. Len(b)
          /\ c[i] = a[i] /\ c[j] = b[j - m]
      BY <1>1, <1>2, <2>3
    <3> QED BY <1>2, <3>1
  <2> QED BY <1>1, <2>1, <2>2, <2>3
<1>3. Nested(tr, c)
  BY <1>2 DEF Nested
<1> QED BY <1>3 DEF c

(* What an action sent goes before what waits, what a notification sent    *)
(* after it: either way the queue stays nested.                            *)
LEMMA ReturnKeeps ==
  ASSUME IInv, Return
  PROVE  IInv'
<1> DEFINE tr == actionTraces
<1>1. /\ status = "applying" /\ status' = "queueing"
      /\ notificationsQueue' = notificationsQueue \o notified
      /\ sent' = << >> /\ notified' = << >>
      /\ UNCHANGED <<pending, actionTraces, actionOrdinal>>
  BY DEF Return
<1>2. /\ sent \in Seq(Inlines(tr)) /\ actionsQueue \in Seq(Inlines(tr))
      /\ sent \in Seq(Contexts) /\ actionsQueue \in Seq(Contexts)
      /\ Nested(tr, actionsQueue) /\ Here = Len(tr) /\ Here \in Nat
      /\ \A i \in 1 .. Len(sent) : sent[i].parent = Here
  BY DEF IInv, TypeOK, Here
<1>3. notificationsQueue' \in Seq(Notes(tr, actionOrdinal))
  BY <1>1, ConcatProperties DEF IInv
<1>4. Nested(tr, sent)
  BY <1>2 DEF Nested
<1>5. actionsQueue' \in Seq(Inlines(tr)) /\ Nested(tr, actionsQueue')
  <2>1. CASE isNotification(context)
    <3>1. actionsQueue' = actionsQueue \o sent
      BY <2>1 DEF Return
    <3>2. \A j \in 1 .. Len(sent) : ~OfAction(tr, sent[j])
      BY <1>1, <1>2, <2>1, ContextApplied DEF OfAction
    <3>3. actionsQueue \o sent \in Seq(Inlines(tr))
      BY <1>2, ConcatProperties
    <3> QED BY <1>2, <1>4, <3>1, <3>2, <3>3, NestedConcat
  <2>2. CASE ~isNotification(context)
    <3>1. actionsQueue' = sent \o actionsQueue
      BY <2>2 DEF Return
    <3>2. ASSUME NEW i \in 1 .. Len(sent), NEW j \in 1 .. Len(actionsQueue)
          PROVE  sent[i].parent >= actionsQueue[j].parent
      <4>1. actionsQueue[j] \in Inlines(tr)
        BY <1>2
      <4>2. actionsQueue[j].parent \in 0 .. Len(tr)
        BY <4>1 DEF Inlines
      <4> QED BY <1>2, <4>2
    <3>3. sent \o actionsQueue \in Seq(Inlines(tr))
      BY <1>2, ConcatProperties
    <3> QED BY <1>2, <1>4, <3>1, <3>2, <3>3, NestedConcat
  <2> QED BY <2>1, <2>2
<1>6. TypeOK' /\ Here' = Here /\ Executed' = Executed
  <2>1. /\ actionsQueue' \in Seq(Contexts)
        /\ notificationsQueue' \in Seq(Contexts)
    BY <1>3, <1>5, QueueTypes, SeqOfElements
  <2> QED BY <1>1, <2>1 DEF IInv, TypeOK, Here, Executed
<1>7. /\ NotificationsFollowTheirAction' /\ InlinesDepthFirst'
      /\ NotNotifiedAfterwards'
  BY <1>1, <1>6 DEF IInv, NotificationsFollowTheirAction, InlinesDepthFirst,
              NotNotifiedAfterwards, isNotification
<1>8. /\ sent' \in Seq(Inlines(tr))
      /\ notified' \in Seq(Notes(tr, actionOrdinal))
      /\ status' # "applying"
      /\ \A i \in 1 .. Len(sent') : sent'[i].parent = Here
  BY <1>1
<1> QED BY <1>1, <1>3, <1>5, <1>6, <1>7, <1>8 DEF IInv

(* Nothing has run and nothing waits at first.                             *)
LEMMA InitHolds == Init => IInv
<1> SUFFICES ASSUME Init PROVE IInv
  OBVIOUS
<1>1. TypeOK /\ Here = 0 /\ Executed = {}
  BY DEF Init, TypeOK, Here, Executed
<1>2. /\ NotificationsFollowTheirAction /\ InlinesDepthFirst
      /\ NotNotifiedAfterwards
  BY <1>1 DEF NotificationsFollowTheirAction, InlinesDepthFirst,
              NotNotifiedAfterwards
<1>3. Nested(actionTraces, actionsQueue)
  BY DEF Init, Nested
<1> QED BY <1>1, <1>2, <1>3 DEF Init, IInv

(* The inductive invariant holds of every transaction, whatever contracts  *)
(* ask for.                                                                *)
THEOREM Invariance == Spec => []IInv
<1>1. IInv /\ [Next]_vars => IInv'
  <2> SUFFICES ASSUME IInv, [Next]_vars
               PROVE  IInv'
    OBVIOUS
  <2>1. ASSUME NEW actions \in Transactions, ApplyTransaction(actions)
        PROVE  IInv'
    BY <2>1, ApplyTransactionKeeps
  <2>2. CASE NextAction
    BY <2>2, NextActionKeeps
  <2>3. CASE ShiftNotification
    BY <2>3, ShiftNotificationKeeps
  <2>4. CASE ShiftAction
    BY <2>4, ShiftActionKeeps
  <2>5. CASE Finish \/ Fail
    <3>1. pending' \in Seq(Actions)
      BY <2>5 DEF Finish, Fail, Throw, IInv, TypeOK
    <3> QED BY <2>5, <3>1, ThrowKeeps DEF Finish, Fail, Throw
  <2>6. ASSUME NEW name \in Names, RequireRecipient(name)
        PROVE  IInv'
    BY <2>6, RequireRecipientKeeps
  <2>7. ASSUME NEW name \in Names, NEW auth \in Authorizations,
               SendInline(name, auth)
        PROVE  IInv'
    BY <2>7, SendInlineKeeps
  <2>8. CASE Return
    BY <2>8, ReturnKeeps
  <2>9. CASE UNCHANGED vars
    <3>1. pending' \in Seq(Actions)
      BY <2>9 DEF vars, IInv, TypeOK
    <3> QED BY <2>9, <3>1, ThrowKeeps DEF vars
  <2> QED
    BY <2>1, <2>2, <2>3, <2>4, <2>5, <2>6, <2>7, <2>8, <2>9 DEF Next
<1> QED BY InitHolds, <1>1, PTL DEF Spec

-----------------------------------------------------------------------------
(* The properties.                                                         *)

(* The queues hold contexts, of existing contracts.                        *)
THEOREM TypeCorrect == Spec => []TypeOK
<1>1. IInv => TypeOK
  BY DEF IInv
<1> QED BY <1>1, Invariance, PTL

(* An action is followed by all of its notifications before another        *)
(* action runs.                                                            *)
THEOREM NotificationsFollow == Spec => []NotificationsFollowTheirAction
<1>1. IInv => NotificationsFollowTheirAction
  BY DEF IInv
<1> QED BY <1>1, Invariance, PTL

(* Inline actions of actions run depth first.                              *)
THEOREM DepthFirst == Spec => []InlinesDepthFirst
<1>1. IInv => InlinesDepthFirst
  BY DEF IInv
<1> QED BY <1>1, Invariance, PTL

(* A contract that has handled a notification is not notified again by     *)
(* contexts that run later.                                                *)
THEOREM NotNotifiedAgain == Spec => []NotNotifiedAfterwards
<1>1. IInv => NotNotifiedAfterwards
  BY DEF IInv
<1> QED BY <1>1, Invariance, PTL

-----------------------------------------------------------------------------
(* Authority.  Only inline actions, which have a sender, may claim an      *)
(* authority that the transaction did not bring, and VM.apply demands that *)
(* the sender's code weighs something in it.                               *)

(* The weight of no entries, as isAuthoritySatisfied sums it up.           *)
LEMMA NoEntriesNoWeight ==
  ASSUME NEW entries, entries = {}
  PROVE  MapThenSumSet(LAMBDA entry : entry.weight, entries) = 0
<1> DEFINE
      Sum(g) == [s \in SUBSET entries |->
                   IF s = {} THEN 0
                   ELSE (CHOOSE x \in s : TRUE).weight
                          + g[s \ {CHOOSE x \in s : TRUE}]]
      iter == CHOOSE g : g = Sum(g)
<1>1. iter = Sum(iter)
  <2> DEFINE zero == [s \in SUBSET entries |-> 0]
  <2>1. zero = Sum(zero)
    OBVIOUS
  <2>2. \E g : g = Sum(g)
    BY <2>1
  <2> HIDE DEF Sum
  <2> QED BY <2>2, Zenon
<1>2. iter[entries] = 0
  <2> HIDE DEF iter
  <2>1. Sum(iter)[entries] = 0
    OBVIOUS
  <2> QED BY <1>1, <2>1, Zenon
<1>3. MapThenSumSet(LAMBDA entry : entry.weight, entries) = iter[entries]
  BY Zenon DEF MapThenSumSet, MapThenFoldSet
<1> QED BY <1>2, <1>3, Zenon

(* Who satisfies an authority is listed in it.                             *)
LEMMA SatisfiedIsListed ==
  ASSUME NEW perm, perm.threshold \in Nat \ {0}, NEW level,
         isAuthoritySatisfied(perm, level)
  PROVE  \E entry \in perm.accounts : entry.permission = level
<1> DEFINE entries == {entry \in perm.accounts : entry.permission = level}
<1> SUFFICES ASSUME entries = {} PROVE FALSE
  OBVIOUS
<1>1. MapThenSumSet(LAMBDA entry : entry.weight, entries) = 0
  BY NoEntriesNoWeight
<1>2. MapThenSumSet(LAMBDA entry : entry.weight, entries) >= perm.threshold
  BY DEF isAuthoritySatisfied
<1>3. 0 >= perm.threshold
  BY <1>1, <1>2, Zenon
<1> QED BY <1>3

Claims == {q \in Contexts :
             \/ q.parent = 0
             \/ q.sender \in Contracts
             \/ q.authorization = {}}

AuthorityInv == /\ IInv
                /\ actionsQueue \in Seq(Claims)
                /\ notificationsQueue \in Seq(Claims)
                /\ sent \in Seq(Claims)
                /\ notified \in Seq(Claims)
                /\ AuthorityIsGiven

(* A context that gets its ordinal claims what it claimed.                 *)
LEMMA ClaimsWithOrdinal ==
  ASSUME NEW q \in Claims, q \in Contexts, NEW n \in Int
  PROVE  [q EXCEPT !.actionOrdinal = n] \in Claims
<1> DEFINE c == [q EXCEPT !.actionOrdinal = n]
<1>1. c \in Contexts /\ c.parent = q.parent
  BY OrdinalGiven
<1>2. c.sender = q.sender /\ c.authorization = q.authorization
  BY DEF Contexts
<1> HIDE DEF c
<1>3. c \in Claims
  BY <1>1, <1>2 DEF Claims
<1> QED BY <1>3 DEF c

(* What is appended is an element.                                         *)
LEMMA LastIsElement ==
  ASSUME NEW S, NEW s \in Seq(S), NEW e, Append(s, e) \in Seq(S)
  PROVE  e \in S
  OBVIOUS

(* VM.apply lets through only contexts whose authority is given.           *)
LEMMA AuthorizedIsGiven ==
  ASSUME NEW c, c.sender \in Contracts, Authorized(c),
         NEW level \in c.authorization
  PROVE  c.sender \in Privileged \/ ListsCode(level, c.sender)
<1>1. isInline(c)
  BY NamesAssumption DEF isInline
<1>2. level.actor \in Accounts
  BY DEF Authorized
<1>3. CASE c.sender \notin Privileged
  <2>1. PICK perm \in Granted(level) :
               isAuthoritySatisfied(perm, Level(c.sender, "eosio.code"))
    BY <1>1, <1>3 DEF Authorized
  <2>2. perm.threshold \in Nat \ {0}
    BY <1>2, ThresholdAssumption DEF Granted
  <2>3. \E entry \in perm.accounts :
           entry.permission = Level(c.sender, "eosio.code")
    BY <2>1, <2>2, SatisfiedIsListed
  <2> QED BY <2>3 DEF ListsCode
<1> QED BY <1>3

(* A context is executed or refused.                                       *)
LEMMA StartKeepsAuthority ==
  ASSUME AuthorityInv, status = "queueing", NEW c \in Claims, Start(c)
  PROVE  AuthorityIsGiven'
<1> DEFINE n == Len(actionTraces)
<1>1. /\ actionTraces' = Append(actionTraces, c) /\ n \in Nat
      /\ actionTraces \in Seq(Contexts) /\ c \in Contexts
      /\ status' = "idle" \/ (status' = "applying" /\ Authorized(c))
  BY DEF Start, AuthorityInv, IInv, TypeOK, Claims
<1>2. /\ Len(actionTraces') = n + 1 /\ actionTraces'[n + 1] = c
      /\ \A i \in 1 .. n : actionTraces'[i] = actionTraces[i]
  BY <1>1, AppendProperties
<1>3. Ran = 1 .. n
  BY DEF Ran, Executed, Here
<1>4. Ran' \subseteq 1 .. n + 1 /\ (n + 1 \in Ran' => status' = "applying")
  BY <1>1, <1>2 DEF Ran, Executed, Here
<1>5. ASSUME NEW i \in Ran', NEW level \in actionTraces'[i].authorization
      PROVE  \/ actionTraces'[i].parent = 0
             \/ actionTraces'[i].sender \in Privileged
             \/ ListsCode(level, actionTraces'[i].sender)
  <2>1. CASE i = n + 1
    <3>1. Authorized(c) /\ actionTraces'[i] = c
      BY <1>1, <1>2, <1>4, <2>1
    <3> QED BY <1>5, <3>1, AuthorizedIsGiven DEF Claims
  <2>2. CASE i # n + 1
    <3>1. i \in Ran /\ actionTraces'[i] = actionTraces[i]
      BY <1>1, <1>2, <1>3, <1>4, <2>2
    <3> QED BY <1>5, <3>1 DEF AuthorityInv, AuthorityIsGiven
  <2> QED BY <2>1, <2>2
<1> QED BY <1>5 DEF AuthorityIsGiven, ListsCode, Granted

(* The steps that execute nothing.                                         *)
LEMMA OthersKeepAuthority ==
  ASSUME AuthorityIsGiven, actionTraces' = actionTraces,
         status' = "idle" \/ status # "idle", Len(actionTraces) \in Nat
  PROVE  AuthorityIsGiven'
<1>1. Ran' \subseteq Ran
  BY DEF Ran, Executed, Here
<1> QED BY <1>1 DEF AuthorityIsGiven, ListsCode, Granted

(* No contract speaks for an account that did not let it, whatever the     *)
(* permissions and the transactions are.                                   *)
THEOREM AuthorityGiven == Spec => []AuthorityIsGiven
<1>1. Init => AuthorityInv
  BY InitHolds DEF Init, AuthorityInv, AuthorityIsGiven, Ran, Executed, Here
<1>2. AuthorityInv /\ IInv' /\ [Next]_vars => AuthorityInv'
  <2> SUFFICES ASSUME AuthorityInv, IInv', [Next]_vars
               PROVE  AuthorityInv'
    OBVIOUS
  <2>1. /\ actionsQueue \in Seq(Claims) /\ notificationsQueue \in Seq(Claims)
        /\ sent \in Seq(Claims) /\ notified \in Seq(Claims)
        /\ Len(actionTraces) \in Nat /\ AuthorityIsGiven
    BY DEF AuthorityInv, IInv, TypeOK
  <2>2. ASSUME actionsQueue' = actionsQueue,
               notificationsQueue' = notificationsQueue,
               sent' = sent, notified' = notified,
               actionTraces' = actionTraces,
               status' = "idle" \/ status # "idle"
        PROVE  AuthorityInv'
    BY <2>1, <2>2, OthersKeepAuthority DEF AuthorityInv
  <2>3. ASSUME NEW actions \in Transactions, ApplyTransaction(actions)
        PROVE  AuthorityInv'
    <3>1. Ran' = {}
      BY <2>3 DEF ApplyTransaction, Ran, Executed, Here
    <3>2. AuthorityIsGiven'
      BY <3>1 DEF AuthorityIsGiven
    <3> QED BY <2>3, <3>2 DEF ApplyTransaction, AuthorityInv
  <2>4. CASE NextAction
    <3> DEFINE action == Head(pending)
    <3>1. CASE action.account \notin Contracts
      BY <2>2, <2>4, <3>1 DEF NextAction, Throw
    <3>2. CASE action.account \in Contracts
      <4>1. /\ status = "queueing" /\ actionsQueue' = <<TopLevel(action)>>
            /\ UNCHANGED <<status, notificationsQueue, sent, notified,
                           actionTraces>>
        BY <2>4, <3>2 DEF NextAction
      <4>2. AuthorityIsGiven'
        BY <2>1, <4>1, OthersKeepAuthority
      <4>3. TopLevel(action) \in Contexts
        <5>1. actionsQueue' \in Seq(Contexts)
          BY DEF IInv, TypeOK
        <5> QED BY <4>1, <5>1
      <4>4. actionsQueue' \in Seq(Claims)
        BY <4>1, <4>3 DEF Claims, TopLevel
      <4> QED BY <2>1, <4>1, <4>2, <4>4 DEF AuthorityInv
    <3> QED BY <3>1, <3>2
  <2>5. CASE ShiftNotification
    <3> DEFINE q == Head(notificationsQueue)
               c == [q EXCEPT !.actionOrdinal = actionOrdinal]
    <3>1. /\ status = "queueing" /\ notificationsQueue # << >> /\ Start(c)
          /\ notificationsQueue' = Tail(notificationsQueue)
          /\ UNCHANGED <<actionsQueue, sent, notified>>
      BY <2>5 DEF ShiftNotification, Start
    <3>2. q \in Claims /\ notificationsQueue' \in Seq(Claims)
      BY <2>1, <3>1, HeadTailProperties
    <3>3. c \in Claims
      <4>1. q \in Contexts /\ actionOrdinal \in Int
        BY <3>2 DEF Claims, AuthorityInv, IInv, TypeOK
      <4> QED BY <3>2, <4>1, ClaimsWithOrdinal
    <3>4. AuthorityIsGiven'
      BY <3>1, <3>3, StartKeepsAuthority
    <3> QED BY <2>1, <3>1, <3>2, <3>4 DEF AuthorityInv
  <2>6. CASE ShiftAction
    <3> DEFINE q == Head(actionsQueue)
               c == [q EXCEPT !.actionOrdinal = actionOrdinal + 1]
    <3>1. /\ status = "queueing" /\ actionsQueue # << >> /\ Start(c)
          /\ actionsQueue' = Tail(actionsQueue)
          /\ UNCHANGED <<notificationsQueue, sent, notified>>
      BY <2>6 DEF ShiftAction, Start
    <3>2. q \in Claims /\ actionsQueue' \in Seq(Claims)
      BY <2>1, <3>1, HeadTailProperties
    <3>3. c \in Claims
      <4>1. q \in Contexts /\ actionOrdinal + 1 \in Int
        BY <3>2 DEF Claims, AuthorityInv, IInv, TypeOK
      <4> QED BY <3>2, <4>1, ClaimsWithOrdinal
    <3>4. AuthorityIsGiven'
      BY <3>1, <3>3, StartKeepsAuthority
    <3> QED BY <2>1, <3>1, <3>2, <3>4 DEF AuthorityInv
  <2>7. CASE Finish \/ Fail
    BY <2>2, <2>7 DEF Finish, Fail, Throw
  <2>8. ASSUME NEW name \in Names, RequireRecipient(name)
        PROVE  AuthorityInv'
    <3>1. status = "applying"
      BY <2>8 DEF RequireRecipient
    <3>2. CASE name \notin Accounts \/ Skipped(name)
      BY <2>2, <2>8, <3>1, <3>2 DEF RequireRecipient, Throw
    <3>3. CASE name \in Accounts /\ ~Skipped(name)
      <4>1. PICK q : /\ notified' = Append(notified, q)
                     /\ q.authorization = {}
        BY <2>8, <3>3 DEF RequireRecipient, Throw
      <4>2. UNCHANGED <<status, actionsQueue, notificationsQueue, sent,
                        actionTraces>>
        BY <2>8, <3>3 DEF RequireRecipient, Throw
      <4>3. AuthorityIsGiven'
        BY <2>1, <3>1, <4>2, OthersKeepAuthority
      <4>4. notified' \in Seq(Claims)
        <5>1. notified' \in Seq(Contexts) /\ notified \in Seq(Contexts)
          BY DEF AuthorityInv, IInv, TypeOK
        <5>2. q \in Contexts
          BY <4>1, <5>1, LastIsElement
        <5> QED BY <2>1, <4>1, <5>2, AppendProperties DEF Claims
      <4> QED BY <2>1, <4>2, <4>3, <4>4 DEF AuthorityInv
    <3> QED BY <3>2, <3>3
  <2>9. ASSUME NEW name \in Names, NEW auth \in Authorizations,
               SendInline(name, auth)
        PROVE  AuthorityInv'
    <3>1. status = "applying"
      BY <2>9 DEF SendInline
    <3>2. CASE name \notin Contracts
      BY <2>2, <2>9, <3>2 DEF SendInline, Throw
    <3>3. CASE name \in Contracts
      <4>1. PICK q : /\ sent' = Append(sent, q)
                     /\ q.sender = context.receiver
        BY <2>9, <3>3 DEF SendInline, Throw
      <4>2. UNCHANGED <<status, actionsQueue, notificationsQueue, notified,
                        actionTraces>>
        BY <2>9, <3>3 DEF SendInline, Throw
      <4>3. AuthorityIsGiven'
        BY <2>1, <3>1, <4>2, OthersKeepAuthority
      <4>4. sent' \in Seq(Claims)
        <5>1. sent' \in Seq(Contexts) /\ sent \in Seq(Contexts)
          BY DEF AuthorityInv, IInv, TypeOK
        <5>2. q \in Contexts
          BY <4>1, <5>1, LastIsElement
        <5>3. q.sender \in Contracts
          BY <3>1, <4>1, ContextApplied DEF AuthorityInv, Contexts
        <5> QED BY <2>1, <4>1, <5>2, <5>3, AppendProperties DEF Claims
      <4> QED BY <2>1, <4>2, <4>3, <4>4 DEF AuthorityInv
    <3> QED BY <3>2, <3>3
  <2>10. CASE Return
    <3>1. /\ status = "applying" /\ sent' = << >> /\ notified' = << >>
          /\ notificationsQueue' = notificationsQueue \o notified
          /\ \/ actionsQueue' = actionsQueue \o sent
             \/ actionsQueue' = sent \o actionsQueue
          /\ UNCHANGED actionTraces
      BY <2>10 DEF Return
    <3>2. AuthorityIsGiven'
      BY <2>1, <3>1, OthersKeepAuthority
    <3>3. actionsQueue' \in Seq(Claims) /\ notificationsQueue' \in Seq(Claims)
      BY <2>1, <3>1, ConcatProperties
    <3> QED BY <3>1, <3>2, <3>3 DEF AuthorityInv
  <2>11. CASE UNCHANGED vars
    BY <2>1, <2>11 DEF vars, AuthorityInv, AuthorityIsGiven, Ran, Executed,
                       Here, ListsCode, Granted
  <2> QED
    BY <2>3, <2>4, <2>5, <2>6, <2>7, <2>8, <2>9, <2>10, <2>11 DEF Next
<1>3. AuthorityInv => AuthorityIsGiven
  BY DEF AuthorityInv
<1> QED BY <1>1, <1>2, <1>3, Invariance, PTL DEF Spec
(* The weight of one entry of weight 1.                                    *)
LEMMA OneEntryWeighsOne ==
  ASSUME NEW e, e.weight = 1, NEW entries, entries = {e}
  PROVE  MapThenSumSet(LAMBDA entry : entry.weight, entries) = 1
<1> DEFINE
      Sum(g) == [s \in SUBSET entries |->
                   IF s = {} THEN 0
                   ELSE (CHOOSE x \in s : TRUE).weight
                          + g[s \ {CHOOSE x \in s : TRUE}]]
      iter == CHOOSE g : g = Sum(g)
<1>1. \A s \in SUBSET entries :
         s # {} => /\ (CHOOSE x \in s : TRUE) = e
                   /\ s \ {CHOOSE x \in s : TRUE} = {}
  <2> SUFFICES ASSUME NEW s \in SUBSET entries, s # {}
               PROVE  /\ (CHOOSE x \in s : TRUE) = e
                      /\ s \ {CHOOSE x \in s : TRUE} = {}
    OBVIOUS
  <2>1. s = {e}
    OBVIOUS
  <2>2. (CHOOSE x \in s : TRUE) = e
    BY <2>1
  <2> QED BY <2>1, <2>2
<1>2. iter = Sum(iter)
  <2> DEFINE one == [s \in SUBSET entries |-> IF s = {} THEN 0 ELSE 1]
  <2>1. \A s \in SUBSET entries : Sum(one)[s] = one[s]
    BY <1>1
  <2>2. one = Sum(one)
    BY <2>1
  <2>3. \E g : g = Sum(g)
    BY <2>2
  <2> HIDE DEF Sum
  <2> QED BY <2>3, Zenon
<1>3. iter[{}] = 0 /\ iter[entries] = 1
  <2> HIDE DEF iter
  <2>1. Sum(iter)[{}] = 0
    OBVIOUS
  <2>2. iter[{}] = 0
    BY <1>2, <2>1, Zenon
  <2>3. Sum(iter)[entries] = 1 + iter[{}]
    BY <1>1
  <2> HIDE DEF Sum
  <2>4. iter[entries] = 1 + iter[{}]
    BY <1>2, <2>3, Zenon
  <2> QED BY <2>2, <2>4
<1>4. MapThenSumSet(LAMBDA entry : entry.weight, entries) = iter[entries]
  BY Zenon DEF MapThenSumSet, MapThenFoldSet
<1> QED BY <1>3, <1>4, Zenon

(* The active permission of a contract with inline actions enabled is      *)
(* satisfied by the contract's code.                                       *)
LEMMA EnabledIsSatisfied ==
  ASSUME NEW name, InlineEnabled(name)
  PROVE  \E perm \in Granted(Level(name, "active")) :
            isAuthoritySatisfied(perm, Level(name, "eosio.code"))
<1> DEFINE own  == Entry(Level(name, "active"))
           code == Entry(Level(name, "eosio.code"))
           perm == [perm_name |-> "active", threshold |-> 1,
                    accounts |-> {own, code}]
           made == [perm_name |-> "active", threshold |-> 1,
                    accounts |-> {own}]
<1>1. made \in generatePermissions(name)
  BY DEF generatePermissions
<1>2. [made EXCEPT !.accounts = @ \cup {code}] = perm
  OBVIOUS
<1>3. perm \in Permissions[name]
  <2>1. perm \in addInlinePermission(name, generatePermissions(name))
    BY <1>1, <1>2 DEF addInlinePermission
  <2> QED BY <2>1 DEF InlineEnabled
<1>4. perm \in Granted(Level(name, "active"))
  BY <1>3 DEF Granted, Level
<1>5. {entry \in perm.accounts :
         entry.permission = Level(name, "eosio.code")} = {code}
  BY DEF Entry, Level
<1>6. code.weight = 1
  BY DEF Entry
<1>7. isAuthoritySatisfied(perm, Level(name, "eosio.code"))
  <2> DEFINE entries == {entry \in perm.accounts :
                           entry.permission = Level(name, "eosio.code")}
  <2>1. MapThenSumSet(LAMBDA entry : entry.weight, entries) = 1
    <3> HIDE DEF entries, code
    <3>1. entries = {code}
      BY <1>5 DEF entries
    <3> QED BY <1>6, <3>1, OneEntryWeighsOne
  <2>2. perm.threshold = 1
    OBVIOUS
  <2>3. 1 >= perm.threshold
    BY <2>2
  <2> HIDE DEF perm
  <2>4. MapThenSumSet(LAMBDA entry : entry.weight, entries)
          >= perm.threshold
    BY <2>1, <2>3, Zenon
  <2> QED BY <2>4, Zenon DEF isAuthoritySatisfied
<1> QED BY <1>4, <1>7

(* VM.apply does not refuse it.                                            *)
LEMMA OwnInlineAuthorized ==
  ASSUME NEW c \in Contexts, isInline(c), InlineEnabled(c.sender),
         c.authorization = {Level(c.sender, "active")}
  PROVE  Authorized(c)
<1>1. c.sender \in Accounts
  BY NamesAssumption DEF Contexts, isInline
<1>2. \E perm \in Granted(Level(c.sender, "active")) :
         isAuthoritySatisfied(perm, Level(c.sender, "eosio.code"))
  BY EnabledIsSatisfied
<1>3. Level(c.sender, "active").actor = c.sender
  BY DEF Level
<1> QED BY <1>1, <1>2, <1>3 DEF Authorized

(* A contract made with enableInline may always act in its own name,       *)
(* wherever its inline action stands in the queue.                         *)
THEOREM OwnInlinesRun == Spec => OwnInlinesAccepted
<1> DEFINE c == actionTraces'[Len(actionTraces')]
           Accepted == (/\ status = "queueing"
                        /\ Len(actionTraces') > Len(actionTraces)
                        /\ isInline(c)
                        /\ c.authorization = {Level(c.sender, "active")}
                        /\ InlineEnabled(c.sender))
                         => status' = "applying"
<1>1. IInv /\ Next => Accepted
  <2> SUFFICES ASSUME IInv, Next, status = "queueing",
                      Len(actionTraces') > Len(actionTraces),
                      isInline(c), InlineEnabled(c.sender),
                      c.authorization = {Level(c.sender, "active")}
               PROVE  status' = "applying"
    OBVIOUS
  <2>1. /\ actionTraces \in Seq(Contexts) /\ Len(actionTraces) \in Nat
        /\ actionsQueue \in Seq(Contexts)
        /\ notificationsQueue \in Seq(Contexts) /\ actionOrdinal \in Int
    BY DEF IInv, TypeOK
  <2>2. ASSUME NEW q \in Contexts, Start(q)
        PROVE  status' = "applying"
    <3>1. actionTraces' = Append(actionTraces, q)
      BY <2>2 DEF Start
    <3>2. c = q
      BY <2>1, <3>1, AppendProperties
    <3>3. Authorized(q)
      BY <3>2, OwnInlineAuthorized
    <3> QED BY <2>2, <3>3 DEF Start
  <2>3. CASE ShiftNotification
    <3> DEFINE q == Head(notificationsQueue)
    <3>1. q \in Contexts
      BY <2>1, <2>3, HeadTailProperties DEF ShiftNotification
    <3>2. [q EXCEPT !.actionOrdinal = actionOrdinal] \in Contexts
      BY <2>1, <3>1, OrdinalGiven
    <3> QED BY <2>2, <2>3, <3>2 DEF ShiftNotification
  <2>4. CASE ShiftAction
    <3> DEFINE q == Head(actionsQueue)
    <3>1. q \in Contexts
      BY <2>1, <2>4, HeadTailProperties DEF ShiftAction
    <3>2. actionOrdinal + 1 \in Int
      BY <2>1
    <3>3. [q EXCEPT !.actionOrdinal = actionOrdinal + 1] \in Contexts
      BY <3>1, <3>2, OrdinalGiven
    <3> QED BY <2>2, <2>4, <3>3 DEF ShiftAction
  <2>5. CASE NextAction \/ Finish
    BY <2>1, <2>5 DEF NextAction, Finish
  <2> QED BY <2>3, <2>4, <2>5
    DEF Next, ApplyTransaction, RequireRecipient, SendInline, Return, Fail
<1>2. IInv /\ [Next]_vars => [Accepted]_vars
  BY <1>1
<1> QED BY <1>2, Invariance, PTL DEF Spec, OwnInlinesAccepted
=============================================================================
