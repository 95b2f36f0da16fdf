--------------------------- MODULE BlockchainProofs ---------------------------
(***************************************************************************)
(* Proofs about Blockchain for any accounts, transactions and bounds.      *)
(*                                                                         *)
(* The argument.  A send gives every account with wasm a VM of its code at *)
(* that time, and no later send gives it an older one (VmsNotOlder): what  *)
(* runs afterwards is never older than what was there at the send.  The VM *)
(* that an account has from a transaction is the one which that            *)
(* transaction waits for (OwnVms), so after its reset only the VMs of      *)
(* others and of new contracts are unusable.  And a transaction that is in *)
(* flight alone finds the traces empty when it continues (AloneIsClear).   *)
(***************************************************************************)
EXTENDS Blockchain, SequenceTheorems, TLAPS

Sent == {t \in Transactions : phase[t] # "unsent"}

(* The traces that CodeNotStale allows, and those that ResultsAreOwn does. *)
NotStale == {trace \in Traces :
               /\ trace.by \in Sent
               /\ trace.code # 0
                    => trace.code >= codeWhenSent[trace.by][trace.account]}
TracesOf(t) == {trace \in Traces : trace.by = t}

TracesNotStale == actionTraces \in Seq(NotStale)

VmsNotOlder ==
  \A t \in Sent, a \in Accounts :
     /\ codeWhenSent[t][a] <= code[a]
     /\ codeWhenSent[t][a] > 0
          => vm[a] \in VMs /\ vm[a].code >= codeWhenSent[t][a]

OwnVms ==
  \A t \in Transactions : \A v \in awaited[t] :
     /\ vm[v.account] \in VMs
     /\ vm[v.account].by = t => vm[v.account] = v

AloneIsClear ==
  \A t \in InFlight \ overlapping : InFlight = {t} /\ actionTraces = << >>

OwnResults ==
  \A t \in Transactions \ overlapping : results[t] \in Seq(TracesOf(t))

IInv == /\ TypeOK
        /\ TracesNotStale
        /\ VmsNotOlder
        /\ OwnVms
        /\ AloneIsClear
        /\ OwnResults

-----------------------------------------------------------------------------
(* Sequences.                                                              *)

(* A sequence over a set is one over each larger set.                      *)
LEMMA SeqIsMonotone ==
  ASSUME NEW S, NEW T, S \subseteq T, NEW s \in Seq(S)
  PROVE  s \in Seq(T)
  OBVIOUS

(* The last element of a sequence to which another was appended.           *)
LEMMA LastOfConcat ==
  ASSUME NEW S, NEW s \in Seq(S), NEW r \in Seq(S), Len(r) > 0
  PROVE  /\ Len(s \o r) = Len(s) + Len(r)
         /\ (s \o r)[Len(s \o r)] = r[Len(r)]
<1> DEFINE c == s \o r
           n == Len(s) + Len(r)
<1>1. Len(s) \in Nat /\ Len(r) \in Nat
  OBVIOUS
<1>2. Len(c) = n
  BY ConcatProperties, Zenon
<1>3. \A i \in 1 .. n : c[i] = IF i <= Len(s) THEN s[i] ELSE r[i - Len(s)]
  BY ConcatProperties, Zenon
<1> HIDE DEF c
<1>4. c[n] = r[n - Len(s)]
  BY <1>1, <1>3
<1>5. n - Len(s) = Len(r)
  BY <1>1
<1>6. c[n] = r[Len(r)]
  BY <1>4, <1>5, Zenon
<1> QED BY <1>2, <1>6, Zenon DEF c

(* The receivers of a run are a sequence of accounts.                      *)
LEMMA RunsAreSequences ==
  ASSUME NEW receivers \in Runs
  PROVE  receivers \in Seq(Accounts)
<1>1. PICK n \in 0 .. MaxContexts : receivers \in [1 .. n -> Receivers]
  BY DEF Runs
<1>2. n \in Nat /\ receivers \in [1 .. n -> Accounts]
  BY <1>1, BlockchainAssumption DEF Receivers
<1> QED BY <1>2

-----------------------------------------------------------------------------
(* VMs.                                                                    *)

(* A reset makes one VM, of the present code, for each contract.           *)
LEMMA FreshVMs ==
  ASSUME TypeOK, NEW t \in Transactions
  PROVE  /\ Fresh(t) \subseteq VMs
         /\ \A v \in Fresh(t) : /\ v.by = t
                                /\ v.account \in Accounts
                                /\ isContract(v.account)
                                /\ v.code = code[v.account]
         /\ \A a \in Accounts : isContract(a)
              => [account |-> a, by |-> t, code |-> code[a]] \in Fresh(t)
  BY BlockchainAssumption DEF TypeOK, VMs, Fresh, isContract

(* After a send the contracts have these VMs, and other accounts the VM    *)
(* they had.                                                               *)
LEMMA SendVMs ==
  ASSUME TypeOK, NEW t \in Transactions, Send(t)
  PROVE  /\ \A a \in Accounts : isContract(a)
              => vm'[a] = [account |-> a, by |-> t, code |-> code[a]]
         /\ \A a \in Accounts : ~isContract(a) => vm'[a] = vm[a]
         /\ vm' \in [Accounts -> VMs \cup {undefined}]
<1>1. \A a \in Accounts : isContract(a)
              => vm'[a] = [account |-> a, by |-> t, code |-> code[a]]
  <2> SUFFICES ASSUME NEW a \in Accounts, isContract(a)
               PROVE  vm'[a] = [account |-> a, by |-> t, code |-> code[a]]
    OBVIOUS
  <2> DEFINE w == [account |-> a, by |-> t, code |-> code[a]]
  <2>1. w \in Fresh(t) /\ w.account = a
    BY FreshVMs
  <2>2. \A v \in Fresh(t) : v.account = a => v = w
    BY DEF Fresh
  <2>3. vm'[a] = CHOOSE v \in Fresh(t) : v.account = a
    BY <2>1 DEF Send
  <2> QED BY <2>1, <2>2, <2>3
<1>2. \A a \in Accounts : ~isContract(a) => vm'[a] = vm[a]
  BY FreshVMs DEF Send
<1>3. vm' \in [Accounts -> VMs \cup {undefined}]
  <2>1. vm' = [a \in Accounts |-> vm'[a]]
    BY DEF Send
  <2>2. ASSUME NEW a \in Accounts
        PROVE  vm'[a] \in VMs \cup {undefined}
    <3>1. CASE isContract(a)
      <4> DEFINE w == [account |-> a, by |-> t, code |-> code[a]]
      <4>1. w \in Fresh(t)
        BY <3>1, FreshVMs
      <4>2. vm'[a] = w
        BY <1>1, <3>1
      <4> HIDE DEF w
      <4> QED BY <4>1, <4>2, FreshVMs
    <3>2. CASE ~isContract(a)
      <4>1. vm[a] \in VMs \cup {undefined}
        BY DEF TypeOK
      <4> QED BY <1>2, <3>2, <4>1
    <3> QED BY <3>1, <3>2
  <2> QED BY <2>1, <2>2
<1> QED BY <1>1, <1>2, <1>3

(* What runs is the code of the account's VM, or none.                     *)
LEMMA CodeOfType ==
  ASSUME TypeOK, NEW a \in Accounts
  PROVE  /\ CodeOf(a) \in 0 .. MaxCode
         /\ CodeOf(a) # 0 => vm[a] \in VMs /\ CodeOf(a) = vm[a].code
  BY BlockchainAssumption DEF TypeOK, VMs, CodeOf

-----------------------------------------------------------------------------
(* Traces.                                                                 *)

(* The traces of an execution.                                             *)
LEMMA ExecutionTraces ==
  ASSUME IInv, NEW t \in Sent, NEW receivers \in Seq(Accounts)
  PROVE  /\ Execution(t, receivers) \in Seq(Traces)
         /\ Execution(t, receivers) \in Seq(NotStale)
         /\ Execution(t, receivers) \in Seq(TracesOf(t))
         /\ Len(Execution(t, receivers)) = Len(receivers)
<1> DEFINE E == Execution(t, receivers)
<1>1. t \in Transactions
  BY DEF Sent
<1>2. ASSUME NEW i \in 1 .. Len(receivers)
      PROVE  E[i] \in NotStale /\ E[i] \in TracesOf(t) /\ E[i] \in Traces
  <2> DEFINE a == receivers[i]
  <2>1. a \in Accounts
    OBVIOUS
  <2>2. E[i] = [by |-> t, account |-> a, code |-> CodeOf(a)]
    BY DEF Execution
  <2>3. CodeOf(a) \in 0 .. MaxCode
        /\ (CodeOf(a) # 0 => vm[a] \in VMs /\ CodeOf(a) = vm[a].code)
    BY <2>1, CodeOfType DEF IInv
  <2>4. E[i] \in Traces
    BY <1>1, <2>1, <2>2, <2>3 DEF Traces
  <2>5. CodeOf(a) # 0 => CodeOf(a) >= codeWhenSent[t][a]
    <3>1. codeWhenSent[t][a] \in 0 .. MaxCode
      BY <1>1, <2>1 DEF IInv, TypeOK
    <3>2. codeWhenSent[t][a] > 0 => vm[a].code >= codeWhenSent[t][a]
      BY <2>1 DEF IInv, VmsNotOlder
    <3> QED BY <2>3, <3>1, <3>2, BlockchainAssumption
  <2>6. E[i] \in NotStale
    BY <2>2, <2>4, <2>5 DEF NotStale
  <2> QED BY <2>2, <2>4, <2>6 DEF TracesOf
<1>3. DOMAIN E = 1 .. Len(receivers) /\ Len(receivers) \in Nat
  BY DEF Execution
<1>4. E = [i \in 1 .. Len(receivers) |-> E[i]]
  BY <1>3 DEF Execution
<1> QED BY <1>2, <1>3, <1>4

(* Such traces after those that are there.                                 *)
LEMMA TracesAfterwards ==
  ASSUME IInv, NEW t \in Sent, NEW receivers \in Seq(Accounts)
  PROVE  /\ actionTraces \o Execution(t, receivers) \in Seq(Traces)
         /\ actionTraces \o Execution(t, receivers) \in Seq(NotStale)
<1>1. actionTraces \in Seq(Traces) /\ actionTraces \in Seq(NotStale)
  BY DEF IInv, TypeOK, TracesNotStale
<1> QED BY <1>1, ExecutionTraces, ConcatProperties

-----------------------------------------------------------------------------
(* The steps keep the invariant.                                           *)

(* The other actions leave alone what the invariant is about, with the     *)
(* exception of the code, which grows, and of what fails.                  *)
LEMMA DeployKeeps ==
  ASSUME IInv, NEW a \in Accounts, CreateContract(a) \/ Load(a) \/ Deploy(a)
  PROVE  IInv'
<1>1. /\ UNCHANGED <<vm, ready, broken, phase, awaited, cause, actionTraces,
                     results, store, codeWhenSent, overlapping>>
      /\ loading' \subseteq Accounts
  BY DEF CreateContract, Load, Deploy, SetContract, IInv, TypeOK
<1>2. /\ code' \in [Accounts -> 0 .. MaxCode]
      /\ \A b \in Accounts : code[b] <= code'[b]
  <2>1. code \in [Accounts -> 0 .. MaxCode]
    BY DEF IInv, TypeOK
  <2>2. CASE code' = code
    BY <2>1, <2>2, BlockchainAssumption
  <2>3. CASE SetContract(a)
    <3>1. code[a] < MaxCode /\ code' = [code EXCEPT ![a] = code[a] + 1]
      BY <2>3 DEF SetContract
    <3>2. code[a] + 1 \in 0 .. MaxCode
      BY <2>1, <3>1, BlockchainAssumption
    <3>3. \A b \in Accounts : code[b] <= code[b]
      BY <2>1
    <3> QED BY <2>1, <3>1, <3>2, <3>3, BlockchainAssumption
  <2> QED BY <2>2, <2>3 DEF CreateContract, Load, Deploy
<1>3. TypeOK'
  BY <1>1, <1>2 DEF IInv, TypeOK
<1>4. TracesNotStale'
  BY <1>1 DEF IInv, TracesNotStale, NotStale, Sent
<1>5. VmsNotOlder'
  <2> SUFFICES ASSUME NEW t \in Sent, NEW b \in Accounts
               PROVE  codeWhenSent[t][b] <= code'[b]
    BY <1>1 DEF IInv, VmsNotOlder, Sent
  <2>1. codeWhenSent[t][b] <= code[b] /\ codeWhenSent[t][b] \in 0 .. MaxCode
    BY DEF IInv, TypeOK, VmsNotOlder, Sent
  <2>2. code[b] \in 0 .. MaxCode /\ code'[b] \in 0 .. MaxCode
    BY <1>2 DEF IInv, TypeOK
  <2> QED BY <1>2, <2>1, <2>2, BlockchainAssumption
<1>6. OwnVms' /\ AloneIsClear' /\ OwnResults'
  BY <1>1 DEF IInv, OwnVms, AloneIsClear, OwnResults, InFlight, TracesOf
<1> QED BY <1>3, <1>4, <1>5, <1>6 DEF IInv

(* Instantiating a VM changes nothing that the invariant is about.         *)
LEMMA InstantiateKeeps ==
  ASSUME IInv, NEW v, Instantiate(v)
  PROVE  IInv'
<1>1. UNCHANGED <<code, loading, vm, phase, awaited, cause, actionTraces,
                  results, store, codeWhenSent, overlapping>>
  BY DEF Instantiate
<1>2. v \in VMs
  BY DEF Instantiate, Made, IInv, TypeOK
<1>3. TypeOK'
  BY <1>1, <1>2 DEF Instantiate, IInv, TypeOK
<1>4. /\ TracesNotStale' /\ VmsNotOlder' /\ OwnVms'
      /\ AloneIsClear' /\ OwnResults'
  BY <1>1 DEF IInv, TracesNotStale, NotStale, Sent, VmsNotOlder, OwnVms,
              AloneIsClear, OwnResults, InFlight, TracesOf
<1> QED BY <1>3, <1>4 DEF IInv

(* A send makes VMs of the code as it is, and remembers it.                *)
LEMMA SendKeeps ==
  ASSUME IInv, NEW t \in Transactions, Send(t)
  PROVE  IInv'
<1> USE DEF IInv
<1>1. /\ phase[t] = "unsent"
      /\ phase' = [phase EXCEPT ![t] = "resetting"]
      /\ actionTraces' = << >>
      /\ awaited' = [awaited EXCEPT ![t] = Fresh(t)]
      /\ codeWhenSent' = [codeWhenSent EXCEPT ![t] = code]
      /\ overlapping' = IF InFlight = {} THEN overlapping
                        ELSE overlapping \cup InFlight \cup {t}
      /\ UNCHANGED <<code, loading, ready, broken, cause, results, store>>
  BY DEF Send, Noted
<1>2. Sent' = Sent \cup {t} /\ InFlight' = InFlight \cup {t}
  BY <1>1 DEF TypeOK, Sent, InFlight
<1>3. TypeOK'
  BY <1>1, SendVMs, FreshVMs DEF TypeOK, InFlight
<1>4. TracesNotStale'
  BY <1>1 DEF TracesNotStale
<1>5. VmsNotOlder'
  <2> SUFFICES ASSUME NEW u \in Sent \cup {t}, NEW a \in Accounts
               PROVE  /\ codeWhenSent'[u][a] <= code[a]
                      /\ codeWhenSent'[u][a] > 0
                           => /\ vm'[a] \in VMs
                              /\ vm'[a].code >= codeWhenSent'[u][a]
    BY <1>1, <1>2 DEF VmsNotOlder
  <2>1. u \in Transactions /\ code[a] \in 0 .. MaxCode
    BY DEF Sent, TypeOK
  <2>2. codeWhenSent'[u][a] <= code[a] /\ codeWhenSent'[u][a] \in 0 .. MaxCode
    <3>1. CASE u = t
      BY <1>1, <2>1, <3>1, BlockchainAssumption DEF TypeOK
    <3>2. CASE u # t
      <4>1. u \in Sent /\ codeWhenSent'[u] = codeWhenSent[u]
        BY <1>1, <2>1, <3>2 DEF TypeOK
      <4> QED BY <2>1, <4>1 DEF TypeOK, VmsNotOlder
    <3> QED BY <3>1, <3>2
  <2>3. ASSUME codeWhenSent'[u][a] > 0
        PROVE  vm'[a] \in VMs /\ vm'[a].code >= codeWhenSent'[u][a]
    <3>1. isContract(a)
      BY <2>1, <2>2, <2>3, BlockchainAssumption DEF isContract
    <3>2. vm'[a] = [account |-> a, by |-> t, code |-> code[a]]
      BY <3>1, SendVMs
    <3>3. vm'[a] \in VMs
      BY <3>1, <3>2, FreshVMs
    <3> QED BY <2>2, <3>2, <3>3
  <2> QED BY <2>2, <2>3
<1>6. OwnVms'
  <2> SUFFICES ASSUME NEW u \in Transactions, NEW v \in awaited'[u]
               PROVE  /\ vm'[v.account] \in VMs
                      /\ vm'[v.account].by = u => vm'[v.account] = v
    BY DEF OwnVms
  <2>1. CASE u = t
    <3>1. v \in Fresh(t)
      BY <1>1, <2>1 DEF TypeOK
    <3>2. /\ v.account \in Accounts /\ isContract(v.account)
          /\ v = [account |-> v.account, by |-> t, code |-> code[v.account]]
      BY <3>1 DEF Fresh
    <3>3. vm'[v.account] = v
      BY <3>2, SendVMs
    <3> QED BY <3>1, <3>3, FreshVMs
  <2>2. CASE u # t
    <3>1. v \in awaited[u] /\ v.account \in Accounts
      BY <1>1, <2>2 DEF TypeOK, VMs
    <3>2. CASE isContract(v.account)
      <4>1. vm'[v.account] = [account |-> v.account, by |-> t,
                              code |-> code[v.account]]
        BY <3>1, <3>2, SendVMs
      <4>2. vm'[v.account] \in VMs
        BY <3>1, <3>2, <4>1, FreshVMs
      <4> QED BY <2>2, <4>1, <4>2
    <3>3. CASE ~isContract(v.account)
      BY <3>1, <3>3, SendVMs DEF OwnVms
    <3> QED BY <3>2, <3>3
  <2> QED BY <2>1, <2>2
<1>7. AloneIsClear'
  BY <1>1, <1>2 DEF AloneIsClear
<1>8. OwnResults'
  <2>1. overlapping \subseteq overlapping'
    BY <1>1
  <2> QED BY <1>1, <2>1 DEF OwnResults, TracesOf
<1> QED BY <1>3, <1>4, <1>5, <1>6, <1>7, <1>8

(* A transaction that settles, with traces and results that are allowed.   *)
LEMMA SettleKeeps ==
  ASSUME IInv, NEW t \in InFlight, NEW outcome \in {"resolved", "rejected"},
         phase' = [phase EXCEPT ![t] = outcome],
         cause' \in [Transactions
                     -> {"none", "instantiate", "vm", "contract", "result"}],
         actionTraces' \in Seq(Traces), actionTraces' \in Seq(NotStale),
         results' \in [Transactions -> Seq(Traces)], OwnResults',
         store' \subseteq Transactions,
         UNCHANGED <<code, loading, vm, ready, broken, awaited, codeWhenSent,
                     overlapping>>
  PROVE  IInv'
<1> USE DEF IInv
<1>1. phase' \in [Transactions
                  -> {"unsent", "resetting", "resolved", "rejected"}]
  BY DEF TypeOK
<1>2. Sent' = Sent /\ InFlight' = InFlight \ {t}
  BY DEF TypeOK, Sent, InFlight
<1>3. TypeOK'
  BY <1>1 DEF TypeOK
<1>4. NotStale' = NotStale
  BY <1>2 DEF NotStale
<1>5. TracesNotStale'
  BY <1>4 DEF TracesNotStale
<1>6. VmsNotOlder' /\ OwnVms'
  BY <1>2 DEF VmsNotOlder, OwnVms
<1>7. AloneIsClear'
  BY <1>2 DEF AloneIsClear
<1> QED BY <1>3, <1>5, <1>6, <1>7

(* One that is rejected before it resolves to anything.                    *)
LEMMA RejectKeeps ==
  ASSUME IInv, NEW t \in InFlight,
         NEW why \in {"instantiate", "vm", "contract"}, Reject(t, why),
         actionTraces' \in Seq(Traces), actionTraces' \in Seq(NotStale),
         UNCHANGED <<code, loading, vm, ready, broken, awaited, results, store,
                     codeWhenSent, overlapping>>
  PROVE  IInv'
<1>1. phase' = [phase EXCEPT ![t] = "rejected"]
  BY DEF Reject
<1>2. cause' \in [Transactions
                  -> {"none", "instantiate", "vm", "contract", "result"}]
  BY DEF Reject, IInv, TypeOK
<1>3. /\ results' \in [Transactions -> Seq(Traces)]
      /\ store' \subseteq Transactions
  BY DEF IInv, TypeOK
<1>4. OwnResults'
  BY DEF IInv, OwnResults, TracesOf
<1> QED BY <1>1, <1>2, <1>3, <1>4, SettleKeeps

(* A transaction executes contexts, and resolves to all traces.            *)
LEMMA SucceedKeeps ==
  ASSUME IInv, NEW t \in InFlight, NEW receivers \in Seq(Accounts),
         Succeed(t, receivers)
  PROVE  IInv'
<1> DEFINE E == Execution(t, receivers)
<1>1. t \in Sent /\ t \in Transactions
  BY DEF InFlight, Sent
<1>2. /\ actionTraces' = actionTraces \o E
      /\ store' = store \cup {t}
      /\ UNCHANGED <<code, loading, vm, ready, broken, awaited, codeWhenSent,
                     overlapping>>
  BY DEF Succeed
<1>3. actionTraces' \in Seq(Traces) /\ actionTraces' \in Seq(NotStale)
  BY <1>1, <1>2, TracesAfterwards
<1>4. store' \subseteq Transactions
  BY <1>1, <1>2 DEF IInv, TypeOK
<1>5. CASE /\ phase' = [phase EXCEPT ![t] = "resolved"]
           /\ results' = [results EXCEPT ![t] = actionTraces']
           /\ UNCHANGED cause
  <2>1. results' \in [Transactions -> Seq(Traces)]
    BY <1>3, <1>5 DEF IInv, TypeOK
  <2>2. t \notin overlapping => actionTraces' \in Seq(TracesOf(t))
    <3> SUFFICES ASSUME t \notin overlapping
                 PROVE  actionTraces' \in Seq(TracesOf(t))
      OBVIOUS
    <3>1. actionTraces = << >>
      BY DEF IInv, AloneIsClear
    <3>2. E \in Seq(TracesOf(t))
      BY <1>1, ExecutionTraces
    <3> QED BY <1>2, <3>1, <3>2, ConcatEmptySeq
  <2>3. OwnResults'
    <3> SUFFICES ASSUME NEW u \in Transactions \ overlapping
                 PROVE  results'[u] \in Seq(TracesOf(u))
      BY <1>2 DEF OwnResults, TracesOf
    <3> QED BY <1>5, <2>2 DEF IInv, OwnResults, TypeOK
  <2>4. cause' \in [Transactions
                    -> {"none", "instantiate", "vm", "contract", "result"}]
    BY <1>5 DEF IInv, TypeOK
  <2> QED BY <1>2, <1>3, <1>4, <1>5, <2>1, <2>3, <2>4, SettleKeeps
<1>6. CASE Reject(t, "result") /\ UNCHANGED results
  <2>1. phase' = [phase EXCEPT ![t] = "rejected"]
    BY <1>6 DEF Reject
  <2>2. cause' \in [Transactions
                    -> {"none", "instantiate", "vm", "contract", "result"}]
    BY <1>6 DEF Reject, IInv, TypeOK
  <2>3. results' \in [Transactions -> Seq(Traces)]
    BY <1>6 DEF IInv, TypeOK
  <2>4. OwnResults'
    BY <1>2, <1>6 DEF IInv, OwnResults, TracesOf
  <2> QED BY <1>2, <1>3, <1>4, <2>1, <2>2, <2>3, <2>4, SettleKeeps
<1> QED BY <1>5, <1>6 DEF Succeed

(* All that may follow the await of a transaction.                         *)
LEMMA ContinueKeeps ==
  ASSUME IInv, NEW t \in Transactions, Continue(t)
  PROVE  IInv'
<1>1. t \in InFlight /\ t \in Sent
  BY DEF Continue, ResetFails, FailAndRevert, Succeed, MeetNoVm, ResetDone,
         InFlight, Sent
<1>2. CASE ResetFails(t)
  <2>1. actionTraces' \in Seq(Traces) /\ actionTraces' \in Seq(NotStale)
    BY <1>2 DEF ResetFails, IInv, TypeOK, TracesNotStale
  <2> QED BY <1>1, <1>2, <2>1, RejectKeeps DEF ResetFails
<1>3. ASSUME NEW receivers \in Runs, FailAndRevert(t, receivers)
      PROVE  IInv'
  <2>1. actionTraces' \in Seq(Traces) /\ actionTraces' \in Seq(NotStale)
    BY <1>1, <1>3, RunsAreSequences, TracesAfterwards DEF FailAndRevert
  <2> QED BY <1>1, <1>3, <2>1, RejectKeeps DEF FailAndRevert
<1>4. ASSUME NEW receivers \in Runs, NEW a \in Receivers,
             MeetNoVm(t, receivers, a)
      PROVE  IInv'
  <2>1. Append(receivers, a) \in Seq(Accounts)
    BY RunsAreSequences, AppendProperties DEF Receivers
  <2>2. actionTraces' \in Seq(Traces) /\ actionTraces' \in Seq(NotStale)
    BY <1>1, <1>4, <2>1, TracesAfterwards DEF MeetNoVm
  <2> QED BY <1>1, <1>4, <2>2, RejectKeeps DEF MeetNoVm
<1>5. ASSUME NEW receivers \in Runs, Succeed(t, receivers)
      PROVE  IInv'
  BY <1>1, <1>5, RunsAreSequences, SucceedKeeps
<1> QED BY <1>2, <1>3, <1>4, <1>5 DEF Continue

(* The invariant holds at first, and so always.                            *)
LEMMA InitHolds == Init => IInv
<1> SUFFICES ASSUME Init PROVE IInv
  OBVIOUS
<1>1. code \in [Accounts -> 0 .. MaxCode]
  BY BlockchainAssumption DEF Init
<1>2. Sent = {} /\ InFlight = {}
  BY DEF Init, Sent, InFlight
<1>3. TypeOK
  BY <1>1 DEF Init, TypeOK
<1>4. TracesNotStale /\ OwnVms /\ OwnResults
  BY DEF Init, TracesNotStale, OwnVms, OwnResults
<1> QED BY <1>2, <1>3, <1>4 DEF IInv, VmsNotOlder, AloneIsClear

(* The inductive invariant holds of all transactions, loads and sends.     *)
THEOREM Invariance == Spec => []IInv
<1>1. IInv /\ [Next]_vars => IInv'
  <2> SUFFICES ASSUME IInv, [Next]_vars
               PROVE  IInv'
    OBVIOUS
  <2>1. ASSUME NEW a \in Accounts, CreateContract(a) \/ Load(a) \/ Deploy(a)
        PROVE  IInv'
    BY <2>1, DeployKeeps
  <2>2. ASSUME NEW t \in Transactions, Send(t)
        PROVE  IInv'
    BY <2>2, SendKeeps
  <2>3. ASSUME NEW t \in Transactions, Continue(t)
        PROVE  IInv'
    BY <2>3, ContinueKeeps
  <2>4. ASSUME NEW v \in Made, Instantiate(v)
        PROVE  IInv'
    BY <2>4, InstantiateKeeps
  <2>5. CASE UNCHANGED vars
    BY <2>5 DEF vars, IInv, TypeOK, TracesNotStale, NotStale, Sent,
                VmsNotOlder, OwnVms, AloneIsClear, OwnResults, InFlight,
                TracesOf
  <2> QED BY <2>1, <2>2, <2>3, <2>4, <2>5 DEF Next
<1> QED BY InitHolds, <1>1, PTL DEF Spec

-----------------------------------------------------------------------------
(* The properties.                                                         *)

(* The variables of Blockchain keep their types.                           *)
THEOREM TypeCorrect == Spec => []TypeOK
<1>1. IInv => TypeOK
  BY DEF IInv
<1> QED BY <1>1, Invariance, PTL

(* Whatever is sent, set or loaded meanwhile, a transaction runs no code   *)
(* that is older than when it was sent.                                    *)
THEOREM CodeIsNotStale == Spec => []CodeNotStale
<1>1. IInv => CodeNotStale
  BY DEF IInv, TracesNotStale, NotStale, CodeNotStale
<1> QED BY <1>1, Invariance, PTL

(* A transaction that was in flight alone resolves to its own results.     *)
THEOREM ResultsOfAlone == Spec => []ResultsAreOwn
<1>1. IInv => ResultsAreOwn
  <2> SUFFICES ASSUME IInv, NEW t \in Transactions \ overlapping,
                      NEW i \in DOMAIN results[t]
               PROVE  results[t][i].by = t
    BY DEF ResultsAreOwn
  <2>1. results[t] \in Seq(TracesOf(t))
    BY DEF IInv, OwnResults
  <2>2. results[t][i] \in TracesOf(t)
    BY <2>1
  <2> QED BY <2>2 DEF TracesOf
<1> QED BY <1>1, Invariance, PTL

(* A transaction that meets an account without a usable VM meets a new     *)
(* contract, or one whose VM another transaction has replaced.             *)
THEOREM UnreadyExplained == Spec => UnreadyVmExplained
<1> DEFINE A == \A t \in Transactions :
                  cause'[t] = "vm" /\ cause[t] = "none"
                    => LET a == actionTraces'[Len(actionTraces')].account
                       IN \/ \A v \in awaited[t] : v.account # a
                          \/ vm[a].by # t
<1>1. IInv /\ [Next]_vars => [A]_vars
  <2> SUFFICES ASSUME IInv, Next, NEW t \in Transactions,
                      cause'[t] = "vm", cause[t] = "none"
               PROVE  LET a == actionTraces'[Len(actionTraces')].account
                      IN \/ \A v \in awaited[t] : v.account # a
                         \/ vm[a].by # t
    OBVIOUS
  <2>1. PICK receivers \in Runs, a \in Receivers : MeetNoVm(t, receivers, a)
    <3>1. cause' # cause
      OBVIOUS
    <3>2. PICK u \in Transactions : Continue(u)
      BY <3>1 DEF Next, CreateContract, Load, Deploy, SetContract, Send, Noted,
                  Instantiate
    <3>3. ASSUME NEW why \in {"instantiate", "contract", "result"},
                 Reject(u, why)
          PROVE  FALSE
      BY <3>3 DEF Reject, IInv, TypeOK
    <3>4. PICK receivers \in Runs, a \in Receivers : MeetNoVm(u, receivers, a)
      BY <3>1, <3>2, <3>3
         DEF Continue, ResetFails, FailAndRevert, Succeed
    <3>5. u = t
      BY <3>4 DEF MeetNoVm, Reject, IInv, TypeOK
    <3> QED BY <3>4, <3>5
  <2>2. actionTraces'[Len(actionTraces')].account = a
    <3> DEFINE run == Append(receivers, a)
               E == Execution(t, run)
    <3>1. t \in Sent
      BY <2>1 DEF MeetNoVm, ResetDone, Sent
    <3>2. /\ run \in Seq(Accounts) /\ Len(run) = Len(receivers) + 1
          /\ run[Len(receivers) + 1] = a /\ Len(receivers) \in Nat
      BY RunsAreSequences, AppendProperties DEF Receivers
    <3>3. E \in Seq(Traces) /\ Len(E) = Len(receivers) + 1
      BY <3>1, <3>2, ExecutionTraces
    <3>4. E[Len(receivers) + 1].account = a
      BY <3>2 DEF Execution
    <3>5. actionTraces \in Seq(Traces) /\ actionTraces' = actionTraces \o E
      BY <2>1 DEF IInv, TypeOK, MeetNoVm
    <3>6. actionTraces'[Len(actionTraces')] = E[Len(receivers) + 1]
      <4>1. Len(E) > 0
        BY <3>2, <3>3
      <4>2. /\ Len(actionTraces \o E) = Len(actionTraces) + Len(E)
            /\ (actionTraces \o E)[Len(actionTraces \o E)] = E[Len(E)]
        BY <3>3, <3>5, <4>1, LastOfConcat, Zenon
      <4>3. /\ Len(actionTraces') = Len(actionTraces) + Len(E)
            /\ actionTraces'[Len(actionTraces')] = E[Len(E)]
        BY <3>5, <4>2, Zenon
      <4>4. E[Len(E)] = E[Len(receivers) + 1]
        BY <3>3, Zenon
      <4> QED BY <4>3, <4>4, Zenon
    <3> QED BY <3>4, <3>6
  <2>3. ASSUME NEW v \in awaited[t], v.account = a, vm[a].by = t
        PROVE  FALSE
    <3>1. vm[a] = v
      BY <2>3 DEF IInv, OwnVms
    <3>2. v \in ready /\ v \in VMs
      BY <2>1 DEF MeetNoVm, ResetDone, IInv, TypeOK
    <3>3. v.code # 0
      BY <3>2, BlockchainAssumption DEF VMs
    <3>4. CodeOf(a) = v.code
      BY <3>1, <3>2 DEF CodeOf
    <3> QED BY <2>1, <3>3, <3>4 DEF MeetNoVm, Usable
  <2> QED BY <2>2, <2>3
<1> QED BY <1>1, Invariance, PTL DEF Spec, UnreadyVmExplained
=============================================================================
