------------------------------ MODULE Blockchain ------------------------------
(***************************************************************************)
(* Transactions as the tests of a contract send them: the promises of      *)
(* Blockchain.applyTransaction, of the VMs it makes anew for each          *)
(* transaction, and of contracts that are still being loaded               *)
(* (antelope/blockchain.ts, antelope/account.ts, vert.ts).                 *)
(*                                                                         *)
(* applyTransaction suspends once, in resetTransaction, until the VMs that *)
(* it made are instantiated; what follows runs without interruption and is *)
(* one step here (its inside is the subject of TransactionActions, of      *)
(* DbApi and of TableStore).  Until a send is awaited, the test goes on:   *)
(* it may send other transactions, set contracts, and contracts may load.  *)
(***************************************************************************)
EXTENDS Integers, Sequences, FiniteSets

CONSTANTS Accounts,
          Loaded,        \* accounts made with a contract before the tests
          Transactions,  \* one for each call of applyTransaction
          MaxInFlight,   \* bound: transactions sent and not settled
          MaxCode,       \* bound: contracts set on one account
          MaxContexts,   \* bound: contexts executed by one transaction
          undefined      \* JavaScript's undefined

ASSUME BlockchainAssumption == /\ Loaded \subseteq Accounts
                               /\ MaxCode \in Nat \ {0}
                               /\ MaxContexts \in Nat

(* The VM that transaction `by` made for an account from its wasm.         *)
VMs == [account : Accounts, by : Transactions, code : 1 .. MaxCode]

VARIABLES code,          \* Account.codeSequence; 0: the account has no wasm
          loading,       \* accounts whose wasm and abi are promises
          vm,            \* Account.vm
          ready,         \* VMs that are instantiated
          broken,        \* VMs whose instantiation failed
          phase,         \* of each transaction
          awaited,       \* the VMs that each transaction's reset made
          cause,         \* why it was rejected
          actionTraces,  \* Blockchain.actionTraces
          results,       \* the traces whose return values it resolved to
          store,         \* the transactions whose writes the store has
          codeWhenSent,  \* history: `code` when each transaction was sent
          overlapping    \* history: transactions in flight with another

vars == <<code, loading, vm, ready, broken, phase, awaited, cause,
          actionTraces, results, store, codeWhenSent, overlapping>>

Traces == [by : Transactions, account : Accounts, code : 0 .. MaxCode]

TypeOK ==
  /\ code \in [Accounts -> 0 .. MaxCode]
  /\ loading \subseteq Accounts
  /\ vm \in [Accounts -> VMs \cup {undefined}]
  /\ ready \subseteq VMs
  /\ broken \subseteq VMs
  /\ phase \in [Transactions
                  -> {"unsent", "resetting", "resolved", "rejected"}]
  /\ awaited \in [Transactions -> SUBSET VMs]
  /\ cause \in [Transactions
                  -> {"none", "instantiate", "vm", "contract", "result"}]
  /\ actionTraces \in Seq(Traces)
  /\ results \in [Transactions -> Seq(Traces)]
  /\ store \subseteq Transactions
  /\ codeWhenSent \in [Transactions -> [Accounts -> 0 .. MaxCode]]
  /\ overlapping \subseteq Transactions

Init == /\ code = [a \in Accounts |-> IF a \in Loaded THEN 1 ELSE 0]
        /\ loading = {}
        /\ vm = [a \in Accounts |-> undefined]
        /\ ready = {}
        /\ broken = {}
        /\ phase = [t \in Transactions |-> "unsent"]
        /\ awaited = [t \in Transactions |-> {}]
        /\ cause = [t \in Transactions |-> "none"]
        /\ actionTraces = << >>
        /\ results = [t \in Transactions |-> << >>]
        /\ store = {}
        /\ codeWhenSent = [t \in Transactions |-> code]
        /\ overlapping = {}

isContract(a) == code[a] > 0

-----------------------------------------------------------------------------
(* Contracts.                                                              *)

(* createContract: readWasm and readAbi give promises.                     *)
CreateContract(a) ==
  /\ ~isContract(a)
  /\ loading' = loading \cup {a}
  /\ UNCHANGED <<code, vm, ready, broken, phase, awaited, cause, actionTraces,
                 results, store, codeWhenSent, overlapping>>

(* Account.setContract: the VM stays the one it was, if there is one.      *)
SetContract(a) ==
  /\ code[a] < MaxCode
  /\ code' = [code EXCEPT ![a] = @ + 1]
  /\ UNCHANGED <<vm, ready, broken, phase, awaited, cause, actionTraces,
                 results, store, codeWhenSent, overlapping>>

(* The promises of the constructor are fulfilled; or the test sets a       *)
(* contract itself.                                                        *)
Load(a) == a \in loading /\ loading' = loading \ {a} /\ SetContract(a)
Deploy(a) == SetContract(a) /\ UNCHANGED loading

-----------------------------------------------------------------------------
(* Transactions.                                                           *)

InFlight == {t \in Transactions : phase[t] = "resetting"}

(* Mutated form: a VM is kept if there is one.                             *)
FreshOnce(t) == {[account |-> a, by |-> t, code |-> code[a]] :
                   a \in {a \in Accounts : isContract(a) /\ vm[a] = undefined}}

(* The VMs of a reset: recreateVm does nothing for an account without wasm. *)
Fresh(t) == {[account |-> a, by |-> t, code |-> code[a]] :
               a \in {a \in Accounts : isContract(a)}}

(* The history of a send.                                                  *)
Noted(t) ==
  /\ codeWhenSent' = [codeWhenSent EXCEPT ![t] = code]
  /\ overlapping' = IF InFlight = {} THEN overlapping
                    ELSE overlapping \cup InFlight \cup {t}

(* Mutated form: the traces are not cleared.                               *)
SendKeepingTraces(t) ==
  /\ phase[t] = "unsent"
  /\ Cardinality(InFlight) < MaxInFlight
  /\ phase' = [phase EXCEPT ![t] = "resetting"]
  /\ awaited' = [awaited EXCEPT ![t] = Fresh(t)]
  /\ vm' = [a \in Accounts |->
              IF \E v \in Fresh(t) : v.account = a
              THEN CHOOSE v \in Fresh(t) : v.account = a
              ELSE vm[a]]
  /\ Noted(t)
  /\ UNCHANGED <<code, loading, ready, broken, cause, actionTraces, results,
                 store>>

(* applyTransaction up to its await: resetVm clears the traces, and        *)
(* recreateVm gives each account with wasm another VM.                     *)
Send(t) ==
  /\ phase[t] = "unsent"
  /\ Cardinality(InFlight) < MaxInFlight
  /\ phase' = [phase EXCEPT ![t] = "resetting"]
  /\ actionTraces' = << >>
  /\ awaited' = [awaited EXCEPT ![t] = Fresh(t)]
  /\ vm' = [a \in Accounts |->
              IF \E v \in Fresh(t) : v.account = a
              THEN CHOOSE v \in Fresh(t) : v.account = a
              ELSE vm[a]]
  /\ Noted(t)
  /\ UNCHANGED <<code, loading, ready, broken, cause, results, store>>

(* WebAssembly.instantiate is fulfilled, or rejected: the wasm may import  *)
(* a function that the chain does not provide.                             *)
Made == UNION {awaited[t] : t \in Transactions}

Instantiate(v) ==
  /\ v \in Made \ (ready \cup broken)
  /\ \/ ready' = ready \cup {v} /\ UNCHANGED broken
     \/ broken' = broken \cup {v} /\ UNCHANGED ready
  /\ UNCHANGED <<code, loading, vm, phase, awaited, cause, actionTraces,
                 results, store, codeWhenSent, overlapping>>

Reject(t, why) == /\ phase' = [phase EXCEPT ![t] = "rejected"]
                  /\ cause' = [cause EXCEPT ![t] = why]

(* Promise.all is rejected by the first VM that fails, whatever the        *)
(* transaction would have done with it.                                    *)
ResetFails(t) ==
  /\ phase[t] = "resetting"
  /\ awaited[t] \cap broken # {}
  /\ Reject(t, "instantiate")
  /\ UNCHANGED <<code, loading, vm, ready, broken, awaited, actionTraces,
                 results, store, codeWhenSent, overlapping>>

(* Mutated form: the promises are not awaited.                             *)
ResetDoneAtOnce(t) == phase[t] = "resetting"

(* Mutated form: accounts without contract are waited for too.             *)
ResetDoneForAll(t) ==
  /\ phase[t] = "resetting"
  /\ \A a \in Accounts : \E v \in awaited[t] : v.account = a /\ v \in ready

ResetDone(t) == phase[t] = "resetting" /\ awaited[t] \subseteq ready

(* The contexts that a transaction executes: each runs the code of the     *)
(* receiver's VM; code 0 stands for none, and apply throws a TypeError.    *)
CodeOf(a) == IF vm[a] \in ready THEN vm[a].code ELSE 0

Execution(t, receivers) ==
  [i \in DOMAIN receivers |->
     [by |-> t, account |-> receivers[i], code |-> CodeOf(receivers[i])]]

Receivers == {a \in Accounts : isContract(a)}
Runs == UNION {[1 .. n -> Receivers] : n \in 0 .. MaxContexts}

Usable(a) == CodeOf(a) # 0

(* An action or a notification reaches a VM that is not there, or not      *)
(* instantiated; what ran before is reverted.                              *)
MeetNoVm(t, receivers, a) ==
  /\ ResetDone(t)
  /\ \A i \in DOMAIN receivers : Usable(receivers[i])
  /\ ~Usable(a)
  /\ actionTraces' = actionTraces \o Execution(t, Append(receivers, a))
  /\ Reject(t, "vm")
  /\ UNCHANGED <<code, loading, vm, ready, broken, awaited, results, store,
                 codeWhenSent, overlapping>>

(* A contract throws, or an action has no contract.                        *)
FailAndRevert(t, receivers) ==
  /\ ResetDone(t)
  /\ \A i \in DOMAIN receivers : Usable(receivers[i])
  /\ actionTraces' = actionTraces \o Execution(t, receivers)
  /\ Reject(t, "contract")
  /\ UNCHANGED <<code, loading, vm, ready, broken, awaited, results, store,
                 codeWhenSent, overlapping>>

(* All contexts ran.  The return values of all traces are decoded; if one  *)
(* has no type the promise is rejected, and the writes stay.               *)
Succeed(t, receivers) ==
  /\ ResetDone(t)
  /\ receivers # << >>
  /\ \A i \in DOMAIN receivers : Usable(receivers[i])
  /\ actionTraces' = actionTraces \o Execution(t, receivers)
  /\ store' = store \cup {t}
  /\ \/ /\ phase' = [phase EXCEPT ![t] = "resolved"]
        /\ results' = [results EXCEPT ![t] = actionTraces']
        /\ UNCHANGED cause
     \/ /\ Reject(t, "result")
        /\ UNCHANGED results
  /\ UNCHANGED <<code, loading, vm, ready, broken, awaited, codeWhenSent,
                 overlapping>>

Continue(t) ==
  \/ ResetFails(t)
  \/ \E receivers \in Runs :
       \/ FailAndRevert(t, receivers)
       \/ Succeed(t, receivers)
       \/ /\ Len(receivers) < MaxContexts
          /\ \E a \in Receivers : MeetNoVm(t, receivers, a)

Next == \/ \E a \in Accounts : CreateContract(a) \/ Load(a) \/ Deploy(a)
        \/ \E t \in Transactions : Send(t) \/ Continue(t)
        \/ \E v \in Made : Instantiate(v)

Spec == Init /\ [][Next]_vars

(* The engine settles every instantiation, and the event loop runs what    *)
(* waits for it.                                                           *)
Fairness == /\ \A v \in VMs : WF_vars(Instantiate(v))
            /\ \A t \in Transactions : WF_vars(Continue(t))

FairSpec == Spec /\ Fairness

-----------------------------------------------------------------------------
(* Properties.                                                             *)

(* A transaction runs code that is at least as new as when it was sent,    *)
(* whichever VM it meets.                                                  *)
CodeNotStale ==
  \A i \in DOMAIN actionTraces :
     LET trace == actionTraces[i]
     IN trace.code # 0
          => trace.code >= codeWhenSent[trace.by][trace.account]

(* When a transaction meets an account without a usable VM, the account    *)
(* became a contract after the transaction was sent, or another            *)
(* transaction was sent meanwhile.  So a test that sets its contracts      *)
(* first and awaits each send never meets one.                             *)
UnreadyVmExplained ==
  [][\A t \in Transactions :
       cause'[t] = "vm" /\ cause[t] = "none"
         => LET a == actionTraces'[Len(actionTraces')].account
            IN \/ \A v \in awaited[t] : v.account # a
               \/ vm[a].by # t]_vars

(* "Returns an array of results if the action returns a value (array since *)
(* inlines can also return values)": a transaction resolves to the results *)
(* of its own action and inline actions, if no other was in flight with    *)
(* it.                                                                     *)
ResultsAreOwn ==
  \A t \in Transactions \ overlapping :
     \A i \in DOMAIN results[t] : results[t][i].by = t

(* Every send settles, however many are in flight.                         *)
SendsSettle ==
  \A t \in Transactions :
     phase[t] = "resetting" ~> phase[t] \in {"resolved", "rejected"}
=============================================================================
