------------------------------- MODULE HostCall -------------------------------
(***************************************************************************)
(* A contract calls a host function whose result depends on its arguments  *)
(* alone.  `call` names the function and holds the arguments, `result` is  *)
(* what the function returns or writes, or `pending` until it has.  The    *)
(* modules that extend this one define the functions.                      *)
(***************************************************************************)
CONSTANTS pending,  \* no result yet
          throws    \* the result of a function that throws

VARIABLES call, result

callVars == <<call, result>>

(* The function that call names is computed by value.                      *)
Call(functions, value) == /\ result = pending
                          /\ call.fn \in functions
                          /\ result' = value
                          /\ UNCHANGED call

(* The contract has used the result and may call once more.                *)
Return == /\ result # pending
          /\ result' = pending
          /\ UNCHANGED call

(* The function has returned.                                              *)
Returned(functions) == result # pending /\ call.fn \in functions
=============================================================================
