------------------------------- MODULE Addresses -------------------------------
(***************************************************************************)
(* The addresses of one customer and which of them is the default          *)
(* (src/src/addresses/addresses.service.ts).                               *)
(*                                                                         *)
(* A request that makes an address the default clears the flag on all of   *)
(* them and then sets one: two statements without a transaction.           *)
(***************************************************************************)
CONSTANTS
  AddressIds,       \* ids that the database may give out
  AddressRequests   \* requests of the customer, in parallel

VARIABLES
  given,       \* ids given out so far
  addresses,   \* those whose rows exist
  defaults,    \* those whose row has isDefault
  calls,       \* what each request has still to do
  overtaken,   \* for the property: requests that have cleared the flag, after
               \* which another one set it
  rivals       \* for the property: such a request has set it as well

addressVars == <<given, addresses, defaults, calls, overtaken, rivals>>

NoCall == [step |-> "idle"]
Call == {NoCall} \cup [step : {"clear", "write"}, new : BOOLEAN, address : AddressIds]

AddressTypeOK ==
  /\ given \subseteq AddressIds
  /\ addresses \subseteq given
  /\ defaults \subseteq addresses
  /\ calls \in [AddressRequests -> Call]
  /\ overtaken \subseteq AddressRequests
  /\ rivals \in BOOLEAN

AddressInit ==
  /\ given = {} /\ addresses = {} /\ defaults = {}
  /\ calls = [r \in AddressRequests |-> NoCall]
  /\ overtaken = {} /\ rivals = FALSE

Cleared == {r \in AddressRequests : calls[r].step = "write"}

-----------------------------------------------------------------------------
\* create without isDefault.
CreateAddress(a) ==
  /\ a \in AddressIds \ given
  /\ given' = given \cup {a} /\ addresses' = addresses \cup {a}
  /\ UNCHANGED <<defaults, calls, overtaken, rivals>>

\* create with isDefault: the id is given out by the insert at the end.
CreateDefault(r, a) ==
  /\ calls[r] = NoCall
  /\ a \in AddressIds \ given
  /\ given' = given \cup {a}
  /\ calls' = [calls EXCEPT ![r] = [step |-> "clear", new |-> TRUE, address |-> a]]
  /\ UNCHANGED <<addresses, defaults, overtaken, rivals>>

\* setDefault, and update with isDefault: findOne.
FindAddress(r, a) ==
  /\ calls[r] = NoCall
  /\ a \in addresses
  /\ calls' = [calls EXCEPT ![r] = [step |-> "clear", new |-> FALSE, address |-> a]]
  /\ UNCHANGED <<given, addresses, defaults, overtaken, rivals>>

\* A wrong form: the flag of the address found is cleared, and no other.
ClearOwnDefault(r) ==
  /\ calls[r].step = "clear"
  /\ defaults' = defaults \ {calls[r].address}
  /\ calls' = [calls EXCEPT ![r].step = "write"]
  /\ overtaken' = overtaken \ {r}
  /\ UNCHANGED <<given, addresses, rivals>>

\* UPDATE ... SET isDefault = false WHERE user_id = ...
ClearDefaults(r) ==
  /\ calls[r].step = "clear"
  /\ defaults' = {}
  /\ calls' = [calls EXCEPT ![r].step = "write"]
  /\ overtaken' = overtaken \ {r}
  /\ rivals' = FALSE
  /\ UNCHANGED <<given, addresses>>

\* The insert of a new address, or the update of one that may have been removed
\* since it was found: then no row is touched.
WriteDefault(r) ==
  LET call == calls[r]
      row  == {call.address} \cap (IF call.new THEN given ELSE addresses)
  IN
  /\ call.step = "write"
  /\ addresses' = addresses \cup row
  /\ defaults' = defaults \cup row
  /\ calls' = [calls EXCEPT ![r] = NoCall]
  /\ overtaken' = (IF row = {} THEN overtaken ELSE overtaken \cup Cleared) \ {r}
  /\ rivals' = (rivals \/ r \in overtaken)
  /\ UNCHANGED given

\* The process dies, or the database refuses a statement.
AbandonCall(r) ==
  /\ calls[r] # NoCall
  /\ calls' = [calls EXCEPT ![r] = NoCall]
  /\ overtaken' = overtaken \ {r}
  /\ UNCHANGED <<given, addresses, defaults, rivals>>

\* update with isDefault = false.
UnsetDefault(a) ==
  /\ a \in defaults
  /\ defaults' = defaults \ {a}
  /\ UNCHANGED <<given, addresses, calls, overtaken, rivals>>

RemoveAddress(a) ==
  /\ a \in addresses
  /\ addresses' = addresses \ {a}
  /\ defaults' = defaults \ {a}
  /\ UNCHANGED <<given, calls, overtaken, rivals>>

AddressNext ==
  \/ \E a \in AddressIds : CreateAddress(a) \/ UnsetDefault(a) \/ RemoveAddress(a)
  \/ \E r \in AddressRequests :
       \/ \E a \in AddressIds : CreateDefault(r, a) \/ FindAddress(r, a)
       \/ ClearDefaults(r) \/ WriteDefault(r) \/ AbandonCall(r)

AddressSpec == AddressInit /\ [][AddressNext]_addressVars

-----------------------------------------------------------------------------
\* A customer has two default addresses only if a request set the flag after
\* another had set it between that request's two statements; the next request
\* that clears the flag undoes it.
OneDefaultAddress == rivals \/ \A a, b \in defaults : a = b

\* What makes it inductive: between the two statements of a request there is no
\* default address unless somebody else has set one.
NothingSetSince == \A r \in Cleared \ overtaken : defaults = {}

===============================================================================
