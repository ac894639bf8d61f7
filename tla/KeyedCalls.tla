----------------------------- MODULE KeyedCalls ------------------------------
(***************************************************************************)
(* What the idempotency layer promises callers: within one TTL window a    *)
(* key belongs to one call, only the call that took it runs the handler,   *)
(* and every other call is told whose execution it is looking at and never *)
(* runs.                                                                   *)
(***************************************************************************)
CONSTANTS Requests, Keys, KeyOf, NoKey, NoReq

VARIABLES
  holder,    \* [Keys -> the call that holds the key, or NoReq]
  admitted,  \* calls that took their key
  begun,     \* calls whose handler was called
  told       \* [Requests -> the execution an answer names, NoReq before it]

vars == <<holder, admitted, begun, told>>

Init ==
  /\ holder = [k \in Keys |-> NoReq]
  /\ admitted = {} /\ begun = {}
  /\ told = [r \in Requests |-> NoReq]

\* The key is free: this call takes it.
Claim(r) ==
  /\ KeyOf[r] # NoKey
  /\ r \notin admitted /\ told[r] = NoReq
  /\ holder[KeyOf[r]] = NoReq
  /\ holder' = [holder EXCEPT ![KeyOf[r]] = r]
  /\ admitted' = admitted \cup {r}
  /\ UNCHANGED <<begun, told>>

\* A call without a key runs on its own account.
Begin(r) ==
  /\ KeyOf[r] = NoKey \/ r \in admitted
  /\ told[r] = NoReq
  /\ begun' = begun \cup {r}
  /\ UNCHANGED <<holder, admitted, told>>

\* The key is taken: the call is told by whom.
Replay(r) ==
  /\ KeyOf[r] # NoKey
  /\ r \notin admitted /\ told[r] = NoReq
  /\ holder[KeyOf[r]] # NoReq
  /\ told' = [told EXCEPT ![r] = holder[KeyOf[r]]]
  /\ UNCHANGED <<holder, admitted, begun>>

\* The call ends with an answer, or a rejection, of its own.
Finish(r) ==
  /\ told[r] = NoReq
  /\ told' = [told EXCEPT ![r] = r]
  /\ UNCHANGED <<holder, admitted, begun>>

\* The TTL of the key ends.
Release(k) ==
  /\ holder' = [holder EXCEPT ![k] = NoReq]
  /\ UNCHANGED <<admitted, begun, told>>

Next ==
  \/ \E r \in Requests : Claim(r) \/ Begin(r) \/ Replay(r) \/ Finish(r)
  \/ \E k \in Keys : Release(k)

Spec == Init /\ [][Next]_vars

==============================================================================
