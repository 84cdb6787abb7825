-------------------------- MODULE ExchangeContract --------------------------
(***************************************************************************)
(* What a request/response exchange promises its caller, whatever the      *)
(* transport, the exchange table and the timers do: a call that was made   *)
(* ends at most once, and when it ends with an answer, the answer is one   *)
(* the mesh issued for that call after the call was made.                  *)
(***************************************************************************)
CONSTANTS
  Calls,    \* calls of exchange(); a call names its own exchange id
  Replies,  \* responses the mesh may issue, each a record with the id it answers
  None      \* no answer yet

VARIABLES
  phase,    \* how far each call is
  answer,   \* the response each call returned
  issued    \* the responses the mesh has issued so far

vars == <<phase, answer, issued>>

Init ==
  /\ phase = [c \in Calls |-> "idle"]
  /\ answer = [c \in Calls |-> None]
  /\ issued = {}

Ask(c) ==
  /\ phase[c] = "idle"
  /\ phase' = [phase EXCEPT ![c] = "open"]
  /\ UNCHANGED <<answer, issued>>

\* The mesh answers a call that was made; it may do so late, or repeatedly.
Issue(x) ==
  /\ phase[x.id] # "idle"
  /\ x \notin issued
  /\ issued' = issued \cup {x}
  /\ UNCHANGED <<phase, answer>>

Answer(c, x) ==
  /\ phase[c] = "open"
  /\ x \in issued
  /\ x.id = c
  /\ phase' = [phase EXCEPT ![c] = "answered"]
  /\ answer' = [answer EXCEPT ![c] = x]
  /\ UNCHANGED issued

Fail(c) ==
  /\ phase[c] = "open"
  /\ phase' = [phase EXCEPT ![c] = "failed"]
  /\ UNCHANGED <<answer, issued>>

Next ==
  \/ \E c \in Calls : Ask(c) \/ Fail(c)
  \/ \E x \in Replies : Issue(x)
  \/ \E c \in Calls, x \in Replies : Answer(c, x)

Spec == Init /\ [][Next]_vars
=============================================================================
