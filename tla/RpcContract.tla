---------------------------- MODULE RpcContract ----------------------------
(***************************************************************************)
(* What every layer between an application and the KeyMaster promises its  *)
(* callers: the local API its connections (module LocalApi), km-ssh-sa and *)
(* km-nostr-sa their clients (module ServiceBridge).  A caller makes one   *)
(* call at a time; a call ends once, with its own answer or a failure.     *)
(* Calls of all callers are numbered in one sequence.                      *)
(***************************************************************************)
EXTENDS Naturals

CONSTANTS Callers, None

VARIABLES
  last,     \* number of the last call
  open,     \* the call each caller waits for
  outcome,  \* how the caller's last call ended, until the caller goes on
  answers   \* the call an "answer" is the answer to

contractVars == <<last, open, outcome, answers>>

Nobody == [c \in Callers |-> None]

Init ==
  /\ last = 0
  /\ open = Nobody
  /\ outcome = Nobody
  /\ answers = Nobody

Invoke(c) ==
  /\ open[c] = None
  /\ outcome[c] = None
  /\ last' = last + 1
  /\ open' = [open EXCEPT ![c] = last + 1]
  /\ UNCHANGED <<outcome, answers>>

Answer(c) ==
  /\ open[c] # None
  /\ open' = [open EXCEPT ![c] = None]
  /\ outcome' = [outcome EXCEPT ![c] = "answer"]
  /\ answers' = [answers EXCEPT ![c] = open[c]]
  /\ UNCHANGED last

(* The call fails, or there was an attempt to make one that failed, before *)
(* or after it took its number.                                            *)
Fail(c) ==
  /\ outcome[c] = None
  /\ open' = [open EXCEPT ![c] = None]
  /\ outcome' = [outcome EXCEPT ![c] = "fail"]
  /\ last' \in {last, last + 1}
  /\ UNCHANGED answers

Return(c) ==
  /\ outcome[c] # None
  /\ outcome' = [outcome EXCEPT ![c] = None]
  /\ answers' = [answers EXCEPT ![c] = None]
  /\ UNCHANGED <<last, open>>

(* The layer dies, and every caller sees its connection closed. *)
Crash ==
  /\ open' = Nobody
  /\ outcome' = Nobody
  /\ answers' = Nobody
  /\ UNCHANGED last

Next ==
  \/ \E c \in Callers : Invoke(c) \/ Answer(c) \/ Fail(c) \/ Return(c)
  \/ Crash

Spec == Init /\ [][Next]_contractVars
=============================================================================
