------------------------------ MODULE RemoteCall ------------------------------
(***************************************************************************)
(* What a client of a tunnel expects of its remote calls: it makes one     *)
(* call at a time, the server executes each call at most once, and a call  *)
(* is answered only after it has been executed.  A call may fail, whether  *)
(* the server has executed it or not, and may be executed after that.      *)
(***************************************************************************)
EXTENDS Naturals

CONSTANT Max_calls      \* bound of the instance: number of calls

Calls == 1 .. Max_calls

VARIABLES outcome,      \* [c]: "none", "pending", "answered" or "failed"
          executed      \* [c]: how often the server has begun to execute the call

abstract_vars == <<outcome, executed>>

Init ==
  /\ outcome = [c \in Calls |-> "none"]
  /\ executed = [c \in Calls |-> 0]

Call(c) ==
  /\ outcome[c] = "none"
  /\ \A d \in 1 .. c - 1 : outcome[d] \in {"answered", "failed"}
  /\ outcome' = [outcome EXCEPT ![c] = "pending"]
  /\ UNCHANGED executed

Execute(c) ==
  /\ outcome[c] # "none" /\ executed[c] = 0
  /\ executed' = [executed EXCEPT ![c] = 1]
  /\ UNCHANGED outcome

Answer(c) ==
  /\ outcome[c] = "pending" /\ executed[c] = 1
  /\ outcome' = [outcome EXCEPT ![c] = "answered"]
  /\ UNCHANGED executed

Fail(c) ==
  /\ outcome[c] = "pending"
  /\ outcome' = [outcome EXCEPT ![c] = "failed"]
  /\ UNCHANGED executed

Next == \E c \in Calls : Call(c) \/ Execute(c) \/ Answer(c) \/ Fail(c)

Spec == Init /\ [][Next]_abstract_vars
===============================================================================
