----------------------------- MODULE RpcService -----------------------------
(* What rpc_call promises its callers, whatever lies between them and the  *)
(* extension: a call begins once, and then either returns the result of    *)
(* that very call or raises; nothing happens to it afterwards.             *)

CONSTANTS Call

VARIABLES outcome, answers

Init ==
  /\ outcome = [a \in Call |-> "none"]
  /\ answers = {}

Begin(a) ==
  /\ outcome[a] = "none"
  /\ outcome' = [outcome EXCEPT ![a] = "open"]
  /\ UNCHANGED answers

Answer(a) ==
  /\ outcome[a] = "open"
  /\ outcome' = [outcome EXCEPT ![a] = "answered"]
  /\ answers' = answers \cup {[call |-> a, of |-> a]}

\* A lost connection fails every call that depends on it at once.
Fail(S) ==
  /\ \A a \in S : outcome[a] = "open"
  /\ outcome' = [a \in Call |-> IF a \in S THEN "failed" ELSE outcome[a]]
  /\ UNCHANGED answers

Next ==
  \/ \E a \in Call : Begin(a) \/ Answer(a)
  \/ \E S \in SUBSET Call : Fail(S)

Spec == Init /\ [][Next]_<<outcome, answers>>
=============================================================================
