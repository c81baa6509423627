------------------------------ MODULE RpcCall ------------------------------
(***************************************************************************)
(* What the callers of quicklook.rpc may rely on: the values of a remote   *)
(* function reach its caller in order, none twice and none skipped, and a  *)
(* call that ends without an exception has delivered all of them.          *)
(*                                                                         *)
(* A call may raise for many reasons (a fault, the caller's own timeout);  *)
(* only the loss of the process that holds the queues may make a call end  *)
(* early without an exception.                                             *)
(***************************************************************************)
EXTENDS Naturals, Sequences

CONSTANTS Calls, Values

VARIABLES
    produced,   \* values the function made, in order
    delivered,  \* values the caller got
    ended,      \* the function: "no", "ok" or "error"
    outcome,    \* of the call: "pending", "returned" or "raised"
    intact      \* the manager process lives

vars == <<produced, delivered, ended, outcome, intact>>

Init ==
    /\ produced = [c \in Calls |-> <<>>]
    /\ delivered = [c \in Calls |-> <<>>]
    /\ ended = [c \in Calls |-> "no"]
    /\ outcome = [c \in Calls |-> "pending"]
    /\ intact = TRUE

\* The function may go on although its caller has left.
Produce(c) ==
    /\ ended[c] = "no"
    /\ \E v \in Values : produced' = [produced EXCEPT ![c] = Append(@, v)]
    /\ UNCHANGED <<delivered, outcome, intact>>

\* A function that returns makes its value as it ends.
End(c) ==
    /\ ended[c] = "no"
    /\ \E how \in {"ok", "error"} : ended' = [ended EXCEPT ![c] = how]
    /\ UNCHANGED <<delivered, outcome, intact>>

Deliver(c) ==
    /\ outcome[c] = "pending"
    /\ Len(delivered[c]) < Len(produced[c])
    /\ delivered' = [delivered EXCEPT ![c] = Append(@, produced[c][Len(@) + 1])]
    /\ UNCHANGED <<produced, ended, outcome, intact>>

Return(c) ==
    /\ outcome[c] = "pending"
    /\ intact => ended[c] = "ok" /\ delivered[c] = produced[c]
    /\ outcome' = [outcome EXCEPT ![c] = "returned"]
    /\ UNCHANGED <<produced, delivered, ended, intact>>

Raise(c) ==
    /\ outcome[c] = "pending"
    /\ outcome' = [outcome EXCEPT ![c] = "raised"]
    /\ UNCHANGED <<produced, delivered, ended, intact>>

Lose == intact' = FALSE /\ UNCHANGED <<produced, delivered, ended, outcome>>

Next ==
    \/ \E c \in Calls :
         \/ Produce(c) /\ UNCHANGED ended
         \/ End(c) /\ UNCHANGED produced
         \/ Produce(c) /\ End(c)
         \/ Deliver(c) \/ Return(c) \/ Raise(c)
    \/ Lose

Spec == Init /\ [][Next]_vars
=============================================================================
