------------------------------- MODULE OrderCall -------------------------------
(***************************************************************************)
(* What a runtime may rely on when it asks for orders over the bridge,     *)
(* without sockets, tables, pages or lost messages: an order reaches the   *)
(* venue at most once, and not before it was asked for. The runtime is     *)
(* told that there is an order only when the venue has accepted it, and    *)
(* that there is none only when the venue has not seen it, and then it     *)
(* never will. Of everything else it is told that it is unknown.           *)
(***************************************************************************)
CONSTANT Commands

VARIABLES
    told,   \* of each command: idle, waiting, ordered, no order or unknown
    order   \* what the venue has made of it: none, accepted or refused

callVars == <<told, order>>

CallInit ==
    /\ told = [c \in Commands |-> "idle"]
    /\ order = [c \in Commands |-> "none"]

Ask(c) ==
    /\ told[c] = "idle" /\ told' = [told EXCEPT ![c] = "waiting"]
    /\ UNCHANGED order

Arrive(c) ==
    /\ order[c] = "none" /\ told[c] \notin {"idle", "no order"}
    /\ \E fate \in {"accepted", "refused"} : order' = [order EXCEPT ![c] = fate]
    /\ UNCHANGED told

Tell(c) ==
    /\ told[c] = "waiting"
    /\ \/ told' = [told EXCEPT ![c] = "unknown"]
       \/ order[c] = "accepted" /\ told' = [told EXCEPT ![c] = "ordered"]
       \/ order[c] = "none" /\ told' = [told EXCEPT ![c] = "no order"]
    /\ UNCHANGED order

CallNext == \E c \in Commands : Ask(c) \/ Arrive(c) \/ Tell(c)

CallSpec == CallInit /\ [][CallNext]_callVars
================================================================================
