---------------------------- MODULE SerialCalls -----------------------------
(***************************************************************************)
(* What the locks of the server promise: a call takes effect once and in   *)
(* one step, on the state all earlier calls have left, or not at all.      *)
(***************************************************************************)
EXTENDS Naturals

CONSTANTS Clients, Versions

VARIABLES
    calls,      \* what has become of the call of a client
    version     \* of the server's state

Init == calls = [c \in Clients |-> "none"] /\ version = 0

Make(c) ==
    /\ calls[c] = "none"
    /\ calls' = [calls EXCEPT ![c] = "made"]
    /\ UNCHANGED version

Apply(c) ==
    /\ calls[c] = "made"
    /\ calls' = [calls EXCEPT ![c] = "applied"]
    /\ version' = (version + 1) % Versions

(* Calls end, with the process even all of them at once.                   *)
End(ended) ==
    /\ calls' = [c \in Clients |-> IF c \in ended THEN "none" ELSE calls[c]]
    /\ UNCHANGED version

Next ==
    \/ \E c \in Clients : Make(c) \/ Apply(c)
    \/ \E ended \in SUBSET Clients : End(ended)

Spec == Init /\ [][Next]_<< calls, version >>
=============================================================================
