----------------------------- MODULE RemoteCall -----------------------------
(***************************************************************************)
(* What a synchronous call from the LoRaWAN core to the application core   *)
(* promises its caller, whatever the messages and semaphores beneath: a    *)
(* call takes effect at most once on the server, at one instant between    *)
(* its invocation and its return, and it returns the outcome of that very  *)
(* effect -- or it is refused, has no effect, and says so.                 *)
(*                                                                         *)
(* The server is any object: a set of states and, for each state and       *)
(* request, the outcomes it may answer with the state each leaves.         *)
(***************************************************************************)
CONSTANTS
    Caller,     \* threads of the client core that make calls
    Request,    \* what a call may ask
    Outcome,    \* what a call may return
    NoOutcome,  \* a call that the server has not answered
    Refused,    \* the outcome of a call that never reached the server
    Server,     \* states of the served object
    Effect(_, _)  \* Effect(s, r): the pairs <<outcome, next state>> of r in s

VARIABLES
    server,     \* the served object
    stage,      \* where each caller is: "idle", "pending" or "executed"
    request,    \* the request of each caller's current (or last) call
    outcome,    \* its outcome, once it has one
    returned    \* what the last call returned, while its caller is idle

vars == <<server, stage, request, outcome, returned>>

TypeOK ==
    /\ server \in Server
    /\ stage \in [Caller -> {"idle", "pending", "executed"}]
    /\ request \in [Caller -> Request]
    /\ outcome \in [Caller -> Outcome \cup {NoOutcome}]
    /\ returned \in [Caller -> Outcome \cup {NoOutcome}]

Init ==
    /\ server \in Server
    /\ stage = [t \in Caller |-> "idle"]
    /\ request \in [Caller -> Request]
    /\ outcome = [t \in Caller |-> NoOutcome]
    /\ returned = [t \in Caller |-> NoOutcome]

Invoke(t, r) ==
    /\ stage[t] = "idle"
    /\ stage' = [stage EXCEPT ![t] = "pending"]
    /\ request' = [request EXCEPT ![t] = r]
    /\ outcome' = [outcome EXCEPT ![t] = NoOutcome]
    /\ returned' = [returned EXCEPT ![t] = NoOutcome]
    /\ UNCHANGED server

\* The single instant at which the call takes effect.
Execute(t) ==
    /\ stage[t] = "pending"
    /\ \E e \in Effect(server, request[t]) :
          /\ outcome' = [outcome EXCEPT ![t] = e[1]]
          /\ server' = e[2]
    /\ stage' = [stage EXCEPT ![t] = "executed"]
    /\ UNCHANGED <<request, returned>>

Refuse(t) ==
    /\ stage[t] = "pending"
    /\ stage' = [stage EXCEPT ![t] = "executed"]
    /\ outcome' = [outcome EXCEPT ![t] = Refused]
    /\ UNCHANGED <<server, request, returned>>

Return(t) ==
    /\ stage[t] = "executed"
    /\ stage' = [stage EXCEPT ![t] = "idle"]
    /\ returned' = [returned EXCEPT ![t] = outcome[t]]
    /\ UNCHANGED <<server, request, outcome>>

Next ==
    \E t \in Caller :
        \/ \E r \in Request : Invoke(t, r)
        \/ Execute(t)
        \/ Refuse(t)
        \/ Return(t)

Spec == Init /\ [][Next]_vars
=============================================================================
