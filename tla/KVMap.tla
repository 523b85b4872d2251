--------------------------------- MODULE KVMap ---------------------------------
(* What a caller of MerklePatriciaTrie::get and set may expect: a map, read and *)
(* written by one call at a time.  A call is a request, one atomic effect that *)
(* fixes its outcome, and a reply.                                             *)
CONSTANTS Keys, Values, Absent

VARIABLES map, state, call, outcome

vars == <<map, state, call, outcome>>

NoCall == <<>>
Pending == "pending"

Init ==
    /\ map = [k \in Keys |-> Absent]
    /\ state = "idle" /\ call = NoCall /\ outcome = Pending

Request ==
    /\ state = "idle" /\ state' = "busy"
    /\ \/ \E k \in Keys : call' = <<"get", k>>
       \/ \E k \in Keys, v \in Values : call' = <<"set", k, v>>
    /\ UNCHANGED <<map, outcome>>

\* An absent key is reported, never given a value.
Get ==
    /\ state = "busy" /\ state' = "done" /\ call[1] = "get"
    /\ outcome' = map[call[2]]
    /\ UNCHANGED <<map, call>>

Set ==
    /\ state = "busy" /\ state' = "done" /\ call[1] = "set"
    /\ map' = [map EXCEPT ![call[2]] = call[3]]
    /\ outcome' = "returned"
    /\ UNCHANGED call

Reply ==
    /\ state = "done" /\ state' = "idle"
    /\ call' = NoCall /\ outcome' = Pending
    /\ UNCHANGED map

Next == Request \/ Get \/ Set \/ Reply

Safety == Init /\ [][Next]_vars

\* Every call is answered.
Spec == Safety /\ WF_vars(Get \/ Set \/ Reply)

================================================================================
