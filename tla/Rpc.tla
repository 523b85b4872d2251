--------------------------------- MODULE Rpc ---------------------------------
(***************************************************************************)
(* What one call of data_extractor promises to the assigner: it ends with  *)
(* one answer, which is the whole content of what the node sent if the     *)
(* response says where it ends, a part of its beginning if it does not, or *)
(* an error.  The status of the response plays no role.  HttpClient is     *)
(* shown to implement this.                                                *)
(***************************************************************************)
EXTENDS Sequences, SequencesExt

CONSTANTS
    Responses,  \* what the node may answer: records with a content and a framing
    Errors      \* the errors a call may end with

VARIABLES
    resp,       \* the response the node has for the call
    answer      \* what the call has given to its caller

Pending == [kind |-> "pending", body |-> <<>>]
Killed  == [kind |-> "killed", body |-> <<>>]
Ok(b)   == [kind |-> "ok", body |-> b]
Err(e)  == [kind |-> e, body |-> <<>>]

(* A response without a length and without chunks ends where the connection
   ends, for whatever reason it does. *)
Bodies(r) == IF r.framing = "close" THEN Prefixes(r.content) ELSE {r.content}

None    == [kind |-> "none", body |-> <<>>]

RpcInit == resp \in Responses /\ answer = None

Ask ==
    /\ answer \notin {Pending, Killed}
    /\ answer' = Pending
    /\ resp' \in Responses

Reply ==
    /\ answer = Pending
    /\ \/ \E b \in Bodies(resp) : answer' = Ok(b)
       \/ \E e \in Errors : answer' = Err(e)
       \/ answer' = Killed
    /\ UNCHANGED resp

RpcSpec == RpcInit /\ [][Ask \/ Reply]_<<resp, answer>> /\ WF_<<resp, answer>>(Reply)
==============================================================================
