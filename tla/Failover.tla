------------------------------ MODULE Failover ------------------------------
(***************************************************************************)
(* What failover promises a client, without saying how: a request tries    *)
(* each candidate at most once, never an inferior one while a superior one *)
(* is there to be tried, and gives up only when nothing is left.           *)
(*                                                                         *)
(* "There to be tried" is judged as fairly as a system that checks one     *)
(* candidate at a time can be: the candidate has been usable ever since    *)
(* the request chose its order.  steady[r] holds those; whatever else goes *)
(* on in the system can only shrink it.                                    *)
(***************************************************************************)
CONSTANTS Request, Candidate

VARIABLES
  phase,    \* request -> "waiting", "trying", "answered" or "refused"
  prefers,  \* request -> the pairs <<c, d>> where c is superior to d
  steady,   \* request -> candidates usable ever since it began
  tried     \* request -> candidates it has sent upstream

vars == <<phase, prefers, steady, tried>>

Init ==
  /\ phase = [r \in Request |-> "waiting"]
  /\ prefers = [r \in Request |-> {}]
  /\ steady = [r \in Request |-> {}]
  /\ tried = [r \in Request |-> {}]

(* Steadiness is only ever lost, except by the request that begins.        *)
Shrinks(others) == \A r \in others : steady'[r] \subseteq steady[r]

Begin(r) ==
  /\ phase[r] = "waiting"
  /\ prefers'[r] \subseteq Candidate \X Candidate
  /\ prefers' = [prefers EXCEPT ![r] = prefers'[r]]
  /\ steady'[r] \subseteq Candidate
  /\ \/ phase' = [phase EXCEPT ![r] = "trying"]
     \/ phase' = [phase EXCEPT ![r] = "refused"] /\ steady'[r] = {}
  /\ Shrinks(Request \ {r})
  /\ UNCHANGED tried

Superior(r, c) == {d \in Candidate : <<d, c>> \in prefers[r]}

Try(r, c) ==
  /\ phase[r] = "trying"
  /\ c \notin tried[r]
  /\ tried' = [tried EXCEPT ![r] = @ \cup {c}]
  /\ Superior(r, c) \cap steady[r] \subseteq tried[r]
  /\ Shrinks(Request)
  /\ UNCHANGED <<phase, prefers>>

(* The client gets an answer, whole or cut short, or has gone away.        *)
Answer(r) ==
  /\ phase[r] = "trying"
  /\ tried[r] # {}
  /\ phase' = [phase EXCEPT ![r] = "answered"]
  /\ Shrinks(Request)
  /\ UNCHANGED <<prefers, tried>>

Refuse(r) ==
  /\ phase[r] = "trying"
  /\ steady[r] \subseteq tried[r]
  /\ phase' = [phase EXCEPT ![r] = "refused"]
  /\ Shrinks(Request)
  /\ UNCHANGED <<prefers, tried>>

(* The thread turns to another request.                                    *)
Return(r) ==
  /\ phase[r] \in {"answered", "refused"}
  /\ phase' = [phase EXCEPT ![r] = "waiting"]
  /\ prefers' = [prefers EXCEPT ![r] = {}]
  /\ tried' = [tried EXCEPT ![r] = {}]
  /\ Shrinks(Request)

Drift == Shrinks(Request) /\ UNCHANGED <<phase, prefers, tried>>

Next ==
  \/ \E r \in Request : Begin(r) \/ Answer(r) \/ Refuse(r) \/ Return(r)
  \/ \E r \in Request, c \in Candidate : Try(r, c)
  \/ Drift

Spec == Init /\ [][Next]_vars
=============================================================================
