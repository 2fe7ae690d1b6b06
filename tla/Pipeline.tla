------------------------------ MODULE Pipeline ------------------------------
(***************************************************************************)
(* What the Connection promises the tasks that share a Client: requests    *)
(* are answered one after the other in the order they were sent, and the   *)
(* messages of an answer arrive in order, until the connection closes.     *)
(***************************************************************************)
EXTENDS Naturals

CONSTANTS
  MaxRequests,   \* bound on the requests sent
  MaxPage        \* most messages one chunk can hold

VARIABLES
  submitted,   \* requests sent so far
  completed,   \* requests answered to the end
  received,    \* messages of its own answer paged to each request
  closed       \* the connection has resolved

pipelineVars == <<submitted, completed, received, closed>>

Init ==
  /\ submitted = 0
  /\ completed = 0
  /\ received = [r \in 1 .. MaxRequests |-> 0]
  /\ closed = FALSE

Submit ==
  /\ ~closed /\ submitted < MaxRequests
  /\ submitted' = submitted + 1
  /\ UNCHANGED <<completed, received, closed>>

\* The oldest request that is not complete is paged k more messages of its
\* answer, the last of which completes it if fin.
Page(k, fin) ==
  /\ ~closed /\ completed < submitted
  /\ received' = [received EXCEPT ![completed + 1] = @ + k]
  /\ completed' = IF fin THEN completed + 1 ELSE completed
  /\ UNCHANGED <<submitted, closed>>

Close ==
  /\ ~closed /\ closed' = TRUE
  /\ UNCHANGED <<submitted, completed, received>>

Next ==
  \/ Submit
  \/ \E k \in 1 .. MaxPage, fin \in BOOLEAN : Page(k, fin)
  \/ Close

Spec == Init /\ [][Next]_pipelineVars
=============================================================================
