----------------------------- MODULE MCDiscussion -----------------------------
(* Small instances of Discussion and DiscussionAccess for TLC.             *)
EXTENDS DiscussionAccess, TLC

\* Requests and sockets are interchangeable.
Symmetric == Permutations(Requests) \union Permutations(Sockets)

VARIABLE changing  \* bound: whether access changes

\* If it does not, everybody has it.
MCInit == /\ AccessInit
          /\ changing \in BOOLEAN
          /\ ~changing => Users \subseteq Admins \union members

\* Bound: while access changes there is one message, one request at a time, and one socket.
Few == /\ {m \in Messages : comment[m].exists \/ InFlight(m)} \subseteq {1}
       /\ Cardinality({r \in Requests : req[r].step # "idle"}) <= 1
       /\ Cardinality({s \in Sockets : socket[s].state # "new"}) <= 1

MCNext == /\ AccessNext
          /\ IF changing THEN Few' ELSE UNCHANGED access
          /\ UNCHANGED changing

MCSpec == MCInit /\ [][MCNext]_<<allvars, changing>>
===============================================================================
