------------------------------ MODULE MCSessions ------------------------------
(* A small instance of Sessions for TLC.                                   *)
EXTENDS Sessions, TLC

\* An organization that is not active, an account that is invited and a password
\* that was changed come up one at a time.
Few == LET invited == \E u \in Users : account[u].status = "invited"
           changed == \E u \in Users : account[u].password > 0
       IN  Cardinality({x \in {<<1, org # "active">>, <<2, invited>>, <<3, changed>>} : x[2]}) <= 1

MCSpec == Init /\ [][Next /\ Few']_vars

\* Requests and refresh tokens are interchangeable.
Symmetric == Permutations(Requests) \union Permutations(Tokens)
===============================================================================
