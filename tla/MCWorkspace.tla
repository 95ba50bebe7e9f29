------------------------------ MODULE MCWorkspace ------------------------------
(* Workspace and Attachments for TLC.                                      *)
EXTENDS Attachments

T == INSTANCE TLC

CONSTANTS a1, m1, e1, p1, p2, f1, f2, t1, c1, tl1, l1, l2, l3, x1, x2, k1, r1, r2

\* Two requests interleave on projects, features and tasks, or on activities and
\* time logs; one request at a time on each of them, on the dates of projects
\* and on attachments.
Interleaved == {{r1, r2, a1, e1, p1, f1, t1, l1, l2, l3},
                {r1, r2, a1, e1, c1, tl1, l1, l2}}

OneByOne == {{r1, a1, m1, e1, p1, p2, f1, f2, t1, l1, l2, l3},
             {r1, a1, m1, p1, l1, l2, 1, 2},
             {r1, a1, m1, e1, p1, c1, tl1, l1, l2, l3},
             {r1, a1, e1, p1, l1, k1, x1, x2}}

All == Interleaved \union OneByOne

\* A task of a project, without a feature.
TaskOfProject == {{r1, a1, p1, f1, t1, l1}}

Symmetric == UNION {T!Permutations(S) : S \in {Projects, Links, Requests}}
===============================================================================
