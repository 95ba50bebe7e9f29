------------------------------ MODULE MCTimesheet ------------------------------
(* Timesheet for TLC.                                                      *)
EXTENDS Timesheet

T == INSTANCE TLC

CONSTANTS s1, a1, m1, e1, g1, g2, v1, r1, r2

\* Two requests interleave on a leave of one day or of two, on two leaves, or on
\* an event; one comes after another on a leave and, of admins, on an event.
Interleaved == {{r1, r2, m1, e1, g1, 1, first, second},
                {r1, r2, m1, g1, 1, 2, second},
                {r1, r2, e1, g1, g2, 1, first, second},
                {r1, r2, m1, e1, v1, 1, 2},
                {r1, m1, e1, g1, 1, 2, first, second},
                {r1, s1, a1, e1, v1, 1}}

Symmetric == T!Permutations(LeaveLogs) \union T!Permutations(Requests)
===============================================================================
