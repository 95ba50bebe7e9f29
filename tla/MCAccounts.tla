------------------------------- MODULE MCAccounts -------------------------------
(* Accounts for TLC.                                                       *)
EXTENDS Accounts

T == INSTANCE TLC

CONSTANTS u1, u2, o1, o2, d1, r1, r2

\* Names that differ in case only.
LowerCase(name) == IF name = "Dev" THEN "dev" ELSE name

TwoInATenantOrOneInTwo ==
  {{r1, r2, Root, u1, u2, o1, d1, "Dev", "super_admin"},
   {r1, r2, Root, u1, u2, o1, d1, "Dev", "employee"},
   {r1, r2, Root, u1, o1, d1, "Dev", "super_admin", "employee"},
   {r1, Root, u1, u2, o1, o2, d1, "Dev", "dev", "super_admin", "admin"}}

\* Two requests, each of which takes an admin away.
TwoAdmins == {{r1, r2, Root, u1, u2, o1, d1, "Dev", "admin", "manager"}}

Symmetric == T!Permutations(Users \ {Root}) \union T!Permutations(Requests)
               \union T!Permutations(Orgs)
===============================================================================
