------------------------------ MODULE MCAccounts ------------------------------
(* Small instances of Accounts for TLC. *)
EXTENDS Accounts, TLC

CONSTANTS r1, r2, u1, u2, u3, t1, t2, e1, e2

TwoRequests == {r1, r2}
ThreeUsers  == {u1, u2, u3}
TwoTenants  == {t1, t2}
TwoEmails   == {e1, e2}
\* EDITOR and VIEWER are alike here: neither passes the guard of the members.
TwoRoles    == {"ADMIN", "VIEWER"}

\* No definition tells two requests, users, tenants or emails apart.
Interchangeable ==
  Permutations(Requests) \cup Permutations(Users) \cup Permutations(Tenants)
    \cup Permutations(Emails)

=============================================================================
