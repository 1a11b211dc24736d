------------------------------- MODULE Accounts -------------------------------
(***************************************************************************)
(* Tenants and their users: AuthService (auth.service.ts) registers a      *)
(* tenant with its first user, adds, changes and removes members, lets a   *)
(* user change the own profile and log in.                                 *)
(*                                                                         *)
(* A request passes the guards, which read the requester's row, checks     *)
(* what it is going to do, hashes a password and then writes one row by    *)
(* its id; other requests may write at each of these awaits.  A tenant is  *)
(* named by its slug.  Requests that the guards refuse change nothing and  *)
(* are left out; passwords are those of their users, and differ.           *)
(***************************************************************************)
EXTENDS Naturals

CONSTANTS
  Requests,   \* requests in flight at a time
  Users,      \* ids of users ever created: bounds registrations and additions
  Tenants,    \* slugs
  Emails,
  Roles,
  Keep,       \* a field that the dto leaves out
  None        \* no user, no tenant

ASSUME AccountsAssumption ==
  /\ "ADMIN" \in Roles
  /\ Keep \notin Emails \cup Roles
  /\ "none" \notin Roles
  /\ None \notin Users \cup Tenants \cup Emails

VARIABLES
  tenants,    \* tenants that have a row
  member,     \* tenantId of each user, None without a row
  email,      \* the other columns, None and "none" without a row
  role,
  used,       \* ids that have been given, to a user that may be gone
  pc,         \* where each request is, or how it was answered
  job,        \* what it does: requester, tenant of the requester, target, dto
  disturbed,  \* history: requests during which another one has written
  loose       \* history: users whose email was not compared with all others

rowVars == <<tenants, member, email, role, used>>
vars    == <<rowVars, pc, job, disturbed, loose>>

\* "answered" is a result or a 409, "error" a 500, "refused" a login that failed.
Answers    == {"answered", "error", "refused"}
RequestPcs == Answers \cup {"find", "email", "write"}
Operations == {"register", "add", "remove", "update", "profile"}

Job(op, u, t, v, e, ro) ==
  [op |-> op, by |-> u, scope |-> t, target |-> v, email |-> e, role |-> ro]
NoJob == Job("profile", None, None, None, Keep, Keep)

Init ==
  /\ tenants = {}
  /\ member = [u \in Users |-> None]
  /\ email = [u \in Users |-> None]
  /\ role = [u \in Users |-> "none"]
  /\ used = {}
  /\ pc = [r \in Requests |-> "answered"]
  /\ job = [r \in Requests |-> NoJob]
  /\ disturbed = {} /\ loose = {}

Start(r, j, l) ==
  /\ pc[r] \in Answers
  /\ pc' = [pc EXCEPT ![r] = l]
  /\ job' = [job EXCEPT ![r] = IF l \in Answers THEN NoJob ELSE j]
  /\ UNCHANGED <<rowVars, disturbed, loose>>

Step(r, l, others) ==
  /\ pc' = [pc EXCEPT ![r] = l]
  /\ job' = IF l \in Answers THEN [job EXCEPT ![r] = NoJob] ELSE job
  /\ disturbed' = others \cup IF l \in Answers THEN disturbed \ {r} ELSE disturbed

Goto(r, l) == Step(r, l, {})

\* r writes: those that have checked and not yet written notice later.
Wrote(r) == Step(r, "answered", {q \in Requests \ {r} : pc[q] \notin Answers})

At(r, op, l) == pc[r] = l /\ job[r].op = op

-----------------------------------------------------------------------------
(* The guards: JwtStrategy.validate and RolesGuard.                         *)

Authenticated(u) == member[u] # None
IsAdmin(u, t)    == member[u] = t /\ role[u] = "ADMIN"
Allowed(u)       == Authenticated(u) /\ role[u] = "ADMIN"

\* A user of tenant t, other than u, has the email e.
Taken(t, e, u) == \E v \in Users \ {u} : member[v] = t /\ email[v] = e

TakenAnywhere(e, u) == \E v \in Users \ {u} : member[v] # None /\ email[v] = e

-----------------------------------------------------------------------------
(* register and login.                                                      *)

Register(r, t, e, ro) ==
  Start(r, Job("register", None, t, None, e, ro),
        IF t \in tenants THEN "answered" ELSE "write")

Insert(r, u) ==
  /\ member' = [member EXCEPT ![u] = job[r].scope]
  /\ email' = [email EXCEPT ![u] = job[r].email]
  /\ role' = [role EXCEPT ![u] = job[r].role]
  /\ used' = used \cup {u}
  /\ loose' = loose \cup {u}
  /\ Wrote(r)

Fails(r) == Goto(r, "error") /\ UNCHANGED <<rowVars, loose>>

\* Tenant and first user in one transaction; slugs are unique.
CreateTenant(r) ==
  /\ At(r, "register", "write")
  /\ \/ job[r].scope \in tenants /\ Fails(r)
     \/ /\ job[r].scope \notin tenants
        /\ tenants' = tenants \cup {job[r].scope}
        /\ \E u \in Users \ used : Insert(r, u)

\* The person u logs in with email and password; the row compared with is any
\* that has the email, whatever its tenant.
Login(r, u) ==
  /\ pc[r] \in Answers /\ Authenticated(u)
  /\ \E v \in Users :
       /\ member[v] # None /\ email[v] = email[u]
       /\ Goto(r, IF v = u THEN "answered" ELSE "refused")
  /\ UNCHANGED <<rowVars, loose>>

-----------------------------------------------------------------------------
(* addMember.                                                               *)

AddMember(r, u, e, ro) ==
  /\ Allowed(u)
  /\ Start(r, Job("add", u, member[u], None, e, ro), "email")

Check(r, taken) ==
  /\ Goto(r, IF taken THEN "answered" ELSE "write")
  /\ UNCHANGED <<rowVars, loose>>

AddMemberCheck(r) ==
  At(r, "add", "email") /\ Check(r, Taken(job[r].scope, job[r].email, None))

CreateMember(r) ==
  /\ At(r, "add", "write")
  /\ \/ Taken(job[r].scope, job[r].email, None) /\ Fails(r)
     \/ /\ ~Taken(job[r].scope, job[r].email, None)
        /\ \E u \in Users \ used : Insert(r, u)
        /\ UNCHANGED tenants

-----------------------------------------------------------------------------
(* removeMember.                                                            *)

\* Seeded bug: nothing stops a requester from removing the own account.
RemoveAnyMember(r, u, v) ==
  /\ Allowed(u)
  /\ Start(r, Job("remove", u, member[u], v, Keep, Keep), "find")

RemoveMember(r, u, v) ==
  /\ Allowed(u)
  /\ Start(r, Job("remove", u, member[u], v, Keep, Keep),
           IF v = u THEN "answered" ELSE "find")

\* Seeded bug: the row is looked up by its id alone.
RemoveMemberFindAny(r) ==
  At(r, "remove", "find") /\ Check(r, member[job[r].target] = None)

RemoveMemberFind(r) ==
  At(r, "remove", "find") /\ Check(r, member[job[r].target] # job[r].scope)

DeleteMember(r) ==
  /\ At(r, "remove", "write")
  /\ \/ member[job[r].target] = None /\ Fails(r)
     \/ /\ member[job[r].target] # None
        /\ member' = [member EXCEPT ![job[r].target] = None]
        /\ email' = [email EXCEPT ![job[r].target] = None]
        /\ role' = [role EXCEPT ![job[r].target] = "none"]
        /\ loose' = loose \ {job[r].target}
        /\ Wrote(r)
        /\ UNCHANGED <<tenants, used>>

-----------------------------------------------------------------------------
(* updateMember and updateProfile.                                          *)

UpdateMember(r, u, v, e, ro) ==
  /\ Allowed(u)
  /\ Start(r, Job("update", u, member[u], v, e, ro), "find")

UpdateMemberFind(r) ==
  /\ At(r, "update", "find")
  /\ Goto(r, IF member[job[r].target] # job[r].scope THEN "answered"
             ELSE IF job[r].email = Keep THEN "write" ELSE "email")
  /\ UNCHANGED <<rowVars, loose>>

\* Seeded bug: the email of an update is not compared with the others.
UpdateMemberCheckNothing(r) == At(r, "update", "email") /\ Check(r, FALSE)

UpdateMemberCheck(r) ==
  /\ At(r, "update", "email")
  /\ Check(r, Taken(job[r].scope, job[r].email, job[r].target))

UpdateProfile(r, u, e) ==
  /\ Authenticated(u)
  /\ Start(r, Job("profile", u, member[u], u, e, Keep),
           IF e = Keep THEN "write" ELSE "email")

\* Seeded bug: the check of updateMember, in the own tenant only.
UpdateProfileCheckInTenant(r) ==
  /\ At(r, "profile", "email")
  /\ Check(r, Taken(job[r].scope, job[r].email, job[r].target))

\* Other than updateMember's, this check looks at all tenants.
UpdateProfileCheck(r) ==
  /\ At(r, "profile", "email")
  /\ Check(r, TakenAnywhere(job[r].email, job[r].target))

\* The row is written by its id, the fields that the dto gives and no others.
UpdateUser(r) ==
  LET j == job[r]
      u == job[r].target
      clash == j.email # Keep /\ Taken(member[u], j.email, u)
  IN
  /\ At(r, "update", "write") \/ At(r, "profile", "write")
  /\ \/ (member[u] = None \/ clash) /\ Fails(r)
     \/ /\ member[u] # None /\ ~clash
        /\ email' = IF j.email = Keep THEN email ELSE [email EXCEPT ![u] = j.email]
        /\ role' = IF j.role = Keep THEN role ELSE [role EXCEPT ![u] = j.role]
        /\ loose' = IF j.email = Keep THEN loose
                    ELSE IF j.op = "profile" /\ r \notin disturbed THEN loose \ {u}
                    ELSE loose \cup {u}
        /\ Wrote(r)
        /\ UNCHANGED <<tenants, member, used>>

-----------------------------------------------------------------------------
Next == \E r \in Requests :
  \/ \E e \in Emails, ro \in Roles :
       \/ \E t \in Tenants : Register(r, t, e, ro)
       \/ \E u \in Users : AddMember(r, u, e, ro)
  \/ \E u \in Users :
       \/ Login(r, u)
       \/ \E v \in Users : RemoveMember(r, u, v)
       \/ \E e \in Emails \cup {Keep} :
            \/ UpdateProfile(r, u, e)
            \/ \E v \in Users, ro \in Roles \cup {Keep} : UpdateMember(r, u, v, e, ro)
  \/ CreateTenant(r) \/ AddMemberCheck(r) \/ CreateMember(r)
  \/ RemoveMemberFind(r) \/ DeleteMember(r)
  \/ UpdateMemberFind(r) \/ UpdateMemberCheck(r) \/ UpdateProfileCheck(r) \/ UpdateUser(r)

Spec == Init /\ [][Next]_vars

-----------------------------------------------------------------------------
Jobs == [op : Operations, by : Users \cup {None}, scope : Tenants \cup {None},
         target : Users \cup {None}, email : Emails \cup {Keep}, role : Roles \cup {Keep}]

TypeOK ==
  /\ tenants \subseteq Tenants
  /\ member \in [Users -> Tenants \cup {None}]
  /\ email \in [Users -> Emails \cup {None}]
  /\ role \in [Users -> Roles \cup {"none"}]
  /\ \A u \in Users :
       member[u] = None <=> email[u] = None /\ role[u] = "none"
  /\ used \subseteq Users
  /\ pc \in [Requests -> RequestPcs]
  /\ job \in [Requests -> Jobs]
  /\ disturbed \subseteq Requests /\ loose \subseteq Users

HasAdmin(t) == \E u \in Users : IsAdmin(u, t)

\* A tenant loses its last ADMIN, and with that everybody who could add or
\* change members, only if one demotes the own account, or if the requester
\* was no longer an ADMIN of it when the write came: two that remove each other
\* (auth.service.ts:111-147 refuses only to remove the own account).
AdminRemains ==
  [][\A t \in Tenants :
       HasAdmin(t) /\ ~HasAdmin(t)' =>
         \E r \in Requests :
           /\ pc[r] = "write" /\ pc'[r] = "answered" /\ job[r].scope = t
           /\ \/ job[r].op = "update" /\ job[r].target = job[r].by
              \/ ~IsAdmin(job[r].by, t)]_vars

\* The row of a user is written by its id, in another statement than the one
\* that looks for it in the requester's tenant: it is still written only by
\* requests of users of its own tenant, and one that is gone does not return.
TenantScope ==
  [][\A u \in used :
       member'[u] # member[u] \/ email'[u] # email[u] \/ role'[u] # role[u] =>
         /\ member[u] # None
         /\ \E r \in Requests :
              pc[r] = "write" /\ pc'[r] = "answered"
                /\ job[r].target = u /\ job[r].scope = member[u]]_vars

\* A request fails with an internal error, where its checks should have
\* answered with a conflict, only if another one has written since it started.
ErrorsNeedARace ==
  [][\A r \in Requests :
       pc[r] # "error" /\ pc'[r] = "error" => r \in disturbed]_vars

\* A person u who logs in with the right password is refused only if a user v
\* of another tenant has the email of u at that moment, and only if the email of
\* u or of v was compared with the own tenant's alone (register, addMember,
\* updateMember) or in a race (updateProfile).
LoginRefusals ==
  [][\A r \in Requests, u \in Users :
       Login(r, u) /\ pc'[r] = "refused" =>
         \E v \in Users \ {u} :
           /\ member[v] \notin {None, member[u]} /\ email[v] = email[u]
           /\ u \in loose \/ v \in loose]_vars

=============================================================================
