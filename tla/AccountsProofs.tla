---------------------------- MODULE AccountsProofs ----------------------------
(***************************************************************************)
(* Proofs about Accounts, for any numbers of requests, users, tenants and  *)
(* emails, and any set of roles that has ADMIN.                            *)
(***************************************************************************)
EXTENDS Accounts, TLAPS

-----------------------------------------------------------------------------
(* The inductive invariant.                                                 *)

OnMember == {"remove", "update", "profile"}

\* What a request carries: the dto is complete where its operation needs it, a
\* removal is not of the requester, and once the target has been found it is a
\* user of the requester's tenant, or gone.
JobOK(r) ==
  pc[r] \notin Answers =>
    /\ job[r].scope \in Tenants
    /\ job[r].op # "register" => job[r].scope \in tenants
    /\ job[r].op \in {"register", "add"} =>
         pc[r] # "find" /\ job[r].email \in Emails /\ job[r].role \in Roles
    /\ job[r].op = "register" => pc[r] = "write"
    /\ job[r].op \in OnMember => job[r].target \in Users /\ job[r].by \in Users
    /\ job[r].op = "remove" => pc[r] # "email" /\ job[r].by # job[r].target
    /\ job[r].op = "profile" => pc[r] # "find" /\ job[r].role = Keep
    /\ pc[r] = "email" => job[r].email \in Emails
    /\ job[r].op \in OnMember /\ pc[r] \in {"email", "write"} =>
         /\ job[r].target \in used
         /\ member[job[r].target] \in {None, job[r].scope}

\* What a request has checked still holds if no other one has written.
FreshOK(r) ==
  r \notin disturbed =>
    /\ pc[r] \in {"email", "write"} /\ job[r].op \in OnMember =>
         member[job[r].target] # None
    /\ At(r, "register", "write") => job[r].scope \notin tenants
    /\ At(r, "add", "write") => ~Taken(job[r].scope, job[r].email, None)
    /\ At(r, "update", "write") /\ job[r].email # Keep =>
         ~Taken(job[r].scope, job[r].email, job[r].target)
    /\ At(r, "profile", "write") /\ job[r].email # Keep =>
         ~TakenAnywhere(job[r].email, job[r].target)

RequestsInv == \A r \in Requests : JobOK(r) /\ FreshOK(r)

\* The unique index on tenant and email; an email that two tenants share was
\* not compared with all others when one of the two got it.
RowsInv ==
  /\ \A u \in Users : member[u] # None => u \in used /\ member[u] \in tenants
  /\ \A u \in Users : \A v \in Users \ {u} :
       member[u] # None /\ member[v] # None /\ email[u] = email[v] =>
         member[u] # member[v] /\ (u \in loose \/ v \in loose)

Inv == TypeOK /\ RequestsInv /\ RowsInv

-----------------------------------------------------------------------------
(* Parts of a step.                                                         *)

\* A step of r leaves the other requests where they are.
LEMMA StepOthers ==
  ASSUME TypeOK, NEW r \in Requests, NEW l \in RequestPcs, NEW S \in SUBSET Requests,
         Step(r, l, S)
  PROVE  /\ pc' \in [Requests -> RequestPcs] /\ job' \in [Requests -> Jobs]
         /\ disturbed' \subseteq Requests
         /\ \A q \in Requests \ {r} : pc'[q] = pc[q] /\ job'[q] = job[q]
         /\ pc'[r] = l /\ (l \notin Answers => job'[r] = job[r])
         /\ \A q \in Requests \ {r} : q \in disturbed' <=> q \in disturbed \/ q \in S
         /\ l \notin Answers /\ r \in disturbed => r \in disturbed'
<1>1. NoJob \in Jobs
  BY DEF NoJob, Job, Jobs, Operations
<1> QED
  BY <1>1 DEF Step, TypeOK

LEMMA StartOthers ==
  ASSUME TypeOK, NEW r \in Requests, NEW l \in RequestPcs, NEW j \in Jobs, Start(r, j, l)
  PROVE  /\ pc' \in [Requests -> RequestPcs] /\ job' \in [Requests -> Jobs]
         /\ \A q \in Requests \ {r} : pc'[q] = pc[q] /\ job'[q] = job[q]
         /\ pc'[r] = l /\ (l \notin Answers => job'[r] = j)
         /\ UNCHANGED <<rowVars, disturbed, loose>>
<1>1. NoJob \in Jobs
  BY DEF NoJob, Job, Jobs, Operations
<1> QED
  BY <1>1 DEF Start, TypeOK

\* Requests that do not move keep what they have checked while nothing is
\* written, and notice when something is.
LEMMA Untouched ==
  ASSUME TypeOK, NEW q \in Requests, JobOK(q), FreshOK(q),
         pc'[q] = pc[q], job'[q] = job[q], q \in disturbed => q \in disturbed',
         UNCHANGED rowVars
  PROVE  JobOK(q)' /\ FreshOK(q)'
<1>1. JobOK(q)'
  BY DEF JobOK, rowVars
<1>2. FreshOK(q)'
  BY DEF FreshOK, At, Taken, TakenAnywhere, rowVars
<1> QED
  BY <1>1, <1>2

LEMMA Overtaken ==
  ASSUME TypeOK, NEW q \in Requests, JobOK(q),
         pc'[q] = pc[q], job'[q] = job[q], pc[q] \notin Answers => q \in disturbed',
         tenants \subseteq tenants', used \subseteq used',
         \A u \in used : member'[u] \in {None, member[u]}
  PROVE  JobOK(q)' /\ FreshOK(q)'
<1>1. JobOK(q)'
  BY DEF JobOK
<1>2. FreshOK(q)'
  BY DEF FreshOK, At, Answers
<1> QED
  BY <1>1, <1>2

\* A request that has been answered carries nothing.
LEMMA Answered ==
  ASSUME NEW r \in Requests, pc'[r] \in Answers
  PROVE  JobOK(r)' /\ FreshOK(r)'
  BY DEF JobOK, FreshOK, At, Answers

\* Steps that only read: the guards and the checks.
LEMMA StartKeeps ==
  ASSUME Inv, NEW r \in Requests, NEW l \in RequestPcs, NEW j \in Jobs, Start(r, j, l),
         JobOK(r)', FreshOK(r)'
  PROVE  Inv'
<1>1. /\ \A q \in Requests \ {r} : pc'[q] = pc[q] /\ job'[q] = job[q]
      /\ pc' \in [Requests -> RequestPcs] /\ job' \in [Requests -> Jobs]
      /\ UNCHANGED <<rowVars, disturbed, loose>>
  BY StartOthers DEF Inv
<1>2. TypeOK'
  BY <1>1 DEF Inv, TypeOK, rowVars
<1>3. ASSUME NEW q \in Requests PROVE JobOK(q)' /\ FreshOK(q)'
  <2>1. CASE q = r
    BY <2>1
  <2>2. CASE q # r
    BY <1>1, <2>2, Untouched DEF Inv, RequestsInv
  <2> QED
    BY <2>1, <2>2
<1>4. RowsInv'
  BY <1>1 DEF Inv, RowsInv, rowVars
<1> QED
  BY <1>2, <1>3, <1>4 DEF Inv, RequestsInv

LEMMA GotoKeeps ==
  ASSUME Inv, NEW r \in Requests, NEW l \in RequestPcs, Goto(r, l),
         UNCHANGED <<rowVars, loose>>, l \notin Answers => JobOK(r)' /\ FreshOK(r)'
  PROVE  Inv'
<1>1. /\ \A q \in Requests \ {r} : pc'[q] = pc[q] /\ job'[q] = job[q]
      /\ pc' \in [Requests -> RequestPcs] /\ job' \in [Requests -> Jobs]
      /\ disturbed' \subseteq Requests /\ pc'[r] = l
      /\ \A q \in Requests \ {r} : q \in disturbed => q \in disturbed'
  BY StepOthers DEF Inv, Goto
<1>2. TypeOK'
  BY <1>1 DEF Inv, TypeOK, rowVars
<1>3. ASSUME NEW q \in Requests PROVE JobOK(q)' /\ FreshOK(q)'
  <2>1. CASE q = r
    BY <1>1, <2>1, Answered
  <2>2. CASE q # r
    BY <1>1, <2>2, Untouched DEF Inv, RequestsInv
  <2> QED
    BY <2>1, <2>2
<1>4. RowsInv'
  BY DEF Inv, RowsInv, rowVars
<1> QED
  BY <1>2, <1>3, <1>4 DEF Inv, RequestsInv

\* Steps that write: rows come for new ids and go for ever.
LEMMA WroteKeeps ==
  ASSUME Inv, NEW r \in Requests, Wrote(r),
         tenants \subseteq tenants', used \subseteq used',
         \A u \in used : member'[u] \in {None, member[u]}
  PROVE  /\ RequestsInv'
         /\ pc' \in [Requests -> RequestPcs] /\ job' \in [Requests -> Jobs]
         /\ disturbed' \subseteq Requests
<1> DEFINE S == {q \in Requests \ {r} : pc[q] \notin Answers}
<1>1. Step(r, "answered", S) /\ S \in SUBSET Requests /\ "answered" \in RequestPcs
  BY DEF Wrote, RequestPcs, Answers
<1>2. /\ \A q \in Requests \ {r} : pc'[q] = pc[q] /\ job'[q] = job[q]
      /\ pc' \in [Requests -> RequestPcs] /\ job' \in [Requests -> Jobs]
      /\ disturbed' \subseteq Requests /\ pc'[r] = "answered"
      /\ \A q \in Requests \ {r} : q \in S => q \in disturbed'
  <2> HIDE DEF S
  <2> QED
    BY <1>1, StepOthers DEF Inv
<1>3. ASSUME NEW q \in Requests PROVE JobOK(q)' /\ FreshOK(q)'
  <2>1. CASE q = r
    BY <1>2, <2>1, Answered DEF Answers
  <2>2. CASE q # r
    BY <1>2, <2>2, Overtaken DEF Inv, RequestsInv
  <2> QED
    BY <2>1, <2>2
<1> QED
  BY <1>2, <1>3 DEF RequestsInv

-----------------------------------------------------------------------------
(* One lemma per group of actions.                                          *)

LEMMA JobTyped ==
  ASSUME NEW op \in Operations, NEW u \in Users \cup {None}, NEW t \in Tenants \cup {None},
         NEW v \in Users \cup {None}, NEW e \in Emails \cup {Keep}, NEW ro \in Roles \cup {Keep}
  PROVE  /\ Job(op, u, t, v, e, ro) \in Jobs
         /\ Job(op, u, t, v, e, ro).op = op /\ Job(op, u, t, v, e, ro).by = u
         /\ Job(op, u, t, v, e, ro).scope = t /\ Job(op, u, t, v, e, ro).target = v
         /\ Job(op, u, t, v, e, ro).email = e /\ Job(op, u, t, v, e, ro).role = ro
  BY DEF Job, Jobs

LEMMA RegisterStep ==
  ASSUME Inv, NEW r \in Requests, NEW t \in Tenants, NEW e \in Emails, NEW ro \in Roles,
         Register(r, t, e, ro)
  PROVE  Inv'
<1> DEFINE j == Job("register", None, t, None, e, ro)
           l == IF t \in tenants THEN "answered" ELSE "write"
<1>1. /\ j \in Jobs /\ j.op = "register" /\ j.scope = t /\ j.email = e /\ j.role = ro
  BY JobTyped DEF Operations
<1>2. l \in RequestPcs /\ Start(r, j, l)
  BY DEF Register, RequestPcs, Answers
<1>3. /\ pc'[r] = l /\ (l \notin Answers => job'[r] = j)
      /\ UNCHANGED <<rowVars, disturbed, loose>>
  <2> HIDE DEF j, l
  <2> QED
    BY <1>1, <1>2, StartOthers DEF Inv
<1>4. CASE t \in tenants
  <2>1. JobOK(r)' /\ FreshOK(r)'
    BY <1>3, <1>4, Answered DEF Answers
  <2> HIDE DEF j, l
  <2> QED
    BY <1>1, <1>2, <2>1, StartKeeps
<1>5. CASE t \notin tenants
  <2>1. pc'[r] = "write" /\ job'[r] = j
    BY <1>3, <1>5 DEF Answers
  <2> HIDE DEF j
  <2>2. JobOK(r)'
    BY <1>1, <2>1 DEF JobOK, OnMember
  <2>3. FreshOK(r)'
    BY <1>1, <1>3, <1>5, <2>1 DEF FreshOK, At, OnMember, rowVars
  <2> HIDE DEF l
  <2> QED
    BY <1>1, <1>2, <2>2, <2>3, StartKeeps
<1> QED
  BY <1>4, <1>5

LEMMA LoginStep ==
  ASSUME Inv, NEW r \in Requests, NEW u \in Users, Login(r, u)
  PROVE  Inv'
<1>1. PICK l \in {"answered", "refused"} : Goto(r, l)
  BY DEF Login
<1>2. l \in RequestPcs /\ l \in Answers /\ UNCHANGED <<rowVars, loose>>
  BY DEF Login, RequestPcs, Answers
<1> QED
  BY <1>1, <1>2, GotoKeeps

LEMMA AddMemberStep ==
  ASSUME Inv, NEW r \in Requests, NEW u \in Users, NEW e \in Emails, NEW ro \in Roles,
         AddMember(r, u, e, ro)
  PROVE  Inv'
<1> DEFINE j == Job("add", u, member[u], None, e, ro)
<1>1. member[u] \in Tenants /\ member[u] \in tenants
  BY DEF AddMember, Allowed, Authenticated, Inv, TypeOK, RowsInv
<1>2. /\ j \in Jobs /\ j.op = "add" /\ j.scope = member[u] /\ j.email = e /\ j.role = ro
  BY <1>1 DEF Job, Jobs, Operations
<1>3. "email" \in RequestPcs /\ "email" \notin Answers /\ Start(r, j, "email")
  BY DEF AddMember, RequestPcs, Answers
<1> HIDE DEF j
<1>4. pc'[r] = "email" /\ job'[r] = j /\ UNCHANGED <<rowVars, disturbed, loose>>
  BY <1>2, <1>3, StartOthers DEF Inv
<1>5. JobOK(r)' /\ FreshOK(r)'
  BY <1>1, <1>2, <1>4 DEF JobOK, FreshOK, At, OnMember, rowVars
<1> QED
  BY <1>2, <1>3, <1>5, StartKeeps

LEMMA RemoveMemberStep ==
  ASSUME Inv, NEW r \in Requests, NEW u \in Users, NEW v \in Users, RemoveMember(r, u, v)
  PROVE  Inv'
<1> DEFINE j == Job("remove", u, member[u], v, Keep, Keep)
           l == IF v = u THEN "answered" ELSE "find"
<1>1. member[u] \in Tenants /\ member[u] \in tenants
  BY DEF RemoveMember, Allowed, Authenticated, Inv, TypeOK, RowsInv
<1>2. /\ j \in Jobs /\ j.op = "remove" /\ j.scope = member[u] /\ j.target = v /\ j.by = u
  BY <1>1 DEF Job, Jobs, Operations
<1>3. l \in RequestPcs /\ Start(r, j, l)
  BY DEF RemoveMember, RequestPcs, Answers
<1>4. pc'[r] = l /\ (l \notin Answers => job'[r] = j) /\ UNCHANGED rowVars
  <2> HIDE DEF j, l
  <2> QED
    BY <1>2, <1>3, StartOthers DEF Inv
<1>5. JobOK(r)' /\ FreshOK(r)'
  <2>1. CASE v = u
    BY <1>4, <2>1, Answered DEF Answers
  <2>2. CASE v # u
    <3>1. pc'[r] = "find" /\ job'[r] = j
      BY <1>4, <2>2 DEF Answers
    <3> HIDE DEF j
    <3> QED
      BY <1>1, <1>2, <1>4, <2>2, <3>1 DEF JobOK, FreshOK, At, OnMember, rowVars
  <2> QED
    BY <2>1, <2>2
<1> HIDE DEF j, l
<1> QED
  BY <1>2, <1>3, <1>5, StartKeeps

LEMMA UpdateMemberStep ==
  ASSUME Inv, NEW r \in Requests, NEW u \in Users, NEW v \in Users,
         NEW e \in Emails \cup {Keep}, NEW ro \in Roles \cup {Keep},
         UpdateMember(r, u, v, e, ro)
  PROVE  Inv'
<1> DEFINE j == Job("update", u, member[u], v, e, ro)
<1>1. member[u] \in Tenants /\ member[u] \in tenants
  BY DEF UpdateMember, Allowed, Authenticated, Inv, TypeOK, RowsInv
<1>2. /\ j \in Jobs /\ j.op = "update" /\ j.scope = member[u] /\ j.target = v /\ j.by = u
  BY <1>1 DEF Job, Jobs, Operations
<1>3. "find" \in RequestPcs /\ "find" \notin Answers /\ Start(r, j, "find")
  BY DEF UpdateMember, RequestPcs, Answers
<1> HIDE DEF j
<1>4. pc'[r] = "find" /\ job'[r] = j /\ UNCHANGED <<rowVars, disturbed, loose>>
  BY <1>2, <1>3, StartOthers DEF Inv
<1>5. JobOK(r)' /\ FreshOK(r)'
  BY <1>1, <1>2, <1>4 DEF JobOK, FreshOK, At, OnMember, rowVars
<1> QED
  BY <1>2, <1>3, <1>5, StartKeeps

LEMMA UpdateProfileStep ==
  ASSUME Inv, NEW r \in Requests, NEW u \in Users, NEW e \in Emails \cup {Keep},
         UpdateProfile(r, u, e)
  PROVE  Inv'
<1> DEFINE j == Job("profile", u, member[u], u, e, Keep)
           l == IF e = Keep THEN "write" ELSE "email"
<1>1. member[u] \in Tenants /\ member[u] \in tenants /\ member[u] # None /\ u \in used
  BY AccountsAssumption
  DEF AccountsAssumption, UpdateProfile, Authenticated, Inv, TypeOK, RowsInv
<1>2. /\ j \in Jobs /\ j.op = "profile" /\ j.scope = member[u] /\ j.target = u /\ j.by = u
      /\ j.email = e /\ j.role = Keep
  BY <1>1 DEF Job, Jobs, Operations
<1>3. l \in RequestPcs /\ l \notin Answers /\ Start(r, j, l)
  BY DEF UpdateProfile, RequestPcs, Answers
<1>4. pc'[r] = l /\ job'[r] = j /\ UNCHANGED <<rowVars, disturbed, loose>>
  <2> HIDE DEF j, l
  <2> QED
    BY <1>2, <1>3, StartOthers DEF Inv
<1>5. (l = "write" /\ e = Keep) \/ (l = "email" /\ e \in Emails)
  OBVIOUS
<1> HIDE DEF j, l
<1>6. JobOK(r)'
  BY <1>1, <1>2, <1>4, <1>5 DEF JobOK, OnMember, rowVars
<1>7. FreshOK(r)'
  BY <1>1, <1>2, <1>4, <1>5 DEF FreshOK, At, OnMember, rowVars
<1> QED
  BY <1>2, <1>3, <1>6, <1>7, StartKeeps

\* A request that goes on carries what it did.
LEMMA GotoFacts ==
  ASSUME Inv, NEW r \in Requests, NEW l \in {"find", "email", "write"}, Goto(r, l)
  PROVE  /\ pc'[r] = l /\ job'[r] = job[r] /\ (r \in disturbed => r \in disturbed')
         /\ l \in RequestPcs /\ l \notin Answers
<1>1. l \in RequestPcs /\ l \notin Answers
  BY DEF RequestPcs, Answers
<1> QED
  BY <1>1, StepOthers DEF Inv, Goto

LEMMA GivenUp ==
  ASSUME Inv, NEW r \in Requests, NEW l \in Answers, Goto(r, l), UNCHANGED <<rowVars, loose>>
  PROVE  Inv'
<1>1. l \in RequestPcs
  BY DEF RequestPcs
<1> QED
  BY <1>1, GotoKeeps

LEMMA AddMemberCheckStep ==
  ASSUME Inv, NEW r \in Requests, AddMemberCheck(r)
  PROVE  Inv'
<1>0. UNCHANGED <<rowVars, loose>> /\ At(r, "add", "email")
  BY DEF AddMemberCheck, Check
<1>1. CASE Taken(job[r].scope, job[r].email, None)
  BY <1>0, <1>1, GivenUp DEF AddMemberCheck, Check, Answers
<1>2. CASE ~Taken(job[r].scope, job[r].email, None)
  <2>1. Goto(r, "write")
    BY <1>2 DEF AddMemberCheck, Check
  <2>2. /\ pc'[r] = "write" /\ job'[r] = job[r]
        /\ "write" \in RequestPcs /\ "write" \notin Answers
    BY <2>1, GotoFacts
  <2>3. JobOK(r) /\ pc[r] \notin Answers
    BY <1>0 DEF Inv, RequestsInv, At, Answers
  <2>4. JobOK(r)'
    BY <1>0, <2>2, <2>3 DEF JobOK, At, OnMember, rowVars
  <2>5. Taken(job[r].scope, job[r].email, None)' <=> Taken(job[r].scope, job[r].email, None)
    BY <1>0, <2>2 DEF Taken, rowVars
  <2>6. FreshOK(r)'
    BY <1>0, <1>2, <2>2, <2>5 DEF FreshOK, At, OnMember
  <2> QED
    BY <1>0, <2>1, <2>2, <2>4, <2>6, GotoKeeps
<1> QED
  BY <1>1, <1>2

LEMMA RemoveMemberFindStep ==
  ASSUME Inv, NEW r \in Requests, RemoveMemberFind(r)
  PROVE  Inv'
<1>0. UNCHANGED <<rowVars, loose>> /\ At(r, "remove", "find")
  BY DEF RemoveMemberFind, Check
<1>1. CASE member[job[r].target] # job[r].scope
  BY <1>0, <1>1, GivenUp DEF RemoveMemberFind, Check, Answers
<1>2. CASE member[job[r].target] = job[r].scope
  <2>1. Goto(r, "write")
    BY <1>2 DEF RemoveMemberFind, Check
  <2>2. /\ pc'[r] = "write" /\ job'[r] = job[r]
        /\ "write" \in RequestPcs /\ "write" \notin Answers
    BY <2>1, GotoFacts
  <2>3. JobOK(r) /\ pc[r] \notin Answers
    BY <1>0 DEF Inv, RequestsInv, At, Answers
  <2>4. /\ job[r].target \in Users /\ job[r].target \in used
        /\ member[job[r].target] # None
    BY <1>0, <1>2, <2>3, AccountsAssumption
    DEF AccountsAssumption, JobOK, At, OnMember, Inv, RowsInv
  <2>5. JobOK(r)'
    BY <1>0, <1>2, <2>2, <2>3, <2>4 DEF JobOK, At, OnMember, rowVars
  <2>6. FreshOK(r)'
    BY <1>0, <2>2, <2>4 DEF FreshOK, At, OnMember, rowVars
  <2> QED
    BY <1>0, <2>1, <2>2, <2>5, <2>6, GotoKeeps
<1> QED
  BY <1>1, <1>2

LEMMA UpdateMemberFindStep ==
  ASSUME Inv, NEW r \in Requests, UpdateMemberFind(r)
  PROVE  Inv'
<1>0. UNCHANGED <<rowVars, loose>> /\ At(r, "update", "find")
  BY DEF UpdateMemberFind
<1>1. CASE member[job[r].target] # job[r].scope
  <2>1. Goto(r, "answered") /\ "answered" \in Answers
    BY <1>1 DEF UpdateMemberFind, Answers
  <2> QED
    BY <1>0, <2>1, GivenUp
<1>2. CASE member[job[r].target] = job[r].scope
  <2>1. PICK l \in {"email", "write"} : Goto(r, l) /\ (l = "write" <=> job[r].email = Keep)
    BY <1>2 DEF UpdateMemberFind
  <2>2. /\ pc'[r] = l /\ job'[r] = job[r] /\ l \in RequestPcs /\ l \notin Answers
    BY <2>1, GotoFacts
  <2>3. JobOK(r) /\ pc[r] \notin Answers
    BY <1>0 DEF Inv, RequestsInv, At, Answers
  <2>4. /\ job[r].target \in Users /\ job[r].target \in used
        /\ member[job[r].target] # None
    BY <1>0, <1>2, <2>3, AccountsAssumption
    DEF AccountsAssumption, JobOK, At, OnMember, Inv, RowsInv
  <2>e. job[r].email \in Emails \cup {Keep}
    BY DEF Inv, TypeOK, Jobs
  <2>5. JobOK(r)'
    BY <1>0, <1>2, <2>1, <2>2, <2>3, <2>4, <2>e DEF JobOK, At, OnMember, rowVars
  <2>6. FreshOK(r)'
    BY <1>0, <2>1, <2>2, <2>4 DEF FreshOK, At, OnMember, rowVars
  <2> QED
    BY <1>0, <2>1, <2>2, <2>5, <2>6, GotoKeeps
<1> QED
  BY <1>1, <1>2

LEMMA EmailCheckStep ==
  ASSUME Inv, NEW r \in Requests, UpdateMemberCheck(r) \/ UpdateProfileCheck(r)
  PROVE  Inv'
<1>0. /\ UNCHANGED <<rowVars, loose>>
      /\ Goto(r, "answered") \/ Goto(r, "write")
      /\ At(r, "update", "email") \/ At(r, "profile", "email")
  BY DEF UpdateMemberCheck, UpdateProfileCheck, Check
<1>1. CASE Goto(r, "answered")
  BY <1>0, <1>1, GivenUp DEF Answers
<1>2. CASE Goto(r, "write") /\ ~Goto(r, "answered")
  <2>1. /\ pc'[r] = "write" /\ job'[r] = job[r]
        /\ (r \in disturbed => r \in disturbed')
        /\ "write" \in RequestPcs /\ "write" \notin Answers
    BY <1>2, GotoFacts
  <2>2. JobOK(r) /\ FreshOK(r) /\ pc[r] \notin Answers
    BY <1>0 DEF Inv, RequestsInv, At, Answers
  <2>3. JobOK(r)'
    BY <1>0, <2>1, <2>2 DEF JobOK, At, OnMember, rowVars
  <2>4. r \notin disturbed => member[job[r].target] # None
    BY <1>0, <2>2 DEF FreshOK, At, OnMember
  <2>5. /\ At(r, "update", "email") => ~Taken(job[r].scope, job[r].email, job[r].target)
        /\ At(r, "profile", "email") => ~TakenAnywhere(job[r].email, job[r].target)
    BY <1>2 DEF UpdateMemberCheck, UpdateProfileCheck, Check, At
  <2>6. /\ Taken(job[r].scope, job[r].email, job[r].target)'
             <=> Taken(job[r].scope, job[r].email, job[r].target)
        /\ TakenAnywhere(job[r].email, job[r].target)'
             <=> TakenAnywhere(job[r].email, job[r].target)
    BY <1>0, <2>1 DEF Taken, TakenAnywhere, rowVars
  <2>7. FreshOK(r)'
    BY <1>0, <2>1, <2>4, <2>5, <2>6 DEF FreshOK, At, OnMember, rowVars
  <2> QED
    BY <1>0, <1>2, <2>1, <2>3, <2>7, GotoKeeps
<1> QED
  BY <1>0, <1>1, <1>2

\* The request fails: nothing is written.
LEMMA FailStep ==
  ASSUME Inv, NEW r \in Requests, Fails(r)
  PROVE  Inv'
<1>1. Goto(r, "error") /\ "error" \in Answers /\ UNCHANGED <<rowVars, loose>>
  BY DEF Fails, Answers
<1> QED
  BY <1>1, GivenUp

\* A new user: nobody of the tenant has the email.
LEMMA InsertStep ==
  ASSUME Inv, NEW r \in Requests, NEW u \in Users \ used, Insert(r, u),
         pc[r] = "write", job[r].op \in {"register", "add"},
         tenants \subseteq tenants', tenants' \subseteq Tenants, job[r].scope \in tenants',
         ~Taken(job[r].scope, job[r].email, None)
  PROVE  Inv'
<1> DEFINE t == job[r].scope
           e == job[r].email
           ro == job[r].role
<1>1. t \in Tenants /\ e \in Emails /\ ro \in Roles
  BY DEF Inv, RequestsInv, JobOK, Answers
<1>2. member[u] = None
  BY DEF Inv, RowsInv
<1>3. /\ member' = [member EXCEPT ![u] = t] /\ email' = [email EXCEPT ![u] = e]
      /\ role' = [role EXCEPT ![u] = ro] /\ used' = used \cup {u}
      /\ loose' = loose \cup {u} /\ Wrote(r)
  BY DEF Insert
<1>f. \A v \in Users : member[v] = t => email[v] # e
  BY AccountsAssumption DEF AccountsAssumption, Taken
<1> HIDE DEF t, e, ro
<1>4. /\ member \in [Users -> Tenants \cup {None}] /\ email \in [Users -> Emails \cup {None}]
      /\ role \in [Users -> Roles \cup {"none"}] /\ used \subseteq Users /\ loose \subseteq Users
      /\ \A v \in Users : member[v] = None <=> email[v] = None /\ role[v] = "none"
  BY DEF Inv, TypeOK
<1>5. \A v \in used : member'[v] \in {None, member[v]}
  BY <1>3, <1>4
<1>6. used \subseteq used'
  BY <1>3
<1>7. /\ RequestsInv' /\ pc' \in [Requests -> RequestPcs] /\ job' \in [Requests -> Jobs]
      /\ disturbed' \subseteq Requests
  BY <1>3, <1>5, <1>6, WroteKeeps
<1>8. t # None /\ e # None /\ ro # "none"
  BY <1>1, AccountsAssumption DEF AccountsAssumption
<1>9. /\ member' \in [Users -> Tenants \cup {None}] /\ email' \in [Users -> Emails \cup {None}]
      /\ role' \in [Users -> Roles \cup {"none"}] /\ used' \subseteq Users /\ loose' \subseteq Users
  BY <1>1, <1>3, <1>4
<1>10. \A v \in Users : member'[v] = None <=> email'[v] = None /\ role'[v] = "none"
  BY <1>3, <1>4, <1>8
<1>11. TypeOK'
  BY <1>7, <1>9, <1>10 DEF TypeOK
<1>12. \A v \in Users : member'[v] # None => v \in used' /\ member'[v] \in tenants'
  BY <1>3, <1>4 DEF Inv, RowsInv, t
<1>13. ASSUME NEW v \in Users, NEW w \in Users \ {v},
              member'[v] # None, member'[w] # None, email'[v] = email'[w]
       PROVE  member'[v] # member'[w] /\ (v \in loose' \/ w \in loose')
  <2>1. CASE v = u
    BY <1>3, <1>4, <1>13, <1>f, <2>1
  <2>2. CASE w = u
    BY <1>3, <1>4, <1>13, <1>f, <2>2
  <2>3. CASE v # u /\ w # u
    BY <1>3, <1>4, <1>13, <2>3 DEF Inv, RowsInv
  <2> QED
    BY <2>1, <2>2, <2>3
<1> QED
  BY <1>7, <1>11, <1>12, <1>13 DEF Inv, RowsInv

LEMMA CreateTenantStep ==
  ASSUME Inv, NEW r \in Requests, CreateTenant(r)
  PROVE  Inv'
<1>1. CASE Fails(r)
  BY <1>1, FailStep
<1>2. CASE ~Fails(r)
  <2>1. PICK u \in Users \ used : Insert(r, u)
    BY <1>2 DEF CreateTenant
  <2>2. /\ pc[r] = "write" /\ job[r].op = "register" /\ job[r].scope \notin tenants
        /\ tenants' = tenants \cup {job[r].scope}
    BY <1>2 DEF CreateTenant, At
  <2>3. job[r].scope \in Tenants /\ tenants \subseteq Tenants
    BY <2>2 DEF Inv, TypeOK, RequestsInv, JobOK, Answers
  <2>4. ~Taken(job[r].scope, job[r].email, None)
    BY <2>2, <2>3, AccountsAssumption DEF AccountsAssumption, Taken, Inv, RowsInv
  <2> QED
    BY <2>1, <2>2, <2>3, <2>4, InsertStep
<1> QED
  BY <1>1, <1>2

LEMMA CreateMemberStep ==
  ASSUME Inv, NEW r \in Requests, CreateMember(r)
  PROVE  Inv'
<1>1. CASE Fails(r)
  BY <1>1, FailStep
<1>2. CASE ~Fails(r)
  <2>1. PICK u \in Users \ used : Insert(r, u)
    BY <1>2 DEF CreateMember
  <2>2. /\ pc[r] = "write" /\ job[r].op = "add" /\ tenants' = tenants
        /\ ~Taken(job[r].scope, job[r].email, None)
    BY <1>2 DEF CreateMember, At
  <2>3. job[r].scope \in tenants /\ tenants \subseteq Tenants
    BY <2>2 DEF Inv, TypeOK, RequestsInv, JobOK, Answers
  <2> QED
    BY <2>1, <2>2, <2>3, InsertStep
<1> QED
  BY <1>1, <1>2

LEMMA DeleteMemberStep ==
  ASSUME Inv, NEW r \in Requests, DeleteMember(r)
  PROVE  Inv'
<1>1. CASE Fails(r)
  BY <1>1, FailStep
<1>2. CASE ~Fails(r)
  <2> DEFINE u == job[r].target
  <2>1. u \in Users
    BY DEF DeleteMember, At, Inv, RequestsInv, JobOK, Answers, OnMember
  <2>2. /\ member' = [member EXCEPT ![u] = None] /\ email' = [email EXCEPT ![u] = None]
        /\ role' = [role EXCEPT ![u] = "none"] /\ loose' = loose \ {u}
        /\ Wrote(r) /\ UNCHANGED <<tenants, used>>
    BY <1>2 DEF DeleteMember
  <2> HIDE DEF u
  <2>3. /\ member \in [Users -> Tenants \cup {None}] /\ email \in [Users -> Emails \cup {None}]
        /\ role \in [Users -> Roles \cup {"none"}] /\ used \subseteq Users /\ loose \subseteq Users
        /\ \A v \in Users : member[v] = None <=> email[v] = None /\ role[v] = "none"
    BY DEF Inv, TypeOK
  <2>4. /\ RequestsInv' /\ pc' \in [Requests -> RequestPcs] /\ job' \in [Requests -> Jobs]
        /\ disturbed' \subseteq Requests
    BY <2>1, <2>2, <2>3, WroteKeeps
  <2>5. TypeOK'
    <3>1. /\ member' \in [Users -> Tenants \cup {None}] /\ email' \in [Users -> Emails \cup {None}]
          /\ role' \in [Users -> Roles \cup {"none"}]
      BY <2>1, <2>2, <2>3
    <3>2. \A v \in Users : member'[v] = None <=> email'[v] = None /\ role'[v] = "none"
      BY <2>1, <2>2, <2>3
    <3> QED
      BY <2>2, <2>4, <3>1, <3>2 DEF Inv, TypeOK
  <2>6. RowsInv'
    BY <2>1, <2>2, <2>3 DEF Inv, RowsInv
  <2> QED
    BY <2>4, <2>5, <2>6 DEF Inv
<1> QED
  BY <1>1, <1>2

\* What a successful update did, and that the email it sets is free.
LEMMA UpdateUserFacts ==
  ASSUME Inv, NEW r \in Requests, UpdateUser(r), ~Fails(r), NEW u, u = job[r].target
  PROVE  /\ pc[r] = "write" /\ job[r].op \in {"update", "profile"}
         /\ u \in Users /\ member[u] # None /\ member[u] = job[r].scope /\ Wrote(r)
         /\ email' = [email EXCEPT ![u] = IF job[r].email = Keep THEN email[u] ELSE job[r].email]
         /\ role' = [role EXCEPT ![u] = IF job[r].role = Keep THEN role[u] ELSE job[r].role]
         /\ UNCHANGED <<tenants, member, used>>
         /\ job[r].email # Keep => /\ \A v \in Users \ {u} :
                                        email[v] = job[r].email => member[v] # member[u]
                                   /\ \/ u \in loose' /\ loose' = loose \cup {u}
                                      \/ /\ loose' = loose \ {u}
                                         /\ \A v \in Users \ {u} :
                                              email[v] = job[r].email => member[v] = None
         /\ job[r].email = Keep => loose' = loose
         /\ job[r].op = "profile" => job[r].role = Keep
<1>1. pc[r] = "write" /\ job[r].op \in {"update", "profile"}
  BY DEF UpdateUser, At
<1>2. JobOK(r) /\ FreshOK(r)
  BY DEF Inv, RequestsInv
<1>3. /\ u \in Users /\ member[u] \in {None, job[r].scope}
      /\ job[r].op = "profile" => job[r].role = Keep
  BY <1>1, <1>2 DEF JobOK, OnMember, Answers
<1>4. /\ member[u] # None /\ ~(job[r].email # Keep /\ Taken(member[u], job[r].email, u))
      /\ email' = IF job[r].email = Keep THEN email ELSE [email EXCEPT ![u] = job[r].email]
      /\ role' = IF job[r].role = Keep THEN role ELSE [role EXCEPT ![u] = job[r].role]
      /\ loose' = IF job[r].email = Keep THEN loose
                  ELSE IF job[r].op = "profile" /\ r \notin disturbed THEN loose \ {u}
                  ELSE loose \cup {u}
      /\ Wrote(r) /\ UNCHANGED <<tenants, member, used>>
  BY DEF UpdateUser
<1>5. /\ email' = [email EXCEPT ![u] = IF job[r].email = Keep THEN email[u] ELSE job[r].email]
      /\ role' = [role EXCEPT ![u] = IF job[r].role = Keep THEN role[u] ELSE job[r].role]
  BY <1>3, <1>4 DEF Inv, TypeOK
<1>6. ASSUME job[r].email # Keep
      PROVE  \A v \in Users \ {u} : email[v] = job[r].email => member[v] # member[u]
  BY <1>4, <1>6 DEF Taken
<1>7. ASSUME job[r].email # Keep
      PROVE  \/ u \in loose' /\ loose' = loose \cup {u}
             \/ /\ loose' = loose \ {u}
                /\ \A v \in Users \ {u} : email[v] = job[r].email => member[v] = None
  <2>1. CASE job[r].op = "profile" /\ r \notin disturbed
    <3>1. ~TakenAnywhere(job[r].email, u)
      BY <1>1, <1>2, <1>7, <2>1 DEF FreshOK, At
    <3> QED
      BY <1>4, <1>7, <2>1, <3>1 DEF TakenAnywhere
  <2>2. CASE ~(job[r].op = "profile" /\ r \notin disturbed)
    BY <1>4, <1>7, <2>2
  <2> QED
    BY <2>1, <2>2
<1> QED
  BY <1>1, <1>3, <1>4, <1>5, <1>6, <1>7

LEMMA UpdateUserStep ==
  ASSUME Inv, NEW r \in Requests, UpdateUser(r)
  PROVE  Inv'
<1>1. CASE Fails(r)
  BY <1>1, FailStep
<1>2. CASE ~Fails(r)
  <2> DEFINE u == job[r].target
             e == IF job[r].email = Keep THEN email[u] ELSE job[r].email
             ro == IF job[r].role = Keep THEN role[u] ELSE job[r].role
  <2>1. /\ u \in Users /\ member[u] # None /\ Wrote(r)
        /\ email' = [email EXCEPT ![u] = e] /\ role' = [role EXCEPT ![u] = ro]
        /\ UNCHANGED <<tenants, member, used>>
    BY <1>2, UpdateUserFacts
  <2>2. /\ job[r].email # Keep => /\ e = job[r].email
                                  /\ \A v \in Users \ {u} : email[v] = e => member[v] # member[u]
                                  /\ \/ u \in loose' /\ loose' = loose \cup {u}
                                     \/ /\ loose' = loose \ {u}
                                        /\ \A v \in Users \ {u} : email[v] = e => member[v] = None
        /\ job[r].email = Keep => loose' = loose /\ e = email[u]
    BY <1>2, UpdateUserFacts
  <2>3. /\ member \in [Users -> Tenants \cup {None}] /\ email \in [Users -> Emails \cup {None}]
        /\ role \in [Users -> Roles \cup {"none"}] /\ used \subseteq Users /\ loose \subseteq Users
        /\ \A v \in Users : member[v] = None <=> email[v] = None /\ role[v] = "none"
        /\ job[r].email \in Emails \cup {Keep} /\ job[r].role \in Roles \cup {Keep}
    BY DEF Inv, TypeOK, Jobs
  <2>4. e \in Emails \cup {None} /\ ro \in Roles \cup {"none"}
    BY <2>1, <2>3
  <2>5. e # None \/ ro # "none"
    BY <2>1, <2>3, AccountsAssumption DEF AccountsAssumption
  <2> HIDE DEF u, e, ro
  <2>6. /\ RequestsInv' /\ pc' \in [Requests -> RequestPcs] /\ job' \in [Requests -> Jobs]
        /\ disturbed' \subseteq Requests
    BY <2>1, <2>3, WroteKeeps
  <2>7. TypeOK'
    <3>1. /\ email' \in [Users -> Emails \cup {None}] /\ role' \in [Users -> Roles \cup {"none"}]
          /\ loose' \subseteq Users
      BY <2>1, <2>2, <2>3, <2>4
    <3>2. \A v \in Users : member'[v] = None <=> email'[v] = None /\ role'[v] = "none"
      BY <2>1, <2>3, <2>5
    <3> QED
      BY <2>1, <2>6, <3>1, <3>2 DEF Inv, TypeOK
  <2>8. ASSUME NEW v \in Users, NEW w \in Users \ {v},
               member'[v] # None, member'[w] # None, email'[v] = email'[w]
        PROVE  member'[v] # member'[w] /\ (v \in loose' \/ w \in loose')
    <3>1. CASE job[r].email = Keep
      BY <2>1, <2>2, <2>3, <2>8, <3>1 DEF Inv, RowsInv
    <3>2. CASE job[r].email # Keep /\ v = u
      BY <2>1, <2>2, <2>3, <2>8, <3>2
    <3>3. CASE job[r].email # Keep /\ w = u
      BY <2>1, <2>2, <2>3, <2>8, <3>3
    <3>4. CASE job[r].email # Keep /\ v # u /\ w # u
      BY <2>1, <2>2, <2>3, <2>8, <3>4 DEF Inv, RowsInv
    <3> QED
      BY <3>1, <3>2, <3>3, <3>4
  <2>9. RowsInv'
    BY <2>1, <2>8 DEF Inv, RowsInv
  <2> QED
    BY <2>6, <2>7, <2>9 DEF Inv
<1> QED
  BY <1>1, <1>2

-----------------------------------------------------------------------------
(* The specification.                                                       *)

LEMMA InvInit == Init => Inv
<1> SUFFICES ASSUME Init PROVE Inv
  OBVIOUS
<1>1. NoJob \in Jobs
  BY DEF NoJob, Job, Jobs, Operations
<1>2. TypeOK
  BY <1>1 DEF Init, TypeOK, RequestPcs, Answers
<1>3. RequestsInv
  BY DEF Init, RequestsInv, JobOK, FreshOK, At, Answers
<1>4. RowsInv
  BY DEF Init, RowsInv
<1> QED
  BY <1>2, <1>3, <1>4 DEF Inv

LEMMA InvStep == Inv /\ [Next]_vars => Inv'
<1> SUFFICES ASSUME Inv, [Next]_vars PROVE Inv'
  OBVIOUS
<1>1. CASE UNCHANGED vars
  <2>1. TypeOK'
    BY <1>1 DEF Inv, TypeOK, vars, rowVars
  <2>2. RequestsInv'
    BY <1>1, Untouched DEF Inv, RequestsInv, vars
  <2>3. RowsInv'
    BY <1>1 DEF Inv, RowsInv, vars, rowVars
  <2> QED
    BY <2>1, <2>2, <2>3 DEF Inv
<1>2. CASE Next
  BY <1>2, RegisterStep, LoginStep, AddMemberStep, RemoveMemberStep, UpdateMemberStep,
     UpdateProfileStep, CreateTenantStep, AddMemberCheckStep, CreateMemberStep,
     RemoveMemberFindStep, DeleteMemberStep, UpdateMemberFindStep, EmailCheckStep,
     UpdateUserStep
  DEF Next
<1> QED
  BY <1>1, <1>2

\* Every variable keeps to its type; a field the dto leaves out is not written.
THEOREM TypeCorrect == Spec => []TypeOK
<1>1. Inv => TypeOK
  BY DEF Inv
<1> QED
  BY <1>1, InvInit, InvStep, PTL DEF Spec

-----------------------------------------------------------------------------
(* What changes rows.                                                       *)

LEMMA Writers ==
  ASSUME [Next]_vars
  PROVE  \/ UNCHANGED <<member, email, role>>
         \/ \E r \in Requests : \E u \in Users \ used : Insert(r, u)
         \/ \E r \in Requests : DeleteMember(r) /\ ~Fails(r)
         \/ \E r \in Requests : UpdateUser(r) /\ ~Fails(r)
<1> USE DEF rowVars
<1>1. CASE UNCHANGED vars
  BY <1>1 DEF vars
<1>2. ASSUME NEW r \in Requests, Fails(r) PROVE UNCHANGED <<member, email, role>>
  BY <1>2 DEF Fails
<1>3. ASSUME NEW r \in Requests, CreateTenant(r) \/ CreateMember(r), ~Fails(r)
      PROVE  \E u \in Users \ used : Insert(r, u)
  BY <1>3 DEF CreateTenant, CreateMember
<1>4. ASSUME NEW r \in Requests, NEW e \in Emails, NEW ro \in Roles,
             \/ \E t \in Tenants : Register(r, t, e, ro)
             \/ \E u \in Users : AddMember(r, u, e, ro)
      PROVE  UNCHANGED <<member, email, role>>
  BY <1>4 DEF Register, AddMember, Start
<1>5. ASSUME NEW r \in Requests, NEW u \in Users,
             \/ Login(r, u)
             \/ \E v \in Users : RemoveMember(r, u, v)
             \/ \E e \in Emails \cup {Keep} :
                  \/ UpdateProfile(r, u, e)
                  \/ \E v \in Users, ro \in Roles \cup {Keep} : UpdateMember(r, u, v, e, ro)
      PROVE  UNCHANGED <<member, email, role>>
  BY <1>5 DEF Login, RemoveMember, UpdateProfile, UpdateMember, Start
<1>6. ASSUME NEW r \in Requests,
             \/ AddMemberCheck(r) \/ RemoveMemberFind(r)
             \/ UpdateMemberFind(r) \/ UpdateMemberCheck(r) \/ UpdateProfileCheck(r)
      PROVE  UNCHANGED <<member, email, role>>
  BY <1>6 DEF AddMemberCheck, RemoveMemberFind, UpdateMemberFind, UpdateMemberCheck,
              UpdateProfileCheck, Check
<1> QED
  BY <1>1, <1>2, <1>3, <1>4, <1>5, <1>6 DEF Next

LEMMA WroteFacts ==
  ASSUME TypeOK, NEW r \in Requests, Wrote(r)
  PROVE  pc'[r] = "answered"
  BY DEF Wrote, Step, TypeOK

LEMMA DeleteFacts ==
  ASSUME Inv, NEW r \in Requests, DeleteMember(r), ~Fails(r), NEW u, u = job[r].target
  PROVE  /\ u \in Users /\ job[r].by # u /\ member[u] # None /\ member[u] = job[r].scope
         /\ pc[r] = "write" /\ job[r].op = "remove" /\ Wrote(r)
         /\ member' = [member EXCEPT ![u] = None] /\ email' = [email EXCEPT ![u] = None]
         /\ role' = [role EXCEPT ![u] = "none"] /\ UNCHANGED used
<1>1. pc[r] = "write" /\ job[r].op = "remove"
  BY DEF DeleteMember, At
<1>2. JobOK(r)
  BY DEF Inv, RequestsInv
<1> QED
  BY <1>1, <1>2 DEF DeleteMember, JobOK, OnMember, Answers

\* An inserted row is that of a new user: no other one changes.
LEMMA InsertFacts ==
  ASSUME Inv, NEW r \in Requests, NEW u \in Users \ used, Insert(r, u)
  PROVE  \A v \in Users : member[v] # None \/ v \in used =>
            member'[v] = member[v] /\ email'[v] = email[v] /\ role'[v] = role[v]
  BY DEF Insert, Inv, TypeOK, RowsInv

-----------------------------------------------------------------------------
(* The properties.                                                          *)

\* Rows of a tenant are written by requests of its own users only, and a user
\* that is gone does not return (auth.service.ts:111-166).
THEOREM RowsStayInTenant == Spec => TenantScope
<1>1. ASSUME Inv, [Next]_vars, NEW u \in used,
             member'[u] # member[u] \/ email'[u] # email[u] \/ role'[u] # role[u]
      PROVE  /\ member[u] # None
             /\ \E r \in Requests :
                  pc[r] = "write" /\ pc'[r] = "answered"
                    /\ job[r].target = u /\ job[r].scope = member[u]
  <2>0. u \in Users /\ TypeOK
    BY <1>1 DEF Inv, TypeOK
  <2>t. /\ member \in [Users -> Tenants \cup {None}] /\ email \in [Users -> Emails \cup {None}]
        /\ role \in [Users -> Roles \cup {"none"}]
    BY <2>0 DEF TypeOK
  <2>1. ASSUME NEW r \in Requests, NEW v \in Users \ used, Insert(r, v) PROVE FALSE
    BY <1>1, <2>0, <2>1, InsertFacts
  <2>2. CASE \E r \in Requests : DeleteMember(r) /\ ~Fails(r)
    <3>1. PICK r \in Requests : DeleteMember(r) /\ ~Fails(r)
      BY <2>2
    <3> DEFINE v == job[r].target
    <3>2. /\ v \in Users /\ member[v] # None /\ member[v] = job[r].scope
          /\ pc[r] = "write" /\ Wrote(r)
          /\ member' = [member EXCEPT ![v] = None] /\ email' = [email EXCEPT ![v] = None]
          /\ role' = [role EXCEPT ![v] = "none"]
      BY <1>1, <3>1, DeleteFacts
    <3> HIDE DEF v
    <3>3. v = u
      BY <1>1, <2>0, <2>t, <3>2
    <3>4. pc'[r] = "answered"
      BY <2>0, <3>2, WroteFacts
    <3> QED
      BY <3>2, <3>3, <3>4 DEF v
  <2>3. CASE \E r \in Requests : UpdateUser(r) /\ ~Fails(r)
    <3>1. PICK r \in Requests : UpdateUser(r) /\ ~Fails(r)
      BY <2>3
    <3> DEFINE v == job[r].target
               e == IF job[r].email = Keep THEN email[v] ELSE job[r].email
               ro == IF job[r].role = Keep THEN role[v] ELSE job[r].role
    <3>2. /\ v \in Users /\ member[v] # None /\ member[v] = job[r].scope
          /\ pc[r] = "write" /\ Wrote(r)
          /\ member' = member /\ email' = [email EXCEPT ![v] = e]
          /\ role' = [role EXCEPT ![v] = ro]
      BY <1>1, <3>1, UpdateUserFacts
    <3> HIDE DEF v, e, ro
    <3>3. v = u
      BY <1>1, <2>0, <2>t, <3>2
    <3>4. pc'[r] = "answered"
      BY <2>0, <3>2, WroteFacts
    <3> QED
      BY <3>2, <3>3, <3>4 DEF v
  <2> QED
    BY <1>1, <2>1, <2>2, <2>3, Writers
<1>2. Inv /\ [Next]_vars =>
        [\A u \in used :
           member'[u] # member[u] \/ email'[u] # email[u] \/ role'[u] # role[u] =>
             /\ member[u] # None
             /\ \E r \in Requests :
                  pc[r] = "write" /\ pc'[r] = "answered"
                    /\ job[r].target = u /\ job[r].scope = member[u]]_vars
  BY <1>1
<1> QED
  BY <1>2, InvInit, InvStep, PTL DEF Spec, TenantScope

\* A tenant loses its last ADMIN only to an ADMIN who demotes the own account or
\* to a request that has outlived its requester's role (auth.service.ts:111-147).
THEOREM TenantsKeepAnAdmin == Spec => AdminRemains
<1>1. ASSUME Inv, [Next]_vars, NEW t \in Tenants, HasAdmin(t), ~HasAdmin(t)'
      PROVE  \E r \in Requests :
               /\ pc[r] = "write" /\ pc'[r] = "answered" /\ job[r].scope = t
               /\ \/ job[r].op = "update" /\ job[r].target = job[r].by
                  \/ ~IsAdmin(job[r].by, t)
  <2>0. TypeOK /\ t # None
    BY <1>1, AccountsAssumption DEF AccountsAssumption, Inv
  <2>t. /\ member \in [Users -> Tenants \cup {None}] /\ role \in [Users -> Roles \cup {"none"}]
    BY <2>0 DEF TypeOK
  <2>a. PICK a \in Users : member[a] = t /\ role[a] = "ADMIN"
    BY <1>1 DEF HasAdmin, IsAdmin
  <2>b. \A b \in Users : ~(member'[b] = t /\ role'[b] = "ADMIN")
    BY <1>1 DEF HasAdmin, IsAdmin
  <2>1. ASSUME NEW r \in Requests, NEW v \in Users \ used, Insert(r, v) PROVE FALSE
    BY <1>1, <2>0, <2>a, <2>b, <2>1, InsertFacts
  <2>2. CASE \E r \in Requests : DeleteMember(r) /\ ~Fails(r)
    <3>1. PICK r \in Requests : DeleteMember(r) /\ ~Fails(r)
      BY <2>2
    <3> DEFINE v == job[r].target
               b == job[r].by
    <3>2. /\ v \in Users /\ b # v /\ member[v] = job[r].scope /\ pc[r] = "write" /\ Wrote(r)
          /\ member' = [member EXCEPT ![v] = None] /\ role' = [role EXCEPT ![v] = "none"]
      BY <1>1, <3>1, DeleteFacts
    <3>b. b \in Users
      BY <1>1, <3>1 DEF Inv, RequestsInv, JobOK, DeleteMember, At, Answers, OnMember
    <3> HIDE DEF v, b
    <3>3. a = v
      BY <2>t, <2>a, <2>b, <3>2
    <3>4. ~IsAdmin(b, t)
      BY <2>t, <2>b, <3>2, <3>b DEF IsAdmin
    <3>5. pc'[r] = "answered" /\ job[r].scope = t
      BY <2>0, <2>a, <3>2, <3>3, WroteFacts
    <3> QED
      BY <3>2, <3>4, <3>5 DEF b
  <2>3. CASE \E r \in Requests : UpdateUser(r) /\ ~Fails(r)
    <3>1. PICK r \in Requests : UpdateUser(r) /\ ~Fails(r)
      BY <2>3
    <3> DEFINE v == job[r].target
               b == job[r].by
               ro == IF job[r].role = Keep THEN role[v] ELSE job[r].role
    <3>2. /\ v \in Users /\ member[v] = job[r].scope /\ pc[r] = "write" /\ Wrote(r)
          /\ job[r].op \in {"update", "profile"} /\ (job[r].op = "profile" => ro = role[v])
          /\ member' = member /\ role' = [role EXCEPT ![v] = ro]
      BY <1>1, <3>1, UpdateUserFacts
    <3>b. b \in Users
      BY <1>1, <3>1 DEF Inv, RequestsInv, JobOK, UpdateUser, At, Answers, OnMember
    <3> HIDE DEF v, b, ro
    <3>3. a = v
      BY <2>t, <2>a, <2>b, <3>2
    <3>4. job[r].op = "update"
      BY <2>t, <2>a, <2>b, <3>2, <3>3
    <3>5. b = v \/ ~IsAdmin(b, t)
      BY <2>t, <2>b, <3>2, <3>b DEF IsAdmin
    <3>6. pc'[r] = "answered" /\ job[r].scope = t
      BY <2>0, <2>a, <3>2, <3>3, WroteFacts
    <3> QED
      BY <3>2, <3>4, <3>5, <3>6 DEF b, v
  <2>4. CASE UNCHANGED <<member, email, role>>
    BY <2>4, <2>a, <2>b
  <2> QED
    BY <1>1, <2>1, <2>2, <2>3, <2>4, Writers
<1>2. Inv /\ [Next]_vars =>
        [\A t \in Tenants :
           HasAdmin(t) /\ ~HasAdmin(t)' =>
             \E r \in Requests :
               /\ pc[r] = "write" /\ pc'[r] = "answered" /\ job[r].scope = t
               /\ \/ job[r].op = "update" /\ job[r].target = job[r].by
                  \/ ~IsAdmin(job[r].by, t)]_vars
  BY <1>1
<1> QED
  BY <1>2, InvInit, InvStep, PTL DEF Spec, AdminRemains

\* A step answers one request at most, and with an error or a refusal only
\* where the write failed or the login met another row.
LEMMA WhoMoves ==
  ASSUME Inv, [Next]_vars, NEW r \in Requests, NEW l \in {"error", "refused"},
         pc[r] # l, pc'[r] = l
  PROVE  \/ l = "error" /\ (CreateTenant(r) \/ CreateMember(r) \/ DeleteMember(r) \/ UpdateUser(r))
                        /\ Fails(r)
         \/ l = "refused" /\ \E u \in Users : Login(r, u)
<1>0. pc \in [Requests -> RequestPcs]
  BY DEF Inv, TypeOK
<1>1. CASE UNCHANGED vars
  BY <1>1 DEF vars
<1>2. ASSUME NEW q \in Requests, NEW k, NEW j, Start(q, j, k), k \notin {"error", "refused"}
      PROVE  FALSE
  BY <1>0, <1>2 DEF Start
<1>3. ASSUME NEW q \in Requests, NEW k, Goto(q, k), k \notin {"error", "refused"}
      PROVE  FALSE
  BY <1>0, <1>3 DEF Goto, Step
<1>4. ASSUME NEW q \in Requests, Wrote(q) PROVE FALSE
  BY <1>0, <1>4 DEF Wrote, Step
<1>5. ASSUME NEW q \in Requests, Fails(q) PROVE q = r /\ l = "error"
  BY <1>0, <1>5 DEF Fails, Goto, Step
<1>6. ASSUME NEW q \in Requests, NEW u \in Users, Login(q, u) PROVE q = r /\ l = "refused"
  <2>1. Goto(q, "answered") \/ Goto(q, "refused")
    BY <1>6 DEF Login
  <2>2. Goto(q, "refused")
    BY <1>3, <2>1
  <2> QED
    BY <1>0, <2>2 DEF Goto, Step
<1>7. ASSUME NEW q \in Requests, NEW e \in Emails, NEW ro \in Roles,
             \/ \E t \in Tenants : Register(q, t, e, ro)
             \/ \E u \in Users : AddMember(q, u, e, ro)
      PROVE  FALSE
  BY <1>2, <1>7 DEF Register, AddMember
<1>8. ASSUME NEW q \in Requests, NEW u \in Users,
             \/ \E v \in Users : RemoveMember(q, u, v)
             \/ \E e \in Emails \cup {Keep} :
                  \/ UpdateProfile(q, u, e)
                  \/ \E v \in Users, ro \in Roles \cup {Keep} : UpdateMember(q, u, v, e, ro)
      PROVE  FALSE
  BY <1>2, <1>8 DEF RemoveMember, UpdateProfile, UpdateMember
<1>9. ASSUME NEW q \in Requests,
             \/ AddMemberCheck(q) \/ RemoveMemberFind(q)
             \/ UpdateMemberFind(q) \/ UpdateMemberCheck(q) \/ UpdateProfileCheck(q)
      PROVE  FALSE
  <2>1. \E k \in {"answered", "email", "write"} : Goto(q, k)
    BY <1>9 DEF AddMemberCheck, RemoveMemberFind, UpdateMemberFind, UpdateMemberCheck,
                UpdateProfileCheck, Check
  <2> QED
    BY <1>3, <2>1
<1>10. ASSUME NEW q \in Requests,
              CreateTenant(q) \/ CreateMember(q) \/ DeleteMember(q) \/ UpdateUser(q)
       PROVE  Fails(q)
  BY <1>4, <1>10 DEF CreateTenant, CreateMember, DeleteMember, UpdateUser, Insert
<1> QED
  BY <1>1, <1>5, <1>6, <1>7, <1>8, <1>9, <1>10 DEF Next

\* A write that nobody has overtaken finds what its checks have found.
LEMMA FreshSucceeds ==
  ASSUME Inv, NEW r \in Requests, r \notin disturbed, Fails(r)
  PROVE  ~(CreateTenant(r) \/ CreateMember(r) \/ DeleteMember(r) \/ UpdateUser(r))
<1>0. FreshOK(r) /\ JobOK(r)
  BY DEF Inv, RequestsInv
<1>f. ~Wrote(r)
  BY DEF Fails, Wrote, Goto, Step, Inv, TypeOK
<1>1. ~CreateTenant(r)
  BY <1>0, <1>f DEF CreateTenant, FreshOK, At, Insert
<1>2. ~CreateMember(r)
  BY <1>0, <1>f DEF CreateMember, FreshOK, At, Insert
<1>3. ~DeleteMember(r)
  BY <1>0, <1>f DEF DeleteMember, FreshOK, At, OnMember
<1>4. ASSUME UpdateUser(r) PROVE FALSE
  <2> DEFINE u == job[r].target
             e == job[r].email
  <2>1. /\ pc[r] = "write" /\ job[r].op \in {"update", "profile"}
        /\ member[u] = None \/ (e # Keep /\ Taken(member[u], e, u))
    BY <1>4, <1>f DEF UpdateUser, At
  <2>2. member[u] # None /\ member[u] = job[r].scope
    BY <1>0, <2>1 DEF FreshOK, JobOK, OnMember, Answers
  <2>3. CASE job[r].op = "update"
    BY <1>0, <2>1, <2>2, <2>3 DEF FreshOK, At
  <2>4. CASE job[r].op = "profile"
    <3>1. e # Keep /\ Taken(member[u], e, u) /\ ~TakenAnywhere(e, u)
      BY <1>0, <2>1, <2>2, <2>4 DEF FreshOK, At
    <3> QED
      BY <2>2, <3>1 DEF Taken, TakenAnywhere
  <2> QED
    BY <2>1, <2>3, <2>4
<1> QED
  BY <1>1, <1>2, <1>3, <1>4

\* The check before each write (auth.service.ts:26, 80, 115, 125, 131, 151)
\* answers for the indexes of the database, unless another request wrote.
THEOREM OnlyRacesFail == Spec => ErrorsNeedARace
<1>1. ASSUME Inv, [Next]_vars, NEW r \in Requests, pc[r] # "error", pc'[r] = "error"
      PROVE  r \in disturbed
  BY <1>1, WhoMoves, FreshSucceeds
<1>2. Inv /\ [Next]_vars =>
        [\A r \in Requests : pc[r] # "error" /\ pc'[r] = "error" => r \in disturbed]_vars
  BY <1>1
<1> QED
  BY <1>2, InvInit, InvStep, PTL DEF Spec, ErrorsNeedARace

\* A login with the right password is refused only to somebody who shares the
\* email with a user of another tenant, where one of these two emails was not
\* compared with all others (auth.service.ts:59-67).
THEOREM RefusalsAreShared == Spec => LoginRefusals
<1>1. ASSUME Inv, NEW r \in Requests, NEW u \in Users, Login(r, u), pc'[r] = "refused"
      PROVE  \E v \in Users \ {u} :
               /\ member[v] \notin {None, member[u]} /\ email[v] = email[u]
               /\ u \in loose \/ v \in loose
  <2>1. PICK v \in Users : /\ member[v] # None /\ email[v] = email[u]
                           /\ Goto(r, IF v = u THEN "answered" ELSE "refused")
    BY <1>1 DEF Login
  <2>2. v # u
    BY <1>1, <2>1 DEF Goto, Step, Inv, TypeOK
  <2>3. member[u] # None
    BY <1>1 DEF Login, Authenticated
  <2> QED
    BY <1>1, <2>1, <2>2, <2>3 DEF Inv, RowsInv
<1>2. Inv =>
        [\A r \in Requests, u \in Users :
           Login(r, u) /\ pc'[r] = "refused" =>
             \E v \in Users \ {u} :
               /\ member[v] \notin {None, member[u]} /\ email[v] = email[u]
               /\ u \in loose \/ v \in loose]_vars
  BY <1>1
<1> QED
  BY <1>2, InvInit, InvStep, PTL DEF Spec, LoginRefusals

=============================================================================
