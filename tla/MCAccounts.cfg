SPECIFICATION Spec
CONSTANTS
  r1 = r1
  r2 = r2
  u1 = u1
  u2 = u2
  u3 = u3
  t1 = t1
  t2 = t2
  e1 = e1
  e2 = e2
  Keep = Keep
  None = None
  Requests <- TwoRequests
  Users <- ThreeUsers
  Tenants <- TwoTenants
  Emails <- TwoEmails
  Roles <- TwoRoles
SYMMETRY Interchangeable
PROPERTIES
  AdminRemains
  TenantScope
  ErrorsNeedARace
  LoginRefusals
\* Requests that add a user wait when the ids are used up.
CHECK_DEADLOCK FALSE
