SPECIFICATION Spec
CONSTANTS
  l1 = l1
  l2 = l2
  r1 = r1
  r2 = r2
  a1 = a1
  a2 = a2
  a3 = a3
  Logins <- MCLogins
  Registrations <- MCRegistrations
  Creations = {c1}
  Purchases = {p1}
  Approvals <- MCApprovals
  AdminEmail = admin
  DemoEmail = demo
  Emails = {admin, demo}
  PackageSizes = {50}
  IndiaSize = 500
  DemoSize = 50
  CoreSize = 500
  MaxRequests = 5
  Operator = operator
  None = None
INVARIANTS
  TypeOK
  SeededOnce
  RegistrationsWhole
  AccountsFit
  ApprovalsFunded
  SequentialNeverRaises
  EveryWaitEnds
SYMMETRY Alike
CHECK_DEADLOCK FALSE
