SPECIFICATION Spec
CONSTANTS
  r1 = r1
  r2 = r2
  root = root
  u1 = u1
  u2 = u2
  none = none
  Requests = {r1}
  Users = {root, u1, u2}
  NoUser = none
  Emails <- MCEmails
  Lower <- MCLower
  Passwords = {"long", "short", "other"}
  NoPassword = ""
  LongEnough = {"long", "other"}
  Roles = {"Admin", "Member"}
  AdminRole = "Admin"
  UnknownRole = "None"
  Bodies <- ManyBodies
  Root = root
  RootEmail = "root@x"
  RootPassword = "long"
  MaxTime = 2
  DBCanFail = FALSE
  MaxRequests = 3
INVARIANT UniqueEmail
PROPERTIES
  SerialIsAtomic
