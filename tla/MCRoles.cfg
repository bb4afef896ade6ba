\* A superuser, an operator and an accomplice; two requests in flight.
SPECIFICATION RolesSpec
CONSTANTS
  root = root
  clerk = clerk
  mate = mate
  r1 = r1
  r2 = r2
  Users = {root, clerk, mate}
  Calls = {r1, r2}
  Roles = {"admin", "staff", "manager", "member"}
  Everyones = {"member"}
  Superuser = "admin"
  Permissions = {"role.assign", "role.manage", "user.update", "user.delete", "post.write"}
  Scoped = {"post.write"}
  Scopes = {"board"}
  Global = "all"
  Founders = {root, clerk}
  FirstRoles <- RolesOfFounders
  FirstGrants <- StartingGrants
  Assignments <- EnteredRoles
  Grants <- EnteredGrants
INVARIANTS SuperuserRemains NoEscalation
SYMMETRY Symmetry
CHECK_DEADLOCK FALSE
