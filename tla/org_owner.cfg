SPECIFICATION OrgSpec
CONSTANTS
  Users = {"ann", "bob", "cy"}
  Creator = "ann"
  Invitations = {1}
  InviteRoles = {"member"}
  SsoRole = "viewer"
  Seats = 3
  OrgRequests = {"q1", "q2"}
  MaxMarked = 1
PROPERTIES TransferLeavesOneOwner
CHECK_DEADLOCK FALSE
