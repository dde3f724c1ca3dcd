---------------------------- MODULE Organization ----------------------------
(***************************************************************************)
(* One organization of the dashboard: its members, its invitations, and    *)
(* who owns it (apps/dashboard/src/app/organization/actions.ts over        *)
(* lib/db.ts), with the deletion of accounts, which the settings page      *)
(* schedules and a cron job carries out.  A request reads what entitles it *)
(* in one statement and writes in another, at READ COMMITTED: in between   *)
(* any other request, or the job, may commit.  Statements of a transaction *)
(* after its last read are one step.                                       *)
(***************************************************************************)
EXTENDS Integers, FiniteSets

CONSTANTS
  Users,
  Creator,       \* who created the organization
  Invitations,   \* bound: rows of organization_invitations, over all time
  InviteRoles,   \* roles invited to: "admin", "member"
  SsoRole,       \* saml_default_role
  Seats,         \* seatLimitFor(the owner's plan)
  OrgRequests,   \* requests in flight
  MaxMarked      \* bound: accounts marked for deletion, or deleted

NotIn == "none"  \* no member
Roles == InviteRoles \cup {SsoRole, "admin", "owner"}

ASSUME CreatorAssumption == Creator \in Users
ASSUME RolesAssumption == NotIn \notin Roles /\ "owner" \notin InviteRoles \cup {SsoRole}

VARIABLES
  role,     \* each user's row of organization_members
  invites,  \* each invitation: unsent, open, accepted or revoked; to whom; still fresh?
  marked,   \* users whose account is to be deleted
  due,      \* those of them the running deletion job has listed
  gone,     \* users deleted
  alive,    \* does the organization exist?
  deed,     \* each request: what it was found entitled to do
  raced     \* has a transfer committed on a stale read, or the owner's account been deleted?

orgVars == <<role, invites, marked, due, gone, alive, deed, raced>>

Idle == [kind |-> "idle", by |-> Creator, on |-> Creator, role |-> NotIn, invitation |-> 0]
Unsent == [at |-> "unsent", user |-> Creator, role |-> NotIn, fresh |-> FALSE]

(* createOrganization has committed. *)
OrgInit ==
  /\ role = [u \in Users |-> IF u = Creator THEN "owner" ELSE NotIn]
  /\ invites = [i \in Invitations |-> Unsent]
  /\ marked = {} /\ due = {} /\ gone = {}
  /\ alive = TRUE
  /\ deed = [q \in OrgRequests |-> Idle]
  /\ raced = FALSE

Members == {u \in Users : role[u] # NotIn}
OrgOwners == {u \in Users : role[u] = "owner"}
Present == Users \ gone
Manages(u) == role[u] \in {"owner", "admin"}
Open(i) == invites[i].at = "open" /\ invites[i].fresh
SeatsInUse == Cardinality(Members) + Cardinality({i \in Invitations : Open(i)})

Entitled(q, d) == deed' = [deed EXCEPT ![q] = d]
Done(q) == deed' = [deed EXCEPT ![q] = Idle]

(* A row that is deleted takes with it what was to be done to it by its id. *)
RowGone(deeds, u) ==
  [q \in OrgRequests |-> IF deeds[q].kind \in {"remove", "rerole"} /\ deeds[q].on = u THEN Idle ELSE deeds[q]]

-----------------------------------------------------------------------------
(* transferOrganizationOwnership *)

CheckOwner(q, u, v) ==
  /\ deed[q] = Idle /\ u # v /\ u \in Present
  /\ role[u] = "owner"
  /\ Entitled(q, [Idle EXCEPT !.kind = "successor", !.by = u, !.on = v])
  /\ UNCHANGED <<role, invites, marked, due, gone, alive, raced>>

CheckSuccessor(q) ==
  /\ deed[q].kind = "successor"
  /\ IF role[deed[q].on] = NotIn THEN Done(q) ELSE Entitled(q, [deed[q] EXCEPT !.kind = "transfer"])
  /\ UNCHANGED <<role, invites, marked, due, gone, alive, raced>>

(* Both updates, whatever the two rows have become: none, or another role. *)
CommitTransfer(q) ==
  LET from == deed[q].by  to == deed[q].on IN
  /\ deed[q].kind = "transfer"
  /\ role' = [u \in Users |-> IF role[u] # NotIn /\ u = from THEN "admin"
                              ELSE IF role[u] # NotIn /\ u = to THEN "owner" ELSE role[u]]
  /\ raced' = (raced \/ role[from] # "owner" \/ role[to] = NotIn)
  /\ Done(q)
  /\ UNCHANGED <<invites, marked, due, gone, alive>>

-----------------------------------------------------------------------------
(* Members *)

(* removeMemberAction, changeMemberRoleAction: getMemberRole of the caller. *)
CheckManage(q, u) ==
  /\ deed[q] = Idle /\ u \in Present /\ Manages(u)
  /\ \E m \in Members :
       \/ Entitled(q, [Idle EXCEPT !.kind = "remove", !.on = m])
       \/ \E r \in InviteRoles : Entitled(q, [Idle EXCEPT !.kind = "rerole", !.on = m, !.role = r])
  /\ UNCHANGED <<role, invites, marked, due, gone, alive, raced>>

(* Mutant: the page hides the owner's button, and that is all. *)
RemoveAnyMember(q) ==
  /\ deed[q].kind = "remove"
  /\ role' = [role EXCEPT ![deed[q].on] = NotIn]
  /\ deed' = RowGone([deed EXCEPT ![q] = Idle], deed[q].on)
  /\ UNCHANGED <<invites, marked, due, gone, alive, raced>>

(* DELETE ... AND role <> 'owner' *)
RemoveMember(q) ==
  /\ deed[q].kind = "remove"
  /\ IF role[deed[q].on] = "owner" THEN UNCHANGED role /\ Done(q)
     ELSE /\ role' = [role EXCEPT ![deed[q].on] = NotIn]
          /\ deed' = RowGone([deed EXCEPT ![q] = Idle], deed[q].on)
  /\ UNCHANGED <<invites, marked, due, gone, alive, raced>>

(* UPDATE ... AND role <> 'owner' *)
ChangeRole(q) ==
  LET u == deed[q].on IN
  /\ deed[q].kind = "rerole"
  /\ role' = [role EXCEPT ![u] = IF @ \in {"owner", NotIn} THEN @ ELSE deed[q].role]
  /\ Done(q)
  /\ UNCHANGED <<invites, marked, due, gone, alive, raced>>

(* provisionSsoUser: a member keeps the role it has.  Two first logins that
   race end in one row, by its key. *)
SsoLogin(u) ==
  /\ alive /\ u \in Present /\ role[u] = NotIn
  /\ role' = [role EXCEPT ![u] = SsoRole]
  /\ UNCHANGED <<invites, marked, due, gone, alive, deed, raced>>

-----------------------------------------------------------------------------
(* Invitations *)

(* inviteMemberAction counts the seats, resend and revoke do not. *)
CheckInvite(q, u) ==
  /\ deed[q] = Idle /\ u \in Present /\ Manages(u) /\ SeatsInUse < Seats
  /\ \E v \in Users, r \in InviteRoles :
       Entitled(q, [Idle EXCEPT !.kind = "invite", !.on = v, !.role = r])
  /\ UNCHANGED <<role, invites, marked, due, gone, alive, raced>>

CheckInvitation(q, u) ==
  /\ deed[q] = Idle /\ u \in Present /\ Manages(u)
  /\ \E i \in Invitations, k \in {"resend", "revoke"} :
       /\ invites[i].at # "unsent"
       /\ Entitled(q, [Idle EXCEPT !.kind = k, !.invitation = i])
  /\ UNCHANGED <<role, invites, marked, due, gone, alive, raced>>

CreateInvitation(q, i) ==
  /\ deed[q].kind = "invite" /\ alive
  /\ invites[i].at = "unsent" /\ \A j \in Invitations : j < i => invites[j].at # "unsent"
  /\ invites' = [invites EXCEPT ![i] = [at |-> "open", user |-> deed[q].on, role |-> deed[q].role, fresh |-> TRUE]]
  /\ Done(q)
  /\ UNCHANGED <<role, marked, due, gone, alive, raced>>

(* An insert the bound on rows leaves no room for, or of an organization that
   went away: the request fails. *)
InvitationFails(q) ==
  /\ deed[q].kind = "invite"
  /\ Done(q)
  /\ UNCHANGED <<role, invites, marked, due, gone, alive, raced>>

(* refreshInvitationExpiry: an expired one too, as long as it was not used. *)
Resend(q) ==
  LET i == deed[q].invitation IN
  /\ deed[q].kind = "resend"
  /\ invites' = [invites EXCEPT ![i].fresh = (@ \/ invites[i].at = "open")]
  /\ Done(q)
  /\ UNCHANGED <<role, marked, due, gone, alive, raced>>

(* deleteInvitation *)
Revoke(q) ==
  LET i == deed[q].invitation IN
  /\ deed[q].kind = "revoke"
  /\ invites' = IF invites[i].at = "open" THEN [invites EXCEPT ![i].at = "revoked", ![i].fresh = FALSE] ELSE invites
  /\ Done(q)
  /\ UNCHANGED <<role, marked, due, gone, alive, raced>>

(* acceptInvitationAction: findInvitationByToken. *)
FindInvitation(q, i) ==
  /\ deed[q] = Idle /\ Open(i) /\ invites[i].user \in Present
  /\ Entitled(q, [Idle EXCEPT !.kind = "accept", !.by = invites[i].user, !.invitation = i])
  /\ UNCHANGED <<role, invites, marked, due, gone, alive, raced>>

Admit(i, u) ==
  /\ role' = [role EXCEPT ![u] = IF @ = NotIn THEN invites[i].role ELSE @]
  /\ invites' = [invites EXCEPT ![i].at = "accepted", ![i].fresh = FALSE]

(* Mutant: the invitation that was found is not looked at again. *)
AcceptFound(q) ==
  /\ deed[q].kind = "accept" /\ alive /\ deed[q].by \in Present
  /\ Admit(deed[q].invitation, deed[q].by)
  /\ Done(q)
  /\ UNCHANGED <<marked, due, gone, alive, raced>>

(* The transaction: SELECT ... FOR UPDATE, the member, the stamp. *)
AcceptInvitation(q) ==
  /\ deed[q].kind = "accept"
  /\ IF alive /\ deed[q].by \in Present /\ Open(deed[q].invitation)
     THEN Admit(deed[q].invitation, deed[q].by)
     ELSE UNCHANGED <<role, invites>>
  /\ Done(q)
  /\ UNCHANGED <<marked, due, gone, alive, raced>>

InvitationExpires(i) ==
  /\ invites[i].fresh
  /\ invites' = [invites EXCEPT ![i].fresh = FALSE]
  /\ UNCHANGED <<role, marked, due, gone, alive, deed, raced>>

-----------------------------------------------------------------------------
(* Deletion of accounts *)

(* markAccountForDeletionAction: not the owner of others. *)
CheckMark(q, u) ==
  /\ deed[q] = Idle /\ u \in Present \ marked /\ Cardinality(marked \cup gone) < MaxMarked
  /\ ~(role[u] = "owner" /\ Cardinality(Members) > 1)
  /\ Entitled(q, [Idle EXCEPT !.kind = "mark", !.by = u])
  /\ UNCHANGED <<role, invites, marked, due, gone, alive, raced>>

Mark(q) ==
  /\ deed[q].kind = "mark" /\ Cardinality(marked \cup gone) < MaxMarked
  /\ marked' = marked \cup ({deed[q].by} \cap Present)
  /\ Done(q)
  /\ UNCHANGED <<role, invites, due, gone, alive, raced>>

CancelMark(u) ==
  /\ u \in marked
  /\ marked' = marked \ {u}
  /\ UNCHANGED <<role, invites, due, gone, alive, deed, raced>>

(* The job lists those whose 30 days are over. *)
ListDue ==
  /\ due = {} /\ marked # {}
  /\ \E some \in SUBSET marked \ {{}} : due' = some
  /\ UNCHANGED <<role, invites, marked, gone, alive, deed, raced>>

(* One transaction per account.  An organization its creator leaves empty goes
   too; one with other members keeps created_by_user_id, which is NOT NULL: the
   update fails, and with it the transaction. *)
SweepFails(u) == u = Creator /\ alive /\ Members \ {u} # {}
SweepUser(u) ==
  /\ u \in due
  /\ due' = due \ {u}
  /\ IF SweepFails(u) THEN UNCHANGED <<role, marked, gone, alive, deed, invites, raced>>
     ELSE /\ role' = [role EXCEPT ![u] = NotIn]
          /\ gone' = gone \cup {u}
          /\ marked' = marked \ {u}
          /\ alive' = (alive /\ u # Creator)
          /\ raced' = (raced \/ (role[u] = "owner" /\ u # Creator))
          /\ deed' = RowGone(deed, u)
          /\ invites' = IF alive' THEN invites ELSE [i \in Invitations |-> [invites[i] EXCEPT !.fresh = FALSE]]

-----------------------------------------------------------------------------

OrgNext ==
  \/ \E q \in OrgRequests, u \in Users :
       \/ \E v \in Users : CheckOwner(q, u, v)
       \/ CheckManage(q, u) \/ CheckInvite(q, u) \/ CheckInvitation(q, u) \/ CheckMark(q, u)
  \/ \E q \in OrgRequests :
       \/ CheckSuccessor(q) \/ CommitTransfer(q) \/ RemoveMember(q) \/ ChangeRole(q)
       \/ InvitationFails(q) \/ Resend(q) \/ Revoke(q) \/ AcceptInvitation(q) \/ Mark(q)
       \/ \E i \in Invitations : CreateInvitation(q, i) \/ FindInvitation(q, i)
  \/ \E i \in Invitations : InvitationExpires(i)
  \/ \E u \in Users : SsoLogin(u) \/ CancelMark(u) \/ SweepUser(u)
  \/ ListDue

OrgSpec == OrgInit /\ [][OrgNext]_orgVars

-----------------------------------------------------------------------------
(* Properties *)

OrgTypeOK ==
  /\ role \in [Users -> Roles \cup {NotIn}]
  /\ invites \in [Invitations -> [at : {"unsent", "open", "accepted", "revoked"}, user : Users,
                                  role : InviteRoles \cup {NotIn}, fresh : BOOLEAN]]
  /\ marked \subseteq Present /\ due \subseteq Users /\ gone \subseteq Users
  /\ alive \in BOOLEAN /\ raced \in BOOLEAN
  /\ ~alive => Members = {}

(* The organization has exactly one owner, whatever roles are changed, members
   removed, invitations accepted and accounts deleted on facts read earlier.
   Two ways around it are known: a transfer that commits after what it read
   has changed, and the account of one who became owner after marking it for
   deletion. *)
OneOwnerUnlessRaced == alive /\ ~raced => Cardinality(OrgOwners) = 1

(* An invitation admits one person once, to the role it names, and only while
   it is open: a link found just before the invitation was revoked, expired or
   used by another click admits nobody. *)
AdmittedByInvitation ==
  [][\A u \in Users : role[u] = NotIn /\ role'[u] \notin {NotIn, SsoRole} =>
       \E i \in Invitations :
         /\ Open(i) /\ invites[i].user = u /\ invites[i].role = role'[u]
         /\ invites'[i].at = "accepted"]_orgVars

(* "Both rows are mutated inside one TX so there's never a moment with zero or
   two owners" (transferOrganizationOwnership). *)
TransferLeavesOneOwner ==
  [][(\E q \in OrgRequests : deed[q].kind = "transfer" /\ deed'[q] = Idle) /\ Cardinality(OrgOwners) = 1
       => Cardinality(OrgOwners') = 1]_orgVars

=============================================================================
