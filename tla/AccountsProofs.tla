---------------------------- MODULE AccountsProofs ----------------------------
(***************************************************************************)
(* Proofs about who belongs where and who pays: organizations              *)
(* (Organization), what Stripe reports (Subscriptions) and referral        *)
(* credits (Referrals).                                                    *)
(***************************************************************************)
EXTENDS Organization, Subscriptions, Referrals, FiniteSetTheorems, TLAPS

(***************************************************************************)
(* Organizations, for any users, invitations, requests and roles.  That    *)
(* there is one owner is inductive once it is known what a request may be  *)
(* about to do: whom a transfer names, which roles an invitation or a      *)
(* change can give (SoundDeed, SoundInvite).                               *)
(***************************************************************************)
Deeds == [kind : {"idle", "successor", "transfer", "remove", "rerole", "invite",
                  "resend", "revoke", "accept", "mark"},
          by : Users, on : Users, role : InviteRoles \cup {NotIn}, invitation : Invitations \cup {0}]

Invites == [at : {"unsent", "open", "accepted", "revoked"}, user : Users,
            role : InviteRoles \cup {NotIn}, fresh : BOOLEAN]

(* What request d was found entitled to, with invitations table. *)
SoundDeed(d, table) ==
  /\ d \in Deeds
  /\ d.kind \in {"successor", "transfer"} => d.by # d.on
  /\ d.kind \in {"rerole", "invite"} => d.role \in InviteRoles
  /\ d.kind \in {"resend", "revoke", "accept"} => d.invitation \in Invitations
  /\ d.kind = "accept" => table[d.invitation].at # "unsent" /\ table[d.invitation].user = d.by

SoundInvite(i) ==
  /\ i \in Invites
  /\ i.at # "unsent" => i.role \in InviteRoles
  /\ i.fresh => i.at = "open"

RequestsSound ==
  /\ deed \in [OrgRequests -> Deeds]
  /\ \A q \in OrgRequests : SoundDeed(deed[q], invites)
  /\ invites \in [Invitations -> Invites]
  /\ \A i \in Invitations : SoundInvite(invites[i])

PeopleSound ==
  /\ role \in [Users -> Roles \cup {NotIn}]
  /\ marked \subseteq Present /\ due \subseteq Users /\ gone \subseteq Users
  /\ alive \in BOOLEAN /\ raced \in BOOLEAN
  /\ ~alive => Members = {}

OwnerInv == alive /\ ~raced => \E u \in Users : OrgOwners = {u}

OrgIInv == RequestsSound /\ PeopleSound /\ OwnerInv

-----------------------------------------------------------------------------
(* Invitations that were sent stay sent, to the same person. *)
StaySent(old, new) ==
  \A i \in Invitations : old[i].at # "unsent" => new[i].at # "unsent" /\ new[i].user = old[i].user

LEMMA IdleSound == \A table : SoundDeed(Idle, table)
BY CreatorAssumption DEF Idle, SoundDeed, Deeds

(* One request comes to d, some become idle, the others stay. *)
LEMMA DeedsMove ==
  ASSUME RequestsSound, NEW d, SoundDeed(d, invites'),
         deed' \in [OrgRequests -> {deed[q] : q \in OrgRequests} \cup {d, Idle}],
         \A q \in OrgRequests : deed'[q] \in {deed[q], d, Idle},
         invites' \in [Invitations -> Invites], \A i \in Invitations : SoundInvite(invites'[i]),
         StaySent(invites, invites')
  PROVE  RequestsSound'
<1>1. ASSUME NEW q \in OrgRequests PROVE SoundDeed(deed'[q], invites')
  <2>1. SoundDeed(deed[q], invites')
    BY DEF RequestsSound, SoundDeed, StaySent, Deeds
  <2> QED BY <2>1, IdleSound
<1>2. deed' \in [OrgRequests -> Deeds]
  BY <1>1 DEF SoundDeed
<1> QED BY <1>1, <1>2 DEF RequestsSound

(* A request checks, or ends, and nothing else changes. *)
LEMMA DeedsOnly ==
  ASSUME OrgIInv, NEW q \in OrgRequests, NEW d, SoundDeed(d, invites),
         deed' = [deed EXCEPT ![q] = d],
         UNCHANGED <<role, invites, marked, due, gone, alive, raced>>
  PROVE  OrgIInv'
<1>1. RequestsSound'
  <2>1. deed' \in [OrgRequests -> {deed[r] : r \in OrgRequests} \cup {d, Idle}]
    BY DEF OrgIInv, RequestsSound
  <2>2. \A r \in OrgRequests : deed'[r] \in {deed[r], d, Idle}
    BY DEF OrgIInv, RequestsSound
  <2>3. StaySent(invites, invites')
    BY DEF StaySent
  <2> QED BY <2>1, <2>2, <2>3, DeedsMove DEF OrgIInv, RequestsSound
<1>2. PeopleSound'
  BY DEF OrgIInv, PeopleSound, Present, Members
<1>3. OwnerInv'
  BY DEF OrgIInv, OwnerInv, OrgOwners
<1> QED BY <1>1, <1>2, <1>3 DEF OrgIInv

(* A request ends with a change of invitations, of nobody's role. *)
LEMMA InvitesOnly ==
  ASSUME OrgIInv, deed' = deed \/ \E q \in OrgRequests : Done(q),
         invites' \in [Invitations -> Invites], \A i \in Invitations : SoundInvite(invites'[i]),
         StaySent(invites, invites'), UNCHANGED <<role, marked, due, gone, alive, raced>>
  PROVE  OrgIInv'
<1>1. RequestsSound'
  <2>1. deed' \in [OrgRequests -> {deed[r] : r \in OrgRequests} \cup {Idle, Idle}]
    BY DEF OrgIInv, RequestsSound, Done
  <2>2. \A r \in OrgRequests : deed'[r] \in {deed[r], Idle, Idle}
    BY DEF OrgIInv, RequestsSound, Done
  <2>3. SoundDeed(Idle, invites')
    BY IdleSound
  <2> QED BY <2>1, <2>2, <2>3, DeedsMove DEF OrgIInv
<1>2. PeopleSound'
  BY DEF OrgIInv, PeopleSound, Present, Members
<1>3. OwnerInv'
  BY DEF OrgIInv, OwnerInv, OrgOwners
<1> QED BY <1>1, <1>2, <1>3 DEF OrgIInv

(* Requests end and rows of members change; invitations stay. *)
LEMMA RequestsEnd ==
  ASSUME RequestsSound, invites' = invites,
         deed' = deed \/ (\E q \in OrgRequests : Done(q))
                \/ (\E q \in OrgRequests, u \in Users : deed' = RowGone([deed EXCEPT ![q] = Idle], u))
                \/ (\E u \in Users : deed' = RowGone(deed, u))
  PROVE  RequestsSound'
<1>1. deed' \in [OrgRequests -> {deed[r] : r \in OrgRequests} \cup {Idle, Idle}]
  BY DEF RequestsSound, Done, RowGone
<1>2. \A r \in OrgRequests : deed'[r] \in {deed[r], Idle, Idle}
  BY DEF RequestsSound, Done, RowGone
<1>3. StaySent(invites, invites') /\ SoundDeed(Idle, invites')
  BY IdleSound DEF StaySent
<1>4. invites' \in [Invitations -> Invites] /\ \A i \in Invitations : SoundInvite(invites'[i])
  BY DEF RequestsSound
<1> QED BY <1>1, <1>2, <1>3, <1>4, DeedsMove

LEMMA OrgInitInv == OrgInit => OrgIInv
<1> SUFFICES ASSUME OrgInit PROVE OrgIInv
    OBVIOUS
<1>1. RequestsSound
  BY IdleSound, CreatorAssumption DEF OrgInit, RequestsSound, SoundDeed, SoundInvite, Invites, Unsent
<1>2. PeopleSound
  BY DEF OrgInit, PeopleSound, Roles
<1>3. OrgOwners = {Creator}
  BY CreatorAssumption DEF OrgInit, OrgOwners, NotIn
<1> QED BY <1>1, <1>2, <1>3, CreatorAssumption DEF OrgIInv, OwnerInv

(* The checks. *)
LEMMA ChecksInv ==
  ASSUME OrgIInv, NEW q \in OrgRequests, NEW u \in Users,
         \/ \E v \in Users : CheckOwner(q, u, v)
         \/ CheckManage(q, u) \/ CheckInvite(q, u) \/ CheckInvitation(q, u) \/ CheckMark(q, u)
         \/ CheckSuccessor(q) \/ InvitationFails(q)
         \/ \E i \in Invitations : FindInvitation(q, i)
  PROVE  OrgIInv'
<1>a. \A d : SoundDeed(d, invites) /\ Entitled(q, d) /\ UNCHANGED <<role, invites, marked, due, gone, alive, raced>> => OrgIInv'
  BY DeedsOnly DEF Entitled
<1>b. Idle \in Deeds /\ SoundDeed(Idle, invites)
  BY IdleSound DEF SoundDeed
<1>1. ASSUME NEW v \in Users, CheckOwner(q, u, v) PROVE OrgIInv'
  <2>1. SoundDeed([Idle EXCEPT !.kind = "successor", !.by = u, !.on = v], invites)
    BY <1>1, CreatorAssumption DEF CheckOwner, SoundDeed, Idle, Deeds
  <2> QED BY <1>1, <1>a, <2>1 DEF CheckOwner
<1>2. ASSUME CheckManage(q, u) PROVE OrgIInv'
  <2>1. \A m \in Members : SoundDeed([Idle EXCEPT !.kind = "remove", !.on = m], invites)
    BY CreatorAssumption DEF SoundDeed, Idle, Deeds, Members
  <2>2. \A m \in Members, r \in InviteRoles :
          SoundDeed([Idle EXCEPT !.kind = "rerole", !.on = m, !.role = r], invites)
    BY CreatorAssumption DEF SoundDeed, Idle, Deeds, Members
  <2> QED BY <1>2, <1>a, <2>1, <2>2 DEF CheckManage
<1>3. ASSUME CheckInvite(q, u) PROVE OrgIInv'
  <2>1. \A v \in Users, r \in InviteRoles :
          SoundDeed([Idle EXCEPT !.kind = "invite", !.on = v, !.role = r], invites)
    BY CreatorAssumption DEF SoundDeed, Idle, Deeds
  <2> QED BY <1>3, <1>a, <2>1 DEF CheckInvite
<1>4. ASSUME CheckInvitation(q, u) PROVE OrgIInv'
  <2>1. \A i \in Invitations, k \in {"resend", "revoke"} :
          SoundDeed([Idle EXCEPT !.kind = k, !.invitation = i], invites)
    BY CreatorAssumption DEF SoundDeed, Idle, Deeds
  <2> QED BY <1>4, <1>a, <2>1 DEF CheckInvitation
<1>5. ASSUME CheckMark(q, u) PROVE OrgIInv'
  <2>1. SoundDeed([Idle EXCEPT !.kind = "mark", !.by = u], invites)
    BY CreatorAssumption DEF SoundDeed, Idle, Deeds
  <2> QED BY <1>5, <1>a, <2>1 DEF CheckMark
<1>6. ASSUME CheckSuccessor(q) PROVE OrgIInv'
  <2>1. SoundDeed([deed[q] EXCEPT !.kind = "transfer"], invites)
    BY <1>6 DEF CheckSuccessor, OrgIInv, RequestsSound, SoundDeed, Deeds
  <2> QED BY <1>6, <1>a, <1>b, <2>1 DEF CheckSuccessor, Done, Entitled
<1>7. ASSUME InvitationFails(q) PROVE OrgIInv'
  BY <1>7, <1>a, <1>b DEF InvitationFails, Done, Entitled
<1>8. ASSUME NEW i \in Invitations, FindInvitation(q, i) PROVE OrgIInv'
  <2>1. SoundDeed([Idle EXCEPT !.kind = "accept", !.by = invites[i].user, !.invitation = i], invites)
    BY <1>8, CreatorAssumption DEF FindInvitation, Open, OrgIInv, RequestsSound, Invites, SoundDeed, Idle, Deeds
  <2> QED BY <1>8, <1>a, <2>1 DEF FindInvitation
<1> QED BY <1>1, <1>2, <1>3, <1>4, <1>5, <1>6, <1>7, <1>8

(* The writes. *)
LEMMA TransferInv ==
  ASSUME OrgIInv, NEW q \in OrgRequests, CommitTransfer(q)
  PROVE  OrgIInv'
<1> DEFINE from == deed[q].by
           to == deed[q].on
<1>1. from \in Users /\ to \in Users /\ from # to
  BY DEF CommitTransfer, OrgIInv, RequestsSound, SoundDeed, Deeds
<1>2. RequestsSound'
  BY RequestsEnd DEF CommitTransfer, OrgIInv
<1>3. Members' = Members /\ role' \in [Users -> Roles \cup {NotIn}]
  BY RolesAssumption DEF CommitTransfer, OrgIInv, PeopleSound, Members, Roles
<1>4. PeopleSound'
  BY <1>3, RolesAssumption DEF CommitTransfer, OrgIInv, PeopleSound, Present
<1>5. ASSUME alive', ~raced' PROVE \E u \in Users : OrgOwners' = {u}
  <2>1. role[from] = "owner" /\ role[to] # NotIn /\ alive /\ ~raced
    BY <1>5 DEF CommitTransfer
  <2>2. OrgOwners = {from}
    BY <1>1, <2>1 DEF OrgIInv, OwnerInv, OrgOwners
  <2>3. \A u \in Users : role'[u] = "owner" <=> u = to
    <3> SUFFICES ASSUME NEW u \in Users PROVE role'[u] = "owner" <=> u = to
        OBVIOUS
    <3>1. CASE u = from
      BY <1>1, <2>1, <3>1, RolesAssumption DEF CommitTransfer, Roles
    <3>2. CASE u = to
      BY <1>1, <2>1, <3>2 DEF CommitTransfer
    <3>3. CASE u \notin {from, to}
      BY <2>2, <3>3 DEF CommitTransfer, OrgOwners
    <3> QED BY <1>1, <3>1, <3>2, <3>3
  <2> QED BY <1>1, <2>3 DEF OrgOwners
<1> QED BY <1>2, <1>4, <1>5 DEF OrgIInv, OwnerInv

(* Roles of those who are not, and do not become, owners. *)
LEMMA OwnersStay ==
  ASSUME OrgIInv, role' \in [Users -> Roles \cup {NotIn}],
         \A u \in Users : role'[u] = "owner" <=> role[u] = "owner",
         alive' => alive, ~raced' => ~raced
  PROVE  OwnerInv'
<1>1. OrgOwners' = OrgOwners
  BY DEF OrgOwners
<1> QED BY <1>1 DEF OrgIInv, OwnerInv, PeopleSound

LEMMA MembersInv ==
  ASSUME OrgIInv, NEW q \in OrgRequests, RemoveMember(q) \/ ChangeRole(q)
  PROVE  OrgIInv'
<1> DEFINE m == deed[q].on
<1>1. m \in Users
  BY DEF OrgIInv, RequestsSound, Deeds
<1>2. RequestsSound'
  <2>1. deed' = RowGone([deed EXCEPT ![q] = Idle], m) \/ Done(q)
    BY DEF RemoveMember, ChangeRole
  <2> QED BY <1>1, <2>1, RequestsEnd DEF RemoveMember, ChangeRole, OrgIInv
<1>3. ChangeRole(q) => deed[q].role \in InviteRoles
  BY DEF ChangeRole, OrgIInv, RequestsSound, SoundDeed
<1>4. /\ role' \in [Users -> Roles \cup {NotIn}]
      /\ \A u \in Users : role'[u] = "owner" <=> role[u] = "owner"
      /\ Members' \subseteq Members
  <2>1. CASE RemoveMember(q)
    BY <1>1, <2>1 DEF RemoveMember, OrgIInv, PeopleSound, Members, NotIn
  <2>2. CASE ChangeRole(q)
    BY <1>1, <1>3, <2>2, RolesAssumption DEF ChangeRole, OrgIInv, PeopleSound, Members, Roles
  <2> QED BY <2>1, <2>2
<1>5. UNCHANGED <<invites, marked, due, gone, alive, raced>>
  BY DEF RemoveMember, ChangeRole
<1>6. PeopleSound'
  BY <1>4, <1>5 DEF OrgIInv, PeopleSound, Present
<1> QED BY <1>2, <1>4, <1>5, <1>6, OwnersStay DEF OrgIInv

LEMMA SsoInv ==
  ASSUME OrgIInv, NEW u \in Users, SsoLogin(u)
  PROVE  OrgIInv'
<1>1. /\ role' \in [Users -> Roles \cup {NotIn}]
      /\ \A v \in Users : role'[v] = "owner" <=> role[v] = "owner"
  BY RolesAssumption DEF SsoLogin, OrgIInv, PeopleSound, Roles, NotIn
<1>2. RequestsSound'
  BY RequestsEnd DEF SsoLogin, OrgIInv
<1>3. PeopleSound'
  BY <1>1 DEF SsoLogin, OrgIInv, PeopleSound, Present
<1> QED BY <1>1, <1>2, <1>3, OwnersStay DEF OrgIInv, SsoLogin

(* Who is admitted was not a member, and the invitation was open and theirs. *)
LEMMA AcceptInv ==
  ASSUME OrgIInv, NEW q \in OrgRequests, AcceptInvitation(q)
  PROVE  OrgIInv'
<1> DEFINE i == deed[q].invitation
           u == deed[q].by
<1>1. i \in Invitations /\ u \in Users /\ SoundInvite(invites[i]) /\ invites \in [Invitations -> Invites]
  BY DEF AcceptInvitation, OrgIInv, RequestsSound, SoundDeed, Deeds
<1>2. CASE ~(alive /\ u \in Present /\ Open(i))
  <2>1. UNCHANGED <<role, invites, marked, due, gone, alive, raced>> /\ deed' = [deed EXCEPT ![q] = Idle]
    BY <1>2 DEF AcceptInvitation, Done
  <2> QED BY <2>1, IdleSound, DeedsOnly
<1>3. CASE alive /\ u \in Present /\ Open(i)
  <2>1. /\ role' = [role EXCEPT ![u] = IF @ = NotIn THEN invites[i].role ELSE @]
        /\ invites' = [invites EXCEPT ![i].at = "accepted", ![i].fresh = FALSE]
        /\ Done(q) /\ UNCHANGED <<marked, due, gone, alive, raced>>
    BY <1>3 DEF AcceptInvitation, Admit
  <2>2. invites[i].role \in InviteRoles
    BY <1>1, <1>3 DEF SoundInvite, Open
  <2>3. /\ role' \in [Users -> Roles \cup {NotIn}]
        /\ \A v \in Users : role'[v] = "owner" <=> role[v] = "owner"
    BY <1>1, <2>1, <2>2, RolesAssumption DEF OrgIInv, PeopleSound, Roles, NotIn
  <2>4. RequestsSound'
    <3>1. invites' \in [Invitations -> Invites] /\ \A j \in Invitations : SoundInvite(invites'[j])
      BY <1>1, <2>1, <2>2 DEF OrgIInv, RequestsSound, SoundInvite, Invites
    <3>2. StaySent(invites, invites')
      BY <1>1, <2>1 DEF StaySent, Invites
    <3>3. deed' \in [OrgRequests -> {deed[r] : r \in OrgRequests} \cup {Idle, Idle}]
      BY <2>1 DEF OrgIInv, RequestsSound, Done
    <3>4. \A r \in OrgRequests : deed'[r] \in {deed[r], Idle, Idle}
      BY <2>1 DEF OrgIInv, RequestsSound, Done
    <3>5. SoundDeed(Idle, invites')
      BY IdleSound
    <3> QED BY <3>1, <3>2, <3>3, <3>4, <3>5, DeedsMove DEF OrgIInv
  <2>5. PeopleSound'
    BY <1>3, <2>1, <2>3 DEF OrgIInv, PeopleSound, Present
  <2> QED BY <2>1, <2>3, <2>4, <2>5, OwnersStay DEF OrgIInv
<1> QED BY <1>2, <1>3

LEMMA InvitationsInv ==
  ASSUME OrgIInv,
         \/ \E q \in OrgRequests : Resend(q) \/ Revoke(q) \/ \E i \in Invitations : CreateInvitation(q, i)
         \/ \E i \in Invitations : InvitationExpires(i)
  PROVE  OrgIInv'
<1>a. invites \in [Invitations -> Invites] /\ \A i \in Invitations : SoundInvite(invites[i])
  BY DEF OrgIInv, RequestsSound
<1>1. ASSUME NEW q \in OrgRequests, Resend(q) \/ Revoke(q) PROVE OrgIInv'
  <2>1. deed[q].invitation \in Invitations
    BY <1>1 DEF Resend, Revoke, OrgIInv, RequestsSound, SoundDeed
  <2>2. /\ invites' \in [Invitations -> Invites] /\ \A i \in Invitations : SoundInvite(invites'[i])
        /\ StaySent(invites, invites')
    <3> DEFINE n == deed[q].invitation
    <3>1. \/ invites' = invites
          \/ /\ invites[n].at = "open"
             /\ \E i \in Invites : /\ SoundInvite(i) /\ i.at # "unsent" /\ i.user = invites[n].user
                                   /\ invites' = [invites EXCEPT ![n] = i]
      <4>1. CASE Resend(q)
        <5>1. invites' = [invites EXCEPT ![n].fresh = (invites[n].fresh \/ invites[n].at = "open")]
          BY <4>1 DEF Resend
        <5>2. CASE invites[n].at = "open"
          <6> DEFINE i == [invites[n] EXCEPT !.fresh = TRUE]
          <6>1. invites' = [invites EXCEPT ![n] = i]
            BY <1>a, <2>1, <5>1, <5>2 DEF Invites
          <6>2. i \in Invites /\ SoundInvite(i) /\ i.at # "unsent" /\ i.user = invites[n].user
            BY <1>a, <2>1, <5>2 DEF SoundInvite, Invites
          <6> HIDE DEF i
          <6> QED BY <5>2, <6>1, <6>2
        <5>3. CASE invites[n].at # "open"
          <6>1. invites[n].fresh = FALSE
            BY <1>a, <2>1, <5>3 DEF SoundInvite, Invites
          <6>2. [invites EXCEPT ![n].fresh = FALSE] = invites
            BY <1>a, <2>1, <6>1 DEF Invites
          <6> QED BY <5>1, <5>3, <6>1, <6>2
        <5> QED BY <5>2, <5>3
      <4>2. CASE Revoke(q)
        <5>1. CASE invites[n].at = "open"
          <6> DEFINE i == [invites[n] EXCEPT !.at = "revoked", !.fresh = FALSE]
          <6>1. invites' = [invites EXCEPT ![n] = i]
            BY <1>a, <2>1, <4>2, <5>1 DEF Revoke, Invites
          <6>2. i \in Invites /\ SoundInvite(i) /\ i.at # "unsent" /\ i.user = invites[n].user
            BY <1>a, <2>1, <5>1 DEF SoundInvite, Invites
          <6> HIDE DEF i
          <6> QED BY <5>1, <6>1, <6>2
        <5>2. CASE invites[n].at # "open"
          BY <4>2, <5>2 DEF Revoke
        <5> QED BY <5>1, <5>2
      <4> QED BY <1>1, <4>1, <4>2
    <3> QED BY <1>a, <2>1, <3>1 DEF StaySent
  <2> QED BY <1>1, <2>2, InvitesOnly DEF Resend, Revoke
<1>2. ASSUME NEW q \in OrgRequests, NEW i \in Invitations, CreateInvitation(q, i) PROVE OrgIInv'
  <2>1. deed[q].role \in InviteRoles /\ deed[q].on \in Users
    BY <1>2 DEF CreateInvitation, OrgIInv, RequestsSound, SoundDeed, Deeds
  <2>2. /\ invites' \in [Invitations -> Invites] /\ \A j \in Invitations : SoundInvite(invites'[j])
        /\ StaySent(invites, invites')
    BY <1>2, <1>a, <2>1 DEF CreateInvitation, SoundInvite, Invites, StaySent
  <2> QED BY <1>2, <2>2, InvitesOnly DEF CreateInvitation
<1>3. ASSUME NEW i \in Invitations, InvitationExpires(i) PROVE OrgIInv'
  <2>1. /\ invites' \in [Invitations -> Invites] /\ \A j \in Invitations : SoundInvite(invites'[j])
        /\ StaySent(invites, invites')
    BY <1>3, <1>a DEF InvitationExpires, SoundInvite, Invites, StaySent
  <2> QED BY <1>3, <2>1, InvitesOnly DEF InvitationExpires
<1> QED BY <1>1, <1>2, <1>3

LEMMA MarksInv ==
  ASSUME OrgIInv, (\E q \in OrgRequests : Mark(q)) \/ (\E u \in Users : CancelMark(u)) \/ ListDue
  PROVE  OrgIInv'
<1>1. UNCHANGED <<role, invites, gone, alive, raced>>
  BY DEF Mark, CancelMark, ListDue
<1>2. RequestsSound'
  BY <1>1, RequestsEnd DEF Mark, CancelMark, ListDue, OrgIInv
<1>3. marked' \subseteq Present /\ due' \subseteq Users
  BY DEF Mark, CancelMark, ListDue, OrgIInv, PeopleSound, Present
<1>4. PeopleSound'
  BY <1>1, <1>3 DEF OrgIInv, PeopleSound, Present, Members
<1>5. OwnerInv'
  BY <1>1, OwnersStay DEF OrgIInv, PeopleSound
<1> QED BY <1>2, <1>4, <1>5 DEF OrgIInv

LEMMA SweepInv ==
  ASSUME OrgIInv, NEW u \in Users, SweepUser(u)
  PROVE  OrgIInv'
<1>1. CASE SweepFails(u)
  <2>1. UNCHANGED <<role, marked, gone, alive, deed, invites, raced>> /\ due' \subseteq due
    BY <1>1 DEF SweepUser
  <2>2. RequestsSound' /\ PeopleSound' /\ OwnerInv'
    BY <2>1 DEF OrgIInv, RequestsSound, PeopleSound, OwnerInv, Present, Members, OrgOwners
  <2> QED BY <2>2 DEF OrgIInv
<1>2. CASE ~SweepFails(u)
  <2>1. /\ due' = due \ {u}
        /\ role' = [role EXCEPT ![u] = NotIn]
        /\ gone' = gone \cup {u}
        /\ marked' = marked \ {u}
        /\ alive' = (alive /\ u # Creator)
        /\ raced' = (raced \/ (role[u] = "owner" /\ u # Creator))
        /\ deed' = RowGone(deed, u)
        /\ invites' = IF alive' THEN invites ELSE [i \in Invitations |-> [invites[i] EXCEPT !.fresh = FALSE]]
    BY <1>2 DEF SweepUser
  <2>2. RequestsSound'
    <3>1. deed' \in [OrgRequests -> {deed[r] : r \in OrgRequests} \cup {Idle, Idle}]
      BY <2>1 DEF OrgIInv, RequestsSound, RowGone
    <3>2. \A r \in OrgRequests : deed'[r] \in {deed[r], Idle, Idle}
      BY <2>1 DEF OrgIInv, RequestsSound, RowGone
    <3>3. /\ invites' \in [Invitations -> Invites] /\ \A i \in Invitations : SoundInvite(invites'[i])
          /\ StaySent(invites, invites')
      BY <2>1 DEF OrgIInv, RequestsSound, SoundInvite, Invites, StaySent
    <3>4. SoundDeed(Idle, invites')
      BY IdleSound
    <3> QED BY <3>1, <3>2, <3>3, <3>4, DeedsMove DEF OrgIInv
  <2>3. role \in [Users -> Roles \cup {NotIn}] /\ role' \in [Users -> Roles \cup {NotIn}]
    BY <2>1 DEF OrgIInv, PeopleSound
  <2>4. alive \in BOOLEAN /\ raced \in BOOLEAN /\ (~alive => Members = {})
    BY DEF OrgIInv, PeopleSound
  <2>5. ~alive' => Members' = {}
    <3>1. Members' = Members \ {u}
      BY <2>1, <2>3 DEF Members
    <3> QED BY <1>2, <2>1, <2>4, <3>1 DEF SweepFails
  <2>6. PeopleSound'
    BY <2>1, <2>3, <2>4, <2>5 DEF OrgIInv, PeopleSound, Present
  <2>7. ASSUME alive', ~raced' PROVE \E v \in Users : OrgOwners' = {v}
    <3>1. alive /\ ~raced /\ role[u] # "owner"
      BY <2>1, <2>7
    <3>2. OrgOwners' = OrgOwners
      BY <2>1, <2>3, <3>1 DEF OrgOwners, NotIn
    <3> QED BY <3>1, <3>2 DEF OrgIInv, OwnerInv
  <2> QED BY <2>2, <2>6, <2>7 DEF OrgIInv, OwnerInv
<1> QED BY <1>1, <1>2

LEMMA OrgStepInv == OrgIInv /\ [OrgNext]_orgVars => OrgIInv'
<1> SUFFICES ASSUME OrgIInv, [OrgNext]_orgVars PROVE OrgIInv'
    OBVIOUS
<1>1. ASSUME UNCHANGED orgVars PROVE OrgIInv'
  BY <1>1 DEF orgVars, OrgIInv, RequestsSound, PeopleSound, OwnerInv, Present, Members, OrgOwners
<1>2. ASSUME NEW q \in OrgRequests, NEW u \in Users,
             \/ \E v \in Users : CheckOwner(q, u, v)
             \/ CheckManage(q, u) \/ CheckInvite(q, u) \/ CheckInvitation(q, u) \/ CheckMark(q, u)
      PROVE  OrgIInv'
  BY <1>2, ChecksInv
<1>3. ASSUME NEW q \in OrgRequests,
             \/ CheckSuccessor(q) \/ CommitTransfer(q) \/ RemoveMember(q) \/ ChangeRole(q)
             \/ InvitationFails(q) \/ Resend(q) \/ Revoke(q) \/ AcceptInvitation(q) \/ Mark(q)
             \/ \E i \in Invitations : CreateInvitation(q, i) \/ FindInvitation(q, i)
      PROVE  OrgIInv'
  <2>1. CASE CheckSuccessor(q) \/ InvitationFails(q) \/ \E i \in Invitations : FindInvitation(q, i)
    BY <2>1, CreatorAssumption, ChecksInv
  <2>2. CASE Resend(q) \/ Revoke(q) \/ \E i \in Invitations : CreateInvitation(q, i)
    BY <2>2, InvitationsInv
  <2>3. CASE CommitTransfer(q)
    BY <2>3, TransferInv
  <2>4. CASE RemoveMember(q) \/ ChangeRole(q)
    BY <2>4, MembersInv
  <2>5. CASE AcceptInvitation(q)
    BY <2>5, AcceptInv
  <2>6. CASE Mark(q)
    BY <2>6, MarksInv
  <2> QED BY <1>3, <2>1, <2>2, <2>3, <2>4, <2>5, <2>6
<1>4. ASSUME NEW u \in Users, SsoLogin(u) \/ CancelMark(u) \/ SweepUser(u) PROVE OrgIInv'
  BY <1>4, SsoInv, MarksInv, SweepInv
<1>5. ASSUME (\E i \in Invitations : InvitationExpires(i)) \/ ListDue PROVE OrgIInv'
  BY <1>5, InvitationsInv, MarksInv
<1> QED BY <1>1, <1>2, <1>3, <1>4, <1>5 DEF OrgNext

LEMMA OrgSpecInv == OrgSpec => []OrgIInv
BY OrgInitInv, OrgStepInv, PTL DEF OrgSpec

-----------------------------------------------------------------------------

(* Members, invitations and accounts keep their shapes, and an organization
   that is gone has no members. *)
THEOREM OrgTyped == OrgSpec => []OrgTypeOK
<1>1. OrgIInv => OrgTypeOK
  BY DEF OrgIInv, RequestsSound, PeopleSound, Invites, OrgTypeOK
<1> QED BY <1>1, OrgSpecInv, PTL

(* But for the two known races an organization has exactly one owner, however
   many requests, members and invitations there are. *)
THEOREM OneOwner == OrgSpec => []OneOwnerUnlessRaced
<1>1. OrgIInv => OneOwnerUnlessRaced
  BY FS_Singleton DEF OrgIInv, OwnerInv, OneOwnerUnlessRaced
<1> QED BY <1>1, OrgSpecInv, PTL

(* Only a transaction that finds the invitation open admits anybody, once, to
   the role it names. *)
THEOREM OnlyInvited == OrgSpec => AdmittedByInvitation
<1> DEFINE A == \A u \in Users : role[u] = NotIn /\ role'[u] \notin {NotIn, SsoRole} =>
                  \E i \in Invitations :
                    /\ Open(i) /\ invites[i].user = u /\ invites[i].role = role'[u]
                    /\ invites'[i].at = "accepted"
<1>1. OrgIInv /\ [OrgNext]_orgVars => [A]_orgVars
  <2> SUFFICES ASSUME OrgIInv, OrgNext,
                      NEW u \in Users, role[u] = NotIn, role'[u] \notin {NotIn, SsoRole}
               PROVE  \E i \in Invitations :
                        /\ Open(i) /\ invites[i].user = u /\ invites[i].role = role'[u]
                        /\ invites'[i].at = "accepted"
      OBVIOUS
  <2>a. role \in [Users -> Roles \cup {NotIn}]
    BY DEF OrgIInv, PeopleSound
  <2>1. ~UNCHANGED role
    OBVIOUS
  <2>2. ASSUME NEW q \in OrgRequests, CommitTransfer(q) PROVE FALSE
    BY <2>2 DEF CommitTransfer
  <2>3. ASSUME NEW q \in OrgRequests, RemoveMember(q) \/ ChangeRole(q) PROVE FALSE
    BY <2>1, <2>3, <2>a DEF RemoveMember, ChangeRole
  <2>4. ASSUME NEW v \in Users, SsoLogin(v) \/ SweepUser(v) PROVE FALSE
    BY <2>1, <2>4, <2>a DEF SsoLogin, SweepUser
  <2>5. ASSUME NEW q \in OrgRequests, AcceptInvitation(q)
        PROVE  \E i \in Invitations :
                 /\ Open(i) /\ invites[i].user = u /\ invites[i].role = role'[u]
                 /\ invites'[i].at = "accepted"
    <3> DEFINE i == deed[q].invitation
    <3>1. i \in Invitations /\ invites[i].user = deed[q].by /\ invites \in [Invitations -> Invites]
      BY <2>5 DEF AcceptInvitation, OrgIInv, RequestsSound, SoundDeed
    <3>2. Open(i) /\ Admit(i, deed[q].by)
      BY <2>1, <2>5 DEF AcceptInvitation
    <3>3. u = deed[q].by /\ role'[u] = invites[i].role
      BY <2>a, <3>2 DEF Admit
    <3>4. invites'[i].at = "accepted"
      BY <3>1, <3>2 DEF Admit, Invites
    <3> QED BY <3>1, <3>2, <3>3, <3>4
  <2>6. \/ UNCHANGED role
        \/ \E q \in OrgRequests : CommitTransfer(q) \/ RemoveMember(q) \/ ChangeRole(q) \/ AcceptInvitation(q)
        \/ \E v \in Users : SsoLogin(v) \/ SweepUser(v)
    BY DEF OrgNext, CheckOwner, CheckManage, CheckInvite, CheckInvitation, CheckMark, CheckSuccessor,
           InvitationFails, Resend, Revoke, Mark, CreateInvitation, FindInvitation, InvitationExpires,
           CancelMark, ListDue
  <2> QED BY <2>1, <2>2, <2>3, <2>4, <2>5, <2>6
<1> QED BY <1>1, OrgSpecInv, PTL DEF OrgSpec, AdmittedByInvitation

-----------------------------------------------------------------------------
(***************************************************************************)
(* Subscriptions.  An event is waited for while no delivery has succeeded  *)
(* with it.  For a payer whose deliveries never overlapped or fell back on *)
(* the payload: the plan is right, or an event of theirs is waited for;    *)
(* and what the one delivery under way fetched, or wrote, is right, or     *)
(* another event than its own is waited for.                               *)
(***************************************************************************)
Ats == {"idle", "fetched", "transfer", "cancelling", "completing"}

DeliveriesSound ==
  /\ delivery \in [Deliveries -> [at : Ats, event : Nat, fetched : Statuses]]
  /\ \A d \in Deliveries : delivery[d].at # "idle" => delivery[d].event \in DOMAIN events

AwaitedFrom(p, S) == \E e \in S : events[e].payer = p
Right(p) == plan[p] = PlanFor(status[p])

PayersAlone ==
  \A d1, d2 \in Deliveries :
    /\ delivery[d1].at # "idle" /\ delivery[d2].at # "idle" /\ d1 # d2 /\ PayerOf(d1) = PayerOf(d2)
    => PayerOf(d1) \in slipped

PlansRight == \A p \in Payers \ slipped : AwaitedFrom(p, undone) \/ Right(p)

DeliveryRight(d) ==
  delivery[d].at # "idle" /\ PayerOf(d) \notin slipped =>
    \/ AwaitedFrom(PayerOf(d), undone \ {delivery[d].event})
    \/ IF delivery[d].at = "fetched" THEN delivery[d].fetched = status[PayerOf(d)] ELSE Right(PayerOf(d))

DeliveriesRight == \A d \in Deliveries : DeliveryRight(d)

StripeIInv == StripeTypeOK /\ DeliveriesSound /\ PayersAlone /\ PlansRight /\ DeliveriesRight

LEMMA StripeInitInv == StripeInit => StripeIInv
<1> SUFFICES ASSUME StripeInit PROVE StripeIInv
    OBVIOUS
<1> USE DEF StripeInit, Waiting, Payers, Statuses
<1>1. StripeTypeOK
  <2>1. events \in Seq([payer : Payers, snapshot : Statuses]) /\ Len(events) <= MaxChanges
    BY ChangesAssumption
  <2> QED BY <2>1 DEF StripeTypeOK
<1>2. DeliveriesSound
  BY DEF DeliveriesSound, Ats
<1>3. PayersAlone /\ DeliveriesRight
  BY DEF PayersAlone, DeliveriesRight, DeliveryRight
<1>4. PlansRight
  BY DEF PlansRight, Right, PlanFor
<1> QED BY <1>1, <1>2, <1>3, <1>4 DEF StripeIInv

(* A change of a subscription: its event is new, and waited for. *)
LEMMA ChangeIsAwaited ==
  ASSUME StripeTypeOK, DeliveriesSound, NEW p \in Payers, NEW s \in Statuses, Becomes(p, s)
  PROVE  /\ status' \in [Payers -> Statuses] /\ \A q \in Payers : q # p => status'[q] = status[q]
         /\ events' \in Seq([payer : Payers, snapshot : Statuses]) /\ Len(events') <= MaxChanges
         /\ undone' \subseteq DOMAIN events' /\ undone \subseteq undone'
         /\ DOMAIN events \subseteq DOMAIN events'
         /\ \A e \in DOMAIN events : events'[e] = events[e]
         /\ \E e \in undone' : events'[e].payer = p /\ e \notin DOMAIN events
<1> DEFINE new == [payer |-> p, snapshot |-> s]
<1> USE DEF StripeTypeOK
<1>1. /\ Len(events) < MaxChanges
      /\ status' = [status EXCEPT ![p] = s]
      /\ events' = Append(events, new)
      /\ undone' = undone \cup {Len(events) + 1}
  BY DEF Becomes
<1>2. new \in [payer : Payers, snapshot : Statuses] /\ new.payer = p
  OBVIOUS
<1> HIDE DEF new
<1>3. /\ events' \in Seq([payer : Payers, snapshot : Statuses])
      /\ Len(events') = Len(events) + 1
      /\ \A e \in DOMAIN events : events'[e] = events[e]
      /\ events'[Len(events) + 1] = new
      /\ DOMAIN events = 1..Len(events) /\ DOMAIN events' = 1..Len(events) + 1 /\ Len(events) \in Nat
  BY <1>1, <1>2
<1>4. Len(events') <= MaxChanges
  BY <1>1, <1>3, ChangesAssumption
<1>5. status' \in [Payers -> Statuses] /\ \A q \in Payers : q # p => status'[q] = status[q]
  BY <1>1
<1>6. \E e \in undone' : events'[e].payer = p /\ e \notin DOMAIN events
  <2>1. Len(events) + 1 \in undone' /\ Len(events) + 1 \notin DOMAIN events
    BY <1>1, <1>3
  <2> QED BY <2>1, <1>2, <1>3
<1>7. undone' \subseteq DOMAIN events' /\ undone \subseteq undone' /\ DOMAIN events \subseteq DOMAIN events'
  BY <1>1, <1>3
<1> QED BY <1>3, <1>4, <1>5, <1>6, <1>7

(* What a delivery leaves undone of the others: nothing but its own payer's
   plan changed, and that is right unless another event is waited for. *)
PlanSettled(d) ==
  /\ plan' \in [Payers -> {"free", "paid"}]
  /\ intent' \in [at : {"none", "pending", "completed", "cancelled"}, names : BOOLEAN]
  /\ UNCHANGED <<status, events, slipped>>
  /\ \A q \in Payers : q # PayerOf(d) => plan'[q] = plan[q]
  /\ \/ PayerOf(d) \in slipped
     \/ AwaitedFrom(PayerOf(d), undone \ {delivery[d].event})
     \/ plan'[PayerOf(d)] = PlanFor(status[PayerOf(d)])

LEMMA PayersOfDeliveries ==
  ASSUME StripeTypeOK, DeliveriesSound, NEW d \in Deliveries, delivery[d].at # "idle"
  PROVE  PayerOf(d) \in Payers /\ delivery[d].event \in DOMAIN events
<1>1. delivery[d].event \in DOMAIN events
  BY DEF DeliveriesSound
<1> DEFINE E == [payer : Payers, snapshot : Statuses]
<1>2. events \in Seq(E)
  BY DEF StripeTypeOK
<1>3. events[delivery[d].event] \in E
  <2> HIDE DEF E
  <2> QED BY <1>1, <1>2
<1> QED BY <1>1, <1>3 DEF PayerOf

LEMMA AcknowledgeKeeps ==
  ASSUME StripeIInv, NEW d \in Deliveries, delivery[d].at # "idle", Acknowledge(d), PlanSettled(d)
  PROVE  StripeIInv'
<1> DEFINE p == PayerOf(d)  ev == delivery[d].event
<1> USE DEF StripeIInv
<1>1. p \in Payers /\ ev \in DOMAIN events /\ events[ev].payer = p
  BY PayersOfDeliveries DEF PayerOf
<1>2. /\ undone' = undone \ {ev}
      /\ delivery' = [delivery EXCEPT ![d] = Waiting]
      /\ UNCHANGED <<status, events, slipped>>
      /\ \A q \in Payers : q # p => plan'[q] = plan[q]
  BY DEF Acknowledge, PlanSettled
<1>3. /\ delivery'[d].at = "idle"
      /\ \A d0 \in Deliveries : d0 # d => delivery'[d0] = delivery[d0]
      /\ delivery' \in [Deliveries -> [at : Ats, event : Nat, fetched : Statuses]]
  BY <1>2 DEF DeliveriesSound, Waiting, Ats, Statuses
<1>4. StripeTypeOK'
  BY <1>2 DEF StripeTypeOK, PlanSettled
<1>5. DeliveriesSound'
  BY <1>2, <1>3 DEF DeliveriesSound
<1>6. \A d0 \in Deliveries : delivery'[d0].at # "idle" => d0 # d /\ PayerOf(d0)' = PayerOf(d0) /\ delivery[d0].at # "idle"
  BY <1>2, <1>3 DEF PayerOf
<1>7. PayersAlone'
  BY <1>2, <1>6 DEF PayersAlone
<1>8. \A q \in Payers, S \in SUBSET DOMAIN events : q # p => (AwaitedFrom(q, S) => AwaitedFrom(q, S \ {ev}))
  BY <1>1 DEF AwaitedFrom
<1>9. PlansRight'
  <2> SUFFICES ASSUME NEW q \in Payers \ slipped PROVE AwaitedFrom(q, undone)' \/ Right(q)'
      BY <1>2 DEF PlansRight
  <2>1. CASE q = p
    BY <2>1, <1>2 DEF PlanSettled, AwaitedFrom, Right
  <2>2. CASE q # p
    <3>1. AwaitedFrom(q, undone) \/ Right(q)
      BY DEF PlansRight
    <3>2. AwaitedFrom(q, undone) => AwaitedFrom(q, undone \ {ev})
      BY <1>8, <2>2 DEF StripeTypeOK
    <3> QED BY <1>2, <2>2, <3>1, <3>2 DEF AwaitedFrom, Right
  <2> QED BY <2>1, <2>2
<1>10. DeliveriesRight'
  <2> SUFFICES ASSUME NEW d0 \in Deliveries, delivery'[d0].at # "idle", PayerOf(d0) \notin slipped
                PROVE  DeliveryRight(d0)'
      BY <1>2, <1>6 DEF DeliveriesRight, DeliveryRight
  <2>1. d0 # d /\ PayerOf(d0)' = PayerOf(d0) /\ delivery[d0].at # "idle" /\ delivery'[d0] = delivery[d0]
    BY <1>3, <1>6
  <2>2. PayerOf(d0) # p /\ PayerOf(d0) \in Payers
    BY <2>1, PayersOfDeliveries DEF PayersAlone
  <2>3. DeliveryRight(d0)
    BY DEF DeliveriesRight
  <2>4. AwaitedFrom(PayerOf(d0), undone \ {delivery[d0].event})
          => AwaitedFrom(PayerOf(d0), (undone \ {ev}) \ {delivery[d0].event})
    BY <1>1, <2>2 DEF AwaitedFrom
  <2> HIDE DEF p, ev
  <2> QED BY <1>2, <2>1, <2>2, <2>3, <2>4 DEF DeliveryRight, AwaitedFrom, Right
<1> QED BY <1>4, <1>5, <1>7, <1>9, <1>10

LEMMA MoveKeeps ==
  ASSUME StripeIInv, NEW d \in Deliveries, delivery[d].at # "idle", PlanSettled(d),
         NEW at \in Ats \ {"idle", "fetched"}, To(d, at), UNCHANGED undone
  PROVE  StripeIInv'
<1> DEFINE p == PayerOf(d)
<1> USE DEF StripeIInv
<1>1. p \in Payers /\ delivery[d].event \in DOMAIN events
  BY PayersOfDeliveries
<1>2. /\ UNCHANGED <<status, events, slipped, undone>>
      /\ \A q \in Payers : q # p => plan'[q] = plan[q]
  BY DEF PlanSettled
<1>3. /\ delivery'[d].at = at
      /\ delivery' \in [Deliveries -> [at : Ats, event : Nat, fetched : Statuses]]
      /\ \A d0 \in Deliveries : /\ d0 # d => delivery'[d0] = delivery[d0]
                                /\ delivery'[d0].event = delivery[d0].event
                                /\ delivery'[d0].at = "idle" <=> delivery[d0].at = "idle"
  BY DEF To, DeliveriesSound, Ats
<1>4. \A d0 \in Deliveries : PayerOf(d0)' = PayerOf(d0)
  BY <1>2, <1>3 DEF PayerOf
<1>5. StripeTypeOK' /\ DeliveriesSound'
  BY <1>2, <1>3 DEF StripeTypeOK, DeliveriesSound, PlanSettled
<1>6. PayersAlone'
  BY <1>2, <1>3, <1>4 DEF PayersAlone
<1>7. PlansRight'
  <2> SUFFICES ASSUME NEW q \in Payers \ slipped PROVE AwaitedFrom(q, undone)' \/ Right(q)'
      BY <1>2 DEF PlansRight
  <2>1. CASE q = p
    BY <2>1, <1>2 DEF PlanSettled, AwaitedFrom, Right
  <2>2. CASE q # p
    BY <1>2, <2>2 DEF PlansRight, AwaitedFrom, Right
  <2> QED BY <2>1, <2>2
<1>8. DeliveriesRight'
  <2> SUFFICES ASSUME NEW d0 \in Deliveries, delivery'[d0].at # "idle", PayerOf(d0) \notin slipped
                PROVE  DeliveryRight(d0)'
      BY <1>2, <1>4 DEF DeliveriesRight, DeliveryRight
  <2>1. CASE d0 = d
    BY <2>1, <1>2, <1>3, <1>4 DEF DeliveryRight, PlanSettled, AwaitedFrom, Right
  <2>2. CASE d0 # d
    <3>1. PayerOf(d0) # p /\ PayerOf(d0) \in Payers
      BY <2>2, <1>3, PayersOfDeliveries DEF PayersAlone
    <3>2. DeliveryRight(d0)
      BY DEF DeliveriesRight
    <3> QED BY <1>2, <1>3, <1>4, <2>2, <3>1, <3>2 DEF DeliveryRight, AwaitedFrom, Right
  <2> QED BY <2>1, <2>2
<1> QED BY <1>5, <1>6, <1>7, <1>8

(* A change at Stripe, by itself or by the delivery that cancels. *)
LEMMA ChangeKeeps ==
  ASSUME StripeIInv, NEW q \in Payers, NEW s \in Statuses, Becomes(q, s),
         UNCHANGED <<plan, intent, slipped>>,
         \/ UNCHANGED delivery
         \/ \E d \in Deliveries : delivery[d].at = "cancelling" /\ To(d, "completing")
  PROVE  StripeIInv'
<1> USE DEF StripeIInv
<1>1. /\ status' \in [Payers -> Statuses] /\ \A r \in Payers : r # q => status'[r] = status[r]
      /\ events' \in Seq([payer : Payers, snapshot : Statuses]) /\ Len(events') <= MaxChanges
      /\ undone' \subseteq DOMAIN events' /\ undone \subseteq undone'
      /\ DOMAIN events \subseteq DOMAIN events'
      /\ \A e \in DOMAIN events : events'[e] = events[e]
      /\ \E e \in undone' : events'[e].payer = q /\ e \notin DOMAIN events
  BY ChangeIsAwaited
<1>2. /\ delivery' \in [Deliveries -> [at : Ats, event : Nat, fetched : Statuses]]
      /\ \A d \in Deliveries : /\ delivery'[d].event = delivery[d].event
                               /\ delivery'[d].fetched = delivery[d].fetched
                               /\ delivery'[d].at = "idle" <=> delivery[d].at = "idle"
                               /\ delivery'[d].at = "fetched" <=> delivery[d].at = "fetched"
  BY DEF To, DeliveriesSound, Ats
<1>3. \A d \in Deliveries : delivery[d].at # "idle" => PayerOf(d)' = PayerOf(d) /\ PayerOf(d) \in Payers
                                                       /\ delivery[d].event \in DOMAIN events
  BY <1>1, <1>2, PayersOfDeliveries DEF PayerOf
<1>4. StripeTypeOK'
  BY <1>1 DEF StripeTypeOK
<1>5. DeliveriesSound'
  BY <1>1, <1>2 DEF DeliveriesSound
<1>6. PayersAlone'
  BY <1>2, <1>3 DEF PayersAlone
<1>7. \A p \in Payers, e \in DOMAIN events :
        /\ AwaitedFrom(p, undone) => AwaitedFrom(p, undone)'
        /\ AwaitedFrom(p, undone \ {e}) => (\E x \in undone' \ {e} : events'[x].payer = p)
        /\ p = q => (\E x \in undone' \ {e} : events'[x].payer = p)
  BY <1>1 DEF AwaitedFrom, StripeTypeOK
<1>8. AwaitedFrom(q, undone)'
  BY <1>1 DEF AwaitedFrom
<1>9. \A p \in Payers : p # q => Right(p)' = Right(p)
  BY <1>1 DEF Right
<1>10. PlansRight'
  <2> SUFFICES ASSUME NEW p \in Payers \ slipped PROVE AwaitedFrom(p, undone)' \/ Right(p)'
      BY DEF PlansRight
  <2>1. AwaitedFrom(p, undone) => AwaitedFrom(p, undone)'
    BY <1>1 DEF AwaitedFrom, StripeTypeOK
  <2> QED BY <1>8, <1>9, <2>1 DEF PlansRight
<1>11. DeliveriesRight'
  <2> SUFFICES ASSUME NEW d \in Deliveries, delivery[d].at # "idle", PayerOf(d) \notin slipped
                PROVE  DeliveryRight(d)'
      BY <1>2, <1>3 DEF DeliveriesRight, DeliveryRight
  <2> DEFINE p == PayerOf(d)  e == delivery[d].event
  <2>1. p \in Payers /\ e \in DOMAIN events /\ PayerOf(d)' = p /\ delivery'[d].event = e
    BY <1>2, <1>3
  <2>2. DeliveryRight(d)
    BY DEF DeliveriesRight
  <2>3. AwaitedFrom(p, undone \ {delivery[d].event})' <=> \E x \in undone' \ {e} : events'[x].payer = p
    BY <2>1, <1>2 DEF AwaitedFrom
  <2>4. CASE p = q
    BY <2>4, <1>2, <1>7, <2>1, <2>3 DEF DeliveryRight, AwaitedFrom
  <2>5. CASE p # q
    <3>1. CASE AwaitedFrom(p, undone \ {e})
      BY <3>1, <1>2, <1>7, <2>1, <2>3 DEF DeliveryRight, AwaitedFrom
    <3>2. CASE ~AwaitedFrom(p, undone \ {e})
      <4>1. IF delivery[d].at = "fetched" THEN delivery[d].fetched = status[p] ELSE Right(p)
        BY <2>2, <3>2 DEF DeliveryRight
      <4>2. status'[p] = status[p] /\ Right(p)' = Right(p)
        BY <1>1, <1>9, <2>1, <2>5
      <4> QED BY <4>1, <4>2, <1>2, <2>1 DEF DeliveryRight, Right
    <3> QED BY <3>1, <3>2
  <2> QED BY <2>4, <2>5
<1> QED BY <1>4, <1>5, <1>6, <1>10, <1>11

LEMMA DeliverKeeps ==
  ASSUME StripeIInv, NEW d \in Deliveries, NEW e \in DOMAIN events, Deliver(d, e)
  PROVE  StripeIInv'
<1> DEFINE p == events[e].payer  E == [payer : Payers, snapshot : Statuses]
<1> USE DEF StripeIInv
<1>1. p \in Payers /\ events[e].snapshot \in Statuses
  <2>1. events \in Seq(E)
    BY DEF StripeTypeOK
  <2>2. events[e] \in E
    <3> HIDE DEF E
    <3> QED BY <2>1
  <2> QED BY <2>2
<1>2. PICK s \in Statuses :
        /\ delivery' = [delivery EXCEPT ![d] = [at |-> "fetched", event |-> e, fetched |-> s]]
        /\ slipped' \in {slipped, slipped \cup {p}}
        /\ Busy(p) # {} => p \in slipped'
        /\ s = status[p] \/ p \in slipped'
  <2>1. status[p] \in Statuses
    BY <1>1 DEF StripeTypeOK
  <2> QED BY <1>1, <2>1 DEF Deliver, Live
<1>3. delivery[d].at = "idle" /\ UNCHANGED <<status, events, undone, plan, intent>> /\ e \in Nat
  <2>1. DOMAIN events \subseteq Nat
    BY DEF StripeTypeOK
  <2> QED BY <2>1 DEF Deliver, Waiting
<1>4. /\ delivery' \in [Deliveries -> [at : Ats, event : Nat, fetched : Statuses]]
      /\ delivery'[d] = [at |-> "fetched", event |-> e, fetched |-> s]
      /\ \A d0 \in Deliveries : d0 # d => delivery'[d0] = delivery[d0]
  BY <1>2, <1>3 DEF DeliveriesSound, Ats
<1>5. /\ PayerOf(d)' = p
      /\ \A d0 \in Deliveries : d0 # d => PayerOf(d0)' = PayerOf(d0)
      /\ slipped \subseteq slipped' /\ slipped' \subseteq Payers
  BY <1>1, <1>2, <1>3, <1>4 DEF PayerOf, StripeTypeOK
<1>6. StripeTypeOK' /\ DeliveriesSound'
  <2>1. StripeTypeOK'
    BY <1>3, <1>5 DEF StripeTypeOK
  <2>2. \A d0 \in Deliveries : delivery'[d0].at # "idle" => delivery'[d0].event \in DOMAIN events
    BY <1>4 DEF DeliveriesSound
  <2> QED BY <2>1, <2>2, <1>3, <1>4 DEF DeliveriesSound
<1>7. PayersAlone'
  <2>1. ASSUME NEW d1 \in Deliveries, NEW d2 \in Deliveries, d1 # d2,
               delivery'[d1].at # "idle", delivery'[d2].at # "idle", PayerOf(d1)' = PayerOf(d2)'
        PROVE  PayerOf(d1)' \in slipped'
    <3>1. CASE d1 # d /\ d2 # d
      BY <2>1, <3>1, <1>4, <1>5 DEF PayersAlone
    <3>2. ASSUME NEW other \in {d1, d2} \ {d}, d \in {d1, d2}
          PROVE  PayerOf(d1)' \in slipped'
      <4>1. other \in Busy(p)
        BY <2>1, <3>2, <1>4, <1>5 DEF Busy
      <4> QED BY <4>1, <1>2, <1>5, <2>1, <3>2
    <3> QED BY <2>1, <3>1, <3>2
  <2> QED BY <2>1 DEF PayersAlone
<1>8. PlansRight'
  BY <1>3, <1>5 DEF PlansRight, AwaitedFrom, Right
<1>9. DeliveriesRight'
  <2> SUFFICES ASSUME NEW d0 \in Deliveries PROVE DeliveryRight(d0)'
      BY DEF DeliveriesRight
  <2>1. CASE d0 = d
    BY <2>1, <1>2, <1>3, <1>4, <1>5 DEF DeliveryRight
  <2>2. CASE d0 # d
    <3>1. DeliveryRight(d0)
      BY DEF DeliveriesRight
    <3> QED BY <3>1, <2>2, <1>3, <1>4, <1>5 DEF DeliveryRight, AwaitedFrom, Right
  <2> QED BY <2>1, <2>2
<1> QED BY <1>6, <1>7, <1>8, <1>9

LEMMA WritePlanKeeps ==
  ASSUME StripeIInv, NEW d \in Deliveries, WritePlan(d)
  PROVE  StripeIInv'
<1> DEFINE p == PayerOf(d)  new == PlanFor(delivery[d].fetched)
<1> USE DEF StripeIInv
<1>1. delivery[d].at = "fetched" /\ p \in Payers /\ new \in {"free", "paid"}
  BY PayersOfDeliveries DEF WritePlan, PlanFor
<1>2. plan' = [plan EXCEPT ![p] = new] /\ UNCHANGED <<status, events, intent, slipped>>
  BY DEF WritePlan
<1>3. /\ plan' \in [Payers -> {"free", "paid"}]
      /\ \A q \in Payers : q # p => plan'[q] = plan[q]
      /\ plan'[p] = new
  BY <1>1, <1>2 DEF StripeTypeOK
<1>4. \/ p \in slipped
      \/ AwaitedFrom(p, undone \ {delivery[d].event})
      \/ new = PlanFor(status[p])
  BY <1>1 DEF DeliveriesRight, DeliveryRight
<1>5. PlanSettled(d)
  BY <1>2, <1>3, <1>4 DEF PlanSettled, StripeTypeOK
<1>6. \/ To(d, "transfer") /\ UNCHANGED undone
      \/ Acknowledge(d)
  BY DEF WritePlan
<1> QED BY <1>1, <1>5, <1>6, AcknowledgeKeeps, MoveKeeps DEF Ats

(* The steps of a delivery that wrote its plan. *)
LEMMA SettledDelivery ==
  ASSUME StripeIInv, NEW d \in Deliveries, delivery[d].at \in {"transfer", "cancelling", "completing"},
         UNCHANGED <<status, events, plan, slipped>>,
         intent' = intent \/ intent' = [intent EXCEPT !.at = "completed"]
  PROVE  PlanSettled(d) /\ delivery[d].at # "idle"
<1>1. \/ PayerOf(d) \in slipped
      \/ AwaitedFrom(PayerOf(d), undone \ {delivery[d].event})
      \/ Right(PayerOf(d))
  BY DEF StripeIInv, DeliveriesRight, DeliveryRight
<1>2. PayerOf(d) \in Payers
  BY PayersOfDeliveries DEF StripeIInv
<1>3. intent' \in [at : {"none", "pending", "completed", "cancelled"}, names : BOOLEAN]
  BY DEF StripeIInv, StripeTypeOK
<1> QED BY <1>1, <1>2, <1>3 DEF StripeIInv, StripeTypeOK, PlanSettled, Right

LEMMA CancelOldKeeps ==
  ASSUME StripeIInv, NEW d \in Deliveries, CancelOld(d)
  PROVE  StripeIInv'
<1>1. CASE UNCHANGED <<status, events, undone>>
  BY <1>1, SettledDelivery, MoveKeeps DEF CancelOld, Ats
<1>2. CASE Becomes("old", "canceled")
  BY <1>2, ChangeKeeps DEF CancelOld, Payers, Statuses
<1> QED BY <1>1, <1>2 DEF CancelOld

LEMMA DeliveryFailsKeeps ==
  ASSUME StripeIInv, NEW d \in Deliveries, DeliveryFails(d)
  PROVE  StripeIInv'
<1> USE DEF StripeIInv
<1>1. delivery' = [delivery EXCEPT ![d] = Waiting] /\ UNCHANGED <<status, events, undone, plan, intent, slipped>>
  BY DEF DeliveryFails
<1>2. /\ delivery' \in [Deliveries -> [at : Ats, event : Nat, fetched : Statuses]]
      /\ delivery'[d].at = "idle"
      /\ \A d0 \in Deliveries : d0 # d => delivery'[d0] = delivery[d0]
  BY <1>1 DEF DeliveriesSound, Waiting, Ats, Statuses
<1>3. \A d0 \in Deliveries : d0 # d => PayerOf(d0)' = PayerOf(d0)
  BY <1>1, <1>2 DEF PayerOf
<1>4. StripeTypeOK' /\ DeliveriesSound'
  BY <1>1, <1>2 DEF StripeTypeOK, DeliveriesSound
<1>5. PayersAlone'
  BY <1>1, <1>2, <1>3 DEF PayersAlone
<1>6. PlansRight'
  BY <1>1 DEF PlansRight, AwaitedFrom, Right
<1>7. DeliveriesRight'
  <2> SUFFICES ASSUME NEW d0 \in Deliveries, d0 # d PROVE DeliveryRight(d0)'
      BY <1>2 DEF DeliveriesRight, DeliveryRight
  <2>1. DeliveryRight(d0)
    BY DEF DeliveriesRight
  <2> QED BY <2>1, <1>1, <1>2, <1>3 DEF DeliveryRight, AwaitedFrom, Right
<1> QED BY <1>4, <1>5, <1>6, <1>7

LEMMA IntentKeeps ==
  ASSUME StripeIInv, UNCHANGED <<status, events, undone, delivery, plan, slipped>>,
         intent' \in [at : {"none", "pending", "completed", "cancelled"}, names : BOOLEAN]
  PROVE  StripeIInv'
BY DEF StripeIInv, StripeTypeOK, DeliveriesSound, PayersAlone, PlansRight, DeliveriesRight,
       DeliveryRight, AwaitedFrom, Right, PayerOf

LEMMA StripeStepInv == StripeIInv /\ [StripeNext]_stripeVars => StripeIInv'
<1> SUFFICES ASSUME StripeIInv, [StripeNext]_stripeVars PROVE StripeIInv'
    OBVIOUS
<1>1. ASSUME NEW p \in Payers, Change(p) PROVE StripeIInv'
  <2>1. PICK s \in Statuses : Becomes(p, s)
    <3>1. status[p] \in Statuses
      BY DEF StripeIInv, StripeTypeOK
    <3> QED BY <1>1, <3>1 DEF Change, Statuses
  <2> QED BY <2>1, <1>1, ChangeKeeps DEF Change
<1>2. ASSUME NEW d \in Deliveries, NEW e \in DOMAIN events, Deliver(d, e) PROVE StripeIInv'
  BY <1>2, DeliverKeeps
<1>3. ASSUME NEW d \in Deliveries, WritePlan(d) PROVE StripeIInv'
  BY <1>3, WritePlanKeeps
<1>4. ASSUME NEW d \in Deliveries, FindIntent(d) PROVE StripeIInv'
  <2>1. PlanSettled(d) /\ delivery[d].at # "idle"
    BY <1>4, SettledDelivery DEF FindIntent
  <2>2. \/ (\E at \in {"cancelling", "completing"} : To(d, at)) /\ UNCHANGED undone
        \/ Acknowledge(d)
    BY <1>4 DEF FindIntent
  <2> QED BY <2>1, <2>2, AcknowledgeKeeps, MoveKeeps DEF Ats
<1>5. ASSUME NEW d \in Deliveries, CancelOld(d) PROVE StripeIInv'
  BY <1>5, CancelOldKeeps
<1>6. ASSUME NEW d \in Deliveries, CompleteIntent(d) PROVE StripeIInv'
  BY <1>6, SettledDelivery, AcknowledgeKeeps DEF CompleteIntent
<1>7. ASSUME NEW d \in Deliveries, TransferFails(d) PROVE StripeIInv'
  BY <1>7, SettledDelivery, AcknowledgeKeeps DEF TransferFails
<1>8. ASSUME NEW d \in Deliveries, DeliveryFails(d) PROVE StripeIInv'
  BY <1>8, DeliveryFailsKeeps
<1>9. CASE CreateIntent \/ CancelIntent
  <2>1. intent' \in [at : {"none", "pending", "completed", "cancelled"}, names : BOOLEAN]
    <3>1. CASE CreateIntent
      <4>1. (plan["old"] = "paid") \in BOOLEAN
        OBVIOUS
      <4> QED BY <3>1, <4>1 DEF CreateIntent
    <3>2. CASE CancelIntent
      BY <3>2 DEF CancelIntent, StripeIInv, StripeTypeOK
    <3> QED BY <1>9, <3>1, <3>2
  <2> QED BY <1>9, <2>1, IntentKeeps DEF CreateIntent, CancelIntent
<1>10. CASE UNCHANGED stripeVars
  BY <1>10, IntentKeeps DEF stripeVars, StripeIInv, StripeTypeOK
<1> QED BY <1>1, <1>2, <1>3, <1>4, <1>5, <1>6, <1>7, <1>8, <1>9, <1>10 DEF StripeNext

LEMMA StripeSpecInv == StripeSpec => []StripeIInv
BY StripeInitInv, StripeStepInv, PTL DEF StripeSpec

(* Payers keep a status and a plan; what is waited for was sent. *)
THEOREM StripeTyped == StripeSpec => []StripeTypeOK
BY StripeSpecInv, PTL DEF StripeIInv

(* When nothing of a payer is waited for and no delivery is under way, the
   plan follows Stripe: for any number of deliveries and of changes. *)
THEOREM PlansFollowStripe == StripeSpec => []PlanFollowsStripe
<1>1. StripeIInv => PlanFollowsStripe
  <2> SUFFICES ASSUME StripeIInv, NEW p \in Payers \ slipped, \A e \in undone : events[e].payer # p
                PROVE  plan[p] = PlanFor(status[p])
      BY DEF PlanFollowsStripe
  <2> QED BY DEF StripeIInv, PlansRight, AwaitedFrom, Right
<1> QED BY <1>1, StripeSpecInv, PTL

-----------------------------------------------------------------------------
(***************************************************************************)
(* Referral credits, for any invoices, cap, deliveries and passes.  That   *)
(* the cap is passed by less than the deliveries takes a sum: credits and  *)
(* deliveries that have counted but not inserted (CapInv).  That a credit  *)
(* is granted once takes who holds it meanwhile (OnceInv).                 *)
(***************************************************************************)
Counting == {d \in Recorders : recorder[d] # NoInvoice}

CapInv ==
  Cardinality(Credits) + Cardinality(Counting) <= CreditCap + Cardinality(Recorders) - 1

Held(i) == \E s \in Passes : settle[s].granted = i

(* Of one credit: what is granted or stamped was; what has no row is nowhere.
   While nothing went wrong with it, one pass at most holds it, it is granted
   only by the pass that has it still before it, and one that is granted and
   not stamped is held. *)
Once(i) ==
  /\ Held(i) \/ credit[i] = "applied" => grants[i] >= 1
  /\ credit[i] = "none" => grants[i] = 0 /\ \A s \in Passes : ~At(s, i)
  /\ i \notin unstamped =>
       /\ grants[i] <= 1
       /\ \A s, t \in Passes : At(s, i) /\ At(t, i) => s = t
       /\ \A s \in Passes : i \in settle[s].todo => grants[i] = 0
       /\ grants[i] = 1 /\ credit[i] = "pending" => Held(i)

OnceInv == \A i \in Invoices : Once(i)

ReferralIInv == ReferralTypeOK /\ CapInv /\ OnceInv

-----------------------------------------------------------------------------
(* The cap *)

LEMMA FiniteSums ==
  /\ IsFiniteSet(Credits) /\ Cardinality(Credits) \in Nat
  /\ IsFiniteSet(Counting) /\ Cardinality(Counting) \in Nat
  /\ Cardinality(Recorders) \in Nat /\ Cardinality(Counting) <= Cardinality(Recorders)
<1>1. Credits \subseteq Invoices /\ Counting \subseteq Recorders
  BY DEF Credits, Counting
<1> QED BY <1>1, FiniteAssumption, FS_Subset, FS_CardinalityType

(* A delivery counts only below the cap, so that with it no more than all the
   deliveries add to what is below the cap. *)
LEMMA CountNearCap ==
  ASSUME ReferralTypeOK, CapInv, NEW d \in Recorders, NEW i \in Invoices, Count(d, i)
  PROVE  CapInv'
<1>1. Credits' = Credits
  BY DEF Count, Credits
<1>2. Cardinality(Credits) <= CreditCap - 1
  BY FiniteSums, CreditCapAssumption DEF Count
<1>3. Counting' \subseteq Recorders
  BY DEF Counting
<1>4. Cardinality(Counting') \in Nat /\ Cardinality(Counting') <= Cardinality(Recorders)
  BY <1>3, FiniteAssumption, FS_Subset, FS_CardinalityType
<1> QED BY <1>1, <1>2, <1>4, FiniteSums, CreditCapAssumption DEF CapInv

LEMMA InsertNearCap ==
  ASSUME ReferralTypeOK, CapInv, NEW d \in Recorders, InsertCredit(d)
  PROVE  CapInv'
<1> DEFINE i == recorder[d]
<1>1. i \in Invoices /\ d \in Counting
  BY DEF InsertCredit, ReferralTypeOK, Counting
<1>2. Counting' = Counting \ {d}
  BY DEF InsertCredit, ReferralTypeOK, Counting
<1>3. Cardinality(Counting') = Cardinality(Counting) - 1
  BY <1>1, <1>2, FiniteSums, FS_RemoveElement
<1>4. Credits' = Credits \/ Credits' = Credits \cup {i}
  BY <1>1 DEF InsertCredit, ReferralTypeOK, Credits
<1>5. Cardinality(Credits') \in Nat /\ Cardinality(Credits') <= Cardinality(Credits) + 1
  <2>1. CASE Credits' = Credits
    BY <2>1, FiniteSums
  <2>2. CASE Credits' = Credits \cup {i}
    <3>1. Cardinality(Credits \cup {i}) \in {Cardinality(Credits), Cardinality(Credits) + 1}
      BY FiniteSums, FS_AddElement
    <3> HIDE DEF i
    <3>2. Cardinality(Credits') \in {Cardinality(Credits), Cardinality(Credits) + 1}
      BY <2>2, <3>1
    <3> QED BY <3>2, FiniteSums
  <2> QED BY <1>4, <2>1, <2>2
<1> QED BY <1>3, <1>5, FiniteSums, CreditCapAssumption DEF CapInv, InsertCredit

(* Neither a new row nor a delivery. *)
LEMMA SameCap ==
  ASSUME CapInv, recorder' = recorder, Credits' = Credits
  PROVE  CapInv'
BY DEF CapInv, Counting

-----------------------------------------------------------------------------

LEMMA ReferralInitInv == ReferralInit => ReferralIInv
<1> SUFFICES ASSUME ReferralInit PROVE ReferralIInv
    OBVIOUS
<1>1. ReferralTypeOK
  BY GrantsAssumption DEF ReferralInit, ReferralTypeOK
<1>2. CapInv
  <2>1. Credits = {} /\ Counting = {}
    BY DEF ReferralInit, Credits, Counting
  <2> QED BY <2>1, FiniteSums, CreditCapAssumption, FS_EmptySet DEF CapInv
<1>3. OnceInv
  BY NoInvoiceAssumption DEF ReferralInit, OnceInv, Once, Held, At
<1> QED BY <1>1, <1>2, <1>3 DEF ReferralIInv

LEMMA ReferralStepInv == ReferralIInv /\ [ReferralNext]_referralVars => ReferralIInv'
<1> SUFFICES ASSUME ReferralIInv, [ReferralNext]_referralVars PROVE ReferralIInv'
    OBVIOUS
<1>a. /\ credit \in [Invoices -> {"none", "pending", "applied"}]
      /\ grants \in [Invoices -> 0..MaxGrants]
      /\ recorder \in [Recorders -> Invoices \cup {NoInvoice}]
      /\ settle \in [Passes -> [todo : SUBSET Invoices, granted : Invoices \cup {NoInvoice}]]
      /\ unstamped \subseteq Invoices
  BY DEF ReferralIInv, ReferralTypeOK
<1>b. CapInv /\ OnceInv /\ ReferralTypeOK
  BY DEF ReferralIInv
<1>1. ASSUME NEW d \in Recorders, NEW i \in Invoices, Count(d, i) PROVE ReferralIInv'
  <2>1. ReferralTypeOK'
    BY <1>1, <1>a DEF Count, ReferralTypeOK
  <2>2. OnceInv'
    BY <1>1, <1>b DEF Count, OnceInv, Once, Held, At
  <2> QED BY <1>1, <1>b, <2>1, <2>2, CountNearCap DEF ReferralIInv
<1>2. ASSUME NEW d \in Recorders, InsertCredit(d) PROVE ReferralIInv'
  <2>1. recorder[d] \in Invoices
    BY <1>2, <1>a DEF InsertCredit
  <2>2. ReferralTypeOK'
    BY <1>2, <1>a, <2>1 DEF InsertCredit, ReferralTypeOK
  <2>3. \A i \in Invoices : credit'[i] = credit[i] \/ (credit[i] = "none" /\ credit'[i] = "pending")
    BY <1>2, <1>a, <2>1 DEF InsertCredit
  <2>4. OnceInv'
    BY <1>2, <1>b, <2>3 DEF InsertCredit, OnceInv, Once, Held, At
  <2> QED BY <1>2, <1>b, <2>2, <2>4, InsertNearCap DEF ReferralIInv
<1>3. ASSUME NEW s \in Passes, StartPass(s) PROVE ReferralIInv'
  <2>1. Listed \subseteq {i \in Invoices : credit[i] = "pending"}
    BY DEF Listed
  <2>2. /\ settle' = [settle EXCEPT ![s].todo = Listed]
        /\ settle'[s] = [todo |-> Listed, granted |-> NoInvoice]
        /\ \A t \in Passes \ {s} : settle'[t] = settle[t]
        /\ \A t \in Passes : settle'[t].granted = settle[t].granted
        /\ unstamped' = unstamped \cup {i \in Listed : \E o \in Passes : At(o, i)}
        /\ UNCHANGED <<credit, grants, customer, recorder>>
    BY <1>3, <1>a DEF StartPass
  <2>3. ReferralTypeOK'
    BY <1>a, <2>1, <2>2 DEF ReferralTypeOK
  <2>4. ASSUME NEW i \in Invoices PROVE Once(i)'
    <3>1. Once(i)
      BY <1>b DEF OnceInv
    <3>2. Held(i)' <=> Held(i)
      BY <2>2 DEF Held
    <3>3. CASE i \in Listed
      <4>1. credit[i] = "pending"
        BY <2>1, <3>3
      <4>2. ASSUME i \notin unstamped'
            PROVE  /\ \A t, u \in Passes : At(t, i)' /\ At(u, i)' => t = u
                   /\ grants'[i] = 0
        <5>1. i \notin unstamped /\ \A o \in Passes : ~At(o, i)
          BY <2>2, <3>3, <4>2
        <5>2. grants[i] = 0
          BY <1>a, <3>1, <4>1, <5>1, GrantsAssumption DEF Once, Held, At
        <5> QED BY <2>2, <5>1, <5>2 DEF At
      <4> QED BY <2>2, <3>1, <3>2, <4>1, <4>2 DEF Once
    <3>4. CASE i \notin Listed
      <4>1. \A t \in Passes : /\ At(t, i)' => At(t, i)
                              /\ i \in settle'[t].todo => i \in settle[t].todo
        BY <2>2, <3>4, NoInvoiceAssumption DEF At
      <4> QED BY <2>2, <3>1, <3>2, <3>4, <4>1 DEF Once
    <3> QED BY <3>3, <3>4
  <2>5. CapInv'
    BY <1>b, <2>2, SameCap DEF Credits
  <2> QED BY <2>3, <2>4, <2>5 DEF ReferralIInv, OnceInv
<1>4. ASSUME NEW s \in Passes, NEW j \in Invoices, Grant(s, j) PROVE ReferralIInv'
  <2>1. /\ settle[s].granted = NoInvoice /\ j \in settle[s].todo /\ grants[j] < MaxGrants
        /\ grants' = [grants EXCEPT ![j] = @ + 1]
        /\ settle'[s] = [todo |-> settle[s].todo \ {j}, granted |-> j]
        /\ \A t \in Passes \ {s} : settle'[t] = settle[t]
        /\ UNCHANGED <<credit, customer, recorder, unstamped>>
    BY <1>4, <1>a DEF Grant
  <2>2. ReferralTypeOK'
    BY <1>4, <1>a, GrantsAssumption DEF Grant, ReferralTypeOK
  <2>3. ASSUME NEW i \in Invoices PROVE Once(i)'
    <3>1. Once(i)
      BY <1>b DEF OnceInv
    <3>2. \A t \in Passes : /\ At(t, i)' <=> At(t, i)
                            /\ i \in settle'[t].todo => i \in settle[t].todo
      BY <2>1, NoInvoiceAssumption DEF At
    <3>3. CASE i = j
      <4>1. At(s, i) /\ grants'[i] = grants[i] + 1 /\ Held(i)' /\ i \notin settle'[s].todo
        BY <1>a, <2>1, <3>3 DEF At, Held
      <4>2. credit[i] # "none"
        BY <3>1, <4>1 DEF Once
      <4>3. ASSUME i \notin unstamped' PROVE grants'[i] = 1 /\ \A t \in Passes : i \notin settle'[t].todo
        BY <2>1, <3>1, <3>2, <3>3, <4>1, <4>3 DEF Once, At
      <4>4. grants'[i] >= 1
        BY <1>a, <4>1
      <4> QED BY <2>1, <3>1, <3>2, <4>1, <4>2, <4>3, <4>4 DEF Once
    <3>4. CASE i # j
      <4>1. grants'[i] = grants[i] /\ (Held(i)' <=> Held(i))
        BY <1>a, <2>1, <3>4, NoInvoiceAssumption DEF Held
      <4> QED BY <2>1, <3>1, <3>2, <4>1 DEF Once
    <3> QED BY <3>3, <3>4
  <2>4. CapInv'
    BY <1>b, <2>1, SameCap DEF Credits
  <2> QED BY <2>2, <2>3, <2>4 DEF ReferralIInv, OnceInv
<1>5. ASSUME NEW s \in Passes, NEW j \in Invoices, GrantFails(s, j) PROVE ReferralIInv'
  <2>1. /\ settle[s].granted = NoInvoice /\ j \in settle[s].todo
        /\ settle' = [settle EXCEPT ![s].todo = @ \ {j}]
        /\ UNCHANGED <<credit, customer, recorder>>
    BY <1>5 DEF GrantFails
  <2>2. /\ settle'[s] = [todo |-> settle[s].todo \ {j}, granted |-> NoInvoice]
        /\ \A t \in Passes \ {s} : settle'[t] = settle[t]
        /\ \A t \in Passes : settle'[t].granted = settle[t].granted
    BY <1>a, <2>1
  <2>3. \/ UNCHANGED <<grants, unstamped>>
        \/ /\ grants[j] < MaxGrants /\ grants' = [grants EXCEPT ![j] = @ + 1]
           /\ unstamped' = unstamped \cup {j}
    BY <1>5 DEF GrantFails
  <2>4. ReferralTypeOK'
    BY <1>a, <2>1, <2>3, GrantsAssumption DEF ReferralTypeOK
  <2>5. ASSUME NEW i \in Invoices PROVE Once(i)'
    <3>1. Once(i)
      BY <1>b DEF OnceInv
    <3>2. \A t \in Passes : /\ At(t, i)' => At(t, i)
                            /\ i \in settle'[t].todo => i \in settle[t].todo
      BY <2>2, NoInvoiceAssumption DEF At
    <3>3. Held(i)' <=> Held(i)
      BY <2>2 DEF Held
    <3>4. CASE grants'[i] = grants[i] /\ (i \in unstamped' <=> i \in unstamped)
      BY <2>1, <3>1, <3>2, <3>3, <3>4 DEF Once
    <3>5. CASE i = j /\ grants'[i] = grants[i] + 1 /\ i \in unstamped'
      <4>1. credit[i] # "none"
        BY <2>1, <3>1, <3>5 DEF Once, At
      <4>2. grants'[i] >= 1
        BY <1>a, <3>5
      <4> QED BY <2>1, <3>5, <4>1, <4>2 DEF Once
    <3> QED BY <1>a, <2>3, <3>4, <3>5
  <2>6. CapInv'
    BY <1>b, <2>1, SameCap DEF Credits
  <2> QED BY <2>4, <2>5, <2>6 DEF ReferralIInv, OnceInv
<1>6. ASSUME NEW s \in Passes, Stamp(s) PROVE ReferralIInv'
  <2> DEFINE j == settle[s].granted
  <2>1. /\ j \in Invoices
        /\ credit' = [credit EXCEPT ![j] = "applied"]
        /\ settle' = [settle EXCEPT ![s].granted = NoInvoice]
        /\ UNCHANGED <<grants, customer, recorder, unstamped>>
    BY <1>6, <1>a DEF Stamp
  <2>2. /\ settle'[s] = [todo |-> settle[s].todo, granted |-> NoInvoice]
        /\ \A t \in Passes \ {s} : settle'[t] = settle[t]
    BY <1>a, <2>1
  <2>3. ReferralTypeOK'
    BY <1>a, <2>1 DEF ReferralTypeOK
  <2>4. Once(j) /\ At(s, j) /\ Held(j) /\ credit[j] # "none" /\ grants[j] >= 1
    BY <1>b, <2>1 DEF OnceInv, Once, At, Held
  <2>5. ASSUME NEW i \in Invoices PROVE Once(i)'
    <3>1. Once(i)
      BY <1>b DEF OnceInv
    <3>2. \A t \in Passes : /\ At(t, i)' => At(t, i)
                            /\ i \in settle'[t].todo <=> i \in settle[t].todo
      BY <2>2, NoInvoiceAssumption DEF At
    <3>3. CASE i = j
      BY <1>a, <2>1, <2>4, <3>1, <3>2, <3>3 DEF Once
    <3>4. CASE i # j
      <4>1. credit'[i] = credit[i] /\ (Held(i)' <=> Held(i))
        BY <1>a, <2>1, <2>2, <3>4, NoInvoiceAssumption DEF Held
      <4> QED BY <2>1, <3>1, <3>2, <4>1 DEF Once
    <3> QED BY <3>3, <3>4
  <2>6. CapInv'
    <3>1. Credits' = Credits
      BY <1>a, <2>1, <2>4 DEF Credits
    <3> QED BY <1>b, <2>1, <3>1, SameCap
  <2> QED BY <2>3, <2>5, <2>6 DEF ReferralIInv, OnceInv
<1>7. ASSUME NEW s \in Passes, StampFails(s) \/ PassDies(s) PROVE ReferralIInv'
  <2>1. /\ unstamped' = unstamped \cup ({settle[s].granted} \ {NoInvoice})
        /\ settle'[s].granted = NoInvoice /\ settle'[s].todo \subseteq settle[s].todo
        /\ \A t \in Passes \ {s} : settle'[t] = settle[t]
        /\ UNCHANGED <<credit, grants, customer, recorder>>
    BY <1>7, <1>a DEF StampFails, PassDies
  <2>2. ReferralTypeOK'
    BY <1>7, <1>a DEF StampFails, PassDies, ReferralTypeOK
  <2>3. ASSUME NEW i \in Invoices PROVE Once(i)'
    <3>1. Once(i)
      BY <1>b DEF OnceInv
    <3>2. \A t \in Passes : /\ At(t, i)' => At(t, i)
                            /\ i \in settle'[t].todo => i \in settle[t].todo
      BY <2>1, NoInvoiceAssumption DEF At
    <3>3. Held(i)' => Held(i)
      BY <2>1, NoInvoiceAssumption DEF Held
    <3>4. i \notin unstamped' /\ Held(i) => Held(i)'
      BY <2>1, NoInvoiceAssumption DEF Held
    <3> QED BY <2>1, <3>1, <3>2, <3>3, <3>4 DEF Once
  <2>4. CapInv'
    BY <1>b, <2>1, SameCap DEF Credits
  <2> QED BY <2>2, <2>3, <2>4 DEF ReferralIInv, OnceInv
<1>8. ASSUME BecomeCustomer \/ UNCHANGED referralVars PROVE ReferralIInv'
  <2>1. UNCHANGED <<credit, grants, recorder, settle, unstamped>>
    BY <1>8 DEF BecomeCustomer, referralVars
  <2>2. ReferralTypeOK' /\ OnceInv'
    BY <1>b, <2>1 DEF ReferralTypeOK, OnceInv, Once, Held, At
  <2> QED BY <1>b, <2>1, <2>2, SameCap DEF ReferralIInv, Credits
<1> QED BY <1>1, <1>2, <1>3, <1>4, <1>5, <1>6, <1>7, <1>8 DEF ReferralNext

LEMMA ReferralSpecInv == ReferralSpec => []ReferralIInv
BY ReferralInitInv, ReferralStepInv, PTL DEF ReferralSpec

(* Rows, grants, deliveries and passes keep their shapes. *)
THEOREM ReferralsTyped == ReferralSpec => []ReferralTypeOK
BY ReferralSpecInv, PTL DEF ReferralIInv

(* However many deliveries overlap, the cap is passed by fewer credits than
   there are deliveries in flight. *)
THEOREM CreditsStayNearCap == ReferralSpec => []CreditsNearCap
<1>1. ReferralIInv => CreditsNearCap
  BY FiniteSums, CreditCapAssumption DEF ReferralIInv, CapInv, CreditsNearCap
<1> QED BY <1>1, ReferralSpecInv, PTL

(* Whatever passes die, fail and overlap, a credit is granted twice only after
   a pass granted it without stamping it or two passes listed it. *)
THEOREM CreditsGrantedOnce == ReferralSpec => []GrantedOnce
<1>1. ReferralIInv => GrantedOnce
  BY DEF ReferralIInv, OnceInv, Once, GrantedOnce
<1> QED BY <1>1, ReferralSpecInv, PTL

=============================================================================
