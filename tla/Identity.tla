------------------------------ MODULE Identity ------------------------------
(***************************************************************************)
(* The members of one company and their credentials: invitations, user     *)
(* tokens, devices, removal of members and change of roles (src/api.rs,    *)
(* src/auth.rs, src/store/pg.rs).                                          *)
(*                                                                         *)
(* Every handler authenticates, reads the caller's role and then makes one *)
(* or more store calls, each a statement of its own with no transaction    *)
(* around them; each is a step here, and a client that disconnects ends    *)
(* its handler between two of them.  A user stands for their e-mail        *)
(* address.  The six roles that no rule here mentions are "member".        *)
(***************************************************************************)
EXTENDS Integers, Sequences, FiniteSets

CONSTANTS
    Users,           \* e-mail addresses
    Founder,         \* who created the company
    Requests,        \* handlers that may run at the same time
    Disconnects,     \* operations whose client may disconnect
    MaxInvitations,  \* bound: invitations sent
    MaxTokens,       \* bound: user tokens issued
    MaxCuts,         \* bound: acceptances of an invitation cut off after joining
    MaxDevices       \* bound: devices registered

ASSUME FounderAssumption == Founder \in Users

ASSUME BoundsAssumption ==
    /\ MaxInvitations \in Nat /\ MaxTokens \in Nat \ {0} /\ MaxDevices \in Nat
    /\ MaxCuts \in Nat

ASSUME RequestsAssumption == IsFiniteSet(Requests)

Roles == {"owner", "admin", "member"}

Operations == {"invite", "accept", "register", "revoke", "rotate", "remove", "change"}

VARIABLES
    role,         \* memberships: the role of a user, "none" without a row
    invitations,  \* invitations in the order they were created, with a history
                  \* of the memberships each one made (joined) and of the
                  \* acceptances cut off before they marked it (cut)
    tokens,       \* user_tokens; valid = the row exists and has not expired
    devices,      \* devices in the order they were registered
    request       \* the handlers

vars == <<role, invitations, tokens, devices, request>>

Idle == [op |-> "idle", at |-> "idle", user |-> Founder, token |-> 0, role |-> "none",
         subject |-> 0, target |-> Founder, new |-> "member"]

Goto(r, where) == [request EXCEPT ![r].at = where]

Finish(r) == [request EXCEPT ![r] = Idle]

-----------------------------------------------------------------------------
(* Authentication.                                                         *)

\* resolve_token: a request presents a user token or a device token.
Credentials ==
    LET live == {t \in DOMAIN tokens : tokens[t].valid}
        trusted == {d \in DOMAIN devices : ~devices[d].revoked}
    IN  {[user |-> tokens[t].user, token |-> t] : t \in live}
           \cup {[user |-> devices[d].user, token |-> 0] : d \in trusted}

\* A request of an authenticated caller.  A device cannot rotate its token.
Begin(r, op, cred, subject, target, new) ==
    /\ request[r].at = "idle" /\ op # "accept"
    /\ op = "rotate" => cred.token # 0
    /\ request' = [request EXCEPT ![r] =
          [op |-> op, at |-> "authorize", user |-> cred.user, token |-> cred.token,
           role |-> "none", subject |-> subject, target |-> target, new |-> new]]
    /\ UNCHANGED <<role, invitations, tokens, devices>>

\* require_role of each operation.
Allowed(op) ==
    CASE op \in {"invite", "remove"} -> {"owner", "admin"}
      [] op = "change" -> {"owner"}
      [] OTHER -> Roles

FirstCall(op) == IF op \in {"remove", "change"} THEN "target" ELSE "write"

\* require_membership and require_role.
Authorize(r) ==
    /\ request[r].at = "authorize"
    /\ LET held == role[request[r].user]
       IN  \/ /\ held \in Allowed(request[r].op)
              /\ request' = [request EXCEPT ![r].role = held,
                                            ![r].at = FirstCall(request[r].op)]
           \/ /\ held \notin Allowed(request[r].op)
              /\ request' = Finish(r)
    /\ UNCHANGED <<role, invitations, tokens, devices>>

-----------------------------------------------------------------------------
(* Joining.                                                                *)

create_invitation(r) ==
    /\ request[r].op = "invite" /\ request[r].at = "write"
    /\ Len(invitations) < MaxInvitations
    /\ invitations' = Append(invitations,
          [user |-> request[r].target, role |-> request[r].new,
           accepted |-> FALSE, expired |-> FALSE, joined |-> 0, cut |-> 0])
    /\ request' = Finish(r)
    /\ UNCHANGED <<role, tokens, devices>>

\* Mutant: a used invitation is not refused.
UsableMutant(i) == ~invitations[i].expired

\* accept_invitation refuses an accepted and an expired invitation.
Usable(i) == ~invitations[i].accepted /\ ~invitations[i].expired

accept_invitation(r, i) ==
    /\ request[r].at = "idle" /\ Usable(i)
    /\ request' = [request EXCEPT ![r] =
          [Idle EXCEPT !.op = "accept", !.at = "join", !.subject = i,
                       !.user = invitations[i].user, !.new = invitations[i].role]]
    /\ UNCHANGED <<role, invitations, tokens, devices>>

\* upsert_user and upsert_membership: a row that exists keeps its role.
Join(r) ==
    /\ request[r].at = "join"
    /\ role' = [role EXCEPT ![request[r].user] = IF @ = "none" THEN request[r].new ELSE @]
    /\ invitations' = IF role[request[r].user] # "none" THEN invitations
                      ELSE [invitations EXCEPT ![request[r].subject].joined = @ + 1]
    /\ request' = Goto(r, "mark")
    /\ UNCHANGED <<tokens, devices>>

\* mark_invitation_accepted.
MarkAccepted(r) ==
    /\ request[r].at = "mark"
    /\ invitations' = [invitations EXCEPT ![request[r].subject].accepted = TRUE]
    /\ request' = Goto(r, "issue")
    /\ UNCHANGED <<role, tokens, devices>>

Issued(user) == Append(tokens, [user |-> user, valid |-> TRUE])

IssueToken(r) ==
    /\ request[r].at = "issue" /\ Len(tokens) < MaxTokens
    /\ tokens' = Issued(request[r].user)
    /\ request' = Finish(r)
    /\ UNCHANGED <<role, invitations, devices>>

-----------------------------------------------------------------------------
(* Credentials.                                                            *)

register_device(r) ==
    /\ request[r].op = "register" /\ request[r].at = "write"
    /\ Len(devices) < MaxDevices
    /\ devices' = Append(devices, [user |-> request[r].user, revoked |-> FALSE])
    /\ request' = Finish(r)
    /\ UNCHANGED <<role, invitations, tokens>>

\* A member may revoke their own device, an owner or admin anyone's.  The
\* user of a device never changes, so looking it up is part of the step.
revoke_device(r) ==
    /\ request[r].op = "revoke" /\ request[r].at = "write"
    /\ LET d == request[r].subject
           mayRevoke == /\ d \in DOMAIN devices
                        /\ \/ devices[d].user = request[r].user
                           \/ request[r].role \in {"owner", "admin"}
       IN  devices' = IF mayRevoke THEN [devices EXCEPT ![d].revoked = TRUE] ELSE devices
    /\ request' = Finish(r)
    /\ UNCHANGED <<role, invitations, tokens>>

\* Mutant: the presented token is deleted before its replacement exists.
RotatedMutant(r) ==
    IF request[r].at = "write" THEN [tokens EXCEPT ![request[r].token].valid = FALSE]
    ELSE Issued(request[r].user)

\* The two statements of a rotation: the replacement is inserted, then the
\* presented token is deleted.
Rotated(r) ==
    IF request[r].at = "write" THEN Issued(request[r].user)
    ELSE [tokens EXCEPT ![request[r].token].valid = FALSE]

rotate_user_token(r) ==
    /\ request[r].op = "rotate" /\ request[r].at \in {"write", "delete"}
    /\ request[r].at = "write" => Len(tokens) < MaxTokens
    /\ tokens' = Rotated(r)
    /\ request' = IF request[r].at = "write" THEN Goto(r, "delete") ELSE Finish(r)
    /\ UNCHANGED <<role, invitations, devices>>

-----------------------------------------------------------------------------
(* Members.                                                                *)

\* Mutant: an owner or admin removes any owner.
MayRemoveMutant(r, seen) ==
    ~(seen = "admin" /\ request[r].role = "admin" /\ request[r].target # request[r].user)

\* An owner is removed by nobody else; an admin removes no other admin.
MayRemove(r, seen) ==
    \/ request[r].target = request[r].user
    \/ seen # "owner" /\ ~(seen = "admin" /\ request[r].role = "admin")

\* Whether the operation takes an owner away.
LosesOwner(r, seen) ==
    seen = "owner" /\ (request[r].op = "remove" \/ request[r].new # "owner")

\* membership_role of the target.
ReadTarget(r) ==
    /\ request[r].at = "target"
    /\ LET seen == role[request[r].target]
           refused == seen = "none" \/ (request[r].op = "remove" /\ ~MayRemove(r, seen))
       IN  request' = IF refused THEN Finish(r)
                      ELSE Goto(r, IF LosesOwner(r, seen) THEN "count" ELSE "write")
    /\ UNCHANGED <<role, invitations, tokens, devices>>

\* Mutant: the last owner may go.
LastOwnerMutant == Cardinality({u \in Users : role[u] = "owner"}) < 1

\* owner_count.
LastOwner == Cardinality({u \in Users : role[u] = "owner"}) <= 1

CountOwners(r) ==
    /\ request[r].at = "count"
    /\ request' = IF LastOwner THEN Finish(r) ELSE Goto(r, "write")
    /\ UNCHANGED <<role, invitations, tokens, devices>>

\* remove_membership: no row, nothing more to do.
remove_member(r) ==
    /\ request[r].op = "remove" /\ request[r].at = "write"
    /\ role' = [role EXCEPT ![request[r].target] = "none"]
    /\ request' = IF role[request[r].target] = "none" THEN Finish(r) ELSE Goto(r, "devices")
    /\ UNCHANGED <<invitations, tokens, devices>>

\* Mutant: a removal revokes the devices of the caller.
RevokedUserMutant(r) == request[r].user

\* The user whose devices a removal revokes.
RevokedUser(r) == request[r].target

revoke_user_devices(r) ==
    /\ request[r].at = "devices"
    /\ devices' = [d \in DOMAIN devices |->
          [devices[d] EXCEPT !.revoked = @ \/ devices[d].user = RevokedUser(r)]]
    /\ request' = Finish(r)
    /\ UNCHANGED <<role, invitations, tokens>>

\* set_membership_role updates a row, it never makes one.
change_member_role(r) ==
    /\ request[r].op = "change" /\ request[r].at = "write"
    /\ role' = [role EXCEPT ![request[r].target] = IF @ = "none" THEN @ ELSE request[r].new]
    /\ request' = Finish(r)
    /\ UNCHANGED <<invitations, tokens, devices>>

-----------------------------------------------------------------------------
(* The environment.                                                        *)

\* The client goes away and its handler is dropped between two store calls.
Disconnect(r) ==
    /\ request[r].op \in Disconnects
    /\ IF request[r].at = "mark"
       THEN /\ invitations[request[r].subject].cut < MaxCuts
            /\ invitations' = [invitations EXCEPT ![request[r].subject].cut = @ + 1]
       ELSE invitations' = invitations
    /\ request' = Finish(r)
    /\ UNCHANGED <<role, tokens, devices>>

\* A token lives for days, longer than the rotation that issued it runs.
ExpireToken(t) ==
    /\ tokens[t].valid
    /\ \A r \in Requests : request[r].at = "delete" => t <= request[r].token
    /\ tokens' = [tokens EXCEPT ![t].valid = FALSE]
    /\ UNCHANGED <<role, invitations, devices, request>>

ExpireInvitation(i) ==
    /\ Usable(i)
    /\ invitations' = [invitations EXCEPT ![i].expired = TRUE]
    /\ UNCHANGED <<role, tokens, devices, request>>

\* create_company: the founder is the owner and has a token.
Init ==
    /\ role = [u \in Users |-> IF u = Founder THEN "owner" ELSE "none"]
    /\ invitations = <<>>
    /\ tokens = <<[user |-> Founder, valid |-> TRUE]>>
    /\ devices = <<>>
    /\ request = [r \in Requests |-> Idle]

\* What a request is about: nothing, a device, a user, a user and a role.
BeginAny(r) ==
    \E cred \in Credentials :
        \/ \E op \in {"register", "rotate"} : Begin(r, op, cred, 0, Founder, "member")
        \/ \E d \in DOMAIN devices : Begin(r, "revoke", cred, d, Founder, "member")
        \/ \E u \in Users : Begin(r, "remove", cred, 0, u, "member")
        \/ \E op \in {"invite", "change"}, u \in Users, n \in Roles : Begin(r, op, cred, 0, u, n)

Step(r) ==
    \/ Authorize(r)
    \/ create_invitation(r) \/ Join(r) \/ MarkAccepted(r) \/ IssueToken(r)
    \/ register_device(r) \/ revoke_device(r) \/ rotate_user_token(r)
    \/ ReadTarget(r) \/ CountOwners(r)
    \/ remove_member(r) \/ revoke_user_devices(r) \/ change_member_role(r)

Next ==
    \/ \E r \in Requests : BeginAny(r) \/ Step(r) \/ Disconnect(r)
    \/ \E r \in Requests, i \in DOMAIN invitations : accept_invitation(r, i)
    \/ \E t \in DOMAIN tokens : ExpireToken(t)
    \/ \E i \in DOMAIN invitations : ExpireInvitation(i)

Spec == Init /\ [][Next]_vars

-----------------------------------------------------------------------------
(* What makes membership safe to rely on.                                  *)

RequestType ==
    [op : Operations \cup {"idle"},
     at : {"idle", "authorize", "target", "count", "write", "devices", "delete",
           "join", "mark", "issue"},
     user : Users, token : Nat, role : Roles \cup {"none"}, subject : Nat,
     target : Users, new : Roles]

\* Type invariant.
TypeOK ==
    /\ role \in [Users -> Roles \cup {"none"}]
    /\ invitations \in
          Seq([user : Users, role : Roles, accepted : BOOLEAN, expired : BOOLEAN,
               joined : Nat, cut : Nat])
    /\ tokens \in Seq([user : Users, valid : BOOLEAN])
    /\ devices \in Seq([user : Users, revoked : BOOLEAN])
    /\ request \in [Requests -> RequestType]

\* A company always keeps an owner (remove_member, change_member_role: "a
\* company must always keep one").
OwnerRemains == \E u \in Users : role[u] = "owner"

\* An invitation makes no more memberships than handlers that accept it at
\* the same time and acceptances that were cut off between joining and marking
\* it: accepted once by one handler that runs to its end, it makes one, however
\* often the member is removed afterwards (accept_invitation).
JoinsBounded ==
    \A i \in DOMAIN invitations :
        invitations[i].joined <= invitations[i].cut + Cardinality(Requests)

\* The devices of somebody who is not a member are revoked, but for those a
\* removal that is under way is about to revoke (remove_member: "Removal also
\* revokes the member's devices in this company").
DevicesEndWithMembership ==
    \A d \in DOMAIN devices : role[devices[d].user] = "none" /\ ~devices[d].revoked =>
        \E r \in Requests : request[r].at = "devices" /\ request[r].target = devices[d].user

HasSession(u) == \E t \in DOMAIN tokens : tokens[t].user = u /\ tokens[t].valid

\* Nothing but expiry takes a user's last token: a rotation that fails half
\* way leaves both tokens valid (rotate_user_token).
SessionKept ==
    [][\A u \in Users : HasSession(u) /\ ~HasSession(u)' =>
          \E t \in DOMAIN tokens : ExpireToken(t)]_vars

\* An owner who is no longer a member removed themself, and an owner who is
\* no longer an owner was demoted by somebody who is one (remove_member: "An
\* owner may only be removed by themself").
OwnersGoFreely ==
    [][\A u \in Users : role[u] = "owner" /\ role'[u] # "owner" =>
          \E r \in Requests :
             /\ request[r].at = "write" /\ request[r].target = u
             /\ IF role'[u] = "none" THEN request[r].user = u
                ELSE role[request[r].user] = "owner"]_vars
=============================================================================
