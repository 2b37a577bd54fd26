--------------------------- MODULE IdentityProofs ---------------------------
(***************************************************************************)
(* Proofs about members and credentials, for any number of users and of    *)
(* handlers that run at the same time: the state keeps its types, and no   *)
(* interleaving of rotations with anything else takes a user's last token. *)
(*                                                                         *)
(* What members rely on is mostly not guarded by a transaction and fails   *)
(* when two handlers meet.  The theorems about owners and devices say      *)
(* which operations must have met (Apart) when it failed; the one about    *)
(* invitations bounds the damage.                                          *)
(***************************************************************************)
EXTENDS Identity, FiniteSetTheorems, SequenceTheorems, TLAPS

-----------------------------------------------------------------------------
(* Types.                                                                  *)

\* Replacing elements of a sequence by elements of the same set.
LEMMA Replaced ==
    ASSUME NEW S, NEW s \in Seq(S), NEW f \in [DOMAIN s -> S]
    PROVE  f \in Seq(S) /\ DOMAIN f = DOMAIN s
  <1>1. DOMAIN s = 1..Len(s) /\ Len(s) \in Nat
    BY LenProperties
  <1>2. f \in [1..Len(s) -> S]
    BY <1>1
  <1>3. f = [i \in 1..Len(s) |-> f[i]] /\ \A i \in 1..Len(s) : f[i] \in S
    BY <1>2
  <1>4. [i \in 1..Len(s) |-> f[i]] \in Seq(S)
    BY <1>1, <1>3, IsASeq
  <1> QED BY <1>3, <1>4

\* A handler that has ended, and one that goes on.
LEMMA HandlerTyped ==
    ASSUME TypeOK, NEW r \in Requests
    PROVE  /\ Idle \in RequestType
           /\ Finish(r) \in [Requests -> RequestType]
           /\ \A w \in {"target", "count", "write", "devices", "delete", "mark", "issue"} :
                 Goto(r, w) \in [Requests -> RequestType]
  <1>1. Idle \in RequestType
    BY FounderAssumption DEF Idle, RequestType, Roles
  <1>2. ASSUME NEW w \in {"target", "count", "write", "devices", "delete", "mark", "issue"}
        PROVE  Goto(r, w) \in [Requests -> RequestType]
    <2>1. [request[r] EXCEPT !.at = w] \in RequestType
      BY <1>2 DEF TypeOK, RequestType
    <2> QED BY <2>1 DEF TypeOK, Goto
  <1> QED BY <1>1, <1>2 DEF TypeOK, Finish

InvitationType == [user : Users, role : Roles, accepted : BOOLEAN, expired : BOOLEAN,
                   joined : Nat, cut : Nat]

TokenType == [user : Users, valid : BOOLEAN]

DeviceType == [user : Users, revoked : BOOLEAN]

\* Every step keeps the types.
LEMMA TypeStep == TypeOK /\ [Next]_vars => TypeOK'
  <1> SUFFICES ASSUME TypeOK, [Next]_vars PROVE TypeOK'
    OBVIOUS
  <1>0. /\ role \in [Users -> Roles \cup {"none"}] /\ invitations \in Seq(InvitationType)
        /\ tokens \in Seq(TokenType) /\ devices \in Seq(DeviceType)
        /\ request \in [Requests -> RequestType]
        /\ \A r \in Requests : /\ request[r].user \in Users /\ request[r].target \in Users
                               /\ request[r].new \in Roles
    BY DEF TypeOK, InvitationType, TokenType, DeviceType, RequestType
  <1>e. /\ \A i \in DOMAIN invitations : i \in Nat /\ invitations[i] \in InvitationType
        /\ \A t \in DOMAIN tokens : t \in Nat /\ tokens[t] \in TokenType
        /\ \A d \in DOMAIN devices : d \in Nat /\ devices[d] \in DeviceType
    BY <1>0
  <1>f. /\ \A x \in InvitationType : /\ [x EXCEPT !.accepted = TRUE] \in InvitationType
                                    /\ [x EXCEPT !.expired = TRUE] \in InvitationType
                                    /\ x.user \in Users /\ x.role \in Roles
    BY DEF InvitationType
  <1>l. \A x \in InvitationType : x.joined + 1 \in Nat /\ x.cut + 1 \in Nat
    <2>1. \A x \in InvitationType : x.joined \in Nat /\ x.cut \in Nat
      BY DEF InvitationType
    <2> QED BY <2>1
  <1>i. \A x \in InvitationType, n \in Nat : /\ [x EXCEPT !.joined = n] \in InvitationType
                                             /\ [x EXCEPT !.cut = n] \in InvitationType
    BY DEF InvitationType
  <1>j. \A x \in InvitationType : /\ [x EXCEPT !.joined = x.joined + 1] \in InvitationType
                                  /\ [x EXCEPT !.cut = x.cut + 1] \in InvitationType
    BY <1>i, <1>l, Zenon
  <1>k. invitations \in [DOMAIN invitations -> InvitationType]
    BY <1>0
  <1>g. \A x \in TokenType : [x EXCEPT !.valid = FALSE] \in TokenType /\ x.user \in Users
    BY DEF TokenType
  <1>h. \A x \in DeviceType : /\ [x EXCEPT !.revoked = TRUE] \in DeviceType /\ x.user \in Users
                              /\ \A b \in BOOLEAN : [x EXCEPT !.revoked = b] \in DeviceType
    BY DEF DeviceType
  <1> DEFINE Typed == /\ role' \in [Users -> Roles \cup {"none"}]
                      /\ invitations' \in Seq(InvitationType)
                      /\ tokens' \in Seq(TokenType) /\ devices' \in Seq(DeviceType)
                      /\ request' \in [Requests -> RequestType]
  <1>1. ASSUME NEW r \in Requests, BeginAny(r) PROVE Typed
    <2>1. PICK op \in Operations, cred \in Credentials, subject \in Nat, target \in Users,
               new \in Roles : Begin(r, op, cred, subject, target, new)
      <3>1. DOMAIN devices \subseteq Nat
        BY <1>0
      <3> QED BY <1>1, <3>1, FounderAssumption DEF BeginAny, Operations, Roles
    <2>2. cred.user \in Users /\ cred.token \in Nat
      <3>1. \/ \E t \in DOMAIN tokens : cred = [user |-> tokens[t].user, token |-> t]
            \/ \E d \in DOMAIN devices : cred = [user |-> devices[d].user, token |-> 0]
        BY <2>1, Zenon DEF Credentials
      <3>2. ASSUME NEW t \in DOMAIN tokens, cred = [user |-> tokens[t].user, token |-> t]
            PROVE  cred.user \in Users /\ cred.token \in Nat
        BY <1>e, <1>g, <3>2
      <3>3. ASSUME NEW d \in DOMAIN devices, cred = [user |-> devices[d].user, token |-> 0]
            PROVE  cred.user \in Users /\ cred.token \in Nat
        BY <1>e, <1>h, <3>3
      <3> QED BY <3>1, <3>2, <3>3
    <2>3. [op |-> op, at |-> "authorize", user |-> cred.user, token |-> cred.token,
           role |-> "none", subject |-> subject, target |-> target, new |-> new] \in RequestType
      BY <2>2 DEF RequestType
    <2> QED BY <1>0, <2>1, <2>3 DEF Begin
  <1>2. ASSUME NEW r \in Requests, Authorize(r) PROVE Typed
    <2> DEFINE held == role[request[r].user]
               next == FirstCall(request[r].op)
               p == [request[r] EXCEPT !.role = held]
    <2>1. CASE held \in Allowed(request[r].op)
      <3>1. held \in Roles \cup {"none"} /\ next \in {"target", "write"}
        BY <1>0 DEF FirstCall
      <3> HIDE DEF held, next
      <3>2. p \in RequestType
        BY <1>0, <3>1 DEF RequestType
      <3> HIDE DEF p
      <3>3. [p EXCEPT !.at = next] \in RequestType
        BY <3>1, <3>2 DEF RequestType
      <3>4. request' = [request EXCEPT ![r] = [p EXCEPT !.at = next]]
        BY <1>0, <1>2, <2>1 DEF Authorize, held, next, p
      <3> QED BY <1>0, <1>2, <3>3, <3>4 DEF Authorize
    <2>2. CASE held \notin Allowed(request[r].op)
      <3>1. request' = Finish(r)
        BY <1>2, <2>2 DEF Authorize
      <3> QED BY <1>0, <1>2, <3>1, HandlerTyped DEF Authorize
    <2> QED BY <2>1, <2>2
  <1>3. ASSUME NEW r \in Requests, create_invitation(r) PROVE Typed
    <2>1. [user |-> request[r].target, role |-> request[r].new, accepted |-> FALSE,
           expired |-> FALSE, joined |-> 0, cut |-> 0] \in InvitationType
      BY <1>0 DEF InvitationType
    <2> QED BY <1>0, <1>3, <2>1, HandlerTyped, AppendProperties DEF create_invitation
  <1>4. ASSUME NEW r \in Requests, NEW i \in DOMAIN invitations, accept_invitation(r, i)
        PROVE  Typed
    <2>1. invitations[i].user \in Users /\ invitations[i].role \in Roles /\ i \in Nat
      BY <1>e, <1>f
    <2>2. [Idle EXCEPT !.op = "accept", !.at = "join", !.subject = i,
                       !.user = invitations[i].user, !.new = invitations[i].role] \in RequestType
      BY <2>1, FounderAssumption DEF Idle, RequestType, Operations
    <2> QED BY <1>0, <1>4, <2>2 DEF accept_invitation
  <1>5. ASSUME NEW r \in Requests, Join(r) PROVE Typed
    <2>1. \/ invitations' = invitations
          \/ \E s : invitations' = [invitations EXCEPT ![s] =
                       [invitations[s] EXCEPT !.joined = invitations[s].joined + 1]]
      BY <1>5 DEF Join
    <2>2. invitations' \in [DOMAIN invitations -> InvitationType]
      BY <1>e, <1>j, <1>k, <2>1
    <2>3. invitations' \in Seq(InvitationType)
      BY <1>0, <2>2, Replaced
    <2> QED BY <1>0, <1>5, <2>3, HandlerTyped DEF Join
  <1>6. ASSUME NEW r \in Requests, MarkAccepted(r) PROVE Typed
    <2>1. invitations' \in [DOMAIN invitations -> InvitationType]
      BY <1>e, <1>f, <1>6 DEF MarkAccepted
    <2>2. invitations' \in Seq(InvitationType)
      BY <1>0, <2>1, Replaced
    <2> QED BY <1>0, <1>6, <2>2, HandlerTyped DEF MarkAccepted
  <1>7. ASSUME NEW r \in Requests, IssueToken(r) PROVE Typed
    BY <1>0, <1>7, HandlerTyped, AppendProperties DEF IssueToken, Issued, TokenType
  <1>8. ASSUME NEW r \in Requests, register_device(r) PROVE Typed
    BY <1>0, <1>8, HandlerTyped, AppendProperties DEF register_device, DeviceType
  <1>9. ASSUME NEW r \in Requests, revoke_device(r) PROVE Typed
    <2>1. devices' \in [DOMAIN devices -> DeviceType]
      <3>1. \/ devices' = devices
            \/ \E d \in DOMAIN devices : devices' = [devices EXCEPT ![d].revoked = TRUE]
        BY <1>9, Zenon DEF revoke_device
      <3>2. devices \in [DOMAIN devices -> DeviceType]
        BY <1>0
      <3>3. ASSUME NEW d \in DOMAIN devices, devices' = [devices EXCEPT ![d].revoked = TRUE]
            PROVE  devices' \in [DOMAIN devices -> DeviceType]
        BY <1>e, <1>h, <3>2, <3>3
      <3> QED BY <3>1, <3>2, <3>3
    <2>2. devices' \in Seq(DeviceType)
      BY <1>0, <2>1, Replaced
    <2> QED BY <1>0, <1>9, <2>2, HandlerTyped DEF revoke_device
  <1>10. ASSUME NEW r \in Requests, rotate_user_token(r) PROVE Typed
    <2>1. Issued(request[r].user) \in Seq(TokenType)
      BY <1>0, AppendProperties DEF Issued, TokenType
    <2>2. [tokens EXCEPT ![request[r].token].valid = FALSE] \in [DOMAIN tokens -> TokenType]
      BY <1>e, <1>g
    <2>3. [tokens EXCEPT ![request[r].token].valid = FALSE] \in Seq(TokenType)
      BY <1>0, <2>2, Replaced
    <2> QED BY <1>0, <1>10, <2>1, <2>3, HandlerTyped DEF rotate_user_token, Rotated
  <1>11. ASSUME NEW r \in Requests, ReadTarget(r) \/ CountOwners(r) PROVE Typed
    BY <1>0, <1>11, HandlerTyped DEF ReadTarget, CountOwners
  <1>12. ASSUME NEW r \in Requests, remove_member(r) \/ change_member_role(r) PROVE Typed
    BY <1>0, <1>12, HandlerTyped DEF remove_member, change_member_role
  <1>13. ASSUME NEW r \in Requests, revoke_user_devices(r) PROVE Typed
    <2>1. ASSUME NEW d \in DOMAIN devices
          PROVE  [devices[d] EXCEPT !.revoked = @ \/ devices[d].user = RevokedUser(r)] \in DeviceType
      <3>1. (devices[d].revoked \/ devices[d].user = RevokedUser(r)) \in BOOLEAN
        BY Zenon
      <3> QED BY <1>e, <1>h, <3>1, Zenon
    <2>2. devices' \in [DOMAIN devices -> DeviceType]
      BY <1>13, <2>1 DEF revoke_user_devices
    <2>3. devices' \in Seq(DeviceType)
      BY <1>0, <2>2, Replaced
    <2> QED BY <1>0, <1>13, <2>3, HandlerTyped DEF revoke_user_devices
  <1>14. ASSUME NEW r \in Requests, Disconnect(r) PROVE Typed
    <2>1. \/ invitations' = invitations
          \/ \E s : invitations' = [invitations EXCEPT ![s] =
                       [invitations[s] EXCEPT !.cut = invitations[s].cut + 1]]
      BY <1>14 DEF Disconnect
    <2>2. invitations' \in [DOMAIN invitations -> InvitationType]
      BY <1>e, <1>j, <1>k, <2>1
    <2>3. invitations' \in Seq(InvitationType)
      BY <1>0, <2>2, Replaced
    <2> QED BY <1>0, <1>14, <2>3, HandlerTyped DEF Disconnect
  <1>15. ASSUME NEW t \in DOMAIN tokens, ExpireToken(t) PROVE Typed
    <2>1. tokens' \in [DOMAIN tokens -> TokenType]
      BY <1>e, <1>g, <1>15 DEF ExpireToken
    <2>2. tokens' \in Seq(TokenType)
      BY <1>0, <2>1, Replaced
    <2> QED BY <1>0, <1>15, <2>2 DEF ExpireToken
  <1>16. ASSUME NEW i \in DOMAIN invitations, ExpireInvitation(i) PROVE Typed
    <2>1. invitations' \in [DOMAIN invitations -> InvitationType]
      BY <1>e, <1>f, <1>16 DEF ExpireInvitation
    <2>2. invitations' \in Seq(InvitationType)
      BY <1>0, <2>1, Replaced
    <2> QED BY <1>0, <1>16, <2>2 DEF ExpireInvitation
  <1>17. ASSUME UNCHANGED vars PROVE Typed
    BY <1>0, <1>17 DEF vars
  <1>18. Typed
    <2> HIDE DEF Typed
    <2> QED BY <1>1, <1>2, <1>3, <1>4, <1>5, <1>6, <1>7, <1>8, <1>9, <1>10, <1>11, <1>12, <1>13,
       <1>14, <1>15, <1>16, <1>17, Zenon DEF Next, Step
  <1> QED BY <1>18 DEF TypeOK, InvitationType, TokenType, DeviceType

-----------------------------------------------------------------------------
(* Sessions.                                                               *)

\* A rotation works on a token of its caller, and once it has inserted the
\* replacement there is a valid token of theirs newer than the one presented,
\* whatever other handlers delete meanwhile.
RotationInv ==
    \A r \in Requests : request[r].op = "rotate" =>
        /\ request[r].token \in DOMAIN tokens
        /\ tokens[request[r].token].user = request[r].user
        /\ request[r].at = "delete" =>
              \E t \in DOMAIN tokens : /\ t > request[r].token
                                       /\ tokens[t].user = request[r].user /\ tokens[t].valid

\* Only a rotation is ever about to delete a token.
DeleteInv == \A r \in Requests : request[r].at = "delete" => request[r].op = "rotate"

\* A token is added behind the ones that exist.
LEMMA TokensGrow ==
    ASSUME NEW u \in Users, tokens \in Seq(TokenType), tokens' = Issued(u)
    PROVE  /\ Len(tokens) + 1 \in DOMAIN tokens' /\ DOMAIN tokens \subseteq DOMAIN tokens'
           /\ tokens'[Len(tokens) + 1] = [user |-> u, valid |-> TRUE]
           /\ \A t \in DOMAIN tokens : tokens'[t] = tokens[t] /\ t < Len(tokens) + 1
  <1>1. [user |-> u, valid |-> TRUE] \in TokenType
    BY DEF TokenType
  <1> QED BY <1>1, AppendProperties DEF Issued

\* A rotation that runs after a step ran before it, and no further on.
Kept(x) ==
    /\ request'[x].op = "rotate" =>
          /\ request[x].op = "rotate" /\ request'[x].token = request[x].token
          /\ request'[x].user = request[x].user
          /\ request'[x].at = "delete" => request[x].at = "delete"
    /\ request'[x].at = "delete" => request'[x].op = "rotate"

\* Tokens that existed before a step exist after it, and the valid ones are
\* still valid.
TokensKept ==
    \A t \in DOMAIN tokens : /\ t \in DOMAIN tokens' /\ tokens'[t].user = tokens[t].user
                             /\ tokens[t].valid => tokens'[t].valid

\* Then the rotations are as well off as before, and so are the users.
LEMMA NothingLost ==
    ASSUME TypeOK, RotationInv, TokensKept, \A x \in Requests : Kept(x)
    PROVE  RotationInv' /\ DeleteInv' /\ \A u \in Users : HasSession(u) => HasSession(u)'
  <1>1. ASSUME NEW x \in Requests, request'[x].op = "rotate"
        PROVE  /\ request'[x].token \in DOMAIN tokens'
               /\ tokens'[request'[x].token].user = request'[x].user
               /\ request'[x].at = "delete" =>
                     \E t \in DOMAIN tokens' : /\ t > request'[x].token
                                               /\ tokens'[t].user = request'[x].user
                                               /\ tokens'[t].valid
    BY <1>1 DEF Kept, TokensKept, RotationInv
  <1>2. RotationInv'
    BY <1>1 DEF RotationInv
  <1>3. DeleteInv'
    BY DEF DeleteInv, Kept
  <1>4. \A u \in Users : HasSession(u) => HasSession(u)'
    BY DEF HasSession, TokensKept
  <1> QED BY <1>2, <1>3, <1>4

\* A handler that ends or goes on to a step other than a deletion.
LEMMA OthersKept ==
    ASSUME TypeOK, DeleteInv, NEW r \in Requests,
           \/ request' = request
           \/ request' = Finish(r)
           \/ \E w \in {"target", "count", "write", "devices", "mark", "issue"} :
                 request' = Goto(r, w)
    PROVE  \A x \in Requests : Kept(x)
  <1> SUFFICES ASSUME NEW x \in Requests PROVE Kept(x)
    OBVIOUS
  <1>0. request \in [Requests -> RequestType] /\ request[x] \in RequestType
    BY DEF TypeOK
  <1>1. CASE request' = request
    BY <1>1 DEF Kept, DeleteInv
  <1>2. CASE request' = Finish(r)
    <2>1. request'[x] = Idle \/ request'[x] = request[x]
      BY <1>0, <1>2 DEF Finish
    <2> QED BY <2>1 DEF Kept, Idle, DeleteInv
  <1>3. ASSUME NEW w \in {"target", "count", "write", "devices", "mark", "issue"},
               request' = Goto(r, w)
        PROVE  Kept(x)
    <2>1. \/ request'[x] = request[x]
          \/ request'[x] = [request[x] EXCEPT !.at = w]
      BY <1>0, <1>3 DEF Goto
    <2>2. CASE request'[x] = request[x]
      BY <2>2 DEF Kept, DeleteInv
    <2>3. CASE request'[x] = [request[x] EXCEPT !.at = w]
      <3>1. /\ request'[x].op = request[x].op /\ request'[x].token = request[x].token
            /\ request'[x].user = request[x].user /\ request'[x].at # "delete"
        BY <1>0, <1>3, <2>3 DEF RequestType
      <3> QED BY <3>1 DEF Kept
    <2> QED BY <2>1, <2>2, <2>3
  <1> QED BY <1>1, <1>2, <1>3

\* The second statement of a rotation.
LEMMA DeletionLeavesOne ==
    ASSUME TypeOK, RotationInv, DeleteInv, NEW r \in Requests,
           rotate_user_token(r), request[r].at # "write"
    PROVE  RotationInv' /\ DeleteInv' /\ \A u \in Users : HasSession(u) => HasSession(u)'
  <1> DEFINE k == request[r].token
             owner == request[r].user
  <1>0. /\ request \in [Requests -> RequestType] /\ tokens \in Seq(TokenType)
        /\ \A t \in DOMAIN tokens : t \in Nat /\ tokens[t] \in TokenType
    <2>1. request \in [Requests -> RequestType] /\ tokens \in Seq(TokenType)
      BY DEF TypeOK, TokenType
    <2> QED BY <2>1
  <1>1. /\ request[r].op = "rotate" /\ request[r].at = "delete" /\ request' = Finish(r)
        /\ tokens' = [tokens EXCEPT ![k].valid = FALSE]
    BY DEF rotate_user_token, Rotated
  <1>2. k \in DOMAIN tokens /\ tokens[k].user = owner
    BY <1>1 DEF RotationInv
  <1>3. PICK next \in DOMAIN tokens :
           next > k /\ tokens[next].user = owner /\ tokens[next].valid
    BY <1>1 DEF RotationInv
  <1>4. /\ DOMAIN tokens' = DOMAIN tokens
        /\ \A t \in DOMAIN tokens : /\ tokens'[t].user = tokens[t].user
                                    /\ t # k => tokens'[t] = tokens[t]
    BY <1>0, <1>1 DEF TokenType
  <1>5. next # k /\ tokens'[next].valid /\ tokens'[next].user = owner
    BY <1>0, <1>2, <1>3, <1>4
  <1> HIDE DEF k, owner
  <1>6. \A x \in Requests : Kept(x)
    BY <1>1, OthersKept
  <1>7. ASSUME NEW x \in Requests, request'[x].op = "rotate"
        PROVE  /\ request'[x].token \in DOMAIN tokens'
               /\ tokens'[request'[x].token].user = request'[x].user
               /\ request'[x].at = "delete" =>
                     \E t \in DOMAIN tokens' : /\ t > request'[x].token
                                               /\ tokens'[t].user = request'[x].user
                                               /\ tokens'[t].valid
    <2>1. /\ request[x].op = "rotate" /\ request'[x].token = request[x].token
          /\ request'[x].user = request[x].user
          /\ request'[x].at = "delete" => request[x].at = "delete"
      BY <1>6, <1>7 DEF Kept
    <2>2. /\ request[x].token \in DOMAIN tokens
          /\ tokens[request[x].token].user = request[x].user
      BY <2>1 DEF RotationInv
    <2>3. ASSUME request'[x].at = "delete"
          PROVE  \E t \in DOMAIN tokens' : /\ t > request[x].token
                                           /\ tokens'[t].user = request[x].user
                                           /\ tokens'[t].valid
      <3>1. PICK t \in DOMAIN tokens :
               /\ t > request[x].token /\ tokens[t].user = request[x].user /\ tokens[t].valid
        BY <2>1, <2>3 DEF RotationInv
      <3>2. CASE t # k
        BY <1>4, <3>1, <3>2
      <3>3. CASE t = k
        <4>1. next > request[x].token
          BY <1>0, <1>3, <2>2, <3>1, <3>3
        <4>2. tokens'[next].user = request[x].user
          BY <1>2, <1>5, <3>1, <3>3
        <4> QED BY <1>4, <1>5, <4>1, <4>2
      <3> QED BY <3>2, <3>3
    <2> QED BY <1>4, <2>1, <2>2, <2>3
  <1>8. RotationInv'
    BY <1>7 DEF RotationInv
  <1>9. DeleteInv'
    BY <1>6 DEF DeleteInv, Kept
  <1>10. ASSUME NEW u \in Users, HasSession(u) PROVE HasSession(u)'
    <2>1. PICK t \in DOMAIN tokens : tokens[t].user = u /\ tokens[t].valid
      BY <1>10 DEF HasSession
    <2>2. CASE t # k
      BY <1>4, <2>1, <2>2 DEF HasSession
    <2>3. CASE t = k
      <3>1. tokens'[next].user = u /\ tokens'[next].valid /\ next \in DOMAIN tokens'
        BY <1>2, <1>4, <1>5, <2>1, <2>3
      <3> QED BY <3>1 DEF HasSession
    <2> QED BY <2>2, <2>3
  <1> QED BY <1>8, <1>9, <1>10

\* Every step keeps the rotations safe, and only expiry ends a session.
LEMMA SessionStep ==
    ASSUME TypeOK, RotationInv, DeleteInv, [Next]_vars
    PROVE  /\ RotationInv' /\ DeleteInv'
           /\ \/ \E t \in DOMAIN tokens : ExpireToken(t)
              \/ \A u \in Users : HasSession(u) => HasSession(u)'
  <1> DEFINE Fine == /\ RotationInv' /\ DeleteInv'
                     /\ \/ \E t \in DOMAIN tokens : ExpireToken(t)
                        \/ \A u \in Users : HasSession(u) => HasSession(u)'
  <1>0. /\ request \in [Requests -> RequestType] /\ tokens \in Seq(TokenType)
        /\ \A r \in Requests : request[r] \in RequestType /\ request[r].user \in Users
    BY DEF TypeOK, TokenType, RequestType
  <1>t. \A t \in DOMAIN tokens : t \in Nat /\ tokens[t] \in TokenType
    BY <1>0
  <1>1. ASSUME NEW r \in Requests, UNCHANGED tokens,
               \/ request' = request
               \/ request' = Finish(r)
               \/ \E w \in {"target", "count", "write", "devices", "mark", "issue"} :
                     request' = Goto(r, w)
        PROVE  Fine
    <2>1. \A x \in Requests : Kept(x)
      BY <1>1, OthersKept
    <2>2. TokensKept
      BY <1>1 DEF TokensKept
    <2> QED BY <2>1, <2>2, NothingLost
  <1>2. ASSUME NEW r \in Requests, BeginAny(r) PROVE Fine
    <2>1. PICK op \in Operations, cred \in Credentials, subject \in Nat, target \in Users,
               new \in Roles : Begin(r, op, cred, subject, target, new)
      <3>1. DOMAIN devices \subseteq Nat
        BY DEF TypeOK
      <3> QED BY <1>2, <3>1, FounderAssumption DEF BeginAny, Operations, Roles
    <2> DEFINE p == [op |-> op, at |-> "authorize", user |-> cred.user, token |-> cred.token,
                     role |-> "none", subject |-> subject, target |-> target, new |-> new]
    <2>2. /\ UNCHANGED tokens /\ request' = [request EXCEPT ![r] = p]
          /\ op = "rotate" => cred.token # 0
      BY <2>1 DEF Begin
    <2>3. p.op = op /\ p.at = "authorize" /\ p.user = cred.user /\ p.token = cred.token
      OBVIOUS
    <2> HIDE DEF p
    <2>4. request'[r] = p /\ \A x \in Requests \ {r} : request'[x] = request[x]
      BY <1>0, <2>2
    <2>5. op = "rotate" => /\ cred.token \in DOMAIN tokens
                           /\ tokens[cred.token].user = cred.user
      <3>1. \/ \E t \in DOMAIN tokens : cred = [user |-> tokens[t].user, token |-> t]
            \/ \E d \in DOMAIN devices : cred = [user |-> devices[d].user, token |-> 0]
        BY <2>1, Zenon DEF Credentials
      <3> QED BY <2>2, <3>1
    <2>6. RotationInv'
      BY <2>2, <2>3, <2>4, <2>5 DEF RotationInv
    <2>7. DeleteInv'
      BY <2>3, <2>4 DEF DeleteInv
    <2>8. \A u \in Users : HasSession(u) => HasSession(u)'
      BY <2>2 DEF HasSession
    <2> QED BY <2>6, <2>7, <2>8
  <1>3. ASSUME NEW r \in Requests, Authorize(r) PROVE Fine
    <2>1. UNCHANGED tokens
      BY <1>3 DEF Authorize
    <2>2. CASE request' = Finish(r)
      BY <1>1, <2>1, <2>2
    <2>3. CASE request' = [request EXCEPT ![r].role = role[request[r].user],
                                          ![r].at = FirstCall(request[r].op)]
      <3>1. FirstCall(request[r].op) # "delete"
        BY DEF FirstCall
      <3>2. ASSUME NEW x \in Requests PROVE Kept(x)
        <4>1. /\ request'[x].op = request[x].op /\ request'[x].token = request[x].token
              /\ request'[x].user = request[x].user
              /\ request'[x].at = request[x].at \/ request'[x].at # "delete"
          BY <1>0, <2>3, <3>1 DEF RequestType
        <4> QED BY <4>1 DEF Kept, DeleteInv
      <3>3. TokensKept
        BY <2>1 DEF TokensKept
      <3> QED BY <3>2, <3>3, NothingLost
    <2> QED BY <1>3, <2>2, <2>3 DEF Authorize
  <1>4. ASSUME NEW r \in Requests, NEW i \in DOMAIN invitations, accept_invitation(r, i)
        PROVE  Fine
    <2> DEFINE p == [Idle EXCEPT !.op = "accept", !.at = "join", !.subject = i,
                                 !.user = invitations[i].user, !.new = invitations[i].role]
    <2>1. UNCHANGED tokens /\ request' = [request EXCEPT ![r] = p]
      BY <1>4 DEF accept_invitation
    <2>2. p.op = "accept" /\ p.at = "join"
      BY DEF Idle
    <2> HIDE DEF p
    <2>3. \A x \in Requests : Kept(x)
      BY <1>0, <2>1, <2>2 DEF Kept, DeleteInv
    <2>4. TokensKept
      BY <2>1 DEF TokensKept
    <2> QED BY <2>3, <2>4, NothingLost
  <1>5. ASSUME NEW r \in Requests, IssueToken(r) PROVE Fine
    <2>1. request' = Finish(r) /\ tokens' = Issued(request[r].user)
      BY <1>5 DEF IssueToken
    <2>2. TokensKept
      BY <1>0, <2>1, TokensGrow DEF TokensKept
    <2>3. \A x \in Requests : Kept(x)
      BY <2>1, OthersKept
    <2> QED BY <2>2, <2>3, NothingLost
  <1>6. ASSUME NEW r \in Requests, rotate_user_token(r), request[r].at = "write" PROVE Fine
    <2>1. /\ request[r].op = "rotate" /\ request' = Goto(r, "delete")
          /\ tokens' = Issued(request[r].user)
      BY <1>6 DEF rotate_user_token, Rotated
    <2>2. /\ Len(tokens) + 1 \in DOMAIN tokens' /\ DOMAIN tokens \subseteq DOMAIN tokens'
          /\ tokens'[Len(tokens) + 1] = [user |-> request[r].user, valid |-> TRUE]
          /\ \A t \in DOMAIN tokens : tokens'[t] = tokens[t] /\ t < Len(tokens) + 1
      BY <1>0, <2>1, TokensGrow
    <2>3. \A x \in Requests : /\ request'[x].op = request[x].op
                              /\ request'[x].token = request[x].token
                              /\ request'[x].user = request[x].user
                              /\ x # r => request'[x].at = request[x].at
      BY <1>0, <2>1 DEF Goto, RequestType
    <2>4. ASSUME NEW x \in Requests, request'[x].op = "rotate"
          PROVE  /\ request'[x].token \in DOMAIN tokens'
                 /\ tokens'[request'[x].token].user = request'[x].user
                 /\ request'[x].at = "delete" =>
                       \E t \in DOMAIN tokens' : /\ t > request'[x].token
                                                 /\ tokens'[t].user = request'[x].user
                                                 /\ tokens'[t].valid
      <3>1. /\ request[x].token \in DOMAIN tokens
            /\ tokens[request[x].token].user = request[x].user
        BY <2>3, <2>4 DEF RotationInv
      <3>2. CASE x = r
        <4>1. Len(tokens) + 1 > request[r].token
          BY <1>t, <2>2, <3>1, <3>2
        <4>2. /\ tokens'[Len(tokens) + 1].user = request[r].user
              /\ tokens'[Len(tokens) + 1].valid
          BY <2>2
        <4> QED BY <2>2, <2>3, <3>1, <3>2, <4>1, <4>2
      <3>3. CASE x # r
        BY <2>2, <2>3, <2>4, <3>1, <3>3 DEF RotationInv
      <3> QED BY <3>2, <3>3
    <2>5. RotationInv'
      BY <2>4 DEF RotationInv
    <2>6. DeleteInv'
      BY <2>1, <2>3 DEF DeleteInv
    <2>7. \A u \in Users : HasSession(u) => HasSession(u)'
      BY <2>2 DEF HasSession
    <2> QED BY <2>5, <2>6, <2>7
  <1>7. ASSUME NEW r \in Requests, rotate_user_token(r), request[r].at # "write" PROVE Fine
    BY <1>7, DeletionLeavesOne
  <1>8. ASSUME NEW r \in Requests,
               \/ create_invitation(r) \/ register_device(r) \/ revoke_device(r)
               \/ revoke_user_devices(r) \/ change_member_role(r) \/ Disconnect(r)
        PROVE  Fine
    <2>1. UNCHANGED tokens /\ request' = Finish(r)
      BY <1>8 DEF create_invitation, register_device, revoke_device, revoke_user_devices,
                  change_member_role, Disconnect
    <2> QED BY <1>1, <2>1
  <1>9. ASSUME NEW r \in Requests,
               Join(r) \/ MarkAccepted(r) \/ ReadTarget(r) \/ CountOwners(r) \/ remove_member(r)
        PROVE  Fine
    <2>1. /\ UNCHANGED tokens
          /\ \/ request' = Finish(r)
             \/ \E w \in {"target", "count", "write", "devices", "mark", "issue"} :
                   request' = Goto(r, w)
      BY <1>9 DEF Join, MarkAccepted, ReadTarget, CountOwners, remove_member
    <2> QED BY <1>1, <2>1
  <1>10. ASSUME NEW k \in DOMAIN tokens, ExpireToken(k) PROVE Fine
    <2>1. /\ request' = request /\ tokens' = [tokens EXCEPT ![k].valid = FALSE]
          /\ \A r \in Requests : request[r].at = "delete" => k <= request[r].token
      BY <1>10 DEF ExpireToken
    <2>2. /\ DOMAIN tokens' = DOMAIN tokens
          /\ \A t \in DOMAIN tokens : /\ tokens'[t].user = tokens[t].user
                                      /\ t # k => tokens'[t] = tokens[t]
      BY <1>0, <1>t, <2>1 DEF TokenType
    <2>3. ASSUME NEW x \in Requests, request[x].op = "rotate", request[x].at = "delete"
          PROVE  \E t \in DOMAIN tokens' : /\ t > request[x].token
                                           /\ tokens'[t].user = request[x].user
                                           /\ tokens'[t].valid
      <3>1. PICK t \in DOMAIN tokens :
               /\ t > request[x].token /\ tokens[t].user = request[x].user /\ tokens[t].valid
        BY <2>3 DEF RotationInv
      <3>2. k <= request[x].token /\ request[x].token \in DOMAIN tokens
        BY <2>1, <2>3 DEF RotationInv
      <3>3. t # k
        BY <1>t, <3>1, <3>2
      <3> QED BY <2>2, <3>1, <3>3
    <2>4. RotationInv'
      BY <2>1, <2>2, <2>3 DEF RotationInv
    <2>5. DeleteInv'
      BY <2>1 DEF DeleteInv
    <2> QED BY <1>10, <2>4, <2>5
  <1>11. ASSUME UNCHANGED tokens, UNCHANGED request PROVE Fine
    BY <1>11 DEF RotationInv, DeleteInv, HasSession
  <1>12. ASSUME (\E i \in DOMAIN invitations : ExpireInvitation(i)) \/ UNCHANGED vars PROVE Fine
    BY <1>11, <1>12 DEF ExpireInvitation, vars
  <1>13. Fine
    <2> HIDE DEF Fine
    <2> QED BY <1>2, <1>3, <1>4, <1>5, <1>6, <1>7, <1>8, <1>9, <1>10, <1>12, Zenon DEF Next, Step
  <1> QED BY <1>13

-----------------------------------------------------------------------------
(* Members.                                                                *)

\* What one operation is about: nothing of it changes while it runs.
SameOperation(x) ==
    /\ request'[x].op = request[x].op /\ request'[x].user = request[x].user
    /\ request'[x].target = request[x].target /\ request'[x].new = request[x].new
    /\ request'[x].subject = request[x].subject

\* How handler x may have moved on in a step, and what it found.
MovedOn(x) ==
    \/ Authorize(x) /\ request'[x].at = FirstCall(request[x].op)
          /\ role[request[x].user] \in Allowed(request[x].op)
    \/ Join(x) /\ request'[x].at = "mark"
    \/ MarkAccepted(x) /\ request'[x].at = "issue"
    \/ rotate_user_token(x) /\ request'[x].at = "delete"
    \/ ReadTarget(x) /\ request'[x].at = "count" /\ role[request[x].target] # "none"
          /\ (request[x].op = "remove" => MayRemove(x, role[request[x].target]))
    \/ ReadTarget(x) /\ request'[x].at = "write" /\ role[request[x].target] # "none"
          /\ (request[x].op = "remove" => MayRemove(x, role[request[x].target]))
          /\ ~LosesOwner(x, role[request[x].target])
    \/ CountOwners(x) /\ request'[x].at = "write" /\ ~LastOwner
    \/ remove_member(x) /\ request'[x].at = "devices"

\* A handler stays as it is, ends, starts or moves on.
HandlerStep(x) ==
    \/ request'[x] = request[x]
    \/ request'[x] = Idle
    \/ request'[x].at = "authorize"
    \/ \E i \in DOMAIN invitations :
          accept_invitation(x, i) /\ request'[x].op = "accept" /\ request'[x].at = "join"
             /\ request'[x].subject = i /\ request'[x].user = invitations[i].user
             /\ request'[x].new = invitations[i].role
    \/ SameOperation(x) /\ MovedOn(x)

\* What Finish and Goto make of each handler.
LEMMA HandlerAfter ==
    ASSUME TypeOK, NEW r \in Requests, NEW x \in Requests
    PROVE  /\ Finish(r)[x] = IF x = r THEN Idle ELSE request[x]
           /\ x # r => \A w : Goto(r, w)[x] = request[x]
           /\ \A w : request' = Goto(r, w) => SameOperation(r) /\ request'[r].at = w
  <1>1. request \in [Requests -> RequestType] /\ request[r] \in RequestType
    BY DEF TypeOK
  <1>2. Finish(r)[x] = IF x = r THEN Idle ELSE request[x]
    BY <1>1 DEF Finish
  <1>3. ASSUME NEW w, x # r PROVE Goto(r, w)[x] = request[x]
    BY <1>1, <1>3 DEF Goto
  <1>4. ASSUME NEW w, request' = Goto(r, w) PROVE SameOperation(r) /\ request'[r].at = w
    <2>1. request'[r] = [request[r] EXCEPT !.at = w]
      BY <1>1, <1>4 DEF Goto
    <2> QED BY <1>1, <2>1 DEF SameOperation, RequestType
  <1> QED BY <1>2, <1>3, <1>4

\* A step of one handler leaves the others where they are.
LEMMA OtherHandlers ==
    ASSUME TypeOK, NEW x \in Requests, NEW r \in Requests, r # x,
           BeginAny(r) \/ Step(r) \/ Disconnect(r)
              \/ \E i \in DOMAIN invitations : accept_invitation(r, i)
    PROVE  request'[x] = request[x]
  <1>0. request \in [Requests -> RequestType] /\ request[x] \in RequestType
    BY DEF TypeOK
  <1>1. \/ request' = Finish(r)
        \/ \E w : request' = Goto(r, w)
        \/ \E v : request' = [request EXCEPT ![r] = v]
    <2>1. CASE BeginAny(r)
      BY <2>1, Zenon DEF BeginAny, Begin
    <2>2. CASE \E i \in DOMAIN invitations : accept_invitation(r, i)
      BY <2>2, Zenon DEF accept_invitation
    <2>3. CASE Authorize(r)
      BY <1>0, <2>3 DEF Authorize
    <2>4. CASE Step(r) /\ ~Authorize(r)
      BY <2>4, Zenon DEF Step, create_invitation, Join, MarkAccepted, IssueToken, register_device,
          revoke_device, rotate_user_token, ReadTarget, CountOwners, remove_member,
          revoke_user_devices, change_member_role
    <2>5. CASE Disconnect(r)
      BY <2>5 DEF Disconnect
    <2> QED BY <2>1, <2>2, <2>3, <2>4, <2>5
  <1>2. ASSUME NEW v, request' = [request EXCEPT ![r] = v] PROVE request'[x] = request[x]
    BY <1>0, <1>2
  <1> QED BY <1>1, <1>2, HandlerAfter

\* Every step is one of these for every handler.
LEMMA HandlerSteps ==
    ASSUME TypeOK, [Next]_vars, NEW x \in Requests
    PROVE  HandlerStep(x)
  <1>0. request \in [Requests -> RequestType] /\ request[x] \in RequestType
    BY DEF TypeOK
  <1>1. ASSUME NEW r \in Requests, r # x,
               BeginAny(r) \/ Step(r) \/ Disconnect(r)
                  \/ \E i \in DOMAIN invitations : accept_invitation(r, i)
        PROVE  request'[x] = request[x]
    BY <1>1, OtherHandlers
  <1>2. CASE BeginAny(x)
    <2>1. PICK op, cred, subject, target, new : Begin(x, op, cred, subject, target, new)
      BY <1>2, Zenon DEF BeginAny
    <2> QED BY <1>0, <2>1 DEF Begin, HandlerStep
  <1>3. ASSUME NEW i \in DOMAIN invitations, accept_invitation(x, i) PROVE HandlerStep(x)
    <2>1. request'[x] = [Idle EXCEPT !.op = "accept", !.at = "join", !.subject = i,
                             !.user = invitations[i].user, !.new = invitations[i].role]
      BY <1>0, <1>3 DEF accept_invitation
    <2>2. /\ request'[x].op = "accept" /\ request'[x].at = "join" /\ request'[x].subject = i
          /\ request'[x].user = invitations[i].user /\ request'[x].new = invitations[i].role
      BY <2>1 DEF Idle
    <2> QED BY <1>3, <2>2 DEF HandlerStep
  <1>4. CASE Authorize(x)
    <2>1. CASE role[request[x].user] \in Allowed(request[x].op)
      <3> DEFINE next == FirstCall(request[x].op)
                 held == role[request[x].user]
      <3> HIDE DEF next, held
      <3>1. request' = [request EXCEPT ![x].role = held, ![x].at = next]
        BY <1>4, <2>1 DEF Authorize, next, held
      <3>2. request'[x] = [[request[x] EXCEPT !.role = held] EXCEPT !.at = next]
        BY <1>0, <3>1
      <3>3. SameOperation(x) /\ request'[x].at = next
        BY <1>0, <3>2 DEF SameOperation, RequestType
      <3> QED BY <1>4, <2>1, <3>3 DEF HandlerStep, MovedOn, next
    <2>2. CASE role[request[x].user] \notin Allowed(request[x].op)
      BY <1>4, <2>2, HandlerAfter DEF Authorize, HandlerStep
    <2> QED BY <2>1, <2>2
  <1>5. CASE create_invitation(x) \/ IssueToken(x) \/ register_device(x) \/ revoke_device(x)
                \/ revoke_user_devices(x) \/ change_member_role(x) \/ Disconnect(x)
    <2>1. request' = Finish(x)
      BY <1>5 DEF create_invitation, IssueToken, register_device, revoke_device,
          revoke_user_devices, change_member_role, Disconnect
    <2> QED BY <2>1, HandlerAfter DEF HandlerStep
  <1>6. CASE Join(x) \/ MarkAccepted(x)
    BY <1>6, HandlerAfter DEF Join, MarkAccepted, HandlerStep, MovedOn
  <1>7. CASE rotate_user_token(x)
    BY <1>7, HandlerAfter DEF rotate_user_token, HandlerStep, MovedOn
  <1>8. CASE ReadTarget(x)
    <2> DEFINE held == role[request[x].target]
               refused == held = "none" \/ (request[x].op = "remove" /\ ~MayRemove(x, held))
    <2>1. CASE refused
      BY <1>8, <2>1, HandlerAfter DEF ReadTarget, HandlerStep
    <2>2. CASE ~refused
      <3>1. request' = Goto(x, IF LosesOwner(x, held) THEN "count" ELSE "write")
        BY <1>8, <2>2 DEF ReadTarget
      <3>2. /\ SameOperation(x)
            /\ request'[x].at = IF LosesOwner(x, held) THEN "count" ELSE "write"
        BY <3>1, HandlerAfter, Zenon
      <3> QED BY <1>8, <2>2, <3>2, Zenon DEF HandlerStep, MovedOn
    <2> QED BY <2>1, <2>2
  <1>9. CASE CountOwners(x)
    BY <1>9, HandlerAfter DEF CountOwners, HandlerStep, MovedOn
  <1>10. CASE remove_member(x)
    BY <1>10, HandlerAfter DEF remove_member, HandlerStep, MovedOn
  <1>11. CASE UNCHANGED request
    BY <1>11 DEF HandlerStep
  <1>12. \/ UNCHANGED request
         \/ \E r \in Requests : BeginAny(r) \/ Step(r) \/ Disconnect(r)
               \/ \E i \in DOMAIN invitations : accept_invitation(r, i)
    BY DEF Next, vars, ExpireToken, ExpireInvitation
  <1>13. PICK r \in Requests : \/ r # x /\ request'[x] = request[x]
                               \/ UNCHANGED request
                               \/ r = x /\ (BeginAny(x) \/ Step(x) \/ Disconnect(x)
                                    \/ \E i \in DOMAIN invitations : accept_invitation(x, i))
    BY <1>1, <1>12, Zenon
  <1>14. request'[x] = request[x] => HandlerStep(x)
    BY DEF HandlerStep
  <1> QED
    BY <1>2, <1>3, <1>4, <1>5, <1>6, <1>7, <1>8, <1>9, <1>10, <1>11, <1>13, <1>14, Zenon DEF Step

\* Only joining, removing and changing write memberships.
LEMMA RoleSteps ==
    ASSUME [Next]_vars, role' # role
    PROVE  \E r \in Requests : Join(r) \/ remove_member(r) \/ change_member_role(r)
  BY ZenonT(40) DEF Next, vars, BeginAny, Begin, Step, Authorize, create_invitation, accept_invitation,
      MarkAccepted, IssueToken, register_device, revoke_device, rotate_user_token, ReadTarget,
      CountOwners, revoke_user_devices, Disconnect, ExpireToken, ExpireInvitation

\* No handler of an operation in ops runs at the same time as another
\* handler of an operation in others.
Apart(ops, others) ==
    \A r, s \in Requests : request[r].op \in ops /\ request[s].op \in others => r = s

MemberOps == {"remove", "change"}

\* There is an owner besides the one an operation is about to take away.
OwnerInv ==
    /\ OwnerRemains
    /\ \A r \in Requests :
          /\ request[r].op \in MemberOps /\ request[r].at = "write"
          /\ request[r].op = "remove" \/ request[r].new # "owner"
          => \E u \in Users : u # request[r].target /\ role[u] = "owner"

\* Two or more owners are more than one user.
LEMMA AnotherOwner ==
    ASSUME ~LastOwner, NEW t \in Users
    PROVE  \E u \in Users : u # t /\ role[u] = "owner"
  <1> DEFINE owners == {u \in Users : role[u] = "owner"}
  <1>1. SUFFICES ASSUME \A u \in Users : role[u] = "owner" => u = t PROVE FALSE
    OBVIOUS
  <1>2. owners = {} \/ owners = {t}
    BY <1>1
  <1>3. Cardinality({}) = 0 /\ Cardinality({t}) = 1
    BY FS_EmptySet, FS_Singleton
  <1>4. Cardinality(owners) = 0 \/ Cardinality(owners) = 1
    BY <1>2, <1>3, Zenon
  <1> QED BY <1>4 DEF LastOwner

\* A role other than none is changed by a member operation only.
LEMMA RoleChanges ==
    ASSUME TypeOK, [Next]_vars, NEW u \in Users, role[u] # "none", role'[u] # role[u]
    PROVE  \E r \in Requests :
              /\ request[r].op \in MemberOps /\ request[r].at = "write"
              /\ request[r].target = u
              /\ request'[r].at \notin {"target", "count", "write"}
              /\ role'[u] = IF request[r].op = "remove" THEN "none" ELSE request[r].new
              /\ \A x \in Users : x # u => role'[x] = role[x]
              /\ request[r].op = "remove" => request'[r].at = "devices" /\ request'[r].target = u
  <1>0. role \in [Users -> Roles \cup {"none"}] /\ \A r \in Requests : request[r].target \in Users
    BY DEF TypeOK, RequestType
  <1>1. PICK r \in Requests : Join(r) \/ remove_member(r) \/ change_member_role(r)
    BY RoleSteps
  <1>2. ~Join(r)
    BY <1>0 DEF Join
  <1>3. CASE remove_member(r)
    <2>1. request[r].target = u
      BY <1>0, <1>3 DEF remove_member
    <2>2. request' = Goto(r, "devices")
      BY <1>3, <2>1 DEF remove_member
    <2>3. request'[r].at = "devices" /\ request'[r].target = u
      BY <2>1, <2>2, HandlerAfter DEF SameOperation
    <2> QED BY <1>0, <1>3, <2>1, <2>3 DEF remove_member, MemberOps
  <1>4. CASE change_member_role(r)
    <2>1. request'[r].at \notin {"target", "count", "write"}
      BY <1>4, HandlerAfter DEF Idle, change_member_role
    <2> QED BY <1>0, <1>4, <2>1 DEF change_member_role, MemberOps
  <1> QED BY <1>1, <1>2, <1>3, <1>4

\* While one member operation runs at a time, nobody takes the other owner.
LEMMA OwnerStep ==
    ASSUME TypeOK, OwnerInv, Apart(MemberOps, MemberOps), [Next]_vars
    PROVE  OwnerInv'
  <1>0. role \in [Users -> Roles \cup {"none"}] /\ \A r \in Requests : request[r].target \in Users
    BY DEF TypeOK, RequestType
  <1>1. ASSUME NEW u \in Users, role[u] = "owner", role'[u] # "owner"
        PROVE  \E r \in Requests :
                  /\ request[r].op \in MemberOps /\ request[r].at = "write"
                  /\ request[r].op = "remove" \/ request[r].new # "owner"
                  /\ request[r].target = u
                  /\ \A x \in Users : x # u => role'[x] = role[x]
                  /\ request'[r].at # "write"
    BY <1>1, RoleChanges
  <1>2. OwnerRemains'
    <2>1. PICK u \in Users : role[u] = "owner"
      BY DEF OwnerInv, OwnerRemains
    <2>2. CASE role'[u] = "owner"
      BY <2>2 DEF OwnerRemains
    <2>3. CASE role'[u] # "owner"
      <3>1. PICK r \in Requests :
                  /\ request[r].op \in MemberOps /\ request[r].at = "write"
                  /\ request[r].op = "remove" \/ request[r].new # "owner"
                  /\ request[r].target = u
                  /\ \A x \in Users : x # u => role'[x] = role[x]
        BY <1>1, <2>1, <2>3
      <3>2. PICK x \in Users : x # u /\ role[x] = "owner"
        BY <3>1 DEF OwnerInv
      <3> QED BY <3>1, <3>2 DEF OwnerRemains
    <2> QED BY <2>2, <2>3
  <1>3. ASSUME NEW r \in Requests, request'[r].op \in MemberOps, request'[r].at = "write",
               request'[r].op = "remove" \/ request'[r].new # "owner"
        PROVE  \E u \in Users : u # request'[r].target /\ role'[u] = "owner"
    <2>1. \/ request'[r] = request[r]
          \/ SameOperation(r) /\ MovedOn(r)
      BY <1>3, HandlerSteps DEF HandlerStep, Idle, MemberOps
    <2>2. request[r].op \in MemberOps /\ request[r].target = request'[r].target
          /\ (request[r].op = "remove" \/ request[r].new # "owner")
      BY <1>3, <2>1 DEF SameOperation
    <2>3. \E u \in Users : u # request[r].target /\ role[u] = "owner"
      <3>1. CASE request'[r] = request[r]
        BY <1>3, <3>1 DEF OwnerInv
      <3>2. CASE ReadTarget(r) /\ ~LosesOwner(r, role[request[r].target])
        <4>1. role[request[r].target] # "owner"
          BY <2>2, <3>2 DEF LosesOwner, MemberOps
        <4> QED BY <4>1 DEF OwnerInv, OwnerRemains
      <3>3. CASE CountOwners(r) /\ ~LastOwner
        BY <1>0, <3>3, AnotherOwner
      <3> QED BY <1>3, <2>1, <2>2, <3>1, <3>2, <3>3 DEF MovedOn, FirstCall, MemberOps
    <2>4. PICK u \in Users : u # request[r].target /\ role[u] = "owner"
      BY <2>3
    <2>5. role'[u] = "owner"
      <3> SUFFICES ASSUME role'[u] # "owner" PROVE FALSE
        OBVIOUS
      <3>1. PICK s \in Requests : /\ request[s].op \in MemberOps /\ request[s].target = u
                                  /\ request'[s].at # "write"
        BY <1>1, <2>4
      <3>2. s = r
        BY <2>2, <3>1 DEF Apart
      <3> QED BY <1>3, <3>1, <3>2
    <2> QED BY <2>2, <2>4, <2>5
  <1> QED BY <1>2, <1>3 DEF OwnerInv

\* An owner about to be removed is the caller, and whoever changes a role
\* has been an owner since they were authorized.
OwnersGoInv ==
    \A r \in Requests :
        /\ request[r].op = "remove" /\ request[r].at \in {"count", "write"} =>
              \/ request[r].target = request[r].user
              \/ role[request[r].target] \notin {"owner", "none"}
        /\ request[r].op = "change" /\ request[r].at \in {"target", "count", "write"} =>
              role[request[r].user] = "owner"

\* That stays so while one member operation runs at a time.
LEMMA OwnersGoStep ==
    ASSUME TypeOK, OwnersGoInv, Apart(MemberOps, MemberOps), [Next]_vars
    PROVE  OwnersGoInv'
  <1>0. \A r \in Requests : request[r].target \in Users /\ request[r].user \in Users
    BY DEF TypeOK, RequestType
  <1>1. ASSUME NEW r \in Requests, request'[r].op \in MemberOps,
               request'[r].at \in {"target", "count", "write"}, NEW u \in Users,
               request[r].op \in MemberOps, role[u] # "none"
        PROVE  role'[u] = role[u]
    BY <1>1, RoleChanges DEF Apart
  <1>2. ASSUME NEW r \in Requests, request'[r].op = "remove", request'[r].at \in {"count", "write"}
        PROVE  \/ request'[r].target = request'[r].user
               \/ role'[request'[r].target] \notin {"owner", "none"}
    <2>1. \/ request'[r] = request[r]
          \/ SameOperation(r) /\ MovedOn(r)
      BY <1>2, HandlerSteps DEF HandlerStep, Idle
    <2>2. /\ request[r].op = "remove" /\ request[r].target = request'[r].target
          /\ request[r].user = request'[r].user
      BY <1>2, <2>1 DEF SameOperation
    <2>3. \/ request[r].target = request[r].user
          \/ role[request[r].target] \notin {"owner", "none"}
      <3>1. CASE request'[r] = request[r]
        BY <1>2, <3>1 DEF OwnersGoInv
      <3>2. CASE ReadTarget(r) /\ role[request[r].target] # "none"
                   /\ MayRemove(r, role[request[r].target])
        BY <3>2 DEF MayRemove
      <3>3. CASE CountOwners(r)
        BY <2>2, <3>3 DEF CountOwners, OwnersGoInv
      <3> QED BY <1>2, <2>1, <2>2, <3>1, <3>2, <3>3 DEF MovedOn, FirstCall
    <2> QED BY <1>0, <1>1, <1>2, <2>2, <2>3 DEF MemberOps
  <1>3. ASSUME NEW r \in Requests, request'[r].op = "change",
               request'[r].at \in {"target", "count", "write"}
        PROVE  role'[request'[r].user] = "owner"
    <2>1. \/ request'[r] = request[r]
          \/ SameOperation(r) /\ MovedOn(r)
      BY <1>3, HandlerSteps DEF HandlerStep, Idle
    <2>2. request[r].op = "change" /\ request[r].user = request'[r].user
      BY <1>3, <2>1 DEF SameOperation
    <2>3. role[request[r].user] = "owner"
      <3>1. CASE request'[r] = request[r]
        BY <1>3, <3>1 DEF OwnersGoInv
      <3>2. CASE Authorize(r) /\ role[request[r].user] \in Allowed(request[r].op)
        BY <2>2, <3>2 DEF Allowed
      <3>3. CASE ReadTarget(r) \/ CountOwners(r)
        BY <2>2, <3>3 DEF ReadTarget, CountOwners, OwnersGoInv
      <3> QED BY <1>3, <2>1, <2>2, <3>1, <3>2, <3>3 DEF MovedOn, remove_member
    <2> QED BY <1>0, <1>1, <1>3, <2>2, <2>3 DEF MemberOps
  <1> QED BY <1>2, <1>3 DEF OwnersGoInv

\* The handlers that stand at one place of accepting invitation i.
Accepting(i, where) == {r \in Requests : request[r].at = where /\ request[r].subject = i}

\* What an invitation made is covered by the acceptances that were cut off and
\* by the handlers that have joined and not marked it yet; once it is marked no
\* handler starts accepting it, and those still to join count as well.
Covered(i) ==
    IF invitations[i].accepted
    THEN invitations[i].joined + Cardinality(Accepting(i, "join"))
            <= invitations[i].cut + Cardinality(Requests)
    ELSE invitations[i].joined <= invitations[i].cut + Cardinality(Accepting(i, "mark"))

JoinsInv ==
    /\ \A r \in Requests : request[r].at \in {"join", "mark"} =>
          request[r].subject \in DOMAIN invitations
    /\ \A i \in DOMAIN invitations : Covered(i)

\* The handlers at two places of an acceptance are among all handlers.
LEMMA AcceptingCounts ==
    ASSUME NEW i
    PROVE  /\ \A w : Cardinality(Accepting(i, w)) \in Nat
           /\ Cardinality(Accepting(i, "join")) + Cardinality(Accepting(i, "mark"))
                 <= Cardinality(Requests)
           /\ Cardinality(Requests) \in Nat
  <1> DEFINE A == Accepting(i, "join")
             B == Accepting(i, "mark")
  <1>1. \A w : IsFiniteSet(Accepting(i, w))
    BY RequestsAssumption, FS_Subset DEF Accepting
  <1>2. A \cap B = {} /\ A \cup B \subseteq Requests
    BY DEF Accepting
  <1>3. Cardinality(A \cup B) = Cardinality(A) + Cardinality(B) - Cardinality(A \cap B)
    BY <1>1, FS_Union
  <1>4. Cardinality(A \cup B) <= Cardinality(Requests)
    BY <1>2, RequestsAssumption, FS_Subset
  <1>5. Cardinality(A \cap B) = 0
    BY <1>2, FS_EmptySet
  <1>6. \A w : Cardinality(Accepting(i, w)) \in Nat
    BY <1>1, FS_CardinalityType
  <1>7. Cardinality(Requests) \in Nat
    BY RequestsAssumption, FS_CardinalityType
  <1> QED BY <1>3, <1>4, <1>5, <1>6, <1>7

\* A step of handler x changes the count by x alone.
LEMMA AcceptingMoves ==
    ASSUME NEW x \in Requests, \A y \in Requests : y # x => request'[y] = request[y],
           NEW i, NEW w
    PROVE  /\ Cardinality(Accepting(i, w)') \in Nat
           /\ Cardinality(Accepting(i, w)') =
                 Cardinality(Accepting(i, w))
                    + (IF x \in Accepting(i, w)' /\ x \notin Accepting(i, w) THEN 1 ELSE 0)
                    - (IF x \in Accepting(i, w) /\ x \notin Accepting(i, w)' THEN 1 ELSE 0)
  <1> DEFINE A == Accepting(i, w)
             B == {r \in Requests : request'[r].at = w /\ request'[r].subject = i}
  <1>1. IsFiniteSet(A) /\ IsFiniteSet(B)
    BY RequestsAssumption, FS_Subset DEF Accepting
  <1>2. Cardinality(A) \in Nat /\ Cardinality(B) \in Nat
    BY <1>1, FS_CardinalityType
  <1>3. \A y \in Requests : y # x => (y \in A <=> y \in B)
    BY DEF Accepting
  <1>4. A \subseteq Requests /\ B \subseteq Requests
    BY DEF Accepting
  <1>5. Accepting(i, w)' = B
    BY DEF Accepting
  <1> HIDE DEF A, B
  <1>6. CASE x \in A <=> x \in B
    <2>1. A = B
      BY <1>3, <1>4, <1>6
    <2> QED BY <1>2, <1>5, <1>6, <2>1 DEF A
  <1>7. CASE x \in B /\ x \notin A
    <2>1. B = A \cup {x}
      BY <1>3, <1>4, <1>7
    <2>2. Cardinality(B) = Cardinality(A) + 1
      BY <1>1, <1>7, <2>1, FS_AddElement
    <2> QED BY <1>2, <1>5, <1>7, <2>2 DEF A
  <1>8. CASE x \in A /\ x \notin B
    <2>1. B = A \ {x}
      BY <1>3, <1>4, <1>8
    <2>2. Cardinality(B) = Cardinality(A) - 1
      BY <1>1, <1>8, <2>1, FS_RemoveElement
    <2> QED BY <1>2, <1>5, <1>8, <2>2 DEF A
  <1> QED BY <1>6, <1>7, <1>8

\* What a handler that accepts an invitation can do next.
LEMMA AcceptingSteps ==
    ASSUME TypeOK, [Next]_vars, NEW x \in Requests,
           BeginAny(x) \/ Step(x) \/ Disconnect(x)
              \/ \E i \in DOMAIN invitations : accept_invitation(x, i)
    PROVE  /\ request[x].at = "join" => Join(x) \/ Disconnect(x)
           /\ request[x].at = "mark" => MarkAccepted(x) \/ Disconnect(x)
           /\ Disconnect(x) /\ request[x].at # "mark" => UNCHANGED invitations
           /\ request[x].at \notin {"join", "mark"} =>
                 \/ \E i \in DOMAIN invitations : accept_invitation(x, i)
                 \/ request'[x].at \notin {"join", "mark"}
                       /\ (UNCHANGED invitations \/ create_invitation(x))
  <1>1. ASSUME request[x].at \in {"join", "mark"}
        PROVE  Join(x) \/ MarkAccepted(x) \/ Disconnect(x)
    BY <1>1, Zenon DEF BeginAny, Begin, Step, Authorize, accept_invitation, create_invitation,
        IssueToken, register_device, revoke_device, rotate_user_token, ReadTarget, CountOwners,
        remove_member, revoke_user_devices, change_member_role
  <1>2. ASSUME request[x].at \notin {"join", "mark"},
               \A i \in DOMAIN invitations : ~accept_invitation(x, i)
        PROVE  UNCHANGED invitations \/ create_invitation(x)
    BY <1>2, Zenon DEF BeginAny, Begin, Step, Authorize, Join, MarkAccepted,
        IssueToken, register_device, revoke_device, rotate_user_token, ReadTarget, CountOwners,
        remove_member, revoke_user_devices, change_member_role, Disconnect
  <1>3. ASSUME request[x].at \notin {"join", "mark"},
               \A i \in DOMAIN invitations : ~accept_invitation(x, i)
        PROVE  request'[x].at \notin {"join", "mark"}
    <2>1. HandlerStep(x)
      BY HandlerSteps
    <2>2. ~Join(x)
      BY <1>3 DEF Join
    <2>3. MovedOn(x) => request'[x].at \notin {"join", "mark"}
      BY <2>2, Zenon DEF MovedOn, FirstCall
    <2> QED BY <1>3, <2>1, <2>3 DEF HandlerStep, Idle
  <1>4. (Join(x) => request[x].at = "join") /\ (MarkAccepted(x) => request[x].at = "mark")
    BY DEF Join, MarkAccepted
  <1> QED BY <1>1, <1>2, <1>3, <1>4 DEF Disconnect

\* The counts of an invitation and the places of its handlers stay.
LEMMA CoveredKept ==
    ASSUME NEW i \in DOMAIN invitations, Covered(i),
           invitations[i].joined \in Nat, invitations[i].cut \in Nat,
           invitations'[i].accepted = invitations[i].accepted,
           invitations'[i].joined = invitations[i].joined,
           invitations'[i].cut = invitations[i].cut,
           Cardinality(Accepting(i, "join")') <= Cardinality(Accepting(i, "join"))
              \/ ~invitations[i].accepted,
           Cardinality(Accepting(i, "mark")') >= Cardinality(Accepting(i, "mark"))
              \/ invitations[i].accepted,
           Cardinality(Accepting(i, "join")') \in Nat,
           Cardinality(Accepting(i, "mark")') \in Nat
    PROVE  Covered(i)'
  <1>1. /\ Cardinality(Accepting(i, "join")) \in Nat /\ Cardinality(Accepting(i, "mark")) \in Nat
        /\ Cardinality(Requests) \in Nat
    BY AcceptingCounts
  <1> QED BY <1>1 DEF Covered

\* The coverage of every invitation is kept by every step: joining moves the
\* handler along, marking shuts the door, a disconnection is counted.
LEMMA JoinsStep ==
    ASSUME TypeOK, JoinsInv, [Next]_vars
    PROVE  JoinsInv'
  <1>0. invitations \in Seq(InvitationType)
    BY DEF TypeOK, InvitationType
  <1>1. \A j \in DOMAIN invitations :
           /\ invitations[j] \in InvitationType
           /\ invitations[j].joined \in Nat /\ invitations[j].cut \in Nat
           /\ invitations[j].accepted \in BOOLEAN
           /\ Covered(j)
           /\ Cardinality(Accepting(j, "join")) \in Nat
           /\ Cardinality(Accepting(j, "mark")) \in Nat
           /\ Cardinality(Accepting(j, "join")) + Cardinality(Accepting(j, "mark"))
                 <= Cardinality(Requests)
           /\ Cardinality(Requests) \in Nat
    <2> SUFFICES ASSUME NEW j \in DOMAIN invitations
                 PROVE  /\ invitations[j] \in InvitationType
                        /\ invitations[j].joined \in Nat /\ invitations[j].cut \in Nat
                        /\ invitations[j].accepted \in BOOLEAN
                        /\ Covered(j)
      BY AcceptingCounts
    <2>1. invitations[j] \in InvitationType
      BY <1>0
    <2> QED BY <2>1 DEF InvitationType, JoinsInv
  <1>2. \A r \in Requests : request[r].at \in {"join", "mark"} =>
           request[r].subject \in DOMAIN invitations
    BY DEF JoinsInv
  <1>3. ASSUME UNCHANGED request PROVE JoinsInv'
    <2>1. UNCHANGED invitations \/ \E j \in DOMAIN invitations : ExpireInvitation(j)
      <3>1. ASSUME NEW r \in Requests, Disconnect(r) PROVE UNCHANGED invitations
        <4>1. request'[r] = Idle
          BY <3>1, HandlerAfter DEF Disconnect
        <4>2. request[r].at # "mark"
          BY <1>3, <4>1 DEF Idle
        <4> QED BY <3>1, <4>2 DEF Disconnect
      <3>2. ASSUME NEW r \in Requests, Join(r) \/ MarkAccepted(r) \/ create_invitation(r)
            PROVE  FALSE
        <4>1. \/ request[r].at = "join" /\ request'[r].at = "mark"
              \/ request[r].at = "mark" /\ request'[r].at = "issue"
              \/ request[r].at = "write" /\ request'[r].at = "idle"
          BY <3>2, HandlerAfter DEF Join, MarkAccepted, create_invitation, Idle
        <4> QED BY <1>3, <4>1
      <3>3. \/ UNCHANGED invitations
            \/ \E j \in DOMAIN invitations : ExpireInvitation(j)
            \/ \E r \in Requests : Disconnect(r) \/ Join(r) \/ MarkAccepted(r) \/ create_invitation(r)
        BY ZenonT(40) DEF Next, vars, BeginAny, Begin, Step, Authorize, accept_invitation, IssueToken,
            register_device, revoke_device, rotate_user_token, ReadTarget, CountOwners,
            remove_member, revoke_user_devices, change_member_role, ExpireToken
      <3> QED BY <3>1, <3>2, <3>3
    <2>2. ASSUME NEW j \in DOMAIN invitations, ExpireInvitation(j), NEW i \in DOMAIN invitations
          PROVE  /\ DOMAIN invitations' = DOMAIN invitations
                 /\ invitations'[i].accepted = invitations[i].accepted
                 /\ invitations'[i].joined = invitations[i].joined
                 /\ invitations'[i].cut = invitations[i].cut
      <3>1. /\ DOMAIN invitations' = DOMAIN invitations
            /\ \/ invitations'[i] = invitations[i]
               \/ invitations'[i] = [invitations[i] EXCEPT !.expired = TRUE]
        BY <2>2 DEF ExpireInvitation
      <3> QED BY <1>1, <3>1 DEF InvitationType
    <2>3. ASSUME NEW i, NEW w PROVE Accepting(i, w)' = Accepting(i, w)
      BY <1>3 DEF Accepting
    <2>4. DOMAIN invitations' = DOMAIN invitations
      BY <2>1 DEF ExpireInvitation
    <2>5. ASSUME NEW i \in DOMAIN invitations PROVE Covered(i)'
      <3>1. /\ invitations'[i].accepted = invitations[i].accepted
            /\ invitations'[i].joined = invitations[i].joined
            /\ invitations'[i].cut = invitations[i].cut
        BY <2>1, <2>2
      <3> QED BY <1>1, <2>3, <3>1, CoveredKept
    <2> QED BY <1>2, <1>3, <2>4, <2>5 DEF JoinsInv
  <1>4. ASSUME NEW x \in Requests,
               BeginAny(x) \/ Step(x) \/ Disconnect(x)
                  \/ \E i \in DOMAIN invitations : accept_invitation(x, i)
        PROVE  JoinsInv'
    <2> DEFINE s == request[x].subject
    <2>1. \A y \in Requests : y # x => request'[y] = request[y]
      BY <1>4, OtherHandlers
    <2>2. ASSUME NEW i, NEW w
          PROVE  /\ Cardinality(Accepting(i, w)') \in Nat
                 /\ Cardinality(Accepting(i, w)') =
                       Cardinality(Accepting(i, w))
                          + (IF x \in Accepting(i, w)' /\ x \notin Accepting(i, w) THEN 1 ELSE 0)
                          - (IF x \in Accepting(i, w) /\ x \notin Accepting(i, w)' THEN 1 ELSE 0)
      BY <2>1, AcceptingMoves
    <2>3. ASSUME NEW i, NEW w
          PROVE  /\ x \in Accepting(i, w) <=> request[x].at = w /\ s = i
                 /\ x \in Accepting(i, w)' <=> request'[x].at = w /\ request'[x].subject = i
      BY DEF Accepting
    <2> HIDE DEF s
    <2>4. ASSUME NEW i \in DOMAIN invitations
          PROVE  /\ Cardinality(Accepting(i, "join")') =
                       Cardinality(Accepting(i, "join"))
                          + (IF request'[x].at = "join" /\ request'[x].subject = i
                                /\ ~(request[x].at = "join" /\ s = i) THEN 1 ELSE 0)
                          - (IF request[x].at = "join" /\ s = i
                                /\ ~(request'[x].at = "join" /\ request'[x].subject = i)
                             THEN 1 ELSE 0)
                 /\ Cardinality(Accepting(i, "mark")') =
                       Cardinality(Accepting(i, "mark"))
                          + (IF request'[x].at = "mark" /\ request'[x].subject = i
                                /\ ~(request[x].at = "mark" /\ s = i) THEN 1 ELSE 0)
                          - (IF request[x].at = "mark" /\ s = i
                                /\ ~(request'[x].at = "mark" /\ request'[x].subject = i)
                             THEN 1 ELSE 0)
                 /\ Cardinality(Accepting(i, "join")') \in Nat
                 /\ Cardinality(Accepting(i, "mark")') \in Nat
      BY <2>2, <2>3
    <2>5. CASE Join(x)
      <3>1. /\ request[x].at = "join" /\ request'[x].at = "mark" /\ request'[x].subject = s
            /\ DOMAIN invitations' = DOMAIN invitations
        BY <2>5, HandlerAfter DEF Join, SameOperation, s
      <3>2. ASSUME NEW i \in DOMAIN invitations
            PROVE  /\ i # s => invitations'[i] = invitations[i]
                   /\ \/ invitations'[i] = invitations[i]
                      \/ invitations'[i] = [invitations[i] EXCEPT !.joined = @ + 1]
        BY <2>5 DEF Join, s
      <3>3. ASSUME NEW i \in DOMAIN invitations
            PROVE  /\ i # s => invitations'[i] = invitations[i]
                   /\ invitations'[i].accepted = invitations[i].accepted
                   /\ invitations'[i].cut = invitations[i].cut
                   /\ invitations'[i].joined \in {invitations[i].joined, invitations[i].joined + 1}
        BY <1>1, <3>2 DEF InvitationType
      <3>4. ASSUME NEW i \in DOMAIN invitations PROVE Covered(i)'
        <4>1. CASE i = s
          <5>1. /\ Cardinality(Accepting(i, "join")') = Cardinality(Accepting(i, "join")) - 1
                /\ Cardinality(Accepting(i, "mark")') = Cardinality(Accepting(i, "mark")) + 1
            BY <1>1, <2>4, <3>1, <4>1
          <5> QED BY <1>1, <3>3, <5>1 DEF Covered
        <4>2. CASE i # s
          <5>1. /\ Cardinality(Accepting(i, "join")') = Cardinality(Accepting(i, "join"))
                /\ Cardinality(Accepting(i, "mark")') = Cardinality(Accepting(i, "mark"))
            BY <1>1, <2>4, <3>1, <4>2
          <5> QED BY <1>1, <3>3, <4>2, <5>1, CoveredKept
        <4> QED BY <4>1, <4>2
      <3>5. s \in DOMAIN invitations
        BY <1>2, <3>1 DEF s
      <3> QED BY <1>2, <2>1, <3>1, <3>4, <3>5 DEF JoinsInv
    <2>6. CASE MarkAccepted(x)
      <3>1. /\ request[x].at = "mark" /\ request'[x].at = "issue"
            /\ DOMAIN invitations' = DOMAIN invitations
        BY <2>6, HandlerAfter DEF MarkAccepted
      <3>2. ASSUME NEW i \in DOMAIN invitations
            PROVE  /\ i # s => invitations'[i] = invitations[i]
                   /\ i = s => invitations'[i] = [invitations[i] EXCEPT !.accepted = TRUE]
        BY <2>6 DEF MarkAccepted, s
      <3>3. ASSUME NEW i \in DOMAIN invitations
            PROVE  /\ i # s => invitations'[i] = invitations[i]
                   /\ i = s => invitations'[i].accepted
                   /\ invitations'[i].cut = invitations[i].cut
                   /\ invitations'[i].joined = invitations[i].joined
        BY <1>1, <3>2 DEF InvitationType
      <3>4. ASSUME NEW i \in DOMAIN invitations PROVE Covered(i)'
        <4>0. Cardinality(Accepting(i, "join")') = Cardinality(Accepting(i, "join"))
          BY <1>1, <2>4, <3>1
        <4>1. CASE i = s
          BY <1>1, <3>3, <4>0, <4>1 DEF Covered
        <4>2. CASE i # s
          <5>1. Cardinality(Accepting(i, "mark")') = Cardinality(Accepting(i, "mark"))
            BY <1>1, <2>4, <3>1, <4>2
          <5> QED BY <1>1, <3>3, <4>0, <4>2, <5>1, CoveredKept
        <4> QED BY <4>1, <4>2
      <3> QED BY <1>2, <2>1, <3>1, <3>4 DEF JoinsInv
    <2>7. CASE Disconnect(x) /\ request[x].at = "mark"
      <3>1. /\ request'[x].at = "idle" /\ DOMAIN invitations' = DOMAIN invitations
        BY <2>7, HandlerAfter DEF Disconnect, Idle
      <3>2. ASSUME NEW i \in DOMAIN invitations
            PROVE  /\ i # s => invitations'[i] = invitations[i]
                   /\ i = s => invitations'[i] = [invitations[i] EXCEPT !.cut = @ + 1]
        BY <2>7 DEF Disconnect, s
      <3>3. ASSUME NEW i \in DOMAIN invitations
            PROVE  /\ i # s => invitations'[i] = invitations[i]
                   /\ i = s => invitations'[i].cut = invitations[i].cut + 1
                   /\ invitations'[i].accepted = invitations[i].accepted
                   /\ invitations'[i].joined = invitations[i].joined
        BY <1>1, <3>2 DEF InvitationType
      <3>4. ASSUME NEW i \in DOMAIN invitations PROVE Covered(i)'
        <4>0. Cardinality(Accepting(i, "join")') = Cardinality(Accepting(i, "join"))
          BY <1>1, <2>4, <2>7, <3>1
        <4>1. CASE i = s
          <5>1. Cardinality(Accepting(i, "mark")') = Cardinality(Accepting(i, "mark")) - 1
            BY <1>1, <2>4, <2>7, <3>1, <4>1
          <5> QED BY <1>1, <3>3, <4>0, <4>1, <5>1 DEF Covered
        <4>2. CASE i # s
          <5>1. Cardinality(Accepting(i, "mark")') = Cardinality(Accepting(i, "mark"))
            BY <1>1, <2>4, <2>7, <3>1, <4>2
          <5> QED BY <1>1, <3>3, <4>0, <4>2, <5>1, CoveredKept
        <4> QED BY <4>1, <4>2
      <3> QED BY <1>2, <2>1, <3>1, <3>4 DEF JoinsInv
    <2>8. CASE Disconnect(x) /\ request[x].at = "join"
      <3>1. request'[x].at = "idle" /\ invitations' = invitations
        BY <2>8, HandlerAfter DEF Disconnect, Idle
      <3>2. ASSUME NEW i \in DOMAIN invitations PROVE Covered(i)'
        <4>1. /\ Cardinality(Accepting(i, "join")') <= Cardinality(Accepting(i, "join"))
              /\ Cardinality(Accepting(i, "mark")') = Cardinality(Accepting(i, "mark"))
          BY <1>1, <2>4, <2>8, <3>1
        <4> QED BY <1>1, <2>4, <3>1, <4>1, CoveredKept
      <3> QED BY <1>2, <2>1, <3>1, <3>2 DEF JoinsInv
    <2>9. ASSUME NEW k \in DOMAIN invitations, accept_invitation(x, k) PROVE JoinsInv'
      <3>1. /\ request[x].at = "idle" /\ invitations' = invitations
            /\ ~invitations[k].accepted
        BY <2>9 DEF accept_invitation, Usable
      <3>2. request'[x].at = "join" /\ request'[x].subject = k
        <4>1. request \in [Requests -> RequestType]
          BY DEF TypeOK
        <4>2. request'[x] = [Idle EXCEPT !.op = "accept", !.at = "join", !.subject = k,
                                 !.user = invitations[k].user, !.new = invitations[k].role]
          BY <2>9, <4>1 DEF accept_invitation
        <4> QED BY <4>2 DEF Idle
      <3>3. ASSUME NEW i \in DOMAIN invitations PROVE Covered(i)'
        <4>1. /\ Cardinality(Accepting(i, "join")') = Cardinality(Accepting(i, "join"))
                    \/ ~invitations[i].accepted
              /\ Cardinality(Accepting(i, "mark")') = Cardinality(Accepting(i, "mark"))
          BY <1>1, <2>4, <3>1, <3>2
        <4> QED BY <1>1, <2>4, <3>1, <4>1, CoveredKept
      <3> QED BY <1>2, <2>1, <3>1, <3>2, <3>3 DEF JoinsInv
    <2>10. CASE /\ request[x].at \notin {"join", "mark"} /\ request'[x].at \notin {"join", "mark"}
                /\ UNCHANGED invitations \/ create_invitation(x)
      <3>1. ASSUME NEW i \in DOMAIN invitations, invitations'[i] = invitations[i]
            PROVE  Covered(i)'
        <4>1. /\ Cardinality(Accepting(i, "join")') = Cardinality(Accepting(i, "join"))
              /\ Cardinality(Accepting(i, "mark")') = Cardinality(Accepting(i, "mark"))
          BY <1>1, <2>4, <2>10
        <4> QED BY <1>1, <2>4, <3>1, <4>1, CoveredKept
      <3>2. CASE UNCHANGED invitations
        BY <1>2, <2>1, <2>10, <3>1, <3>2 DEF JoinsInv
      <3>3. CASE create_invitation(x)
        <4> DEFINE new == [user |-> request[x].target, role |-> request[x].new,
                           accepted |-> FALSE, expired |-> FALSE, joined |-> 0, cut |-> 0]
        <4>1. new \in InvitationType
          BY DEF TypeOK, RequestType, InvitationType
        <4>2. invitations' = Append(invitations, new)
          BY <3>3 DEF create_invitation
        <4>3. ~new.accepted /\ new.joined = 0 /\ new.cut = 0
          OBVIOUS
        <4> HIDE DEF new
        <4>4. /\ DOMAIN invitations = 1..Len(invitations) /\ Len(invitations) \in Nat
              /\ DOMAIN invitations' = 1..(Len(invitations) + 1)
              /\ \A j \in 1..Len(invitations) : invitations'[j] = invitations[j]
              /\ invitations'[Len(invitations) + 1] = new
          BY <1>0, <4>1, <4>2, AppendProperties, LenProperties
        <4>5. ASSUME NEW i, i = Len(invitations) + 1 PROVE Covered(i)'
          <5>1. Cardinality(Accepting(i, "mark")') \in Nat
            BY <2>2
          <5> QED BY <4>3, <4>4, <4>5, <5>1 DEF Covered
        <4>6. ASSUME NEW i \in DOMAIN invitations' PROVE Covered(i)'
          <5>1. i \in DOMAIN invitations \/ i = Len(invitations) + 1
            BY <4>4
          <5> QED BY <3>1, <4>4, <4>5, <5>1
        <4> QED BY <1>2, <2>1, <2>10, <4>4, <4>6 DEF JoinsInv
      <3> QED BY <2>10, <3>2, <3>3
    <2> QED BY <1>4, <2>5, <2>6, <2>7, <2>8, <2>9, <2>10, AcceptingSteps
  <1>5. \/ UNCHANGED request
        \/ \E r \in Requests : BeginAny(r) \/ Step(r) \/ Disconnect(r)
              \/ \E i \in DOMAIN invitations : accept_invitation(r, i)
    BY DEF Next, vars, ExpireToken, ExpireInvitation
  <1> QED BY <1>3, <1>4, <1>5

\* Whoever registers a device is a member, and devices are only about to be
\* revoked by a removal.
DevicesInv ==
    /\ DevicesEndWithMembership
    /\ \A r \in Requests :
          /\ request[r].op = "register" /\ request[r].at = "write" =>
                role[request[r].user] # "none"
          /\ request[r].at = "devices" => request[r].op = "remove"
          /\ request[r].at \in {"target", "count"} => request[r].op # "register"

\* Devices keep their users, stay revoked, and are added by members.
LEMMA DevicesKept ==
    ASSUME TypeOK, [Next]_vars, NEW d \in DOMAIN devices'
    PROVE  \/ /\ d \in DOMAIN devices /\ devices'[d].user = devices[d].user
              /\ devices[d].revoked => devices'[d].revoked
              /\ \A r \in Requests : revoke_user_devices(r) /\ request[r].target = devices[d].user =>
                    devices'[d].revoked
           \/ \E r \in Requests : register_device(r) /\ devices'[d].user = request[r].user
  <1>0. devices \in Seq(DeviceType) /\ \A e \in DOMAIN devices : devices[e] \in DeviceType
    <2>1. devices \in Seq(DeviceType)
      BY DEF TypeOK, DeviceType
    <2> QED BY <2>1
  <1>1. ASSUME NEW r \in Requests, register_device(r)
        PROVE  \/ d \in DOMAIN devices /\ devices'[d] = devices[d]
               \/ devices'[d].user = request[r].user
    <2>1. [user |-> request[r].user, revoked |-> FALSE] \in DeviceType
      BY DEF TypeOK, RequestType, DeviceType
    <2> QED BY <1>0, <1>1, <2>1, AppendProperties DEF register_device
  <1>2. ASSUME NEW r \in Requests, revoke_device(r)
        PROVE  /\ d \in DOMAIN devices /\ devices'[d].user = devices[d].user
               /\ devices[d].revoked => devices'[d].revoked
    <2>1. \/ devices' = devices
          \/ \E e \in DOMAIN devices : devices' = [devices EXCEPT ![e].revoked = TRUE]
      BY <1>2, Zenon DEF revoke_device
    <2>2. ASSUME NEW e \in DOMAIN devices, devices' = [devices EXCEPT ![e].revoked = TRUE]
          PROVE  /\ d \in DOMAIN devices /\ devices'[d].user = devices[d].user
                 /\ devices[d].revoked => devices'[d].revoked
      <3>1. d \in DOMAIN devices
        BY <2>2
      <3>2. devices'[d] = devices[d] \/ devices'[d] = [devices[d] EXCEPT !.revoked = TRUE]
        BY <2>2, <3>1
      <3> QED BY <1>0, <3>1, <3>2 DEF DeviceType
    <2> QED BY <2>1, <2>2
  <1>3. ASSUME NEW r \in Requests, revoke_user_devices(r)
        PROVE  /\ d \in DOMAIN devices /\ devices'[d].user = devices[d].user
               /\ devices'[d].revoked = (devices[d].revoked \/ devices[d].user = request[r].target)
    <2>1. /\ d \in DOMAIN devices
          /\ devices'[d] = [devices[d] EXCEPT !.revoked = @ \/ devices[d].user = request[r].target]
      BY <1>3, Zenon DEF revoke_user_devices, RevokedUser
    <2>2. devices[d] \in DeviceType
      BY <1>0, <2>1
    <2> QED BY <2>1, <2>2, Zenon DEF DeviceType
  <1>4. \/ UNCHANGED devices
        \/ \E r \in Requests : register_device(r) \/ revoke_device(r) \/ revoke_user_devices(r)
    BY ZenonT(40) DEF Next, vars, BeginAny, Begin, Step, Authorize, create_invitation, accept_invitation,
        Join, MarkAccepted, IssueToken, rotate_user_token, ReadTarget, CountOwners, remove_member,
        change_member_role, Disconnect, ExpireToken, ExpireInvitation
  <1>5. ASSUME NEW r \in Requests, revoke_user_devices(r), request[r].target = devices[d].user
        PROVE  devices'[d].revoked
    BY <1>3, <1>5
  <1> QED BY <1>1, <1>2, <1>3, <1>4, <1>5, Zenon

\* A removal that is not interrupted ends by revoking the devices.
LEMMA RemovalEnds ==
    ASSUME TypeOK, DevicesInv, "remove" \notin Disconnects, [Next]_vars,
           NEW r \in Requests, request[r].at = "devices", request'[r] # request[r]
    PROVE  revoke_user_devices(r)
  <1>1. request[r].op = "remove"
    BY DEF DevicesInv
  <1>2. \E s \in Requests : BeginAny(s) \/ Step(s) \/ Disconnect(s)
               \/ \E i \in DOMAIN invitations : accept_invitation(s, i)
    BY DEF Next, vars, ExpireToken, ExpireInvitation
  <1>3. BeginAny(r) \/ Step(r) \/ Disconnect(r)
               \/ \E i \in DOMAIN invitations : accept_invitation(r, i)
    BY <1>2, OtherHandlers
  <1>4. ~BeginAny(r) /\ ~Disconnect(r) /\ \A i \in DOMAIN invitations : ~accept_invitation(r, i)
    BY <1>1 DEF BeginAny, Begin, Disconnect, accept_invitation
  <1> QED
    BY <1>3, <1>4 DEF Step, Authorize, create_invitation, Join, MarkAccepted, IssueToken,
        register_device, revoke_device, rotate_user_token, ReadTarget, CountOwners,
        remove_member, change_member_role

\* While nobody registers a device during a removal, a device outlives the
\* membership of its user only until the removal has revoked it.
LEMMA DevicesStep ==
    ASSUME TypeOK, DevicesInv, Apart({"register"}, {"remove"}), "remove" \notin Disconnects,
           [Next]_vars
    PROVE  DevicesInv'
  <1>0. /\ \A r \in Requests : /\ request[r].user \in Users /\ request[r].target \in Users
                               /\ request[r].new # "none"
        /\ \A d \in DOMAIN devices : devices[d].user \in Users
    <2>1. devices \in Seq(DeviceType) /\ \A x \in DeviceType : x.user \in Users
      BY DEF TypeOK, DeviceType
    <2>2. \A d \in DOMAIN devices : devices[d].user \in Users
      BY <2>1
    <2>3. request \in [Requests -> RequestType]
      BY DEF TypeOK
    <2>4. \A q \in RequestType : q.user \in Users /\ q.target \in Users /\ q.new \in Roles
      BY DEF RequestType
    <2>5. "none" \notin Roles
      BY DEF Roles
    <2> QED BY <2>2, <2>3, <2>4, <2>5
  <1>1. ASSUME NEW u \in Users, role[u] # "none", role'[u] = "none"
        PROVE  \E r \in Requests : /\ request[r].op = "remove" /\ request'[r].at = "devices"
                                   /\ request'[r].target = u
    BY <1>0, <1>1, RoleChanges
  <1>2. ASSUME NEW r \in Requests, request'[r].op = "register", request'[r].at = "write"
        PROVE  role'[request'[r].user] # "none"
    <2>1. \/ request'[r] = request[r]
          \/ SameOperation(r) /\ MovedOn(r)
      BY <1>2, HandlerSteps DEF HandlerStep, Idle
    <2>2. request[r].op = "register" /\ request[r].user = request'[r].user
      BY <1>2, <2>1 DEF SameOperation
    <2>3. role[request[r].user] # "none"
      <3>1. CASE request'[r] = request[r]
        BY <1>2, <3>1 DEF DevicesInv
      <3>2. CASE Authorize(r) /\ role[request[r].user] \in Allowed(request[r].op)
        BY <2>2, <3>2 DEF Allowed, Roles
      <3>3. ASSUME ReadTarget(r) \/ CountOwners(r), request'[r] # request[r] PROVE FALSE
        BY <2>2, <3>3 DEF ReadTarget, CountOwners, DevicesInv
      <3> QED BY <1>2, <2>1, <3>1, <3>2, <3>3 DEF MovedOn
    <2>4. ~ \E s \in Requests : request[s].op = "remove"
      BY <2>2 DEF Apart
    <2> QED BY <1>0, <1>1, <2>2, <2>3, <2>4
  <1>3. ASSUME NEW r \in Requests, request'[r].at = "devices" PROVE request'[r].op = "remove"
    BY <1>3, HandlerSteps DEF HandlerStep, Idle, SameOperation, MovedOn, FirstCall, DevicesInv,
        remove_member
  <1>4. ASSUME NEW r \in Requests, request'[r].at \in {"target", "count"}
        PROVE  request'[r].op # "register"
    BY <1>4, HandlerSteps DEF HandlerStep, Idle, SameOperation, MovedOn, FirstCall, DevicesInv,
        ReadTarget
  <1>5. ASSUME NEW d \in DOMAIN devices', role'[devices'[d].user] = "none", ~devices'[d].revoked
        PROVE  \E r \in Requests : /\ request'[r].at = "devices"
                                   /\ request'[r].target = devices'[d].user
    <2>1. ASSUME NEW r \in Requests, register_device(r), devices'[d].user = request[r].user
          PROVE  FALSE
      BY <1>5, <2>1 DEF register_device, DevicesInv
    <2>2. /\ d \in DOMAIN devices /\ devices'[d].user = devices[d].user /\ ~devices[d].revoked
          /\ \A r \in Requests : revoke_user_devices(r) => request[r].target # devices[d].user
      BY <1>5, <2>1, DevicesKept
    <2>3. CASE role[devices[d].user] = "none"
      <3>1. PICK r \in Requests : request[r].at = "devices" /\ request[r].target = devices[d].user
        BY <2>2, <2>3 DEF DevicesInv, DevicesEndWithMembership
      <3>2. request'[r] = request[r]
        BY <2>2, <3>1, RemovalEnds
      <3> QED BY <2>2, <3>1, <3>2
    <2>4. CASE role[devices[d].user] # "none"
      BY <1>0, <1>1, <1>5, <2>2, <2>4
    <2> QED BY <2>3, <2>4
  <1>6. DevicesEndWithMembership'
    BY <1>5 DEF DevicesEndWithMembership
  <1> QED BY <1>2, <1>3, <1>4, <1>6 DEF DevicesInv

-----------------------------------------------------------------------------
(* The theorems.                                                           *)

IInv == TypeOK /\ RotationInv /\ DeleteInv

\* A new company has no handler at work.
LEMMA InitIInv == Init => IInv
  <1> SUFFICES ASSUME Init PROVE IInv
    OBVIOUS
  <1>1. Idle \in RequestType
    BY FounderAssumption DEF Idle, RequestType, Roles
  <1>2. [user |-> Founder, valid |-> TRUE] \in TokenType
    BY FounderAssumption DEF TokenType
  <1>3. tokens \in Seq(TokenType)
    BY <1>2 DEF Init
  <1>4. role \in [Users -> Roles \cup {"none"}]
    BY DEF Init, Roles
  <1>5. request \in [Requests -> RequestType]
    BY <1>1 DEF Init
  <1>6. TypeOK
    BY <1>3, <1>4, <1>5, EmptySeq DEF Init, TypeOK, TokenType
  <1>7. \A r \in Requests : request[r].op = "idle" /\ request[r].at = "idle"
    BY DEF Init, Idle
  <1> QED BY <1>6, <1>7 DEF IInv, RotationInv, DeleteInv

\* The invariant is inductive.
LEMMA StepIInv == IInv /\ [Next]_vars => IInv'
  BY TypeStep, SessionStep DEF IInv

\* The state of the company keeps its types under any interleaving.
THEOREM TypeCorrect == Spec => []TypeOK
  <1>1. IInv => TypeOK
    BY DEF IInv
  <1> QED BY <1>1, InitIInv, StepIInv, PTL DEF Spec

\* Whatever handlers rotate, join, remove and disconnect at the same time,
\* only expiry takes the last token of a user (rotate_user_token inserts the
\* replacement before it deletes).
THEOREM SessionCorrect == Spec => SessionKept
  <1> DEFINE Ends == \A u \in Users : HasSession(u) /\ ~HasSession(u)' =>
                        \E t \in DOMAIN tokens : ExpireToken(t)
  <1>1. IInv /\ [Next]_vars => [Ends]_vars
    <2> SUFFICES ASSUME IInv, [Next]_vars PROVE Ends
      OBVIOUS
    <2> QED BY SessionStep DEF IInv
  <1>2. Spec => [][Ends]_vars
    <2> HIDE DEF Ends
    <2> QED BY <1>1, InitIInv, StepIInv, PTL DEF Spec
  <1> QED BY <1>2 DEF SessionKept

\* A company can lose its last owner only after two removals or changes of role
\* ran at the same time, which nothing in the code prevents; whatever joins,
\* rotations, registrations and invitations happen meanwhile, one such handler
\* at a time finds the owners it counted when it writes the role (remove_member,
\* change_member_role).
THEOREM OwnerLossNeedsOverlap ==
    Spec /\ <>~OwnerRemains => <>~Apart(MemberOps, MemberOps)
  <1>1. Init => OwnerInv
    BY FounderAssumption DEF Init, OwnerInv, OwnerRemains, Idle, MemberOps
  <1>2. TypeOK /\ OwnerInv /\ Apart(MemberOps, MemberOps) /\ [Next]_vars => OwnerInv'
    BY OwnerStep
  <1>3. OwnerInv => OwnerRemains
    BY DEF OwnerInv
  <1> QED BY <1>1, <1>2, <1>3, TypeCorrect, PTL DEF Spec

\* An owner can be removed by somebody else, or demoted by somebody who is no
\* owner, only after two such handlers ran at the same time (a promotion or a
\* demotion between one handler's check and its write).
THEOREM OwnerTakenNeedsOverlap ==
    Spec /\ ~OwnersGoFreely => <>~Apart(MemberOps, MemberOps)
  <1> DEFINE Freely ==
        \A u \in Users : role[u] = "owner" /\ role'[u] # "owner" =>
          \E r \in Requests :
             /\ request[r].at = "write" /\ request[r].target = u
             /\ IF role'[u] = "none" THEN request[r].user = u
                ELSE role[request[r].user] = "owner"
  <1>1. Init => OwnersGoInv
    BY DEF Init, OwnersGoInv, Idle
  <1>2. TypeOK /\ OwnersGoInv /\ Apart(MemberOps, MemberOps) /\ [Next]_vars => OwnersGoInv'
    BY OwnersGoStep
  <1>3. TypeOK /\ OwnersGoInv /\ [Next]_vars => [Freely]_vars
    <2> SUFFICES ASSUME TypeOK, OwnersGoInv, [Next]_vars, NEW u \in Users, role[u] = "owner",
                        role'[u] # "owner"
                 PROVE  \E r \in Requests :
                           /\ request[r].at = "write" /\ request[r].target = u
                           /\ IF role'[u] = "none" THEN request[r].user = u
                              ELSE role[request[r].user] = "owner"
      OBVIOUS
    <2>1. PICK r \in Requests :
              /\ request[r].op \in MemberOps /\ request[r].at = "write" /\ request[r].target = u
              /\ role'[u] = IF request[r].op = "remove" THEN "none" ELSE request[r].new
      BY RoleChanges
    <2>2. request[r].new # "none"
      BY DEF TypeOK, RequestType, Roles
    <2> QED BY <2>1, <2>2 DEF OwnersGoInv, MemberOps
  <1> HIDE DEF Freely
  <1>4. Spec /\ []Apart(MemberOps, MemberOps) => [][Freely]_vars
    BY <1>1, <1>2, <1>3, TypeCorrect, PTL DEF Spec
  <1>5. OwnersGoFreely <=> [][Freely]_vars
    BY DEF OwnersGoFreely, Freely
  <1> HIDE DEF OwnersGoFreely
  <1> QED BY <1>4, <1>5, PTL

\* The memberships an invitation makes are bounded by the handlers that accept
\* it at the same time and its acceptances cut off after joining, for any number
\* of handlers and whatever removals and role changes run meanwhile: an
\* invitation that is marked lets nobody start, and only those count who passed
\* the check before (accept_invitation).
THEOREM JoinsCorrect == Spec => []JoinsBounded
  <1>1. Init => JoinsInv
    BY DEF Init, JoinsInv, Idle
  <1>2. TypeOK /\ JoinsInv /\ [Next]_vars => JoinsInv'
    BY JoinsStep
  <1>3. TypeOK /\ JoinsInv => JoinsBounded
    <2> SUFFICES ASSUME TypeOK, JoinsInv, NEW i \in DOMAIN invitations
                 PROVE  invitations[i].joined <= invitations[i].cut + Cardinality(Requests)
      BY DEF JoinsBounded
    <2>1. invitations \in Seq(InvitationType)
      BY DEF TypeOK, InvitationType
    <2>2. invitations[i] \in InvitationType
      BY <2>1
    <2>3. invitations[i].joined \in Nat /\ invitations[i].cut \in Nat
      BY <2>2 DEF InvitationType
    <2> QED BY <2>3, AcceptingCounts DEF JoinsInv, Covered
  <1> QED BY <1>1, <1>2, <1>3, TypeCorrect, PTL DEF Spec

\* A device can outlive the membership of its user only where a removal is cut
\* off before it revoked the devices, or a device is registered during one
\* (remove_member, register_device); the code leaves both open.
THEOREM DeviceOutlivesNeedsRace ==
    Spec /\ <>~DevicesEndWithMembership
        => "remove" \in Disconnects \/ <>~Apart({"register"}, {"remove"})
  <1> SUFFICES ASSUME "remove" \notin Disconnects
               PROVE  Spec /\ <>~DevicesEndWithMembership => <>~Apart({"register"}, {"remove"})
    OBVIOUS
  <1>1. Init => DevicesInv
    BY DEF Init, DevicesInv, DevicesEndWithMembership, Idle
  <1>2. TypeOK /\ DevicesInv /\ Apart({"register"}, {"remove"}) /\ [Next]_vars => DevicesInv'
    BY DevicesStep
  <1>3. DevicesInv => DevicesEndWithMembership
    BY DEF DevicesInv
  <1> QED BY <1>1, <1>2, <1>3, TypeCorrect, PTL DEF Spec
=============================================================================
