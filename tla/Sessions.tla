------------------------------ MODULE Sessions ------------------------------
(***************************************************************************)
(* Users of a tenant and their console sessions (controlplane sessions.py, *)
(* routes/auth.py and routes/users.py).  A session is a hash in Redis with *)
(* a copy of the user's role, and its id is a member of the user's set.  A *)
(* login reads the user's row, writes the hash and then adds the member; a *)
(* change of the user commits the row, reads the set and deletes the       *)
(* sessions it found.  The caller's own rights are those of the session it *)
(* presented when its request came in.                                     *)
(*                                                                         *)
(* Abstracted: login throttling, CSRF tokens and the frozen tenant, which  *)
(* only refuse requests; the metadata of sessions in PostgreSQL, which     *)
(* nothing reads back.                                                     *)
(***************************************************************************)
EXTENDS SessionTables, FiniteSets

CONSTANTS
    Roles,       \* roles, "admin" among them
    Logins,      \* login requests in flight at once
    MaxChanges,  \* bound on changes of users
    MaxFaults    \* bound on failures

ASSUME SessionsAssumption ==
    /\ IsFiniteSet(Users) /\ Owner \in Users /\ "admin" \in Roles
    /\ IsFiniteSet(Sids)
    /\ {MaxChanges, MaxFaults} \subseteq Nat

VARIABLES
    invites,  \* users with an invite link that is neither used nor expired
    minted,   \* ids given out
    members,  \* the ids in the users' sets, with their users
    login, changes, faults

vars == <<users, invites, sess, minted, members, login, request, overlapped, usurped, cut,
          changes, faults>>

stores == <<users, invites, sess, minted, members>>
history == <<overlapped, usurped, cut, changes, faults>>

NoUser == [state |-> "none", role |-> "admin", pw |-> 0]
NoLogin == [pc |-> "idle", user |-> Owner, row |-> NoUser, sid |-> {}, stale |-> FALSE]
NoRequest == [pc |-> "idle", kind |-> "role", actor |-> Owner, sid |-> {}, target |-> Owner,
              role |-> "admin", todo |-> {}]

Init ==
    /\ users = [u \in Users |-> IF u = Owner THEN [NoUser EXCEPT !.state = "active"] ELSE NoUser]
    /\ invites = {}
    /\ sess = [s \in Sids |-> NoSession] /\ minted = {} /\ members = {}
    /\ login = [l \in Logins |-> NoLogin]
    /\ request = [q \in Changers |-> NoRequest]
    /\ overlapped = {} /\ usurped = FALSE /\ cut = FALSE /\ changes = 0 /\ faults = 0

exists(u) == users[u].state \in {"invited", "active"}

Fault == faults < MaxFaults /\ faults' = faults + 1

----------------------------------------------------------------------------
(* login and SessionStore.create. *)

(* The password is checked against the row that was read. *)
login_read(l, u) ==
    /\ login[l].pc = "idle" /\ Sids \ minted # {}
    /\ users[u].state = "active"
    /\ login' = [login EXCEPT ![l] = [NoLogin EXCEPT !.pc = "hset", !.user = u, !.row = users[u]]]
    /\ UNCHANGED <<stores, request, history>>

create_hset(l) ==
    /\ login[l].pc = "hset" /\ Sids \ minted # {}
    /\ LET s == CHOOSE x \in Sids \ minted : TRUE
           row == login[l].row
       IN /\ minted' = minted \cup {s}
          /\ sess' = [sess EXCEPT ![s] = [user |-> login[l].user, role |-> row.role, pw |-> row.pw]]
          /\ login' = [login EXCEPT ![l].pc = "sadd", ![l].sid = {s}]
          /\ overlapped' = IF login[l].stale THEN overlapped \cup {s} ELSE overlapped
    /\ UNCHANGED <<users, invites, members, request, usurped, cut, changes, faults>>

create_sadd(l) ==
    /\ login[l].pc = "sadd"
    /\ members' = members \cup {<<login[l].user, s>> : s \in login[l].sid}
    /\ login' = [login EXCEPT ![l] = NoLogin]
    /\ UNCHANGED <<users, invites, sess, minted, request, history>>

logout(s) ==
    /\ Live(s)
    /\ sess' = [sess EXCEPT ![s] = NoSession]
    /\ members' = members \ {<<sess[s].user, s>>}
    /\ UNCHANGED <<users, invites, minted, login, request, history>>

(* Idle expiry is Redis's; the id stays a member of the set. *)
session_expires(s) ==
    /\ Live(s)
    /\ sess' = [sess EXCEPT ![s] = NoSession]
    /\ UNCHANGED <<users, invites, minted, members, login, request, history>>

----------------------------------------------------------------------------
(* Users are invited, accept, and are changed. *)

isAdmin(s) == Live(s) /\ sess[s].role = "admin"

create_user(s, u, role) ==
    /\ isAdmin(s) /\ users[u].state = "none" /\ changes < MaxChanges
    /\ users' = [users EXCEPT ![u] = [state |-> "invited", role |-> role, pw |-> @.pw]]
    /\ invites' = invites \cup {u}
    /\ changes' = changes + 1
    /\ UNCHANGED <<sess, minted, members, login, request, overlapped, usurped, cut, faults>>

(* CONSUME_VERIFICATION and ACTIVATE_INVITED_USER are two statements: the *)
(* link may be used up and the user not activated.                        *)
accept_invite(u) ==
    /\ u \in invites /\ invites' = invites \ {u}
    /\ \/ /\ users' = IF users[u].state = "invited" THEN [users EXCEPT ![u].state = "active"] ELSE users
          /\ UNCHANGED faults
       \/ Fault /\ UNCHANGED users
    /\ UNCHANGED <<sess, minted, members, login, request, overlapped, usurped, cut, changes>>

may_change_mutant(s, kind, u) ==
    IF kind = "password" THEN Live(s) /\ u = sess[s].user ELSE isAdmin(s)

(* Who may make which change to whom: any user changes the own password, an *)
(* admin changes the role of others and deletes others.                     *)
may_change(s, kind, u) ==
    IF kind = "password" THEN Live(s) /\ u = sess[s].user
    ELSE isAdmin(s) /\ u # sess[s].user

(* The dependency require_roles and the reads in front of the update. *)
change_begins(q, s, kind, u, role) ==
    /\ request[q].pc = "idle" /\ changes < MaxChanges
    /\ may_change(s, kind, u)
    /\ exists(u)
    /\ kind = "role" => role # users[u].role
    /\ kind # "role" => role = "admin"
    /\ request' = [request EXCEPT ![q] = [pc |-> "update", kind |-> kind, actor |-> sess[s].user,
                      sid |-> {s}, target |-> u, role |-> role, todo |-> {}]]
    /\ changes' = changes + 1
    /\ UNCHANGED <<stores, login, overlapped, usurped, cut, faults>>

(* UPDATE_USER_ROLE, SOFT_DELETE_USER or UPDATE_USER_PASSWORD.  The session *)
(* that changes its own password goes on under the new one.                 *)
change_update(q) ==
    /\ request[q].pc = "update"
    /\ LET r == request[q]
           u == r.target
       IN \/ /\ r.kind # "password" /\ ~exists(u)
             /\ request' = [request EXCEPT ![q] = NoRequest]
             /\ UNCHANGED <<users, sess, usurped>>
          \/ /\ r.kind # "password" /\ exists(u)
             /\ users' = IF r.kind = "role" THEN [users EXCEPT ![u].role = r.role]
                         ELSE [users EXCEPT ![u].state = "deleted"]
             /\ request' = [request EXCEPT ![q].pc = "members"]
             /\ usurped' = (usurped \/ r.actor \notin admins)
             /\ UNCHANGED sess
          \/ /\ r.kind = "password"
             /\ users' = [users EXCEPT ![u].pw = @ + 1]
             /\ sess' = [s \in Sids |-> IF s \in r.sid /\ Live(s)
                            THEN [sess[s] EXCEPT !.pw = users[u].pw + 1] ELSE sess[s]]
             /\ request' = [request EXCEPT ![q].pc = "members"]
             /\ UNCHANGED usurped
    /\ UNCHANGED <<invites, minted, members, login, overlapped, cut, changes, faults>>

kept(r) == IF r.kind = "password" THEN r.sid ELSE {}

(* revoke_all_for_user: SMEMBERS, and then one session after the other.  A *)
(* login of the user that is not in the set yet is missed.                 *)
revoke_members(q) ==
    /\ request[q].pc = "members"
    /\ LET r == request[q]
           missed == {l \in Logins : login[l].pc # "idle" /\ login[l].user = r.target}
       IN /\ request' = [request EXCEPT ![q].pc = "delete",
                            ![q].todo = {s \in Sids : <<r.target, s>> \in members} \ kept(r)]
          /\ login' = [l \in Logins |-> IF l \in missed THEN [login[l] EXCEPT !.stale = TRUE] ELSE login[l]]
          /\ overlapped' = overlapped \cup UNION {login[l].sid : l \in missed}
    /\ UNCHANGED <<stores, usurped, cut, changes, faults>>

revoke_delete_mutant(q) ==
    /\ request[q].pc = "delete"
    /\ \E s \in request[q].todo :
          /\ sess' = [sess EXCEPT ![s] = NoSession]
          /\ members' = members \ {<<request[q].target, s>>}
          /\ request' = [request EXCEPT ![q] = NoRequest]
    /\ UNCHANGED <<users, invites, minted, login, history>>

revoke_delete(q) ==
    /\ request[q].pc = "delete"
    /\ \/ /\ request[q].todo = {}
          /\ request' = [request EXCEPT ![q] = NoRequest]
          /\ UNCHANGED <<sess, members>>
       \/ \E s \in request[q].todo :
          /\ sess' = [sess EXCEPT ![s] = NoSession]
          /\ members' = members \ {<<request[q].target, s>>}
          /\ request' = [request EXCEPT ![q].todo = @ \ {s}]
    /\ UNCHANGED <<users, invites, minted, login, history>>

(* The process dies or Redis fails in the middle. *)
change_fails(q) ==
    /\ request[q].pc # "idle" /\ Fault
    /\ cut' = (cut \/ request[q].pc # "update")
    /\ request' = [request EXCEPT ![q] = NoRequest]
    /\ UNCHANGED <<stores, login, overlapped, usurped, changes>>

Next ==
    \/ \E l \in Logins : (\E u \in Users : login_read(l, u)) \/ create_hset(l) \/ create_sadd(l)
    \/ \E s \in Sids :
          \/ logout(s) \/ session_expires(s)
          \/ \E u \in Users, role \in Roles :
                \/ create_user(s, u, role)
                \/ \E q \in Changers, kind \in {"role", "delete", "password"} :
                      change_begins(q, s, kind, u, role)
    \/ \E u \in Users : accept_invite(u)
    \/ \E q \in Changers :
          change_update(q) \/ revoke_members(q) \/ revoke_delete(q) \/ change_fails(q)

Spec == Init /\ [][Next]_vars

----------------------------------------------------------------------------
(* Type correctness of users, sessions and requests. *)
TypeOK ==
    /\ users \in [Users -> [state : {"none", "invited", "active", "deleted"}, role : Roles, pw : Nat]]
    /\ invites \subseteq Users /\ minted \subseteq Sids /\ overlapped \subseteq Sids
    /\ members \subseteq Users \X Sids
    /\ sess \in [Sids -> [user : Users, role : Roles \cup {"none"}, pw : Nat]]
    /\ usurped \in BOOLEAN /\ cut \in BOOLEAN
    /\ changes \in 0..MaxChanges /\ faults \in 0..MaxFaults

=============================================================================
