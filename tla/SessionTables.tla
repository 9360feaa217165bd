--------------------------- MODULE SessionTables ---------------------------
(***************************************************************************)
(* The users of a tenant (control.users), their sessions in Redis and the  *)
(* requests that change a user, and what has to be true of them.  Sessions *)
(* has the logins and the changes.                                         *)
(***************************************************************************)
EXTENDS Integers

CONSTANTS
    Users,     \* users the tenant may have
    Owner,     \* the user the provisioning saga created
    Sids,      \* session ids that may be minted
    Changers   \* requests that change a user in flight at once

VARIABLES
    users,       \* the rows of control.users
    sess,        \* [Sids -> sess:{sid}, the hash, or NoSession]
    request,     \* [Changers -> [pc, kind, actor, sid, target, role, todo]]
    overlapped,  \* sessions whose login spans a change of their user and its revocation
    usurped,     \* a change was made by a user who had ceased to be an admin
    cut          \* a revocation was cut off

NoSession == [user |-> Owner, role |-> "none", pw |-> 0]

Live(s) == sess[s] # NoSession

admins == {u \in Users : users[u].state = "active" /\ users[u].role = "admin"}

Stale(s) ==
    LET row == users[sess[s].user]
    IN Live(s) /\ (row.state # "active" \/ row.role # sess[s].role \/ row.pw # sess[s].pw)

----------------------------------------------------------------------------
(* A session outlives a change of its user's role or password, or the user's deletion, *)
(* only while the change is still revoking it, or when its login overlapped the        *)
(* revocation, or when the revocation was cut off (sessions.py revoke_all_for_user).   *)
StaleOnlyByOverlap ==
    \A s \in Sids : Stale(s) =>
        \/ s \in overlapped \/ cut
        \/ \E q \in Changers :
              /\ request[q].target = sess[s].user
              /\ request[q].pc = "members" \/ s \in request[q].todo

(* The tenant keeps an active admin as long as every change is made by one who still   *)
(* is one when the change commits (users.py patch_user, delete_user): an admin cannot  *)
(* remove the own rights, and two admins can only remove each other with stale ones.   *)
AdminRemains == admins = {} => usurped

============================================================================
