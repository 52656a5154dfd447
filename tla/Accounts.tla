------------------------------- MODULE Accounts --------------------------------
(* User accounts and their sessions: logins behind the rate limit, logouts,    *)
(* administrators who create accounts and change role, activity and password   *)
(* of others or themselves.  Each request has a database session of its own    *)
(* and works on the rows it read; a step is one statement that other sessions  *)
(* can see or wait for, or one commit.                                         *)
EXTENDS LoginRateLimit

CONSTANTS
    Edits,      \* PATCH requests of administrators
    Creates,    \* POST requests of administrators
    NewName,    \* the name each of these gives to a new account
    Changes,    \* what a PATCH may ask for
    Admins,     \* the administrators there are at the start
    Earlier,    \* logins of theirs whose sessions are open by then
    NoAccount,  \* no row of that name
    NoRequest,  \* nothing in flight
    Initial,    \* the password an account is created with
    MaxCrashes  \* bound: requests whose process dies

Requests == Edits \cup Creates

\* A password goes by the edit that set it.
Account == [role : {"admin", "user"}, active : {"yes", "no"},
            password : Edits \cup {Initial}]

ASSUME AccountsAssumption ==
    /\ Edits \cap Creates = {}
    /\ Initial \notin Edits
    /\ NoAccount \notin Account
    /\ NewName \in [Creates -> Users]
    /\ Changes \subseteq [role : {"admin", "user", "keep"},
                          active : {"yes", "no", "keep"}, reset : BOOLEAN]
    /\ Admins \subseteq Users /\ Admins # {}
    /\ Earlier \subseteq {l \in Logins : NameOf[l] \in Admins}
    /\ IsFiniteSet(Users)
    /\ MaxCrashes \in Nat

VARIABLES
    account,  \* app_users by name
    session,  \* auth_sessions by the login that opened it: none, open, or closed
              \* (revoked_at set, or past expires_at)
    pc,       \* where each edit or creation stands
    request,  \* of each edit in flight: the session it came with, its target,
              \* the change it asks for, its copy of the target's row, and the
              \* sessions it has revoked, and locks until it commits
    crashes,
    seen,     \* history: the account as each login verified it
    beside,   \* history: logins that overlapped a change of their account
    late,     \* history: edits in flight whose copy or count is out of date
    raced     \* history: such an edit was committed

history == <<seen, beside, late, raced>>
vars == <<login, limit, account, session, pc, request, crashes, history>>

Request == [by : Logins, target : Users, change : Changes,
            copy : Account \cup {NoAccount}, held : SUBSET Logins]

TypeOK ==
    /\ LimitTypeOK
    /\ account \in [Users -> Account \cup {NoAccount}]
    /\ session \in [Logins -> {"none", "open", "closed"}]
    /\ \A l \in Logins : session[l] # "none" => login[l] = "done"
    /\ pc \in [Requests -> {"start", "authorised", "counting", "cleared",
                            "revoked", "checked", "done"}]
    /\ request \in [Edits -> Request \cup {NoRequest}]
    /\ \A e \in Edits : pc[e] \notin {"start", "done"} => request[e] \in Request
    /\ crashes \in 0..MaxCrashes
    /\ seen \in [Logins -> Account \cup {NoAccount}]
    /\ beside \subseteq Logins
    /\ late \subseteq Edits
    /\ raced \in BOOLEAN

Fresh(role) == [role |-> role, active |-> "yes", password |-> Initial]

Init ==
    /\ LimitInit(Earlier)
    /\ account = [u \in Users |-> IF u \in Admins THEN Fresh("admin") ELSE NoAccount]
    /\ session = [l \in Logins |-> IF l \in Earlier THEN "open" ELSE "none"]
    /\ pc = [r \in Requests |-> "start"]
    /\ request = [e \in Edits |-> NoRequest]
    /\ crashes = 0
    /\ seen = [l \in Logins |-> IF l \in Earlier THEN Fresh("admin") ELSE NoAccount]
    /\ beside = {}
    /\ late = {}
    /\ raced = FALSE

Active(u) == account[u] # NoAccount /\ account[u].active = "yes"
IsAdmin(u) == account[u].role = "admin"
ActiveAdmins == {u \in Users : Active(u) /\ IsAdmin(u)}

OpenSessions(u) == {l \in Logins : session[l] = "open" /\ NameOf[l] = u}

GoTo(r, step) == pc' = [pc EXCEPT ![r] = step]

InFlight(r) == pc[r] \notin {"start", "done"}

\* An edit has answered, failed or died; whatever it did not commit is gone.
Leave(e) ==
    /\ GoTo(e, "done")
    /\ request' = [request EXCEPT ![e] = NoRequest]
    /\ late' = late \ {e}

-------------------------------------------------------------------------------
(* Login and logout.                                                           *)

CountLogin(l) ==
    /\ Count(l)
    /\ UNCHANGED <<account, session, pc, request, crashes, history>>

ExpireCounter(l) ==
    /\ SetExpiry(l)
    /\ UNCHANGED <<account, session, pc, request, crashes, history>>

\* authenticate_user reads the account: it is there and active, and the password
\* is the right one.
Verify(l) ==
    /\ login[l] = "admitted"
    /\ Active(NameOf[l])
    /\ LoginGoesTo(l, "verified")
    /\ seen' = [seen EXCEPT ![l] = account[NameOf[l]]]
    /\ UNCHANGED <<limit, account, session, pc, request, crashes, beside, late, raced>>

\* A wrong captcha, no such account, a disabled one, or a wrong password.
Refuse(l) ==
    /\ login[l] = "admitted"
    /\ LoginGoesTo(l, "done")
    /\ UNCHANGED <<limit, account, session, pc, request, crashes, history>>

\* One commit inserts the session, whatever has become of the account.
OpenSession(l) ==
    /\ login[l] = "verified"
    /\ LoginGoesTo(l, "done")
    /\ session' = [session EXCEPT ![l] = "open"]
    /\ beside' = IF \E e \in Edits :
                      pc[e] = "revoked" /\ request[e].target = NameOf[l]
                   THEN beside \cup {l} ELSE beside
    /\ UNCHANGED <<limit, account, pc, request, crashes, seen, late, raced>>

Locked(l, others) == \E e \in others : pc[e] = "revoked" /\ l \in request[e].held

\* A closed session needs no history.
Ended(gone) ==
    /\ session' = [l \in Logins |-> IF l \in gone THEN "closed" ELSE session[l]]
    /\ seen' = [l \in Logins |-> IF l \in gone THEN NoAccount ELSE seen[l]]

\* revoke_session of a logout, or the end of its time to live.
Close(l) ==
    /\ session[l] = "open"
    /\ Ended({l})
    /\ beside' = beside \ {l}
    /\ UNCHANGED <<login, limit, account, pc, request, crashes, late, raced>>

-------------------------------------------------------------------------------
(* PATCH /auth/users/{id}: update_user.                                        *)

\* validate_session and require_admin.  The actor's own row stays in the session:
\* an edit of oneself works on it.
Authorise(e) ==
    /\ pc[e] = "start"
    /\ \E l \in Logins, u \in Users, c \in Changes :
          /\ session[l] = "open"
          /\ NameOf[l] \in ActiveAdmins
          /\ request' = [request EXCEPT ![e] =
                [by |-> l, target |-> u, change |-> c, held |-> {},
                 copy |-> IF u = NameOf[l] THEN account[u] ELSE NoAccount]]
    /\ GoTo(e, "authorised")
    /\ UNCHANGED <<login, limit, account, session, crashes, history>>

\* Whether the change takes away an administrator, as far as the copy knows.
Removing(copy, change) ==
    copy.role = "admin" /\ (change.role = "user" \/ change.active = "no")

ReadTarget(e) ==
    LET r == request[e]
        copy == IF r.copy # NoAccount THEN r.copy ELSE account[r.target]
    IN /\ pc[e] = "authorised"
       /\ IF copy = NoAccount
            THEN Leave(e)
            ELSE /\ request' = [request EXCEPT ![e].copy = copy]
                 /\ GoTo(e, IF Removing(copy, r.change) THEN "counting" ELSE "cleared")
                 /\ UNCHANGED late
       /\ UNCHANGED <<login, limit, account, session, crashes, seen, beside, raced>>

\* Mutation: disabled administrators count.
CountedAll == {u \in Users : account[u] # NoAccount /\ IsAdmin(u)}

Counted == ActiveAdmins

CountAdmins(e) ==
    /\ pc[e] = "counting"
    /\ IF Cardinality(Counted) <= 1
         THEN Leave(e)
         ELSE GoTo(e, "cleared") /\ UNCHANGED <<request, late>>
    /\ UNCHANGED <<login, limit, account, session, crashes, seen, beside, raced>>

\* Mutation: a change of role revokes nothing.
RevokedUnlessRole(change, u) ==
    IF change.active # "keep" \/ change.reset THEN OpenSessions(u) ELSE {}

\* The UPDATE of the target's unrevoked sessions.
Revoked(change, u) ==
    IF change.role # "keep" \/ change.active # "keep" \/ change.reset
      THEN OpenSessions(u) ELSE {}

\* Sent at once, ahead of the changed account, which waits for the commit
\* (autoflush=False); it waits for the locks of another edit of the account.
RevokeSessions(e) ==
    LET r == request[e] IN
    /\ pc[e] = "cleared"
    /\ ~\E l \in OpenSessions(r.target) : Locked(l, Edits \ {e})
    /\ request' = [request EXCEPT ![e].held = Revoked(r.change, r.target)]
    /\ GoTo(e, "revoked")
    /\ UNCHANGED <<login, limit, account, session, crashes, history>>

\* Mutation: a field left out is written as it came.
TakenAsAsked(new, old) == new

Taken(new, old) == IF new = "keep" THEN old ELSE new

Changed(e) ==
    LET copy == request[e].copy
        change == request[e].change
    IN [role |-> Taken(change.role, copy.role),
        active |-> Taken(change.active, copy.active),
        password |-> IF change.reset THEN e ELSE copy.password]

\* The UPDATE sets the attributes that differ from the copy.
Written(now, copy, new) ==
    [field \in DOMAIN now |->
        IF new[field] # copy[field] THEN new[field] ELSE now[field]]

\* Bookkeeping: an edit of the same account, or one that has counted when an
\* administrator goes, is out of date.
Overtaken(e, after) ==
    {o \in Edits \ {e} :
        /\ InFlight(o)
        /\ \/ request[o].target = request[e].target
           \/ /\ pc[o] \in {"cleared", "revoked"}
              /\ request[e].target \in ActiveAdmins
              /\ after.role # "admin" \/ after.active # "yes"}

\* The flush at the commit also sets last_seen_at of the actor's session, whose
\* row another edit may have locked.
CommitEdit(e) ==
    LET r == request[e]
        after == Written(account[r.target], r.copy, Changed(e))
    IN /\ pc[e] = "revoked"
       /\ ~Locked(r.by, Edits \ {e})
       /\ account' = [account EXCEPT ![r.target] = after]
       /\ Ended(r.held)
       /\ GoTo(e, "done")
       /\ request' = [request EXCEPT ![e] = NoRequest]
       /\ beside' = (beside \ r.held) \cup
                      {l \in Logins : login[l] = "verified" /\ NameOf[l] = r.target}
       /\ late' = (late \ {e}) \cup Overtaken(e, after)
       /\ raced' = (raced \/ e \in late)
       /\ UNCHANGED <<login, limit, crashes>>

WaitsFor(e, o) == pc[e] = "revoked" /\ e # o /\ Locked(request[e].by, {o})

\* Edits that wait for one another: the database fails one of them.
BreakDeadlock(e) ==
    /\ \E ring \in SUBSET Edits :
          e \in ring /\ \A x \in ring : \E y \in ring : WaitsFor(x, y)
    /\ Leave(e)
    /\ UNCHANGED <<login, limit, account, session, crashes, seen, beside, raced>>

-------------------------------------------------------------------------------
(* POST /auth/users: create_user.                                              *)

CheckName(c) ==
    /\ c \in Creates /\ pc[c] = "start"
    /\ \E l \in Logins : session[l] = "open" /\ NameOf[l] \in ActiveAdmins
    /\ GoTo(c, IF account[NewName[c]] = NoAccount THEN "checked" ELSE "done")
    /\ UNCHANGED <<login, limit, account, session, request, crashes, history>>

\* The name is unique: another creation may have come first.
InsertUser(c) ==
    /\ pc[c] = "checked"
    /\ GoTo(c, "done")
    /\ IF account[NewName[c]] = NoAccount
         THEN \E role \in {"admin", "user"} :
                account' = [account EXCEPT ![NewName[c]] = Fresh(role)]
         ELSE UNCHANGED account
    /\ UNCHANGED <<login, limit, session, request, crashes, history>>

-------------------------------------------------------------------------------
RequestCrash ==
    /\ crashes < MaxCrashes
    /\ crashes' = crashes + 1
    /\ \/ \E l \in Logins :
            LoseLogin(l) /\ UNCHANGED <<pc, request, late>>
       \/ \E e \in Edits :
            InFlight(e) /\ Leave(e) /\ UNCHANGED <<login, limit>>
    /\ UNCHANGED <<account, session, seen, beside, raced>>

LoginStep(l) ==
    CountLogin(l) \/ ExpireCounter(l) \/ Verify(l) \/ Refuse(l) \/ OpenSession(l)

EditStep(e) ==
    \/ Authorise(e) \/ ReadTarget(e) \/ CountAdmins(e) \/ RevokeSessions(e)
    \/ CommitEdit(e) \/ BreakDeadlock(e)

CounterEnds(u) ==
    /\ WindowEnds(u)
    /\ UNCHANGED <<account, session, pc, request, crashes, history>>

Next ==
    \/ \E l \in Logins : LoginStep(l) \/ Close(l)
    \/ \E e \in Edits : EditStep(e)
    \/ \E c \in Creates : CheckName(c) \/ InsertUser(c)
    \/ \E u \in Users : CounterEnds(u)
    \/ RequestCrash

Spec == Init /\ [][Next]_vars

\* Redis keeps time, and a login that counted 1 goes on to its next call.
FairSpec ==
    /\ Spec
    /\ \A u \in Users : WF_vars(CounterEnds(u))
    /\ \A l \in Logins : WF_vars(ExpireCounter(l))

-------------------------------------------------------------------------------
(* Properties.                                                                 *)

\* "Sessions of an account are revoked when it is disabled, its role changes or
\* its password is reset": every open session was opened with the role, activity
\* and password its account has, unless the login overlapped the change.
SessionsCurrent ==
    \A l \in Logins :
        session[l] = "open" /\ l \notin beside => seen[l] = account[NameOf[l]]

\* "The last effective administrator cannot be disabled or demoted": one remains
\* whatever is edited, unless an edit was committed that had read the accounts
\* before another edit of the same account, or another removal, was.
AdminRemains == raced \/ ActiveAdmins # {}

\* Nobody is locked out for ever, unless a process died.
LockoutEnds ==
    \A u \in Users : count[u] > MaxAttempts ~> count[u] = 0 \/ crashes > 0
===============================================================================
