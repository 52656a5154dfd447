---------------------------- MODULE AccountsProofs -----------------------------
(* Theorems about Accounts and the rate limit before it, for any users, logins *)
(* and edits.                                                                  *)
EXTENDS Accounts, FiniteSetTheorems, TLAPS

-------------------------------------------------------------------------------
(* The rate limit.  A counter counts at least the logins it let through.       *)

CountsAdmitted ==
    \A u \in Users :
        /\ IsFiniteSet(admitted[u])
        /\ Cardinality(admitted[u]) <= count[u]
        /\ Cardinality(admitted[u]) <= MaxAttempts

\* Who counted 1 is alone with the counter until it gets its time to live.
OneStarts ==
    \A l \in Logins :
        login[l] = "counting" =>
            /\ count[NameOf[l]] > 0
            /\ NameOf[l] \notin expiring
            /\ \A k \in Logins :
                  login[k] = "counting" /\ NameOf[k] = NameOf[l] => k = l

LimitInv == LimitTypeOK /\ CountsAdmitted /\ OneStarts

LEMMA LimitInitInv ==
    ASSUME NEW earlier, LimitInit(earlier) PROVE LimitInv
  <1>1. LimitTypeOK /\ OneStarts
    BY DEF LimitInit, LimitTypeOK, OneStarts
  <1>2. CountsAdmitted
    BY RateLimitAssumption, FS_EmptySet DEF LimitInit, CountsAdmitted
  <1> QED
    BY <1>1, <1>2 DEF LimitInv

LEMMA CountInv ==
    ASSUME LimitInv, NEW l \in Logins, Count(l) PROVE LimitInv'
  <1> DEFINE u == NameOf[l]
             n == count[u] + 1
  <1>1. u \in Users /\ n \in Nat /\ MaxAttempts \in Nat
    BY RateLimitAssumption DEF LimitInv, LimitTypeOK
  <1>2. LimitTypeOK'
    <2>1. count' \in [Users -> Nat]
      BY <1>1 DEF Count, LimitInv, LimitTypeOK
    <2>2. expiring' \subseteq {v \in Users : count'[v] > 0}
      BY <1>1 DEF Count, LimitInv, LimitTypeOK
    <2>3. admitted' \in [Users -> SUBSET Logins]
      BY <1>1 DEF Count, LimitInv, LimitTypeOK
    <2>4. login' \in [Logins -> {"start", "counting", "admitted", "verified", "done"}]
      BY <1>1 DEF Count, LimitInv, LimitTypeOK, LoginGoesTo
    <2> QED
      BY <2>1, <2>2, <2>3, <2>4 DEF LimitTypeOK
  <1>3. CountsAdmitted'
    <2> SUFFICES ASSUME NEW v \in Users
                 PROVE  /\ IsFiniteSet(admitted'[v])
                        /\ Cardinality(admitted'[v]) <= count'[v]
                        /\ Cardinality(admitted'[v]) <= MaxAttempts
      BY DEF CountsAdmitted
    <2>1. /\ IsFiniteSet(admitted[v])
          /\ Cardinality(admitted[v]) <= count[v]
          /\ Cardinality(admitted[v]) <= MaxAttempts
          /\ Cardinality(admitted[v]) \in Nat
          /\ count[v] \in Nat
      BY FS_CardinalityType DEF LimitInv, LimitTypeOK, CountsAdmitted
    <2>2. admitted'[v] = admitted[v] \/ (v = u /\ n <= MaxAttempts /\ admitted'[v] = admitted[v] \cup {l})
      BY <1>1 DEF Count, Within, LimitInv, LimitTypeOK
    <2>3. count'[v] \in Nat /\ count'[v] >= count[v] /\ (v = u => count'[v] = count[v] + 1)
      BY <1>1 DEF Count, LimitInv, LimitTypeOK
    <2>4. CASE admitted'[v] = admitted[v]
      BY <2>1, <2>3, <2>4
    <2>5. CASE v = u /\ n <= MaxAttempts /\ admitted'[v] = admitted[v] \cup {l}
      <3>1. IsFiniteSet(admitted'[v]) /\ Cardinality(admitted'[v]) <= Cardinality(admitted[v]) + 1
        <4>1. /\ IsFiniteSet(admitted[v] \cup {l})
              /\ Cardinality(admitted[v] \cup {l}) =
                   IF l \in admitted[v] THEN Cardinality(admitted[v])
                   ELSE Cardinality(admitted[v]) + 1
          BY <2>1, FS_AddElement
        <4> QED
          BY <2>1, <2>5, <4>1
      <3>2. Cardinality(admitted'[v]) \in Nat
        BY <3>1, FS_CardinalityType
      <3> QED
        BY <1>1, <2>1, <2>3, <2>5, <3>1, <3>2
    <2> QED
      BY <2>2, <2>4, <2>5
  <1>4. OneStarts'
    <2>1. \A k \in Logins : login'[k] = "counting" =>
              login[k] = "counting" \/ (k = l /\ n = 1)
      BY <1>1 DEF Count, LimitInv, LimitTypeOK, LoginGoesTo, Within
    <2>2. /\ \A v \in Users : count'[v] >= count[v] /\ count'[v] \in Nat
          /\ count'[u] > 0
          /\ expiring' = expiring
      BY <1>1 DEF Count, LimitInv, LimitTypeOK
    <2>3. n = 1 => u \notin expiring /\ count[u] = 0
      BY <1>1 DEF LimitInv, LimitTypeOK
    <2>4. n = 1 => \A k \in Logins : login[k] = "counting" => NameOf[k] # u
      BY <2>3 DEF LimitInv, OneStarts
    <2>5. \A k \in Logins : NameOf[k] \in Users /\ count[NameOf[k]] \in Nat
      BY RateLimitAssumption DEF LimitInv, LimitTypeOK
    <2> QED
      BY <1>1, <2>1, <2>2, <2>3, <2>4, <2>5 DEF LimitInv, OneStarts
  <1> QED
    BY <1>2, <1>3, <1>4 DEF LimitInv

LEMMA WindowEndsInv ==
    ASSUME LimitInv, NEW u \in Users, WindowEnds(u) PROVE LimitInv'
  <1>1. LimitTypeOK'
    BY DEF WindowEnds, LimitInv, LimitTypeOK
  <1>2. \A v \in Users :
            \/ admitted'[v] = admitted[v] /\ count'[v] = count[v]
            \/ admitted'[v] = {} /\ count'[v] = 0
    BY DEF WindowEnds, LimitInv, LimitTypeOK
  <1>3. CountsAdmitted'
    <2>1. 0 <= MaxAttempts /\ Cardinality({}) <= 0 /\ Cardinality({}) <= MaxAttempts
      BY RateLimitAssumption, FS_EmptySet
    <2> QED
      BY <1>2, <2>1, FS_EmptySet DEF LimitInv, CountsAdmitted
  <1>4. OneStarts'
    BY RateLimitAssumption DEF WindowEnds, LimitInv, LimitTypeOK, OneStarts
  <1> QED
    BY <1>1, <1>3, <1>4 DEF LimitInv

\* A step of a login that leaves the counters alone.
LEMMA LoginGoesInv ==
    ASSUME LimitInv, NEW l \in Logins, UNCHANGED limit,
           NEW step \in {"admitted", "verified", "done"}, LoginGoesTo(l, step)
    PROVE  LimitInv'
  <1>1. UNCHANGED <<count, expiring, admitted>>
    BY DEF limit
  <1>2. LimitTypeOK' /\ OneStarts'
    BY <1>1 DEF LimitInv, LimitTypeOK, OneStarts, LoginGoesTo
  <1>3. CountsAdmitted'
    BY <1>1 DEF LimitInv, CountsAdmitted
  <1> QED
    BY <1>2, <1>3 DEF LimitInv

LEMMA SetExpiryInv ==
    ASSUME LimitInv, NEW l \in Logins, SetExpiry(l) PROVE LimitInv'
  <1>1. NameOf[l] \in Users /\ count[NameOf[l]] > 0
    BY RateLimitAssumption DEF SetExpiry, LimitInv, OneStarts
  <1>2. LimitTypeOK'
    BY <1>1 DEF SetExpiry, LimitInv, LimitTypeOK, LoginGoesTo
  <1>3. OneStarts'
    BY <1>1 DEF SetExpiry, LimitInv, LimitTypeOK, OneStarts, LoginGoesTo
  <1>4. CountsAdmitted'
    BY DEF SetExpiry, LimitInv, CountsAdmitted
  <1> QED
    BY <1>2, <1>3, <1>4 DEF LimitInv

-------------------------------------------------------------------------------
(* The inductive invariant.                                                    *)

\* Accounts stay, so a copy is one of an account there is; and what an edit holds
\* are sessions.
CopiesOfAccounts ==
    \A e \in Edits :
        /\ InFlight(e) /\ request[e].copy # NoAccount
              => account[request[e].target] # NoAccount
        /\ pc[e] \in {"counting", "cleared", "revoked"} => request[e].copy # NoAccount
        /\ pc[e] = "revoked" => \A l \in request[e].held : session[l] # "none"

Asking(change) == change.role # "keep" \/ change.active # "keep" \/ change.reset

\* Who is about to open a session has verified the account as it is, or overlaps
\* a change; and an edit holds every session it must close that does not.
SessionsTraced ==
    /\ \A l \in Logins :
          session[l] = "open" \/ login[l] = "verified" => seen[l] # NoAccount
    /\ \A l \in Logins :
          login[l] = "verified" /\ l \notin beside => seen[l] = account[NameOf[l]]
    /\ \A e \in Edits : pc[e] = "revoked" /\ Asking(request[e].change) =>
          \A l \in Logins : session[l] = "open" /\ NameOf[l] = request[e].target =>
              l \in request[e].held \/ l \in beside

\* Who is not overtaken has an exact copy, and one that removes an administrator
\* leaves another.
AdminsCounted ==
    \A e \in Edits \ late :
        /\ InFlight(e) /\ request[e].copy # NoAccount
              => request[e].copy = account[request[e].target]
        /\ pc[e] \in {"cleared", "revoked"} =>
              (Removing(request[e].copy, request[e].change) =>
                  \E u \in ActiveAdmins : u # request[e].target)

Typed == TypeOK /\ LimitInv /\ CopiesOfAccounts

-------------------------------------------------------------------------------
(* What an edit writes.                                                        *)

LEMMA FreshIsAccount == \A role \in {"admin", "user"} : Fresh(role) \in Account
  BY DEF Fresh, Account

LEMMA WrittenFields ==
    ASSUME NEW now \in Account, NEW copy \in Account, NEW new \in Account
    PROVE  /\ Written(now, copy, new) \in Account
           /\ Written(now, copy, copy) = now
           /\ Written(copy, copy, new) = new
  <1> DEFINE Fields == {"role", "active", "password"}
  <1>1. \A a \in Account : /\ DOMAIN a = Fields
                           /\ a.role = a["role"] /\ a.role \in {"admin", "user"}
                           /\ a.active = a["active"] /\ a.active \in {"yes", "no"}
                           /\ a.password = a["password"]
                           /\ a.password \in Edits \cup {Initial}
    BY DEF Account
  <1>2. \A a, b \in Account :
            a.role = b.role /\ a.active = b.active /\ a.password = b.password => a = b
    BY DEF Account
  <1>3. ASSUME NEW a \in Account, NEW b \in Account, NEW c \in Account
        PROVE  Written(a, b, c) = [role |-> IF c.role # b.role THEN c.role ELSE a.role,
                                   active |-> IF c.active # b.active THEN c.active ELSE a.active,
                                   password |-> IF c.password # b.password THEN c.password
                                                                           ELSE a.password]
    <2>1. Written(a, b, c) = [field \in Fields |->
                                IF c[field] # b[field] THEN c[field] ELSE a[field]]
      BY <1>1 DEF Written
    <2> QED
      BY <1>1, <2>1
  <1> HIDE DEF Fields
  <1>4. Written(now, copy, new) \in Account
    <2> DEFINE w == Written(now, copy, new)
    <2>1. w = [role |-> IF new.role # copy.role THEN new.role ELSE now.role,
               active |-> IF new.active # copy.active THEN new.active ELSE now.active,
               password |-> IF new.password # copy.password THEN new.password
                                                            ELSE now.password]
      BY <1>3
    <2>2. /\ (IF new.role # copy.role THEN new.role ELSE now.role) \in {"admin", "user"}
          /\ (IF new.active # copy.active THEN new.active ELSE now.active) \in {"yes", "no"}
          /\ (IF new.password # copy.password THEN new.password ELSE now.password)
                \in Edits \cup {Initial}
      BY <1>1
    <2> HIDE DEF w
    <2>3. w \in Account
      BY <2>1, <2>2 DEF Account
    <2> QED
      BY <2>3 DEF w
  <1>5. Written(now, copy, copy) = now
    <2>1. Written(now, copy, copy) =
              [role |-> now.role, active |-> now.active, password |-> now.password]
      BY <1>3
    <2> QED
      BY <2>1 DEF Account
  <1>6. Written(copy, copy, new) = new
    <2>1. Written(copy, copy, new) =
              [role |-> IF new.role # copy.role THEN new.role ELSE copy.role,
               active |-> IF new.active # copy.active THEN new.active ELSE copy.active,
               password |-> IF new.password # copy.password THEN new.password
                                                            ELSE copy.password]
      BY <1>3
    <2>2. /\ (IF new.role # copy.role THEN new.role ELSE copy.role) = new.role
          /\ (IF new.active # copy.active THEN new.active ELSE copy.active) = new.active
          /\ (IF new.password # copy.password THEN new.password ELSE copy.password)
                = new.password
      OBVIOUS
    <2>3. Written(copy, copy, new) =
              [role |-> new.role, active |-> new.active, password |-> new.password]
      BY <2>1, <2>2
    <2> QED
      BY <2>3 DEF Account
  <1> QED
    BY <1>4, <1>5, <1>6

-------------------------------------------------------------------------------
(* Kinds, and the rate limit.                                                  *)

LEMMA InitTyped == ASSUME Init PROVE Typed
  <1>1. LimitInv
    BY LimitInitInv DEF Init
  <1>2. TypeOK
    <2>1. account \in [Users -> Account \cup {NoAccount}]
      BY FreshIsAccount DEF Init
    <2>2. seen \in [Logins -> Account \cup {NoAccount}]
      BY FreshIsAccount DEF Init
    <2>3. \A l \in Logins : session[l] # "none" => login[l] = "done"
      BY DEF Init, LimitInit
    <2>4. session \in [Logins -> {"none", "open", "closed"}]
      BY DEF Init
    <2>5. pc \in [Requests -> {"start", "authorised", "counting", "cleared",
                               "revoked", "checked", "done"}]
      BY DEF Init
    <2>6. \A e \in Edits : pc[e] = "start"
      BY DEF Init, Requests
    <2>7. request \in [Edits -> Request \cup {NoRequest}]
      BY DEF Init
    <2>8. crashes \in 0..MaxCrashes
      BY AccountsAssumption DEF Init
    <2>9. beside \subseteq Logins /\ late \subseteq Edits /\ raced \in BOOLEAN
      BY DEF Init
    <2> QED
      BY <1>1, <2>1, <2>2, <2>3, <2>4, <2>5, <2>6, <2>7, <2>8, <2>9 DEF TypeOK, LimitInv
  <1>3. CopiesOfAccounts
    BY DEF Init, Requests, CopiesOfAccounts, InFlight
  <1> QED
    BY <1>1, <1>2, <1>3 DEF Typed

LEMMA LimitStays == ASSUME LimitInv, UNCHANGED <<login, limit>> PROVE LimitInv'
  BY DEF LimitInv, LimitTypeOK, CountsAdmitted, OneStarts, limit

\* A step of a login that the accounts do not notice.
LEMMA LoginTyped ==
    ASSUME Typed, LimitInv',
           UNCHANGED <<account, session, pc, request, crashes, beside, late, raced>>,
           seen' \in [Logins -> Account \cup {NoAccount}],
           \A l \in Logins : login[l] = "done" => login'[l] = "done"
    PROVE  Typed'
  <1>1. TypeOK'
    BY DEF Typed, TypeOK, LimitInv
  <1>2. CopiesOfAccounts'
    BY DEF Typed, CopiesOfAccounts, InFlight
  <1> QED
    BY <1>1, <1>2 DEF Typed

\* A step of an edit, up to its commit: its program counter and request change.
LEMMA EditTyped ==
    ASSUME Typed, UNCHANGED <<login, limit, account, session, seen, beside, raced>>,
           NEW e \in Edits,
           NEW step \in {"start", "authorised", "counting", "cleared", "revoked", "done"},
           GoTo(e, step),
           NEW r \in Request \cup {NoRequest}, request' = [request EXCEPT ![e] = r],
           step \notin {"start", "done"} =>
               /\ r \in Request
               /\ r.copy # NoAccount => account[r.target] # NoAccount
               /\ step \in {"counting", "cleared", "revoked"} => r.copy # NoAccount
               /\ step = "revoked" => \A l \in r.held : session[l] # "none",
           crashes' \in 0..MaxCrashes, late' \subseteq Edits
    PROVE  Typed'
  <1>1. LimitInv'
    BY LimitStays DEF Typed
  <1>2. \A f \in Edits : /\ pc'[f] = IF f = e THEN step ELSE pc[f]
                         /\ request'[f] = IF f = e THEN r ELSE request[f]
    BY DEF Typed, TypeOK, GoTo, Requests
  <1>3. TypeOK'
    <2>1. pc' \in [Requests -> {"start", "authorised", "counting", "cleared",
                                "revoked", "checked", "done"}]
      BY DEF Typed, TypeOK, GoTo
    <2>2. request' \in [Edits -> Request \cup {NoRequest}]
      BY DEF Typed, TypeOK
    <2>3. \A f \in Edits : pc'[f] \notin {"start", "done"} => request'[f] \in Request
      BY <1>2 DEF Typed, TypeOK
    <2> QED
      BY <1>1, <2>1, <2>2, <2>3 DEF Typed, TypeOK, LimitInv
  <1>4. CopiesOfAccounts'
    BY <1>2 DEF Typed, CopiesOfAccounts, InFlight
  <1> QED
    BY <1>1, <1>3, <1>4 DEF Typed

LEMMA LeaveTyped ==
    ASSUME Typed, UNCHANGED <<login, limit, account, session, seen, beside, raced>>,
           NEW e \in Edits, Leave(e), crashes' \in 0..MaxCrashes
    PROVE  Typed'
  <1>1. GoTo(e, "done") /\ request' = [request EXCEPT ![e] = NoRequest]
    BY DEF Leave
  <1>2. late' \subseteq Edits
    BY DEF Leave, Typed, TypeOK
  <1> QED
    BY <1>1, <1>2, EditTyped

\* The commit of an edit writes an account.
LEMMA CommitWrites ==
    ASSUME Typed, NEW e \in Edits, pc[e] = "revoked"
    PROVE  /\ request[e] \in Request /\ request[e].copy \in Account
           /\ request[e].target \in Users
           /\ account[request[e].target] \in Account
           /\ Changed(e) \in Account
           /\ Written(account[request[e].target], request[e].copy, Changed(e)) \in Account
  <1> DEFINE r == request[e]
  <1>1. r \in Request /\ r.copy # NoAccount /\ account[r.target] # NoAccount
    BY DEF Typed, TypeOK, CopiesOfAccounts, InFlight
  <1>2. r.copy \in Account /\ r.target \in Users /\ r.change \in Changes
    BY <1>1 DEF Request
  <1>3. account[r.target] \in Account
    BY <1>1, <1>2 DEF Typed, TypeOK
  <1>4. Changed(e) \in Account
    <2> DEFINE role == Taken(r.change.role, r.copy.role)
               active == Taken(r.change.active, r.copy.active)
               password == IF r.change.reset THEN e ELSE r.copy.password
    <2>1. /\ r.change.role \in {"admin", "user", "keep"}
          /\ r.change.active \in {"yes", "no", "keep"}
      BY <1>2, AccountsAssumption
    <2>2. /\ r.copy.role \in {"admin", "user"} /\ r.copy.active \in {"yes", "no"}
          /\ r.copy.password \in Edits \cup {Initial}
      BY <1>2 DEF Account
    <2>3. role \in {"admin", "user"} /\ active \in {"yes", "no"}
      BY <2>1, <2>2 DEF Taken
    <2>4. password \in Edits \cup {Initial}
      BY <2>2
    <2>5. Changed(e) = [role |-> role, active |-> active, password |-> password]
      BY DEF Changed
    <2> HIDE DEF role, active, password
    <2> QED
      BY <2>3, <2>4, <2>5 DEF Account
  <1> QED
    BY <1>1, <1>2, <1>3, <1>4, WrittenFields

LEMMA EndedTyped ==
    ASSUME Typed, NEW gone, Ended(gone)
    PROVE  /\ session' \in [Logins -> {"none", "open", "closed"}]
           /\ seen' \in [Logins -> Account \cup {NoAccount}]
           /\ \A l \in Logins : session'[l] = IF l \in gone THEN "closed" ELSE session[l]
           /\ \A l \in Logins : seen'[l] = IF l \in gone THEN NoAccount ELSE seen[l]
  BY DEF Typed, TypeOK, Ended

LEMMA LoginStepTyped ==
    ASSUME Typed, NEW l \in Logins, LoginStep(l) PROVE Typed'
  <1>1. CASE CountLogin(l)
    <2>1. LimitInv'
      BY <1>1, CountInv DEF CountLogin, Typed
    <2>2. \A k \in Logins : login[k] = "done" => login'[k] = "done"
      BY <1>1 DEF CountLogin, Count, LoginGoesTo, Typed, LimitInv, LimitTypeOK
    <2> QED
      BY <1>1, <2>1, <2>2, LoginTyped DEF CountLogin, history, Typed, TypeOK
  <1>2. CASE ExpireCounter(l)
    <2>1. LimitInv'
      BY <1>2, SetExpiryInv DEF ExpireCounter, Typed
    <2>2. \A k \in Logins : login[k] = "done" => login'[k] = "done"
      BY <1>2 DEF ExpireCounter, SetExpiry, LoginGoesTo, Typed, LimitInv, LimitTypeOK
    <2> QED
      BY <1>2, <2>1, <2>2, LoginTyped DEF ExpireCounter, history, Typed, TypeOK
  <1>3. CASE Verify(l)
    <2>1. LimitInv'
      BY <1>3, LoginGoesInv DEF Verify, Typed
    <2>2. \A k \in Logins : login[k] = "done" => login'[k] = "done"
      BY <1>3 DEF Verify, LoginGoesTo, Typed, LimitInv, LimitTypeOK
    <2>3. seen' \in [Logins -> Account \cup {NoAccount}]
      BY <1>3, RateLimitAssumption DEF Verify, Typed, TypeOK
    <2> QED
      BY <1>3, <2>1, <2>2, <2>3, LoginTyped DEF Verify
  <1>4. CASE Refuse(l)
    <2>1. LimitInv'
      BY <1>4, LoginGoesInv DEF Refuse, Typed
    <2>2. \A k \in Logins : login[k] = "done" => login'[k] = "done"
      BY <1>4 DEF Refuse, LoginGoesTo, Typed, LimitInv, LimitTypeOK
    <2> QED
      BY <1>4, <2>1, <2>2, LoginTyped DEF Refuse, history, Typed, TypeOK
  <1>5. CASE OpenSession(l)
    <2>1. LimitInv'
      BY <1>5, LoginGoesInv DEF OpenSession, Typed
    <2>2. login' = [login EXCEPT ![l] = "done"] /\ session' = [session EXCEPT ![l] = "open"]
      BY <1>5 DEF OpenSession, LoginGoesTo
    <2>3. \A k \in Logins : session'[k] # "none" => login'[k] = "done"
      BY <2>2 DEF Typed, TypeOK, LimitInv, LimitTypeOK
    <2>4. session' \in [Logins -> {"none", "open", "closed"}] /\ beside' \subseteq Logins
      BY <1>5, <2>2 DEF OpenSession, Typed, TypeOK
    <2>5. TypeOK'
      BY <1>5, <2>1, <2>3, <2>4 DEF OpenSession, Typed, TypeOK, LimitInv
    <2>6. CopiesOfAccounts'
      <3>1. \A k \in Logins : session[k] # "none" => session'[k] # "none"
        BY <2>2 DEF Typed, TypeOK
      <3>2. \A e \in Edits : pc[e] = "revoked" => request[e].held \subseteq Logins
        BY DEF Typed, TypeOK, Request
      <3> QED
        BY <1>5, <3>1, <3>2 DEF OpenSession, Typed, CopiesOfAccounts, InFlight
    <2> QED
      BY <2>1, <2>5, <2>6 DEF Typed
  <1> QED
    BY <1>1, <1>2, <1>3, <1>4, <1>5 DEF LoginStep

LEMMA CloseTyped == ASSUME Typed, NEW l \in Logins, Close(l) PROVE Typed'
  <1>1. Ended({l}) /\ UNCHANGED <<login, limit, account, pc, request, crashes, late, raced>>
    BY DEF Close
  <1>2. LimitInv'
    BY <1>1, LimitStays DEF Typed
  <1>3. \A k \in Logins : session'[k] # "none" => login'[k] = "done"
    BY <1>1, EndedTyped DEF Close, Typed, TypeOK
  <1>4. beside' \subseteq Logins
    BY DEF Close, Typed, TypeOK
  <1>5. TypeOK'
    BY <1>1, <1>2, <1>3, <1>4, EndedTyped DEF Typed, TypeOK, LimitInv
  <1>6. CopiesOfAccounts'
    <2>1. \A k \in Logins : session[k] # "none" => session'[k] # "none"
      BY <1>1, EndedTyped
    <2>2. \A e \in Edits : pc[e] = "revoked" => request[e].held \subseteq Logins
      BY DEF Typed, TypeOK, Request
    <2> QED
      BY <1>1, <2>1, <2>2 DEF Typed, CopiesOfAccounts, InFlight
  <1> QED
    BY <1>2, <1>5, <1>6 DEF Typed

LEMMA EditStepTyped ==
    ASSUME Typed, NEW e \in Edits, EditStep(e) PROVE Typed'
  <1>0. crashes \in 0..MaxCrashes /\ late \subseteq Edits /\ pc[e] \in
            {"start", "authorised", "counting", "cleared", "revoked", "checked", "done"}
    BY DEF Typed, TypeOK, Requests
  <1>1. CASE Authorise(e)
    <2>1. PICK l \in Logins, u \in Users, c \in Changes :
              request' = [request EXCEPT ![e] =
                [by |-> l, target |-> u, change |-> c, held |-> {},
                 copy |-> IF u = NameOf[l] THEN account[u] ELSE NoAccount]]
      BY <1>1 DEF Authorise
    <2> DEFINE r == [by |-> l, target |-> u, change |-> c, held |-> {},
                     copy |-> IF u = NameOf[l] THEN account[u] ELSE NoAccount]
    <2>2. (IF u = NameOf[l] THEN account[u] ELSE NoAccount) \in Account \cup {NoAccount}
      BY DEF Typed, TypeOK
    <2>3. r \in Request /\ (r.copy # NoAccount => account[r.target] # NoAccount)
      BY <2>2 DEF Request
    <2>4. /\ GoTo(e, "authorised") /\ crashes' = crashes /\ late' = late
          /\ UNCHANGED <<login, limit, account, session, seen, beside, raced>>
      BY <1>1 DEF Authorise, history
    <2> HIDE DEF r
    <2>5. request' = [request EXCEPT ![e] = r]
      BY <2>1 DEF r
    <2> QED
      BY <1>0, <2>3, <2>4, <2>5, EditTyped
  <1>2. CASE ReadTarget(e)
    <2> DEFINE r == request[e]
               copy == IF r.copy # NoAccount THEN r.copy ELSE account[r.target]
               q == [r EXCEPT !.copy = copy]
    <2>0. pc[e] = "authorised" /\ UNCHANGED <<login, limit, account, session, crashes, seen, beside, raced>>
      BY <1>2 DEF ReadTarget
    <2>1. r \in Request /\ (r.copy # NoAccount => account[r.target] # NoAccount)
      BY <2>0 DEF Typed, TypeOK, CopiesOfAccounts, InFlight
    <2>2. CASE copy = NoAccount
      BY <1>0, <1>2, <2>0, <2>2, LeaveTyped DEF ReadTarget
    <2>3. CASE copy # NoAccount
      <3>1. PICK step \in {"counting", "cleared"} :
                GoTo(e, step) /\ request' = [request EXCEPT ![e].copy = copy] /\ late' = late
        BY <1>2, <2>3 DEF ReadTarget
      <3>2. request' = [request EXCEPT ![e] = q]
        BY <3>1
      <3>3. copy \in Account \cup {NoAccount} /\ account[r.target] # NoAccount
        BY <2>1, <2>3 DEF Typed, TypeOK, Request
      <3>4. q \in Request /\ q.copy = copy /\ q.target = r.target
        BY <2>1, <3>3 DEF Request
      <3>5. /\ UNCHANGED <<login, limit, account, session, seen, beside, raced>>
            /\ crashes' \in 0..MaxCrashes /\ late' \subseteq Edits
        BY <1>0, <2>0, <3>1
      <3>6. q.copy # NoAccount /\ account[q.target] # NoAccount
        BY <2>3, <3>3, <3>4
      <3>7. step \in {"start", "authorised", "counting", "cleared", "revoked", "done"}
        OBVIOUS
      <3>8. q \in Request \cup {NoRequest} /\ step # "revoked"
        BY <3>4
      <3> HIDE DEF q, copy
      <3>9. CASE step = "counting"
        BY <3>1, <3>2, <3>4, <3>5, <3>6, <3>8, <3>9, EditTyped
      <3>10. CASE step = "cleared"
        BY <3>1, <3>2, <3>4, <3>5, <3>6, <3>8, <3>10, EditTyped
      <3> QED
        BY <3>9, <3>10
    <2> QED
      BY <2>2, <2>3
  <1>3. CASE CountAdmins(e)
    <2>1. CASE Leave(e)
      BY <1>0, <1>3, <2>1, LeaveTyped DEF CountAdmins
    <2>2. CASE GoTo(e, "cleared") /\ UNCHANGED <<request, late>>
      <3>1. /\ request[e] \in Request /\ request[e].copy # NoAccount
            /\ account[request[e].target] # NoAccount
        BY <1>3 DEF CountAdmins, Typed, TypeOK, CopiesOfAccounts, InFlight
      <3>2. request' = [request EXCEPT ![e] = request[e]]
        BY <2>2 DEF Typed, TypeOK
      <3> QED
        BY <1>0, <1>3, <2>2, <3>1, <3>2, EditTyped DEF CountAdmins
    <2> QED
      BY <1>3, <2>1, <2>2 DEF CountAdmins
  <1>4. CASE RevokeSessions(e)
    <2> DEFINE r == request[e]
               q == [r EXCEPT !.held = Revoked(r.change, r.target)]
    <2>1. /\ r \in Request /\ r.copy # NoAccount /\ account[r.target] # NoAccount
      BY <1>4 DEF RevokeSessions, Typed, TypeOK, CopiesOfAccounts, InFlight
    <2>2. /\ Revoked(r.change, r.target) \in SUBSET Logins
          /\ \A l \in Revoked(r.change, r.target) : session[l] # "none"
      BY DEF Revoked, OpenSessions
    <2>3. /\ q \in Request /\ q.copy = r.copy /\ q.target = r.target
          /\ q.held = Revoked(r.change, r.target)
      BY <2>1, <2>2 DEF Request
    <2>4. /\ GoTo(e, "revoked") /\ crashes' = crashes /\ late' = late
          /\ UNCHANGED <<login, limit, account, session, seen, beside, raced>>
          /\ request' = [request EXCEPT ![e] = q]
      BY <1>4 DEF RevokeSessions, history
    <2> HIDE DEF q
    <2> QED
      BY <1>0, <2>1, <2>2, <2>3, <2>4, EditTyped
  <1>5. CASE CommitEdit(e)
    <2> DEFINE r == request[e]
               after == Written(account[r.target], r.copy, Changed(e))
    <2>1. /\ pc[e] = "revoked" /\ Ended(r.held) /\ UNCHANGED <<login, limit, crashes>>
          /\ account' = [account EXCEPT ![r.target] = after]
          /\ pc' = [pc EXCEPT ![e] = "done"]
          /\ request' = [request EXCEPT ![e] = NoRequest]
      BY <1>5 DEF CommitEdit, GoTo
    <2>2. after \in Account /\ r.target \in Users /\ r \in Request
      BY <2>1, CommitWrites
    <2>3. LimitInv'
      BY <2>1, LimitStays DEF Typed
    <2> HIDE DEF after
    <2>4. /\ account' \in [Users -> Account \cup {NoAccount}]
          /\ \A u \in Users : account[u] # NoAccount => account'[u] # NoAccount
      BY <2>1, <2>2, AccountsAssumption DEF Typed, TypeOK
    <2>5. \A f \in Edits : /\ pc'[f] = IF f = e THEN "done" ELSE pc[f]
                           /\ request'[f] = IF f = e THEN NoRequest ELSE request[f]
      BY <2>1 DEF Typed, TypeOK, Requests
    <2>6. TypeOK'
      <3>1. pc' \in [Requests -> {"start", "authorised", "counting", "cleared",
                                  "revoked", "checked", "done"}]
        BY <2>1 DEF Typed, TypeOK
      <3>2. request' \in [Edits -> Request \cup {NoRequest}]
        BY <2>1 DEF Typed, TypeOK
      <3>3. \A f \in Edits : pc'[f] \notin {"start", "done"} => request'[f] \in Request
        BY <2>5 DEF Typed, TypeOK
      <3>4. \A l \in Logins : session'[l] # "none" => login'[l] = "done"
        <4>1. \A l \in Logins : l \in r.held => session'[l] = "closed"
          BY <2>1, EndedTyped
        <4>2. \A l \in r.held : session[l] # "none"
          BY <2>1 DEF Typed, CopiesOfAccounts
        <4> QED
          BY <2>1, <4>1, <4>2, EndedTyped DEF Typed, TypeOK
      <3>5. beside' \subseteq Logins /\ late' \subseteq Edits /\ raced' \in BOOLEAN
        BY <1>5 DEF CommitEdit, Overtaken, Typed, TypeOK
      <3> QED
        BY <2>1, <2>3, <2>4, <3>1, <3>2, <3>3, <3>4, <3>5, EndedTyped
           DEF Typed, TypeOK, LimitInv
    <2>7. CopiesOfAccounts'
      <3>1. \A f \in Edits : InFlight(f) => request[f].target \in Users
        BY DEF Typed, TypeOK, InFlight, Request
      <3>2. \A f \in Edits : InFlight(f) => request[f].held \subseteq Logins
        BY DEF Typed, TypeOK, InFlight, Request
      <3>3. \A l \in Logins : session[l] # "none" => session'[l] # "none"
        BY <2>1, EndedTyped
      <3> QED
        BY <2>4, <2>5, <3>1, <3>2, <3>3 DEF Typed, CopiesOfAccounts, InFlight
    <2> QED
      BY <2>3, <2>6, <2>7 DEF Typed
  <1>6. CASE BreakDeadlock(e)
    BY <1>0, <1>6, LeaveTyped DEF BreakDeadlock
  <1> QED
    BY <1>1, <1>2, <1>3, <1>4, <1>5, <1>6 DEF EditStep

\* A creation fills in a name that was free.
LEMMA CreateStep ==
    ASSUME Typed, NEW c \in Creates, CheckName(c) \/ InsertUser(c)
    PROVE  /\ \A e \in Edits : pc'[e] = pc[e]
           /\ UNCHANGED <<login, limit, session, request, crashes, seen, beside, late, raced>>
           /\ \A u \in Users : \/ account'[u] = account[u]
                               \/ /\ account[u] = NoAccount
                                  /\ \E role \in {"admin", "user"} : account'[u] = Fresh(role)
  <1>1. \A e \in Edits : pc'[e] = pc[e]
    BY AccountsAssumption DEF Typed, TypeOK, CheckName, InsertUser, GoTo, Requests
  <1>2. UNCHANGED <<login, limit, session, request, crashes, seen, beside, late, raced>>
    BY DEF CheckName, InsertUser, history
  <1>3. \A u \in Users : \/ account'[u] = account[u]
                         \/ /\ account[u] = NoAccount
                            /\ \E role \in {"admin", "user"} : account'[u] = Fresh(role)
    <2>1. CASE account' = account
      BY <2>1
    <2>2. CASE account' # account
      <3>1. account[NewName[c]] = NoAccount
        BY <2>2 DEF CheckName, InsertUser
      <3>2. PICK role \in {"admin", "user"} :
                account' = [account EXCEPT ![NewName[c]] = Fresh(role)]
        BY <2>2 DEF CheckName, InsertUser
      <3> QED
        BY <3>1, <3>2 DEF Typed, TypeOK
    <2> QED
      BY <2>1, <2>2
  <1> QED
    BY <1>1, <1>2, <1>3

LEMMA CreateTyped ==
    ASSUME Typed, NEW c \in Creates, CheckName(c) \/ InsertUser(c) PROVE Typed'
  <1>1. LimitInv'
    BY CreateStep, LimitStays DEF Typed
  <1>2. account' \in [Users -> Account \cup {NoAccount}]
    <2>1. account' = account \/ \E role \in {"admin", "user"} :
              account' = [account EXCEPT ![NewName[c]] = Fresh(role)]
      BY DEF CheckName, InsertUser
    <2> QED
      BY <2>1, FreshIsAccount DEF Typed, TypeOK
  <1>3. \A u \in Users : account[u] # NoAccount => account'[u] # NoAccount
    BY CreateStep
  <1>4. TypeOK'
    <2>1. pc' \in [Requests -> {"start", "authorised", "counting", "cleared",
                                "revoked", "checked", "done"}]
      <3>1. \E step \in {"checked", "done"} : pc' = [pc EXCEPT ![c] = step]
        BY DEF CheckName, InsertUser, GoTo
      <3> QED
        BY <3>1 DEF Typed, TypeOK
    <2> QED
      BY <1>1, <1>2, <2>1, CreateStep DEF Typed, TypeOK, LimitInv
  <1>5. CopiesOfAccounts'
    <2>1. \A f \in Edits : InFlight(f) => request[f].target \in Users
      BY DEF Typed, TypeOK, InFlight, Request
    <2> QED
      BY <1>3, <2>1, CreateStep DEF Typed, CopiesOfAccounts, InFlight
  <1> QED
    BY <1>1, <1>4, <1>5 DEF Typed

LEMMA CounterTyped ==
    ASSUME Typed, NEW u \in Users, CounterEnds(u) PROVE Typed'
  <1>1. LimitInv'
    BY WindowEndsInv DEF CounterEnds, Typed
  <1>2. \A l \in Logins : login[l] = "done" => login'[l] = "done"
    BY DEF CounterEnds, WindowEnds
  <1> QED
    BY <1>1, <1>2, LoginTyped DEF CounterEnds, history, Typed, TypeOK

LEMMA CrashTyped == ASSUME Typed, RequestCrash PROVE Typed'
  <1>1. crashes' \in 0..MaxCrashes
    BY AccountsAssumption DEF RequestCrash, Typed, TypeOK
  <1>2. CASE \E l \in Logins : LoseLogin(l) /\ UNCHANGED <<pc, request, late>>
    <2>1. PICK l \in Logins : LoseLogin(l) /\ UNCHANGED <<pc, request, late>>
      BY <1>2
    <2>2. LimitInv'
      BY <2>1, LoginGoesInv DEF LoseLogin, Typed
    <2>3. \A k \in Logins : login[k] = "done" => login'[k] = "done"
      BY <2>1 DEF LoseLogin, LoginGoesTo, Typed, LimitInv, LimitTypeOK
    <2>4. TypeOK'
      BY <1>1, <2>1, <2>2, <2>3 DEF RequestCrash, Typed, TypeOK, LimitInv
    <2>5. CopiesOfAccounts'
      BY <2>1 DEF RequestCrash, Typed, CopiesOfAccounts, InFlight
    <2> QED
      BY <2>2, <2>4, <2>5 DEF Typed
  <1>3. CASE \E e \in Edits : InFlight(e) /\ Leave(e) /\ UNCHANGED <<login, limit>>
    BY <1>1, <1>3, LeaveTyped DEF RequestCrash
  <1> QED
    BY <1>2, <1>3 DEF RequestCrash

LEMMA StutterTyped == ASSUME Typed, UNCHANGED vars PROVE Typed'
  <1>1. /\ UNCHANGED <<login, limit, account, session, pc, request, crashes>>
        /\ UNCHANGED <<seen, beside, late, raced>>
    BY DEF vars, history
  <1>2. LimitInv'
    BY <1>1, LimitStays DEF Typed
  <1> QED
    BY <1>1, <1>2, LoginTyped DEF Typed, TypeOK

LEMMA TypedStep == ASSUME Typed, [Next]_vars PROVE Typed'
  BY LoginStepTyped, CloseTyped, EditStepTyped, CreateTyped, CounterTyped, CrashTyped,
     StutterTyped DEF Next

-------------------------------------------------------------------------------
(* Sessions.                                                                   *)

\* Every login and edit knows the sessions it may leave open.
Traced == SessionsTraced /\ SessionsCurrent

LEMMA InitTraced == ASSUME Init PROVE Traced
  <1>1. \A l \in Logins : session[l] = "open" =>
            /\ seen[l] = Fresh("admin") /\ account[NameOf[l]] = Fresh("admin")
            /\ seen[l] # NoAccount
    BY RateLimitAssumption, AccountsAssumption, FreshIsAccount DEF Init
  <1>2. \A l \in Logins : login[l] # "verified"
    BY DEF Init, LimitInit
  <1>3. \A e \in Edits : pc[e] # "revoked"
    BY DEF Init, Requests
  <1> QED
    BY <1>1, <1>2, <1>3 DEF Traced, SessionsTraced, SessionsCurrent

\* A step that neither verifies nor opens anything, nor takes an edit to the
\* sessions; a session may close.
LEMMA NothingOpened ==
    ASSUME Typed, Traced, UNCHANGED <<account, session, seen, beside>>,
           \A l \in Logins : login'[l] = "verified" => login[l] = "verified",
           \A e \in Edits : pc'[e] = "revoked" =>
               pc[e] = "revoked" /\ request'[e] = request[e]
    PROVE  Traced'
  BY DEF Traced, SessionsTraced, SessionsCurrent

LEMMA LoginStepTraced ==
    ASSUME Typed, Traced, NEW l \in Logins, LoginStep(l) PROVE Traced'
  <1>1. CASE CountLogin(l)
    <2>1. \A k \in Logins : login'[k] = "verified" => login[k] = "verified"
      BY <1>1 DEF CountLogin, Count, LoginGoesTo, Typed, LimitInv, LimitTypeOK
    <2> QED
      BY <1>1, <2>1, NothingOpened DEF CountLogin, history
  <1>2. CASE ExpireCounter(l)
    <2>1. \A k \in Logins : login'[k] = "verified" => login[k] = "verified"
      BY <1>2 DEF ExpireCounter, SetExpiry, LoginGoesTo, Typed, LimitInv, LimitTypeOK
    <2> QED
      BY <1>2, <2>1, NothingOpened DEF ExpireCounter, history
  <1>3. CASE Verify(l)
    <2>1. /\ login[l] = "admitted" /\ account[NameOf[l]] # NoAccount
          /\ UNCHANGED <<account, session, pc, request, beside>>
          /\ \A k \in Logins : login'[k] = IF k = l THEN "verified" ELSE login[k]
          /\ \A k \in Logins : seen'[k] = IF k = l THEN account[NameOf[l]] ELSE seen[k]
      BY <1>3 DEF Verify, Active, LoginGoesTo, Typed, TypeOK, LimitInv, LimitTypeOK
    <2>2. session[l] = "none"
      BY <2>1 DEF Typed, TypeOK
    <2> QED
      BY <2>1, <2>2 DEF Traced, SessionsTraced, SessionsCurrent
  <1>4. CASE Refuse(l)
    <2>1. \A k \in Logins : login'[k] = "verified" => login[k] = "verified"
      BY <1>4 DEF Refuse, LoginGoesTo, Typed, LimitInv, LimitTypeOK
    <2> QED
      BY <1>4, <2>1, NothingOpened DEF Refuse, history
  <1>5. CASE OpenSession(l)
    <2>1. /\ login[l] = "verified" /\ UNCHANGED <<account, pc, request, seen>>
          /\ \A k \in Logins : login'[k] = IF k = l THEN "done" ELSE login[k]
          /\ \A k \in Logins : session'[k] = IF k = l THEN "open" ELSE session[k]
      BY <1>5 DEF OpenSession, LoginGoesTo, Typed, TypeOK, LimitInv, LimitTypeOK
    <2>2. /\ beside' \subseteq beside \cup {l} /\ beside \subseteq beside'
          /\ \A e \in Edits :
                pc[e] = "revoked" /\ request[e].target = NameOf[l] => l \in beside'
      BY <1>5 DEF OpenSession
    <2>3. /\ \A k \in Logins : session'[k] = "open" \/ login'[k] = "verified" =>
                session[k] = "open" \/ login[k] = "verified"
          /\ \A k \in Logins : login'[k] = "verified" => login[k] = "verified" /\ k # l
      BY <2>1
    <2>4. SessionsTraced'
      <3>1. \A e \in Edits : pc'[e] = "revoked" /\ Asking(request'[e].change) =>
                \A k \in Logins : session'[k] = "open" /\ NameOf[k] = request'[e].target =>
                    k \in request'[e].held \/ k \in beside'
        BY <2>1, <2>2 DEF Traced, SessionsTraced
      <3> QED
        BY <2>1, <2>2, <2>3, <3>1 DEF Traced, SessionsTraced
    <2>5. SessionsCurrent'
      BY <2>1, <2>2 DEF Traced, SessionsTraced, SessionsCurrent
    <2> QED
      BY <2>4, <2>5 DEF Traced
  <1> QED
    BY <1>1, <1>2, <1>3, <1>4, <1>5 DEF LoginStep

LEMMA CloseTraced == ASSUME Typed, Traced, NEW l \in Logins, Close(l) PROVE Traced'
  <1>1. /\ session[l] = "open" /\ Ended({l}) /\ beside' = beside \ {l}
        /\ UNCHANGED <<login, account, pc, request>>
    BY DEF Close
  <1>2. \A k \in Logins :
            /\ session'[k] = IF k = l THEN "closed" ELSE session[k]
            /\ k # l => seen'[k] = seen[k]
    BY <1>1, EndedTyped
  <1>3. login[l] = "done"
    BY <1>1 DEF Typed, TypeOK
  <1>4. \A e \in Edits : pc'[e] = "revoked" /\ Asking(request'[e].change) =>
            \A k \in Logins : session'[k] = "open" /\ NameOf[k] = request'[e].target =>
                k \in request'[e].held \/ k \in beside'
    BY <1>1, <1>2 DEF Traced, SessionsTraced
  <1> QED
    BY <1>1, <1>2, <1>3, <1>4 DEF Traced, SessionsTraced, SessionsCurrent

\* An edit that asks for nothing writes nothing.
LEMMA NothingAsked ==
    ASSUME Typed, NEW e \in Edits, pc[e] = "revoked", ~Asking(request[e].change)
    PROVE  Written(account[request[e].target], request[e].copy, Changed(e))
               = account[request[e].target]
  <1>1. Changed(e) = request[e].copy
    <2>1. request[e].copy \in Account
      BY CommitWrites
    <2>2. Changed(e) = [role |-> request[e].copy.role, active |-> request[e].copy.active,
                        password |-> request[e].copy.password]
      BY DEF Changed, Taken, Asking
    <2> QED
      BY <2>1, <2>2 DEF Account
  <1> QED
    BY <1>1, CommitWrites, WrittenFields

\* What the commit of an edit changes.
LEMMA CommitStep ==
    ASSUME Typed, NEW e \in Edits, CommitEdit(e)
    PROVE  LET r == request[e]
               after == Written(account[r.target], r.copy, Changed(e))
           IN /\ pc[e] = "revoked" /\ login' = login
              /\ \A u \in Users : account'[u] = IF u = r.target THEN after ELSE account[u]
              /\ \A f \in Edits : /\ pc'[f] = IF f = e THEN "done" ELSE pc[f]
                                  /\ f # e => request'[f] = request[f]
              /\ \A l \in Logins : l \notin r.held =>
                    session'[l] = session[l] /\ seen'[l] = seen[l]
              /\ \A l \in Logins : l \in r.held =>
                    session'[l] = "closed" /\ login[l] = "done"
              /\ beside' = (beside \ r.held) \cup
                    {l \in Logins : login[l] = "verified" /\ NameOf[l] = r.target}
  <1> DEFINE r == request[e]
             after == Written(account[r.target], r.copy, Changed(e))
  <1>1. /\ pc[e] = "revoked" /\ Ended(r.held) /\ login' = login
        /\ account' = [account EXCEPT ![r.target] = after]
        /\ pc' = [pc EXCEPT ![e] = "done"]
        /\ request' = [request EXCEPT ![e] = NoRequest]
        /\ beside' = (beside \ r.held) \cup
              {l \in Logins : login[l] = "verified" /\ NameOf[l] = r.target}
    BY DEF CommitEdit, GoTo
  <1> HIDE DEF after
  <1>2. \A u \in Users : account'[u] = IF u = r.target THEN after ELSE account[u]
    BY <1>1 DEF Typed, TypeOK
  <1>3. \A f \in Edits : /\ pc'[f] = IF f = e THEN "done" ELSE pc[f]
                         /\ f # e => request'[f] = request[f]
    BY <1>1 DEF Typed, TypeOK, Requests
  <1>4. \A l \in r.held : session[l] # "none"
    BY <1>1 DEF Typed, CopiesOfAccounts
  <1>5. \A l \in Logins : /\ l \notin r.held => session'[l] = session[l] /\ seen'[l] = seen[l]
                          /\ l \in r.held => session'[l] = "closed" /\ login[l] = "done"
    BY <1>1, <1>4, EndedTyped DEF Typed, TypeOK
  <1> QED
    BY <1>1, <1>2, <1>3, <1>5 DEF after

LEMMA CommitTraced == ASSUME Typed, Traced, NEW e \in Edits, CommitEdit(e) PROVE Traced'
  <1> DEFINE r == request[e]
             after == Written(account[r.target], r.copy, Changed(e))
  <1>1. /\ pc[e] = "revoked" /\ login' = login
        /\ \A u \in Users : account'[u] = IF u = r.target THEN after ELSE account[u]
        /\ \A f \in Edits : /\ pc'[f] = IF f = e THEN "done" ELSE pc[f]
                            /\ f # e => request'[f] = request[f]
        /\ \A l \in Logins : l \notin r.held => session'[l] = session[l] /\ seen'[l] = seen[l]
        /\ \A l \in Logins : l \in r.held => session'[l] = "closed" /\ login[l] = "done"
        /\ beside' = (beside \ r.held) \cup
              {l \in Logins : login[l] = "verified" /\ NameOf[l] = r.target}
    BY CommitStep
  <1>2. Asking(r.change) \/ after = account[r.target]
    BY <1>1, NothingAsked
  <1> HIDE DEF after
  <1>3. \A l \in Logins : NameOf[l] \in Users
    BY RateLimitAssumption
  <1>4. SessionsTraced'
    <2>1. \A l \in Logins : session'[l] = "open" \/ login'[l] = "verified" =>
              seen'[l] # NoAccount
      BY <1>1 DEF Traced, SessionsTraced
    <2>2. \A l \in Logins : login'[l] = "verified" /\ l \notin beside' =>
              seen'[l] = account'[NameOf[l]]
      BY <1>1, <1>3 DEF Traced, SessionsTraced
    <2>3. \A f \in Edits : pc'[f] = "revoked" /\ Asking(request'[f].change) =>
              \A k \in Logins : session'[k] = "open" /\ NameOf[k] = request'[f].target =>
                  k \in request'[f].held \/ k \in beside'
      BY <1>1 DEF Traced, SessionsTraced
    <2> QED
      BY <2>1, <2>2, <2>3 DEF SessionsTraced
  <1>5. SessionsCurrent'
    <2> SUFFICES ASSUME NEW l \in Logins, session'[l] = "open", l \notin beside'
                 PROVE  seen'[l] = account'[NameOf[l]]
      BY DEF SessionsCurrent
    <2>1. l \notin r.held /\ l \notin beside /\ session[l] = "open" /\ seen'[l] = seen[l]
      BY <1>1
    <2>2. seen[l] = account[NameOf[l]]
      BY <2>1 DEF Traced, SessionsCurrent
    <2>3. NameOf[l] = r.target => ~Asking(r.change)
      BY <1>1, <2>1 DEF Traced, SessionsTraced, OpenSessions
    <2> QED
      BY <1>1, <1>2, <1>3, <2>1, <2>2, <2>3
  <1> QED
    BY <1>4, <1>5 DEF Traced

LEMMA EditStepTraced ==
    ASSUME Typed, Traced, NEW e \in Edits, EditStep(e) PROVE Traced'
  <1>1. CASE Authorise(e) \/ ReadTarget(e) \/ CountAdmins(e) \/ BreakDeadlock(e)
    <2>1. UNCHANGED <<login, account, session, seen, beside>>
      BY <1>1 DEF Authorise, ReadTarget, CountAdmins, BreakDeadlock, history
    <2>2. /\ \E step \in {"authorised", "counting", "cleared", "done"} : GoTo(e, step)
          /\ \A f \in Edits \ {e} : request'[f] = request[f]
      BY <1>1 DEF Authorise, ReadTarget, CountAdmins, BreakDeadlock, Leave, Typed, TypeOK
    <2>3. \A f \in Edits : pc'[f] = "revoked" => f # e /\ pc[f] = "revoked"
      BY <2>2 DEF GoTo, Typed, TypeOK, Requests
    <2> QED
      BY <2>1, <2>2, <2>3, NothingOpened
  <1>2. CASE RevokeSessions(e)
    <2> DEFINE r == request[e]
    <2>1. /\ UNCHANGED <<login, account, session, seen, beside>>
          /\ pc[e] = "cleared" /\ pc' = [pc EXCEPT ![e] = "revoked"]
          /\ request' = [request EXCEPT ![e].held = Revoked(r.change, r.target)]
      BY <1>2 DEF RevokeSessions, history, GoTo
    <2>2. r \in Request
      BY <2>1 DEF Typed, TypeOK
    <2>3. /\ \A f \in Edits \ {e} : pc'[f] = pc[f] /\ request'[f] = request[f]
          /\ request'[e] = [r EXCEPT !.held = Revoked(r.change, r.target)]
      BY <2>1 DEF Typed, TypeOK, Requests
    <2>4. /\ request'[e].held = Revoked(r.change, r.target)
          /\ request'[e].change = r.change /\ request'[e].target = r.target
      BY <2>2, <2>3 DEF Request
    <2>5. Asking(request'[e].change) =>
              \A l \in Logins : session'[l] = "open" /\ NameOf[l] = request'[e].target =>
                  l \in request'[e].held
      BY <2>1, <2>4 DEF Asking, Revoked, OpenSessions
    <2>6. \A f \in Edits \ {e} : pc'[f] = "revoked" /\ Asking(request'[f].change) =>
              \A l \in Logins : session'[l] = "open" /\ NameOf[l] = request'[f].target =>
                  l \in request'[f].held \/ l \in beside'
      BY <2>1, <2>3 DEF Traced, SessionsTraced
    <2>7. SessionsTraced'
      BY <2>1, <2>5, <2>6 DEF Traced, SessionsTraced
    <2> QED
      BY <2>1, <2>7 DEF Traced, SessionsCurrent
  <1>3. CASE CommitEdit(e)
    BY <1>3, CommitTraced
  <1> QED
    BY <1>1, <1>2, <1>3 DEF EditStep

LEMMA CreateTraced ==
    ASSUME Typed, Traced, NEW c \in Creates, CheckName(c) \/ InsertUser(c)
    PROVE  Traced'
  <1>1. /\ \A e \in Edits : pc'[e] = pc[e]
        /\ UNCHANGED <<login, session, request, seen, beside>>
        /\ \A u \in Users : account[u] # NoAccount => account'[u] = account[u]
    BY CreateStep
  <1>2. \A l \in Logins : NameOf[l] \in Users
    BY RateLimitAssumption
  <1> QED
    BY <1>1, <1>2 DEF Traced, SessionsTraced, SessionsCurrent

LEMMA TracedStep == ASSUME Typed, Traced, [Next]_vars PROVE Traced'
  <1>1. ASSUME NEW u \in Users, CounterEnds(u) PROVE Traced'
    BY <1>1, NothingOpened DEF CounterEnds, WindowEnds, history
  <1>2. CASE RequestCrash
    <2>1. \A l \in Logins : login'[l] = "verified" => login[l] = "verified"
      BY <1>2 DEF RequestCrash, LoseLogin, LoginGoesTo, Typed, LimitInv, LimitTypeOK
    <2>2. \A e \in Edits : pc'[e] = "revoked" =>
              pc[e] = "revoked" /\ request'[e] = request[e]
      BY <1>2 DEF RequestCrash, Leave, GoTo, Typed, TypeOK, Requests
    <2> QED
      BY <1>2, <2>1, <2>2, NothingOpened DEF RequestCrash
  <1>3. CASE UNCHANGED vars
    BY <1>3, NothingOpened DEF vars, history
  <1> QED
    BY <1>1, <1>2, <1>3, LoginStepTraced, CloseTraced, EditStepTraced, CreateTraced DEF Next

-------------------------------------------------------------------------------
(* Administrators.                                                             *)

AdminsKept == AdminsCounted /\ AdminRemains

LEMMA InitAdmins == ASSUME Init PROVE AdminsKept
  <1>1. PICK u \in Admins : u \in Users
    BY AccountsAssumption
  <1>2. u \in ActiveAdmins
    <2>1. account[u] = Fresh("admin")
      BY <1>1 DEF Init
    <2> QED
      BY <1>1, <2>1, FreshIsAccount, AccountsAssumption
         DEF Fresh, ActiveAdmins, Active, IsAdmin
  <1>3. \A e \in Edits : pc[e] = "start"
    BY DEF Init, Requests
  <1> QED
    BY <1>2, <1>3 DEF AdminsKept, AdminsCounted, AdminRemains, InFlight

\* A step that the edits do not notice; a creation only adds accounts.
LEMMA NothingEdited ==
    ASSUME Typed, AdminsKept, UNCHANGED <<request, late, raced>>,
           \A e \in Edits : pc'[e] = pc[e],
           \A u \in Users : account[u] # NoAccount => account'[u] = account[u]
    PROVE  AdminsKept'
  <1>1. ActiveAdmins \subseteq ActiveAdmins'
    BY DEF ActiveAdmins, Active, IsAdmin
  <1>2. \A e \in Edits : InFlight(e) /\ request[e].copy # NoAccount =>
            request[e].target \in Users /\ account[request[e].target] # NoAccount
    BY DEF Typed, TypeOK, CopiesOfAccounts, InFlight, Request
  <1>3. AdminsCounted'
    BY <1>1, <1>2 DEF AdminsKept, AdminsCounted, InFlight
  <1>4. AdminRemains'
    BY <1>1 DEF AdminsKept, AdminRemains
  <1> QED
    BY <1>3, <1>4 DEF AdminsKept

\* A step of an edit, up to its commit, that leaves it as it must be or ends it.
LEMMA EditCounted ==
    ASSUME Typed, AdminsKept, UNCHANGED <<account, raced>>,
           NEW e \in Edits, NEW step, NEW r, GoTo(e, step),
           request' = [request EXCEPT ![e] = r],
           late \ {e} \subseteq late',
           step # "done" /\ e \notin late' =>
               /\ r.copy # NoAccount => r.copy = account[r.target]
               /\ step \in {"cleared", "revoked"} /\ Removing(r.copy, r.change) =>
                      \E u \in ActiveAdmins : u # r.target
    PROVE  AdminsKept'
  <1>1. \A f \in Edits : /\ pc'[f] = IF f = e THEN step ELSE pc[f]
                         /\ request'[f] = IF f = e THEN r ELSE request[f]
    BY DEF Typed, TypeOK, GoTo, Requests
  <1>2. ActiveAdmins' = ActiveAdmins
    BY DEF ActiveAdmins, Active, IsAdmin
  <1>3. AdminsCounted'
    BY <1>1, <1>2 DEF AdminsKept, AdminsCounted, InFlight
  <1> QED
    BY <1>2, <1>3 DEF AdminsKept, AdminRemains

LEMMA LeaveCounted ==
    ASSUME Typed, AdminsKept, UNCHANGED <<account, raced>>, NEW e \in Edits, Leave(e)
    PROVE  AdminsKept'
  BY EditCounted DEF Leave

LEMMA AnotherAdmin ==
    ASSUME NEW u \in Users, Cardinality(ActiveAdmins) > 1
    PROVE  \E v \in ActiveAdmins : v # u
  <1>1. IsFiniteSet({u}) /\ Cardinality({u}) = 1
    BY FS_Singleton
  <1>2. ActiveAdmins \subseteq {u} => Cardinality(ActiveAdmins) <= 1
    BY <1>1, FS_Subset
  <1>3. IsFiniteSet(ActiveAdmins)
    BY AccountsAssumption, FS_Subset DEF ActiveAdmins
  <1>4. Cardinality(ActiveAdmins) \in Nat
    BY <1>3, FS_CardinalityType
  <1>5. ~(ActiveAdmins \subseteq {u})
    BY <1>2, <1>4
  <1> QED
    BY <1>5

LEMMA CommitCounted ==
    ASSUME Typed, AdminsKept, NEW e \in Edits, CommitEdit(e) PROVE AdminsKept'
  <1> DEFINE r == request[e]
             after == Written(account[r.target], r.copy, Changed(e))
  <1>1. /\ pc[e] = "revoked"
        /\ \A u \in Users : account'[u] = IF u = r.target THEN after ELSE account[u]
        /\ \A f \in Edits : /\ pc'[f] = IF f = e THEN "done" ELSE pc[f]
                            /\ f # e => request'[f] = request[f]
    BY CommitStep
  <1>2. late' = (late \ {e}) \cup Overtaken(e, after) /\ raced' = (raced \/ e \in late)
    BY DEF CommitEdit
  <1>3. /\ r.target \in Users /\ after \in Account
        /\ r.copy \in Account /\ account[r.target] \in Account /\ Changed(e) \in Account
    BY <1>1, CommitWrites
  <1>4. e \notin late =>
            /\ r.copy = account[r.target]
            /\ Removing(r.copy, r.change) => \E u \in ActiveAdmins : u # r.target
    BY <1>1, <1>3, AccountsAssumption DEF AdminsKept, AdminsCounted, InFlight
  <1>5. e \notin late => after = Changed(e)
    BY <1>3, <1>4, WrittenFields
  <1>6. NoAccount \notin Account
    BY AccountsAssumption
  <1> HIDE DEF after
  <1>7. \A u \in ActiveAdmins : u # r.target => u \in ActiveAdmins'
    BY <1>1 DEF ActiveAdmins, Active, IsAdmin
  <1>8. after.role = "admin" /\ after.active = "yes" => r.target \in ActiveAdmins'
    BY <1>1, <1>3, <1>6 DEF ActiveAdmins, Active, IsAdmin
  <1>9. AdminsCounted'
    <2> SUFFICES ASSUME NEW f \in Edits, f \notin late', pc'[f] \notin {"start", "done"}
                 PROVE  /\ request'[f].copy # NoAccount =>
                              request'[f].copy = account'[request'[f].target]
                        /\ pc'[f] \in {"cleared", "revoked"} =>
                              (Removing(request'[f].copy, request'[f].change) =>
                                  \E u \in ActiveAdmins' : u # request'[f].target)
      BY DEF AdminsCounted, InFlight
    <2>1. /\ f # e /\ f \notin late /\ f \notin Overtaken(e, after)
          /\ InFlight(f) /\ pc'[f] = pc[f] /\ request'[f] = request[f]
      BY <1>1, <1>2 DEF InFlight
    <2>2. request[f].target \in Users /\ request[f].target # r.target
      BY <2>1 DEF Overtaken, Typed, TypeOK, Request, InFlight
    <2>3. request[f].copy # NoAccount => request[f].copy = account'[request[f].target]
      BY <1>1, <2>1, <2>2 DEF AdminsKept, AdminsCounted
    <2>4. ASSUME pc[f] \in {"cleared", "revoked"}, Removing(request[f].copy, request[f].change)
          PROVE  \E u \in ActiveAdmins' : u # request[f].target
      <3>1. PICK u \in ActiveAdmins : u # request[f].target
        BY <2>1, <2>4 DEF AdminsKept, AdminsCounted
      <3>2. CASE u # r.target
        BY <1>7, <3>1, <3>2
      <3>3. CASE u = r.target
        BY <1>8, <2>1, <2>4, <3>1, <3>3 DEF Overtaken
      <3> QED
        BY <3>2, <3>3
    <2> QED
      BY <2>1, <2>3, <2>4
  <1>10. AdminRemains'
    <2> SUFFICES ASSUME ~raced, e \notin late PROVE ActiveAdmins' # {}
      BY <1>2 DEF AdminRemains
    <2>1. PICK u \in ActiveAdmins : TRUE
      BY DEF AdminsKept, AdminRemains
    <2>2. CASE Removing(r.copy, r.change)
      BY <1>4, <1>7, <2>2
    <2>3. CASE ~Removing(r.copy, r.change) /\ u # r.target
      BY <1>7, <2>3
    <2>4. CASE ~Removing(r.copy, r.change) /\ u = r.target
      <3>1. r.copy.role = "admin" /\ r.copy.active = "yes"
        BY <1>4, <2>4 DEF ActiveAdmins, Active, IsAdmin
      <3>2. r.change.role \in {"admin", "keep"} /\ r.change.active \in {"yes", "keep"}
        <4>1. r.change \in Changes
          BY <1>1, CommitWrites DEF Request
        <4> QED
          BY <2>4, <3>1, <4>1, AccountsAssumption DEF Removing
      <3>3. Changed(e).role = "admin" /\ Changed(e).active = "yes"
        BY <3>1, <3>2 DEF Changed, Taken
      <3> QED
        BY <1>5, <1>8, <3>3
    <2> QED
      BY <2>2, <2>3, <2>4
  <1> QED
    BY <1>9, <1>10 DEF AdminsKept

LEMMA EditStepCounted ==
    ASSUME Typed, AdminsKept, NEW e \in Edits, EditStep(e) PROVE AdminsKept'
  <1>1. CASE Authorise(e)
    <2>1. PICK l \in Logins, u \in Users, c \in Changes :
              request' = [request EXCEPT ![e] =
                [by |-> l, target |-> u, change |-> c, held |-> {},
                 copy |-> IF u = NameOf[l] THEN account[u] ELSE NoAccount]]
      BY <1>1 DEF Authorise
    <2> DEFINE r == [by |-> l, target |-> u, change |-> c, held |-> {},
                     copy |-> IF u = NameOf[l] THEN account[u] ELSE NoAccount]
    <2>2. r.copy # NoAccount => r.copy = account[r.target]
      OBVIOUS
    <2>3. GoTo(e, "authorised") /\ UNCHANGED <<account, late, raced>>
      BY <1>1 DEF Authorise, history
    <2> HIDE DEF r
    <2>4. request' = [request EXCEPT ![e] = r]
      BY <2>1 DEF r
    <2> QED
      BY <2>2, <2>3, <2>4, EditCounted
  <1>2. CASE ReadTarget(e)
    <2> DEFINE r == request[e]
               copy == IF r.copy # NoAccount THEN r.copy ELSE account[r.target]
               q == [r EXCEPT !.copy = copy]
    <2>1. r \in Request /\ UNCHANGED <<account, raced>>
      BY <1>2 DEF ReadTarget, Typed, TypeOK
    <2>2. CASE copy = NoAccount
      BY <1>2, <2>1, <2>2, LeaveCounted DEF ReadTarget
    <2>3. CASE copy # NoAccount
      <3>1. /\ GoTo(e, IF Removing(copy, r.change) THEN "counting" ELSE "cleared")
            /\ request' = [request EXCEPT ![e].copy = copy] /\ late' = late
        BY <1>2, <2>3 DEF ReadTarget
      <3>2. request' = [request EXCEPT ![e] = q]
        BY <3>1
      <3>3. q.copy = copy /\ q.target = r.target /\ q.change = r.change
        BY <2>1 DEF Request
      <3>4. e \notin late => copy = account[r.target]
        BY <1>2 DEF ReadTarget, AdminsKept, AdminsCounted, InFlight
      <3> HIDE DEF q, copy
      <3>5. CASE Removing(copy, r.change)
        BY <2>1, <3>1, <3>2, <3>3, <3>4, <3>5, EditCounted
      <3>6. CASE ~Removing(copy, r.change)
        BY <2>1, <3>1, <3>2, <3>3, <3>4, <3>6, EditCounted
      <3> QED
        BY <3>5, <3>6
    <2> QED
      BY <2>2, <2>3
  <1>3. CASE CountAdmins(e)
    <2>1. UNCHANGED <<account, raced>> /\ pc[e] = "counting"
      BY <1>3 DEF CountAdmins
    <2>2. request[e].target \in Users /\ request' \in [Edits -> Request \cup {NoRequest}]
      BY <1>3, <2>1, TypedStep DEF Typed, TypeOK, Request, CountAdmins, Leave
    <2>3. CASE Leave(e)
      BY <2>1, <2>3, LeaveCounted
    <2>4. CASE ~Leave(e)
      <3>1. /\ ~(Cardinality(ActiveAdmins) <= 1) /\ GoTo(e, "cleared")
            /\ UNCHANGED <<request, late>>
        BY <1>3, <2>4 DEF CountAdmins, Counted
      <3>2. Cardinality(ActiveAdmins) \in Nat
        BY AccountsAssumption, FS_Subset, FS_CardinalityType DEF ActiveAdmins
      <3>3. \E u \in ActiveAdmins : u # request[e].target
        BY <2>2, <3>1, <3>2, AnotherAdmin
      <3>4. request' = [request EXCEPT ![e] = request[e]]
        BY <3>1 DEF Typed, TypeOK
      <3>5. e \notin late /\ request[e].copy # NoAccount =>
                request[e].copy = account[request[e].target]
        BY <2>1 DEF AdminsKept, AdminsCounted, InFlight
      <3> QED
        BY <2>1, <3>1, <3>3, <3>4, <3>5, EditCounted
    <2> QED
      BY <2>3, <2>4
  <1>4. CASE RevokeSessions(e)
    <2> DEFINE r == request[e]
               q == [r EXCEPT !.held = Revoked(r.change, r.target)]
    <2>1. /\ pc[e] = "cleared" /\ GoTo(e, "revoked") /\ UNCHANGED <<account, late, raced>>
          /\ request' = [request EXCEPT ![e] = q]
      BY <1>4 DEF RevokeSessions, history
    <2>2. q.copy = r.copy /\ q.target = r.target /\ q.change = r.change
      BY <2>1 DEF Typed, TypeOK, Request
    <2>3. e \notin late =>
              /\ r.copy # NoAccount => r.copy = account[r.target]
              /\ Removing(r.copy, r.change) => \E u \in ActiveAdmins : u # r.target
      BY <2>1 DEF AdminsKept, AdminsCounted, InFlight
    <2> HIDE DEF q
    <2> QED
      BY <2>1, <2>2, <2>3, EditCounted
  <1>5. CASE CommitEdit(e)
    BY <1>5, CommitCounted
  <1>6. CASE BreakDeadlock(e)
    BY <1>6, LeaveCounted DEF BreakDeadlock
  <1> QED
    BY <1>1, <1>2, <1>3, <1>4, <1>5, <1>6 DEF EditStep

LEMMA AdminsStep == ASSUME Typed, AdminsKept, [Next]_vars PROVE AdminsKept'
  <1>1. CASE UNCHANGED <<account, pc, request, late, raced>>
    BY <1>1, NothingEdited
  <1>2. ASSUME NEW l \in Logins, LoginStep(l) \/ Close(l)
        PROVE  UNCHANGED <<account, pc, request, late, raced>>
    BY <1>2 DEF LoginStep, CountLogin, ExpireCounter, Verify, Refuse, OpenSession, Close,
                history
  <1>3. ASSUME NEW u \in Users, CounterEnds(u)
        PROVE  UNCHANGED <<account, pc, request, late, raced>>
    BY <1>3 DEF CounterEnds, history
  <1>4. ASSUME NEW c \in Creates, CheckName(c) \/ InsertUser(c) PROVE AdminsKept'
    BY <1>4, CreateStep, NothingEdited
  <1>5. CASE RequestCrash
    BY <1>1, <1>5, LeaveCounted DEF RequestCrash
  <1>6. UNCHANGED vars => UNCHANGED <<account, pc, request, late, raced>>
    BY DEF vars, history
  <1> QED
    BY <1>1, <1>2, <1>3, <1>4, <1>5, <1>6, EditStepCounted DEF Next

-------------------------------------------------------------------------------
(* The theorems.                                                               *)

\* Requests, accounts, sessions and histories keep their kinds.
THEOREM TypeCorrect == Spec => []TypeOK
  <1>1. Init => Typed
    BY InitTyped
  <1>2. Typed /\ [Next]_vars => Typed'
    BY TypedStep
  <1>3. Typed => TypeOK
    BY DEF Typed
  <1> QED
    BY <1>1, <1>2, <1>3, PTL DEF Spec

\* However many processes count at once, and whichever die, no more logins of a
\* name get as far as the password in one window than the limit says.
THEOREM AttemptsBoundedAlways == Spec => []AttemptsBounded
  <1>1. Init => Typed
    BY InitTyped
  <1>2. Typed /\ [Next]_vars => Typed'
    BY TypedStep
  <1>3. Typed => AttemptsBounded
    BY DEF Typed, LimitInv, CountsAdmitted, AttemptsBounded
  <1> QED
    BY <1>1, <1>2, <1>3, PTL DEF Spec

\* Every open session was opened with the role, activity and password its account
\* has, unless its login overlapped the change, however many edits overlap.
THEOREM SessionsCurrentAlways == Spec => []SessionsCurrent
  <1>1. Init => Typed /\ Traced
    BY InitTyped, InitTraced
  <1>2. (Typed /\ Traced) /\ [Next]_vars => (Typed /\ Traced)'
    BY TypedStep, TracedStep
  <1>3. Typed /\ Traced => SessionsCurrent
    BY DEF Traced
  <1> QED
    BY <1>1, <1>2, <1>3, PTL DEF Spec

\* An active administrator remains, unless an edit was committed whose copy of the
\* account, or count of administrators, another edit had overtaken.
THEOREM AdminRemainsAlways == Spec => []AdminRemains
  <1>1. Init => Typed /\ AdminsKept
    BY InitTyped, InitAdmins
  <1>2. (Typed /\ AdminsKept) /\ [Next]_vars => (Typed /\ AdminsKept)'
    BY TypedStep, AdminsStep
  <1>3. Typed /\ AdminsKept => AdminRemains
    BY DEF AdminsKept
  <1> QED
    BY <1>1, <1>2, <1>3, PTL DEF Spec
===============================================================================
