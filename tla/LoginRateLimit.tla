---------------------------- MODULE LoginRateLimit -----------------------------
(* The login rate limit: a counter per client and user name in Redis, shared   *)
(* by all API processes.  INCR and EXPIRE are two calls, and only the login    *)
(* that counts 1 makes the second one.  Production: without Redis nobody logs  *)
(* in (the in-process counters of a development server are left out).          *)
EXTENDS Naturals, FiniteSets

CONSTANTS
    Logins,      \* login requests; the session one opens goes by its name
    Users,       \* user names
    NameOf,      \* the user name each login gives, from the one client
    MaxAttempts  \* login_rate_limit_max_attempts

ASSUME RateLimitAssumption ==
    /\ NameOf \in [Logins -> Users]
    /\ MaxAttempts \in Nat \ {0}

VARIABLES
    login,     \* where each login request stands
    count,     \* the counter of each name, 0 if there is no key
    expiring,  \* names whose counter has a time to live
    admitted   \* history: logins let through since the counter began

limit == <<count, expiring, admitted>>

LimitTypeOK ==
    /\ login \in [Logins -> {"start", "counting", "admitted", "verified", "done"}]
    /\ count \in [Users -> Nat]
    /\ expiring \subseteq {u \in Users : count[u] > 0}
    /\ admitted \in [Users -> SUBSET Logins]

LimitInit(earlier) ==
    /\ login = [l \in Logins |-> IF l \in earlier THEN "done" ELSE "start"]
    /\ count = [u \in Users |-> 0]
    /\ expiring = {}
    /\ admitted = [u \in Users |-> {}]

LoginGoesTo(l, step) == login' = [login EXCEPT ![l] = step]

\* Mutation: one attempt too many.
WithinLoose(n) == n <= MaxAttempts + 1

Within(n) == n <= MaxAttempts

\* INCR, and what follows from its answer at once.
Count(l) ==
    LET u == NameOf[l]
        n == count[u] + 1
    IN /\ login[l] = "start"
       /\ count' = [count EXCEPT ![u] = n]
       /\ LoginGoesTo(l, CASE n = 1 -> "counting"
                           [] n # 1 /\ Within(n) -> "admitted"
                           [] OTHER -> "done")
       /\ admitted' = [admitted EXCEPT ![u] = IF Within(n) THEN @ \cup {l} ELSE @]
       /\ UNCHANGED expiring

\* Mutation: the window is left to a login that finds the counter at work.
SetExpiryLate(l) ==
    /\ login[l] = "counting"
    /\ LoginGoesTo(l, "admitted")
    /\ expiring' = IF count[NameOf[l]] > 1 THEN expiring \cup {NameOf[l]} ELSE expiring
    /\ UNCHANGED <<count, admitted>>

\* EXPIRE, by the login that counted 1.
SetExpiry(l) ==
    /\ login[l] = "counting"
    /\ LoginGoesTo(l, "admitted")
    /\ expiring' = expiring \cup {NameOf[l]}
    /\ UNCHANGED <<count, admitted>>

\* The API process dies between the calls, or EXPIRE fails: the login ends, the
\* counter stays as it is.
LoseLogin(l) ==
    /\ login[l] = "counting"
    /\ LoginGoesTo(l, "done")
    /\ UNCHANGED limit

WindowEnds(u) ==
    /\ u \in expiring
    /\ count' = [count EXCEPT ![u] = 0]
    /\ expiring' = expiring \ {u}
    /\ admitted' = [admitted EXCEPT ![u] = {}]
    /\ UNCHANGED login

\* In one window no more logins of a name get as far as the password than the
\* limit says, however many processes count at once.
AttemptsBounded ==
    \A u \in Users : Cardinality(admitted[u]) <= MaxAttempts
===============================================================================
