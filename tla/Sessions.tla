------------------------------- MODULE Sessions -------------------------------
(* Sessions and authorization (services/auth_service.py, auth/dependencies.py, *)
(* routers/auth.py): a login issues an access token that carries the           *)
(* permissions of its moment and a refresh token that carries only the         *)
(* account; every request reads the session's row, decides, and commits its    *)
(* decision in a second step that may fall after another request's.            *)
EXTENDS Naturals, Sequences, FiniteSets

CONSTANTS
    Users,         \* accounts of people
    Machines,      \* service accounts
    Requests,      \* HTTP requests that may be under way at once
    AccessLife,    \* settings.access_token_expire_minutes
    IdleLife,      \* settings.session_idle_timeout_minutes
    RefreshLife,   \* settings.refresh_token_expire_days
    MaxSessions,   \* bound: sessions of one behaviour
    MaxRequests,   \* bound: requests of one behaviour
    MaxEdits,      \* bound: edits of accounts in one behaviour
    Horizon        \* bound: the last instant

Accounts == Users \cup Machines
Permissions == {"view", "edit"}

VARIABLES
    now,        \* the clock
    accounts,   \* [Accounts -> [active, granted, edited]]; edited: when the permissions last changed
    sessions,   \* config.session with the access token's claims; the index is the jti;
                \* served is history, the latest request of the session
    refreshes,  \* refresh tokens issued: [account, expires]
    request,    \* [Requests -> a request under way]
    received    \* number of requests received

sessionVars == <<now, accounts, sessions, refreshes, request, received>>

Waiting == [at |-> "idle"]

SessionInit ==
    /\ now = 0
    /\ accounts = [a \in Accounts |-> [active |-> TRUE, granted |-> Permissions, edited |-> 0]]
    /\ sessions = <<>>
    /\ refreshes = {}
    /\ request = [r \in Requests |-> Waiting]
    /\ received = 0

-----------------------------------------------------------------------------
(* Issuing.                                                                   *)

CreateSession(a, granted) ==
    /\ Len(sessions) < MaxSessions
    /\ sessions' = Append(sessions, [account |-> a, granted |-> granted, revoked |-> FALSE,
                                     expires |-> now + AccessLife, active |-> now, served |-> now])
    /\ refreshes' = refreshes \cup {[account |-> a, expires |-> now + RefreshLife]}

\* The development provider finds any user, active or not.
DevLogin(u) ==
    /\ CreateSession(u, accounts[u].granted)
    /\ UNCHANGED <<now, accounts, request, received>>

ServiceToken(a) ==
    /\ accounts[a].active
    /\ CreateSession(a, accounts[a].granted)
    /\ UNCHANGED <<now, accounts, request, received>>

\* PyJWT accepts a token up to the second before it expires.
NotExpired(expires) == now < expires

\* The account is looked up among the users: the refresh token of a service account finds none.
Refresh(t) ==
    /\ NotExpired(t.expires)
    /\ t.account \in Users /\ accounts[t.account].active
    /\ CreateSession(t.account, accounts[t.account].granted)
    /\ UNCHANGED <<now, accounts, request, received>>

-----------------------------------------------------------------------------
(* Requests.  The bearer is the access token of session i.                    *)

\* Mutant: only the absolute expiry ends a session.
VerdictAbsolute(s) == IF now > s.expires THEN "revoke" ELSE "touch"

\* What is_session_active decides on the row it has read.
Verdict(s) ==
    IF now > s.active + IdleLife \/ now > s.expires THEN "revoke" ELSE "touch"

\* Tokens that have expired, and sessions already revoked, are refused at once.
RequestRead(r, i, need) ==
    /\ request[r].at = "idle"
    /\ received < MaxRequests
    /\ received' = received + 1
    /\ NotExpired(sessions[i].expires)
    /\ ~ sessions[i].revoked
    /\ request' = [request EXCEPT ![r] = [at |-> "read", session |-> i, need |-> need, time |-> now,
                                          seen |-> sessions[i], verdict |-> Verdict(sessions[i])]]
    /\ UNCHANGED <<now, accounts, sessions, refreshes>>

\* Mutant: the whole row is written back as it was read.
TouchedWhole(row, seen, time) == [seen EXCEPT !.active = time]

\* The update writes the columns the request changed and no other.
Touched(row, seen, time) == [row EXCEPT !.active = time]

\* The row's active may be older than this: the update of an older request may come last.
Latest(served, time) == IF time > served THEN time ELSE served

RequestRefused(r) ==
    /\ request[r].at = "read" /\ request[r].verdict = "revoke"
    /\ sessions' = [sessions EXCEPT ![request[r].session].revoked = TRUE]
    /\ request' = [request EXCEPT ![r] = Waiting]
    /\ UNCHANGED <<now, accounts, refreshes, received>>

\* get_current_principal and PermissionDependency: the permissions are those of the token.
RequestAdmitted(r) ==
    LET q == request[r]
        row == sessions[q.session]
        permitted == q.need \in row.granted
    IN  /\ q.at = "read" /\ q.verdict = "touch"
        /\ sessions' = [sessions EXCEPT ![q.session] = [Touched(row, q.seen, q.time) EXCEPT !.served = Latest(@, q.time)]]
        /\ request' = [request EXCEPT ![r] = IF permitted THEN [at |-> "endpoint", session |-> q.session] ELSE Waiting]
        /\ UNCHANGED <<now, accounts, refreshes, received>>

Logout(r) ==
    /\ request[r].at = "endpoint"
    /\ sessions' = [sessions EXCEPT ![request[r].session].revoked = TRUE]
    /\ request' = [request EXCEPT ![r] = Waiting]
    /\ UNCHANGED <<now, accounts, refreshes, received>>

Respond(r) ==
    /\ request[r].at = "endpoint"
    /\ request' = [request EXCEPT ![r] = Waiting]
    /\ UNCHANGED <<now, accounts, sessions, refreshes, received>>

-----------------------------------------------------------------------------
(* Environment: time, and accounts edited in the database.                    *)

Tick ==
    /\ now < Horizon
    /\ now' = now + 1
    /\ UNCHANGED <<accounts, sessions, refreshes, request, received>>

Edits == Cardinality({a \in Accounts : accounts[a].granted # Permissions})
             + Cardinality({a \in Accounts : ~ accounts[a].active})

Demote(a) ==
    /\ Edits < MaxEdits
    /\ accounts[a].granted = Permissions
    /\ accounts' = [accounts EXCEPT ![a].granted = {"view"}, ![a].edited = now]
    /\ UNCHANGED <<now, sessions, refreshes, request, received>>

Deactivate(a) ==
    /\ Edits < MaxEdits
    /\ accounts[a].active
    /\ accounts' = [accounts EXCEPT ![a].active = FALSE]
    /\ UNCHANGED <<now, sessions, refreshes, request, received>>

SessionNext ==
    \/ \E u \in Users : DevLogin(u)
    \/ \E a \in Machines : ServiceToken(a)
    \/ \E t \in refreshes : Refresh(t)
    \/ \E r \in Requests : \/ \E i \in 1..Len(sessions), need \in Permissions : RequestRead(r, i, need)
                           \/ RequestRefused(r) \/ RequestAdmitted(r) \/ Logout(r) \/ Respond(r)
    \/ Tick
    \/ \E a \in Accounts : Demote(a) \/ Deactivate(a)

SessionSpec == SessionInit /\ [][SessionNext]_sessionVars

-----------------------------------------------------------------------------
\* is_session_active, revoke_session: a session that was revoked, by its logout or by a timeout,
\* stays revoked whatever the requests do that read it before.
RevokedStaysRevoked ==
    [][\A i \in 1..Len(sessions) : sessions[i].revoked => sessions'[i].revoked]_sessionVars

\* get_current_principal, is_session_active: a permission taken from an account is used at most the
\* life of an access token longer, however often the session is refreshed, and a session that no
\* request used for the idle time admits none.
AdmissionsAreRecent ==
    [][\A r \in Requests :
          request[r].at = "read" /\ request'[r].at = "endpoint" =>
              LET q == request[r]
                  row == sessions[q.session]
                  owner == accounts[row.account]
              IN  /\ q.need \in owner.granted \/ q.time < owner.edited + AccessLife
                  /\ q.time <= row.served + IdleLife]_sessionVars
=============================================================================
