------------------------------ MODULE Accounts ------------------------------
(***************************************************************************)
(* The operator's account: AuthManager, the handlers of the dashboard that *)
(* call it, and the rows they keep.  Handlers declared async run on the    *)
(* event loop, one at a time from await to await; the others run in        *)
(* threads.  All share one SQLite connection: what a statement has changed *)
(* is seen by all of them at once, reaches the file when any of them       *)
(* commits, and is lost if the process ends before that.                   *)
(*                                                                         *)
(* A password is a version: 0 is the one the environment gives, and every  *)
(* change makes a new one.                                                 *)
(***************************************************************************)
EXTENDS Integers, Sequences

CONSTANTS
  Tokens,       \* what token_urlsafe may yield
  Clients,      \* addresses that log in
  Requests,     \* requests to change the password
  MaxAttempts,  \* MAX_LOGIN_ATTEMPTS
  Lockout,      \* LOCKOUT_SECONDS
  Ttl,          \* SESSION_TTL_SECONDS
  MaxTime,      \* bound on the clock
  MaxChanges,   \* bound: changes of the password
  MaxRestarts   \* bound on restarts

ASSUME LimitsType == MaxAttempts \in Nat \ {0} /\ Lockout \in Nat \ {0} /\ Ttl \in Nat
ASSUME AccountBounds == MaxTime \in Nat /\ MaxChanges \in Nat /\ MaxRestarts \in Nat

VARIABLES
  conn,       \* the tables users and sessions as the connection sees them
  disk,       \* as the file has them
  attempts,   \* _attempts: failures that count, and the end of the lock or 0
  asked,      \* request -> the token it was admitted with, while its body is awaited
  changing,   \* the request between the two commits of change_password, or none
  now,
  restarts,   \* counts restarts up to the bound
  changes,    \* counts passwords; the last one given out
  unfinished, \* history: the last change that failed half-way
  acked,      \* history: the last change answered ok
  ended,      \* history: tokens whose end was answered ok
  failures    \* history: client -> times it failed since it last succeeded

tables == <<conn, disk>>
history == <<unfinished, acked, ended>>
vars == <<tables, attempts, asked, changing, now, restarts, changes, history, failures>>

NoUser == -1
Nobody == "nobody"    \* no token, no request
ASSUME NobodyApart == Nobody \notin Tokens \cup Requests
NoSession == [by |-> NoUser, until |-> 0, revoked |-> TRUE]
NoAttempts == [count |-> 0, until |-> 0]

\* The event loop is between handlers, or in an await.
LoopFree == changing = Nobody

\* validate_session answers a name, of the only user there is.
Usable(db, t) == ~ db.sessions[t].revoked /\ db.sessions[t].until >= now

Revoked(db, ts) ==
  [db EXCEPT !.sessions = [t \in Tokens |->
     IF t \in ts THEN [@[t] EXCEPT !.revoked = TRUE] ELSE @[t]]]

\* A statement and its commit: both work; or the commit raises and what the
\* statement did waits for another one.  A statement that raises does nothing.
Commits(db) == conn' = db /\ disk' = db
CommitRaises(db) == conn' = db /\ UNCHANGED disk
Raises == UNCHANGED tables

-----------------------------------------------------------------------------
(* Logging in                                                              *)

\* is_rate_limited: whether the client is locked out, and what is left of its
\* attempts when it is not.
RateLimited(c) == now < attempts[c].until
Attempts(c) == IF attempts[c].until # 0 THEN NoAttempts ELSE attempts[c]

\* Seeded fault: one attempt too many.
RecordFailureLate(c) ==
  LET count == Attempts(c).count + 1
  IN [count |-> count, until |-> IF count > MaxAttempts THEN now + Lockout ELSE 0]

\* record_failure
RecordFailure(c) ==
  LET count == Attempts(c).count + 1
  IN [count |-> count, until |-> IF count >= MaxAttempts THEN now + Lockout ELSE 0]

\* A wrong name or password, or no user at all.
LoginFails(c) ==
  /\ LoopFree /\ ~ RateLimited(c)
  /\ attempts' = [attempts EXCEPT ![c] = RecordFailure(c)]
  /\ failures' = [failures EXCEPT ![c] = Append(@, now)]
  /\ UNCHANGED <<tables, asked, changing, now, restarts, changes, history>>

\* The right password: failures are forgotten, then a session is stored.  A
\* session whose storing raises is never handed out and left out.
Login(c, t) ==
  /\ LoopFree /\ ~ RateLimited(c)
  /\ conn.user # NoUser
  /\ conn.sessions[t] = NoSession
  /\ attempts' = [attempts EXCEPT ![c] = NoAttempts]
  /\ failures' = [failures EXCEPT ![c] = <<>>]
  /\ \/ Commits([conn EXCEPT !.sessions[t] =
                   [by |-> conn.user, until |-> now + Ttl, revoked |-> FALSE]])
     \/ Raises
  /\ UNCHANGED <<asked, changing, now, restarts, changes, history>>

-----------------------------------------------------------------------------
(* Ending sessions                                                         *)

\* Seeded fault: the row is not committed.
LogoutUncommitted(t) ==
  /\ conn.sessions[t] # NoSession
  /\ CommitRaises(Revoked(conn, {t}))
  /\ ended' = ended \cup {t}
  /\ UNCHANGED <<attempts, asked, changing, now, restarts, changes, unfinished, acked,
                 failures>>

\* api_auth_logout, in a thread.
Logout(t) ==
  /\ conn.sessions[t] # NoSession
  /\ \/ Commits(Revoked(conn, {t})) /\ ended' = ended \cup {t}
     \/ CommitRaises(Revoked(conn, {t})) /\ UNCHANGED ended
  /\ UNCHANGED <<attempts, asked, changing, now, restarts, changes, unfinished, acked,
                 failures>>

\* validate_session, by whichever handler, finds the session expired.
Expire(t) ==
  /\ ~ conn.sessions[t].revoked /\ conn.sessions[t].until < now
  /\ Commits(Revoked(conn, {t})) \/ CommitRaises(Revoked(conn, {t}))
  /\ UNCHANGED <<attempts, asked, changing, now, restarts, changes, history, failures>>

-----------------------------------------------------------------------------
(* Changing the password                                                   *)

\* api_auth_change_password up to the await of its body.
AskChange(r, t) ==
  /\ LoopFree /\ asked[r] = Nobody
  /\ Usable(conn, t)
  /\ asked' = [asked EXCEPT ![r] = t]
  /\ UNCHANGED <<tables, attempts, changing, now, restarts, changes, history, failures>>

\* The body is unreadable, or the new password too short.
RefuseChange(r) ==
  /\ LoopFree /\ asked[r] # Nobody
  /\ asked' = [asked EXCEPT ![r] = Nobody]
  /\ UNCHANGED <<tables, attempts, changing, now, restarts, changes, history, failures>>

\* The body has come: create_user replaces the user.  The session is not looked
\* at again.
ReplaceUser(r) ==
  LET db == [conn EXCEPT !.user = changes + 1]
  IN /\ LoopFree /\ asked[r] # Nobody
     /\ changes < MaxChanges
     /\ changes' = changes + 1
     /\ \/ Commits(db) /\ changing' = r /\ UNCHANGED <<asked, unfinished>>
        \/ /\ CommitRaises(db) /\ UNCHANGED changing
           /\ asked' = [asked EXCEPT ![r] = Nobody]
           /\ unfinished' = changes + 1
     /\ UNCHANGED <<attempts, now, restarts, acked, ended, failures>>

\* The end of a change: this is what it revokes.
EndChange(ts) ==
  /\ ~ LoopFree
  /\ changing' = Nobody
  /\ asked' = [asked EXCEPT ![changing] = Nobody]
  /\ \/ /\ Commits(Revoked(conn, ts))
        /\ acked' = conn.user /\ ended' = ended \cup ts
        /\ UNCHANGED unfinished
     \/ /\ CommitRaises(Revoked(conn, ts)) \/ Raises
        /\ unfinished' = conn.user
        /\ UNCHANGED <<acked, ended>>
  /\ UNCHANGED <<attempts, now, restarts, changes, failures>>

Existing == {t \in Tokens : conn.sessions[t] # NoSession}

\* Seeded fault: only the session that asked is revoked.
RevokeAsking == EndChange({asked[changing]})

\* revoke_user_sessions
RevokeSessions == EndChange(Existing)

-----------------------------------------------------------------------------
(* The rest of the process                                                 *)

\* Some other handler commits something on the connection.
OtherCommit ==
  /\ conn # disk
  /\ Commits(conn)
  /\ UNCHANGED <<attempts, asked, changing, now, restarts, changes, history, failures>>

Tick ==
  /\ now < MaxTime
  /\ now' = now + 1
  /\ UNCHANGED <<tables, attempts, asked, changing, restarts, changes, history, failures>>

\* The tables with the user that setup_admin_from_env makes sure of, if the
\* environment names one.
WithAdmin(db, env) == IF env /\ db.user = NoUser THEN [db EXCEPT !.user = 0] ELSE db

\* The process starts again from the file.
Restart ==
  /\ restarts < MaxRestarts
  /\ restarts' = restarts + 1
  /\ \E env \in BOOLEAN : Commits(WithAdmin(disk, env))
  /\ attempts' = [c \in Clients |-> NoAttempts]
  /\ failures' = [c \in Clients |-> <<>>]
  /\ asked' = [r \in Requests |-> Nobody]
  /\ changing' = Nobody
  /\ unfinished' = IF LoopFree THEN unfinished ELSE conn.user
  /\ UNCHANGED <<now, changes, acked, ended>>

Init ==
  /\ \E env \in BOOLEAN :
       conn = WithAdmin([user |-> NoUser, sessions |-> [t \in Tokens |-> NoSession]], env)
  /\ disk = conn
  /\ attempts = [c \in Clients |-> NoAttempts]
  /\ asked = [r \in Requests |-> Nobody]
  /\ changing = Nobody
  /\ now = 1 /\ restarts = 0 /\ changes = 0
  /\ unfinished = 0 /\ acked = 0 /\ ended = {}
  /\ failures = [c \in Clients |-> <<>>]

Next ==
  \/ \E c \in Clients : LoginFails(c)
  \/ \E c \in Clients, t \in Tokens : Login(c, t)
  \/ \E t \in Tokens : Logout(t) \/ Expire(t)
  \/ \E r \in Requests, t \in Tokens : AskChange(r, t)
  \/ \E r \in Requests : RefuseChange(r) \/ ReplaceUser(r)
  \/ RevokeSessions
  \/ OtherCommit
  \/ Tick
  \/ Restart

Spec == Init /\ [][Next]_vars

-----------------------------------------------------------------------------
(* Properties                                                              *)

Version == {NoUser} \cup 0 .. changes
Session == [by : Version, until : Nat, revoked : BOOLEAN]
Database == [user : Version, sessions : [Tokens -> Session]]

TypeOK ==
  /\ conn \in Database /\ disk \in Database
  /\ attempts \in [Clients -> [count : 0 .. MaxAttempts, until : Nat]]
  /\ asked \in [Requests -> Tokens \cup {Nobody}]
  /\ changing \in Requests \cup {Nobody}
  /\ now \in Nat \ {0} /\ restarts \in 0 .. MaxRestarts /\ changes \in 0 .. MaxChanges
  /\ unfinished \in 0 .. changes /\ acked \in 0 .. changes /\ ended \subseteq Tokens
  /\ failures \in [Clients -> Seq(Nat)]

\* change_password replaces the password and then ends the user's sessions: no
\* session outlives the password it was opened with, however requests overlap
\* and whatever a restart brings back, but for those from before a change that
\* a failing commit or a restart cut in half.
SessionsFollowPassword ==
  LoopFree => \A t \in Tokens :
    Usable(conn, t) => conn.sessions[t].by = conn.user \/ conn.sessions[t].by < unfinished

\* What was answered ok holds from then on, across restarts, failing commits and
\* the start-up that creates the admin from the environment: a changed password
\* is not replaced by an older one, and an ended session stays ended.
AcknowledgedHolds ==
  \A db \in {conn, disk} :
    /\ acked > 0 => db.user >= acked
    /\ \A t \in ended : db.sessions[t].revoked

\* Of more than MaxAttempts failed logins of a client, without a success or a
\* restart in between, the first and the last are a lockout apart, although the
\* count starts anew whenever a lock has passed.
LockoutHolds ==
  \A c \in Clients : \A i, j \in DOMAIN failures[c] :
    j - i >= MaxAttempts => failures[c][j] - failures[c][i] >= Lockout
=============================================================================
