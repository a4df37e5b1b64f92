--------------------------- MODULE AccountsProofs ---------------------------
(***************************************************************************)
(* The sessions, the password and the lockout of Accounts, for any numbers *)
(* of tokens, clients and requests, any limits and any bounds.             *)
(***************************************************************************)
EXTENDS Accounts, SequenceTheorems, TLAPS

\* A client that is not locked has attempts left.
AttemptsLeft ==
  \A c \in Clients : attempts[c].until = 0 => attempts[c].count < MaxAttempts

\* Between its two commits the new password is in the file.
ChangeCommitted ==
  ~ LoopFree => conn.user = disk.user /\ conn.user > 0

Types == TypeOK /\ AttemptsLeft /\ ChangeCommitted

-----------------------------------------------------------------------------
\* Revoking changes nothing of the tables but the sessions it names, and of these
\* only whether they are revoked.
LEMMA RevokedKeeps ==
  ASSUME NEW db \in Database, NEW ts \in SUBSET Tokens
  PROVE  /\ Revoked(db, ts) \in Database
         /\ Revoked(db, ts).user = db.user
         /\ \A t \in Tokens :
              /\ Revoked(db, ts).sessions[t].by = db.sessions[t].by
              /\ Revoked(db, ts).sessions[t].until = db.sessions[t].until
              /\ t \in ts \/ db.sessions[t].revoked => Revoked(db, ts).sessions[t].revoked
<1> DEFINE marked == [t \in Tokens |-> IF t \in ts
                        THEN [db.sessions[t] EXCEPT !.revoked = TRUE] ELSE db.sessions[t]]
<1>1. Revoked(db, ts) = [db EXCEPT !.sessions = marked]
  BY DEF Revoked
<1>2. \A t \in Tokens : db.sessions[t] \in Session
  BY DEF Database
<1>3. \A t \in Tokens : marked[t] \in Session /\ marked[t].by = db.sessions[t].by
         /\ marked[t].until = db.sessions[t].until
         /\ (t \in ts \/ db.sessions[t].revoked => marked[t].revoked)
  BY <1>2 DEF Session
<1>4. marked \in [Tokens -> Session]
  BY <1>3
<1> HIDE DEF marked
<1>5. Revoked(db, ts).user = db.user /\ Revoked(db, ts).sessions = marked
  BY <1>1 DEF Database
<1>6. Revoked(db, ts) \in Database
  BY <1>1, <1>4 DEF Database
<1> QED
  BY <1>3, <1>5, <1>6

\* Making sure of an admin leaves the sessions alone, and adds a user only where
\* there is none.
LEMMA WithAdminKeeps ==
  ASSUME Types, NEW db \in Database, NEW env \in BOOLEAN
  PROVE  /\ WithAdmin(db, env) \in Database
         /\ WithAdmin(db, env).sessions = db.sessions
         /\ WithAdmin(db, env).user = db.user
              \/ (db.user = NoUser /\ WithAdmin(db, env).user = 0)
<1>1. changes \in Nat
  BY AccountBounds DEF Types, TypeOK
<1>2. CASE env /\ db.user = NoUser
  <2>1. WithAdmin(db, env) = [db EXCEPT !.user = 0]
    BY <1>2 DEF WithAdmin
  <2>2. 0 \in Version
    BY <1>1 DEF Version
  <2> QED
    BY <1>2, <2>1, <2>2 DEF Database
<1>3. CASE ~ (env /\ db.user = NoUser)
  BY <1>3 DEF WithAdmin
<1> QED
  BY <1>2, <1>3

\* Tables stay tables when a new password is made.
LEMMA DatabaseGrows ==
  ASSUME changes \in Nat, changes' \in Nat, changes <= changes'
  PROVE  Database \subseteq Database'
<1>1. Version \subseteq Version'
  BY DEF Version
<1> QED
  BY <1>1 DEF Database, Session

-----------------------------------------------------------------------------
\* The process starts with well-typed state.
LEMMA TypesInit == Init => Types
<1> SUFFICES ASSUME Init PROVE Types
  OBVIOUS
<1> USE DEF Init, NoUser
<1>1. changes = 0 /\ Version = {-1, 0}
  BY DEF Version
<1>2. [t \in Tokens |-> NoSession] \in [Tokens -> Session]
  BY <1>1 DEF NoSession, Session
<1>3. conn \in Database
  BY <1>1, <1>2 DEF WithAdmin, Database
<1>4. attempts \in [Clients -> [count : 0 .. MaxAttempts, until : Nat]] /\ AttemptsLeft
  BY LimitsType DEF NoAttempts, AttemptsLeft
<1> QED
  BY <1>1, <1>3, <1>4, AccountBounds, LimitsType DEF Types, TypeOK, ChangeCommitted, LoopFree

\* A failed login keeps a client's attempts in bounds.
LEMMA FailureTyped ==
  ASSUME Types, NEW c \in Clients
  PROVE  /\ RecordFailure(c) \in [count : 0 .. MaxAttempts, until : Nat]
         /\ RecordFailure(c).until = 0 => RecordFailure(c).count < MaxAttempts
<1>1. /\ attempts[c].count \in 0 .. MaxAttempts /\ attempts[c].until \in Nat
      /\ attempts[c].until = 0 => attempts[c].count < MaxAttempts
  BY DEF Types, TypeOK, AttemptsLeft
<1>2. Attempts(c).count \in Nat /\ Attempts(c).count < MaxAttempts
  BY <1>1, LimitsType DEF Attempts, NoAttempts
<1>3. RecordFailure(c).count = Attempts(c).count + 1
      /\ RecordFailure(c).until = (IF Attempts(c).count + 1 >= MaxAttempts THEN now + Lockout ELSE 0)
      /\ RecordFailure(c) = [count |-> RecordFailure(c).count, until |-> RecordFailure(c).until]
  BY DEF RecordFailure
<1>4. now \in Nat
  BY DEF Types, TypeOK
<1> QED
  BY <1>2, <1>3, <1>4, LimitsType

\* Every step keeps the types.
LEMMA TypesStep == ASSUME Types, [Next]_vars PROVE Types'
<1>1. conn \in Database /\ disk \in Database /\ changes \in Nat
  BY AccountBounds DEF Types, TypeOK
<1>2. ASSUME Database' = Database, conn' \in Database, disk' \in Database,
             UNCHANGED <<attempts, asked, changing, restarts, changes, unfinished, acked,
                         failures>>,
             now' \in Nat \ {0}, ended' \subseteq Tokens,
             ~ LoopFree => conn'.user = conn.user /\ disk'.user = conn.user
      PROVE  Types'
  BY <1>2 DEF Types, TypeOK, AttemptsLeft, ChangeCommitted, LoopFree
<1>3. UNCHANGED changes => Database' = Database
  BY DEF Database, Session, Version
<1>4. ASSUME NEW c \in Clients, LoginFails(c) PROVE Types'
  <2>1. failures' \in [Clients -> Seq(Nat)]
    <3>1. failures[c] \in Seq(Nat) /\ now \in Nat
      BY DEF Types, TypeOK
    <3>2. Append(failures[c], now) \in Seq(Nat)
      BY <3>1, AppendProperties
    <3> QED
      BY <1>4, <3>2 DEF LoginFails, Types, TypeOK
  <2>2. attempts' \in [Clients -> [count : 0 .. MaxAttempts, until : Nat]] /\ AttemptsLeft'
    BY <1>4, FailureTyped DEF LoginFails, Types, TypeOK, AttemptsLeft
  <2> QED
    BY <1>3, <1>4, <2>1, <2>2
       DEF LoginFails, tables, history, Types, TypeOK, ChangeCommitted, LoopFree
<1>5. ASSUME NEW c \in Clients, NEW t \in Tokens, Login(c, t) PROVE Types'
  <2>1. attempts' \in [Clients -> [count : 0 .. MaxAttempts, until : Nat]] /\ AttemptsLeft'
    BY <1>5, LimitsType DEF Login, NoAttempts, Types, TypeOK, AttemptsLeft
  <2>2. failures' \in [Clients -> Seq(Nat)]
    BY <1>5 DEF Login, Types, TypeOK
  <2>3. conn' \in Database /\ disk' \in Database
    <3> DEFINE new == [by |-> conn.user, until |-> now + Ttl, revoked |-> FALSE]
    <3>1. new \in Session
      BY <1>1, LimitsType DEF Types, TypeOK, Database, Session
    <3> HIDE DEF new
    <3>2. [conn EXCEPT !.sessions[t] = new] \in Database
      BY <1>1, <3>1 DEF Database
    <3> QED
      BY <1>1, <1>5, <3>2 DEF Login, Commits, Raises, tables, new
  <2>4. LoopFree /\ UNCHANGED <<asked, changing, now, restarts, changes, unfinished, acked, ended>>
    BY <1>5 DEF Login, history
  <2> QED
    BY <1>3, <2>1, <2>2, <2>3, <2>4 DEF Types, TypeOK, ChangeCommitted, LoopFree
<1>6. ASSUME NEW t \in Tokens, Logout(t) \/ Expire(t) PROVE Types'
  <2>1. /\ Revoked(conn, {t}) \in Database
        /\ Revoked(conn, {t}).user = conn.user
    BY <1>1, RevokedKeeps
  <2>2. /\ conn' \in {conn, Revoked(conn, {t})} /\ disk' \in {disk, conn'}
        /\ ended' \in {ended, ended \cup {t}}
        /\ UNCHANGED <<attempts, asked, changing, now, restarts, changes, unfinished,
                      acked, failures>>
    BY <1>6 DEF Logout, Expire, Commits, CommitRaises, history
  <2> QED
    BY <1>1, <1>2, <1>3, <2>1, <2>2 DEF Types, TypeOK, ChangeCommitted
<1>7. ASSUME NEW r \in Requests, NEW t \in Tokens, AskChange(r, t) PROVE Types'
  BY <1>3, <1>7
     DEF AskChange, tables, history, Types, TypeOK, AttemptsLeft, ChangeCommitted, LoopFree
<1>8. ASSUME NEW r \in Requests, RefuseChange(r) PROVE Types'
  BY <1>3, <1>8
     DEF RefuseChange, tables, history, Types, TypeOK, AttemptsLeft, ChangeCommitted, LoopFree
<1>9. ASSUME NEW r \in Requests, ReplaceUser(r) PROVE Types'
  <2> DEFINE db == [conn EXCEPT !.user = changes + 1]
  <2>1. Database \subseteq Database' /\ changes' = changes + 1 /\ changes' \in 0 .. MaxChanges
    BY <1>1, <1>9, DatabaseGrows, AccountBounds DEF ReplaceUser
  <2>2. changes + 1 \in Version'
    BY <1>1, <2>1 DEF Version
  <2>3. db \in Database' /\ db.user = changes + 1
    BY <1>1, <2>1, <2>2 DEF Database
  <2> HIDE DEF db
  <2>4. /\ conn' = db /\ disk' \in {disk, db}
        /\ asked' \in [Requests -> Tokens \cup {Nobody}]
        /\ changing' \in Requests \cup {Nobody}
        /\ changing' # Nobody => disk' = db
        /\ unfinished' \in {unfinished, changes + 1}
        /\ UNCHANGED <<attempts, now, restarts, acked, ended, failures>>
    BY <1>9 DEF ReplaceUser, Commits, CommitRaises, LoopFree, Types, TypeOK, db
  <2>5. acked' \in 0 .. changes' /\ unfinished' \in 0 .. changes'
    BY <1>1, <2>1, <2>4 DEF Types, TypeOK
  <2> QED
    BY <1>1, <2>1, <2>3, <2>4, <2>5
       DEF Types, TypeOK, AttemptsLeft, ChangeCommitted, LoopFree
<1>10. ASSUME RevokeSessions PROVE Types'
  <2>1. Existing \in SUBSET Tokens
    BY DEF Existing
  <2>2. Revoked(conn, Existing) \in Database
    BY <1>1, <2>1, RevokedKeeps
  <2>3. /\ conn' \in {conn, Revoked(conn, Existing)} /\ disk' \in {disk, conn'}
        /\ changing' = Nobody /\ asked' \in [Requests -> Tokens \cup {Nobody}]
        /\ unfinished' \in {unfinished, conn.user} /\ acked' \in {acked, conn.user}
        /\ ended' \subseteq Tokens
        /\ UNCHANGED <<attempts, now, restarts, changes, failures>>
    BY <1>10, <2>1
       DEF RevokeSessions, EndChange, Commits, CommitRaises, Raises, tables, Types, TypeOK
  <2>4. conn.user \in 0 .. changes
    BY <1>1, <1>10 DEF RevokeSessions, EndChange, Types, ChangeCommitted, Database, Version, NoUser
  <2> QED
    BY <1>1, <1>3, <2>2, <2>3, <2>4
       DEF Types, TypeOK, AttemptsLeft, ChangeCommitted, LoopFree
<1>11. ASSUME OtherCommit PROVE Types'
  BY <1>1, <1>2, <1>3, <1>11
     DEF OtherCommit, Commits, history, Types, TypeOK, ChangeCommitted
<1>12. ASSUME Tick PROVE Types'
  BY <1>1, <1>2, <1>3, <1>12 DEF Tick, tables, history, Types, TypeOK, ChangeCommitted
<1>13. ASSUME Restart PROVE Types'
  <2>1. PICK env \in BOOLEAN : conn' = WithAdmin(disk, env) /\ disk' = WithAdmin(disk, env)
    BY <1>13 DEF Restart, Commits
  <2>2. conn' \in Database /\ disk' \in Database
    BY <1>1, <2>1, WithAdminKeeps
  <2>3. unfinished' \in 0 .. changes
    BY <1>1, <1>13 DEF Restart, Types, TypeOK, ChangeCommitted, Database, Version, NoUser
  <2>4. attempts' \in [Clients -> [count : 0 .. MaxAttempts, until : Nat]] /\ AttemptsLeft'
    BY <1>13, LimitsType DEF Restart, NoAttempts, AttemptsLeft
  <2>5. /\ failures' \in [Clients -> Seq(Nat)] /\ changing' = Nobody
        /\ asked' \in [Requests -> Tokens \cup {Nobody}]
        /\ restarts' \in 0 .. MaxRestarts
        /\ UNCHANGED <<now, changes, acked, ended>>
    BY <1>13, AccountBounds DEF Restart, Types, TypeOK
  <2> QED
    BY <1>3, <2>2, <2>3, <2>4, <2>5 DEF Types, TypeOK, ChangeCommitted, LoopFree
<1>14. ASSUME UNCHANGED vars PROVE Types'
  BY <1>1, <1>2, <1>3, <1>14 DEF vars, tables, history, Types, TypeOK, ChangeCommitted
<1> QED
  BY <1>4, <1>5, <1>6, <1>7, <1>8, <1>9, <1>10, <1>11, <1>12, <1>13, <1>14 DEF Next

\* Whatever fails, and however requests and restarts overlap, the operator's state
\* stays well typed; no client that is not locked has used up its attempts.
THEOREM AccountTypes == Spec => []TypeOK
<1>1. Init => Types
  BY TypesInit
<1>2. Types /\ [Next]_vars => Types'
  BY TypesStep
<1>3. Types => TypeOK
  BY DEF Types
<1> QED
  BY <1>1, <1>2, <1>3, PTL DEF Spec

-----------------------------------------------------------------------------
(* The lockout                                                             *)

\* Where a client's failures stand in its history: the last count of them are those
\* that count, a lock began with the last, all of them came in the order of time,
\* and those that no longer count lie a lockout before those that do.
Window(c) ==
  LET n == Len(failures[c])
      k == n - attempts[c].count
      at(i) == failures[c][i]
  IN /\ attempts[c].count <= n
     /\ attempts[c].count = 0 => n = 0 /\ attempts[c].until = 0
     /\ attempts[c].until # 0 => attempts[c].until = at(n) + Lockout
     /\ \A i \in 1 .. n : at(i) <= now
     /\ \A i, j \in 1 .. n : i <= j => at(i) <= at(j)
     /\ \A i, j \in 1 .. n : i <= k /\ j > k => at(j) - at(i) >= Lockout

\* LockoutHolds for one client.
Apart(c) ==
  \A i, j \in DOMAIN failures[c] :
    j - i >= MaxAttempts => failures[c][j] - failures[c][i] >= Lockout

\* A failed login keeps the failures of its client a lockout apart.
LEMMA WindowMoves ==
  ASSUME Types, NEW c \in Clients, Window(c), Apart(c), LoginFails(c)
  PROVE  Window(c)' /\ Apart(c)'
<1> DEFINE f == failures[c]
           n == Len(f)
           count == Attempts(c).count
<1>1. /\ f \in Seq(Nat) /\ n \in Nat /\ now \in Nat /\ Lockout \in Nat \ {0}
      /\ MaxAttempts \in Nat \ {0} /\ \A i \in 1 .. n : f[i] \in Nat
      /\ DOMAIN f = 1 .. n
  BY LimitsType, LenProperties, ElementOfSeq DEF Types, TypeOK
<1>2. /\ attempts[c].count \in 0 .. MaxAttempts /\ attempts[c].until \in Nat
      /\ attempts[c].until = 0 => attempts[c].count < MaxAttempts
  BY DEF Types, TypeOK, AttemptsLeft
<1>3. now >= attempts[c].until
  BY <1>1, <1>2 DEF LoginFails, RateLimited
<1>4. count \in Nat /\ count < MaxAttempts /\ count <= n
      /\ (attempts[c].until = 0 => count = attempts[c].count)
      /\ (attempts[c].until # 0 => count = 0)
  BY <1>1, <1>2 DEF Attempts, NoAttempts, Window
<1>5. /\ attempts[c].count = 0 => n = 0 /\ attempts[c].until = 0
      /\ attempts[c].until # 0 => attempts[c].until = f[n] + Lockout
      /\ \A i \in 1 .. n : f[i] <= now
      /\ \A i, j \in 1 .. n : i <= j => f[i] <= f[j]
      /\ \A i, j \in 1 .. n : i <= n - attempts[c].count /\ j > n - attempts[c].count
                              => f[j] - f[i] >= Lockout
      /\ \A i, j \in 1 .. n : j - i >= MaxAttempts => f[j] - f[i] >= Lockout
      /\ attempts[c].count <= n
  BY <1>1 DEF Window, Apart
<1> DEFINE g == failures'[c]
<1>6. /\ DOMAIN g = 1 .. n + 1 /\ Len(g) = n + 1
      /\ \A i \in 1 .. n : g[i] = f[i]
      /\ g[n + 1] = now
  <2>1. g = Append(f, now)
    BY DEF LoginFails, Types, TypeOK
  <2> HIDE DEF f
  <2>2. g \in Seq(Nat) /\ Len(g) = n + 1
    BY <1>1, <2>1, AppendProperties
  <2> QED
    BY <1>1, <2>1, <2>2, AppendProperties, LenProperties
<1>7. /\ attempts'[c].count = count + 1
      /\ attempts'[c].until # 0 => attempts'[c].until = now + Lockout
      /\ now' = now
  BY DEF LoginFails, RecordFailure, Types, TypeOK
<1> HIDE DEF f, n, count, g
<1>8. \A i \in 1 .. n - count : now - f[i] >= Lockout
  <2> SUFFICES ASSUME NEW i \in 1 .. n - count PROVE now - f[i] >= Lockout
    OBVIOUS
  <2>1. i \in 1 .. n /\ n \in 1 .. n /\ f[i] \in Nat /\ f[n] \in Nat
    BY <1>1, <1>4
  <2>2. CASE attempts[c].until # 0
    <3>1. f[n] + Lockout <= now /\ f[i] <= f[n]
      BY <1>1, <1>3, <1>5, <2>1, <2>2
    <3> QED
      BY <1>1, <2>1, <3>1
  <2>3. CASE attempts[c].until = 0
    <3>1. n > n - attempts[c].count /\ i <= n - attempts[c].count
      BY <1>1, <1>2, <1>4, <1>5, <2>1, <2>3
    <3>2. f[n] - f[i] >= Lockout /\ f[n] <= now
      BY <1>5, <2>1, <3>1
    <3> QED
      BY <1>1, <2>1, <3>2
  <2> QED
    BY <2>2, <2>3
<1>9. \A i, j \in 1 .. n : i <= n - count /\ j > n - count => f[j] - f[i] >= Lockout
  <2>1. CASE attempts[c].until # 0
    BY <1>1, <1>4, <2>1
  <2>2. CASE attempts[c].until = 0
    BY <1>4, <1>5, <2>2
  <2> QED
    BY <2>1, <2>2
<1>10. \A i, j \in 1 .. n + 1 :
         /\ g[i] <= now
         /\ i <= j => g[i] <= g[j]
         /\ i <= n - count /\ j > n - count => g[j] - g[i] >= Lockout
         /\ j - i >= MaxAttempts => g[j] - g[i] >= Lockout
  <2> SUFFICES ASSUME NEW i \in 1 .. n + 1, NEW j \in 1 .. n + 1
               PROVE  /\ g[i] <= now
                      /\ i <= j => g[i] <= g[j]
                      /\ i <= n - count /\ j > n - count => g[j] - g[i] >= Lockout
                      /\ j - i >= MaxAttempts => g[j] - g[i] >= Lockout
    OBVIOUS
  <2>1. CASE i \in 1 .. n /\ j \in 1 .. n
    BY <1>1, <1>5, <1>6, <1>9, <2>1
  <2>2. CASE i \in 1 .. n /\ j = n + 1
    <3>1. j - i >= MaxAttempts => i <= n - count
      BY <1>1, <1>4, <2>2
    <3> QED
      BY <1>1, <1>5, <1>6, <1>8, <2>2, <3>1
  <2>3. CASE i = n + 1
    BY <1>1, <1>4, <1>5, <1>6, <2>3
  <2> QED
    BY <1>1, <2>1, <2>2, <2>3
<1>11. Window(c)'
  <2>1. /\ n + 1 - (count + 1) = n - count /\ count + 1 # 0 /\ count + 1 <= n + 1
        /\ attempts'[c].until # 0 => attempts'[c].until = g[n + 1] + Lockout
    <3>1. n \in Nat /\ count \in Nat /\ count <= n
      BY <1>1, <1>4
    <3>2. attempts'[c].until # 0 => attempts'[c].until = g[n + 1] + Lockout
      BY <1>6, <1>7
    <3> QED
      BY <3>1, <3>2
  <2>2. Len(g) - attempts'[c].count = n - count
    BY <1>1, <1>4, <1>6, <1>7, <2>1
  <2> QED
    <3>1. Len(g) = n + 1 /\ attempts'[c].count = count + 1 /\ now' = now
      BY <1>6, <1>7
    <3> SUFFICES
          /\ attempts'[c].count <= Len(g)
          /\ attempts'[c].count = 0 => Len(g) = 0 /\ attempts'[c].until = 0
          /\ attempts'[c].until # 0 => attempts'[c].until = g[Len(g)] + Lockout
          /\ \A i \in 1 .. Len(g) : g[i] <= now'
          /\ \A i, j \in 1 .. Len(g) : i <= j => g[i] <= g[j]
          /\ \A i, j \in 1 .. Len(g) :
                i <= Len(g) - attempts'[c].count /\ j > Len(g) - attempts'[c].count
                  => g[j] - g[i] >= Lockout
      BY DEF Window, g
    <3> QED
      BY <1>10, <2>1, <2>2, <3>1
<1>12. Apart(c)'
  BY <1>6, <1>10 DEF Apart, g
<1> QED
  BY <1>11, <1>12

\* A client's failures stay as they are but for its own logins and a restart.
LEMMA WindowStep ==
  ASSUME Types, [Next]_vars, NEW c \in Clients, Window(c), Apart(c)
  PROVE  Window(c)' /\ Apart(c)'
<1>1. now \in Nat /\ now' \in Nat /\ now <= now'
  <2>1. now \in Nat
    BY DEF Types, TypeOK
  <2>2. now' = now \/ now' = now + 1
    BY DEF Next, vars, LoginFails, Login, Logout, Expire, AskChange, RefuseChange,
           ReplaceUser, RevokeSessions, EndChange, OtherCommit, Tick, Restart
  <2> QED
    BY <2>1, <2>2
<1>2. ASSUME attempts'[c] = attempts[c], failures'[c] = failures[c]
      PROVE  Window(c)' /\ Apart(c)'
  <2>1. failures[c] \in Seq(Nat)
    BY DEF Types, TypeOK
  <2>2. Len(failures[c]) \in Nat /\ \A i \in 1 .. Len(failures[c]) : failures[c][i] \in Nat
    BY <2>1, LenProperties, ElementOfSeq
  <2>3. \A i \in 1 .. Len(failures[c]) : failures[c][i] <= now'
    BY <1>1, <2>2 DEF Window
  <2> QED
    BY <1>2, <2>3 DEF Window, Apart
<1>3. ASSUME attempts'[c] = NoAttempts, failures'[c] = <<>>
      PROVE  Window(c)' /\ Apart(c)'
  BY <1>3 DEF Window, Apart, NoAttempts
<1>4. ASSUME NEW d \in Clients, LoginFails(d) PROVE Window(c)' /\ Apart(c)'
  BY <1>2, <1>4, WindowMoves DEF LoginFails, Types, TypeOK
<1>5. ASSUME NEW d \in Clients, NEW t \in Tokens, Login(d, t)
      PROVE  Window(c)' /\ Apart(c)'
  BY <1>2, <1>3, <1>5 DEF Login, Types, TypeOK
<1>6. ASSUME Restart PROVE Window(c)' /\ Apart(c)'
  BY <1>3, <1>6 DEF Restart
<1>7. ASSUME UNCHANGED <<attempts, failures>> PROVE Window(c)' /\ Apart(c)'
  BY <1>2, <1>7
<1> QED
  BY <1>4, <1>5, <1>6, <1>7
     DEF Next, vars, tables, history, Logout, Expire, AskChange, RefuseChange, ReplaceUser,
         RevokeSessions, EndChange, OtherCommit, Tick

\* However logins of several clients, locks that pass and restarts follow each other,
\* no client fails more than MaxAttempts times within a lockout.
THEOREM LockoutKept == Spec => []LockoutHolds
<1> DEFINE Inv == Types /\ \A c \in Clients : Window(c) /\ Apart(c)
<1>1. Init => Inv
  <2> SUFFICES ASSUME Init PROVE Inv
    OBVIOUS
  <2>1. ASSUME NEW c \in Clients PROVE Window(c) /\ Apart(c)
    BY DEF Init, NoAttempts, Window, Apart
  <2> QED
    BY <2>1, TypesInit
<1>2. Inv /\ [Next]_vars => Inv'
  BY TypesStep, WindowStep
<1>3. Inv => LockoutHolds
  BY DEF Apart, LockoutHolds
<1> QED
  BY <1>1, <1>2, <1>3, PTL DEF Spec

-----------------------------------------------------------------------------
(* Sessions and the password                                               *)

\* No session is of a later password than the user's.
Owned(db) == \A t \in Tokens : db.sessions[t].by <= db.user

\* The sessions that are not revoked are the password's, or from before a change that
\* failed half-way.
Followed(db) ==
  \A t \in Tokens :
    db.sessions[t].revoked \/ db.sessions[t].by = db.user \/ db.sessions[t].by < unfinished

Followers ==
  /\ Owned(conn) /\ Owned(disk)
  /\ LoopFree => Followed(conn) /\ Followed(disk)

\* What the tables hold, in numbers.
LEMMA Fields ==
  ASSUME Types, NEW db \in Database
  PROVE  /\ db.user \in Int /\ db.user >= -1 /\ db.user <= changes
         /\ \A t \in Tokens : db.sessions[t].by \in Int /\ db.sessions[t].by >= -1
         /\ unfinished \in Nat /\ changes \in Nat
BY AccountBounds DEF Types, TypeOK, Database, Session, Version, NoUser

\* Revoking makes no session follow another password.
LEMMA RevokedFollows ==
  ASSUME Types, NEW db \in Database, NEW ts \in SUBSET Tokens, Owned(db)
  PROVE  Owned(Revoked(db, ts)) /\ (Followed(db) => Followed(Revoked(db, ts)))
<1> DEFINE new == Revoked(db, ts)
<1>1. new.user = db.user /\ \A t \in Tokens : new.sessions[t].by = db.sessions[t].by
        /\ (db.sessions[t].revoked => new.sessions[t].revoked)
  BY RevokedKeeps
<1> HIDE DEF new
<1>2. Owned(new)
  BY <1>1 DEF Owned
<1>3. Followed(db) => Followed(new)
  BY <1>1 DEF Followed
<1> QED
  BY <1>2, <1>3 DEF new

\* Every step keeps the sessions behind the password.
LEMMA FollowersStep == ASSUME Types, Followers, [Next]_vars PROVE Followers'
<1>1. conn \in Database /\ disk \in Database
  BY DEF Types, TypeOK
<1>2. ASSUME UNCHANGED unfinished, UNCHANGED changing,
             conn' = conn \/ (Owned(conn') /\ (LoopFree => Followed(conn'))),
             disk' = disk \/ disk' = conn'
      PROVE  Followers'
  BY <1>2 DEF Followers, Owned, Followed, LoopFree
<1>3. ASSUME NEW c \in Clients, LoginFails(c) PROVE Followers'
  BY <1>2, <1>3 DEF LoginFails, tables, history
<1>4. ASSUME NEW c \in Clients, NEW t \in Tokens, Login(c, t) PROVE Followers'
  <2> DEFINE new == [by |-> conn.user, until |-> now + Ttl, revoked |-> FALSE]
             db == [conn EXCEPT !.sessions[t] = new]
  <2>1. db.user = conn.user /\ \A u \in Tokens : db.sessions[u] = IF u = t THEN new ELSE conn.sessions[u]
    BY <1>1 DEF Database
  <2>2. Owned(db)
    BY <1>1, <2>1, Fields DEF Followers, Owned
  <2>3. Followed(conn) => Followed(db)
    BY <2>1 DEF Followed
  <2> QED
    BY <1>2, <1>4, <2>2, <2>3 DEF Login, Commits, Raises, tables, history, Followers
<1>5. ASSUME NEW t \in Tokens, Logout(t) \/ Expire(t) PROVE Followers'
  <2>1. /\ conn' = Revoked(conn, {t}) /\ disk' \in {disk, conn'}
        /\ UNCHANGED <<unfinished, changing>>
    BY <1>5 DEF Logout, Expire, Commits, CommitRaises, history
  <2> QED
    BY <1>1, <1>2, <2>1, RevokedFollows DEF Followers
<1>6. ASSUME NEW r \in Requests, RefuseChange(r) \/ \E t \in Tokens : AskChange(r, t)
      PROVE  Followers'
  BY <1>2, <1>6 DEF AskChange, RefuseChange, tables, history
<1>7. ASSUME NEW r \in Requests, ReplaceUser(r) PROVE Followers'
  <2> DEFINE db == [conn EXCEPT !.user = changes + 1]
  <2>1. db.user = changes + 1 /\ db.sessions = conn.sessions
    BY <1>1 DEF Database
  <2>2. /\ \A t \in Tokens : conn.sessions[t].by <= changes
        /\ \A t \in Tokens : disk.sessions[t].by <= changes
    BY <1>1, Fields DEF Followers, Owned
  <2>3. changes \in Nat /\ \A t \in Tokens : conn.sessions[t].by \in Int /\ disk.sessions[t].by \in Int
    BY <1>1, Fields
  <2>4. Owned(db)
    BY <2>1, <2>2, <2>3 DEF Owned
  <2>5. CASE changing' = r
    <3>1. conn' = db /\ disk' = db /\ ~ LoopFree'
      BY <1>7, <2>5, NobodyApart DEF ReplaceUser, Commits, LoopFree
    <3> QED
      BY <2>4, <3>1 DEF Followers, Owned
  <2>6. CASE changing' # r
    <3>1. conn' = db /\ disk' = disk /\ unfinished' = changes + 1
      BY <1>7, <2>6 DEF ReplaceUser, Commits, CommitRaises
    <3> QED
      BY <2>1, <2>2, <2>3, <2>4, <3>1 DEF Followers, Owned, Followed
  <2> QED
    BY <2>5, <2>6
<1>8. ASSUME RevokeSessions PROVE Followers'
  <2>1. Existing \in SUBSET Tokens
    BY DEF Existing
  <2>2. Owned(Revoked(conn, Existing))
    BY <1>1, <2>1, RevokedFollows DEF Followers
  <2>3. \A t \in Tokens : Revoked(conn, Existing).sessions[t].revoked
    BY <1>1, <2>1, RevokedKeeps DEF Existing, NoSession
  <2>4. CASE conn' = Revoked(conn, Existing) /\ disk' = Revoked(conn, Existing)
    BY <2>2, <2>3, <2>4 DEF Followers, Owned, Followed
  <2>5. CASE /\ conn' \in {conn, Revoked(conn, Existing)} /\ disk' = disk
             /\ unfinished' = conn.user
    <3>1. conn' \in {conn, Revoked(conn, Existing)} /\ disk' = disk
          /\ unfinished' = conn.user /\ disk.user = conn.user
      BY <1>8, <2>5 DEF RevokeSessions, EndChange, Types, ChangeCommitted
    <3>2. Owned(conn') /\ Owned(disk') /\ conn'.user = conn.user
      BY <1>1, <2>1, <2>2, <3>1, RevokedKeeps DEF Followers
    <3>3. \A t \in Tokens : conn'.sessions[t].by \in Int /\ disk'.sessions[t].by \in Int
      BY <1>1, <2>1, <3>1, RevokedKeeps, Fields
    <3> QED
      BY <1>1, <3>1, <3>2, <3>3, Fields DEF Followers, Owned, Followed
  <2> QED
    BY <1>8, <2>4, <2>5
       DEF RevokeSessions, EndChange, Commits, CommitRaises, Raises, tables
<1>9. ASSUME OtherCommit \/ Tick \/ UNCHANGED vars PROVE Followers'
  BY <1>2, <1>9 DEF OtherCommit, Tick, Commits, vars, tables, history
<1>10. ASSUME Restart PROVE Followers'
  <2>1. PICK env \in BOOLEAN : conn' = WithAdmin(disk, env) /\ disk' = WithAdmin(disk, env)
    BY <1>10 DEF Restart, Commits
  <2>2. /\ conn'.sessions = disk.sessions /\ disk' = conn'
        /\ conn'.user = disk.user \/ (disk.user = -1 /\ conn'.user = 0)
    BY <1>1, <2>1, WithAdminKeeps DEF NoUser
  <2>3. /\ disk.user \in Int /\ unfinished \in Nat
        /\ \A t \in Tokens : disk.sessions[t].by \in Int
    BY <1>1, Fields
  <2>4. \A t \in Tokens : disk.sessions[t].by <= disk.user
    BY DEF Followers, Owned
  <2>5. Owned(conn')
    BY <2>2, <2>3, <2>4 DEF Owned
  <2>6. CASE LoopFree
    <3>1. unfinished' = unfinished /\ Followed(disk)
      BY <1>10, <2>6 DEF Restart, Followers
    <3>2. \A t \in Tokens : conn'.sessions[t].revoked \/ conn'.sessions[t].by = conn'.user
            \/ conn'.sessions[t].by < unfinished'
      BY <2>2, <2>3, <2>4, <3>1 DEF Followed
    <3> QED
      BY <2>2, <2>5, <3>2 DEF Followers, Owned, Followed
  <2>7. CASE ~ LoopFree
    <3>1. unfinished' = disk.user /\ disk.user > 0
      BY <1>10, <2>7 DEF Restart, Types, ChangeCommitted
    <3>2. \A t \in Tokens : conn'.sessions[t].by = conn'.user \/ conn'.sessions[t].by < unfinished'
      BY <2>2, <2>3, <2>4, <3>1
    <3> QED
      BY <2>2, <2>5, <3>2 DEF Followers, Owned, Followed
  <2> QED
    BY <2>6, <2>7
<1> QED
  BY <1>3, <1>4, <1>5, <1>6, <1>7, <1>8, <1>9, <1>10 DEF Next

\* However requests overlap, commits fail and the process restarts, no session outlives
\* the password it was opened with, but for those from before a change cut in half.
THEOREM SessionsKept == Spec => []SessionsFollowPassword
<1> DEFINE Inv == Types /\ Followers
<1>1. Init => Inv
  <2> SUFFICES ASSUME Init PROVE Inv
    OBVIOUS
  <2>1. Types
    BY TypesInit
  <2>2. conn.sessions = [t \in Tokens |-> NoSession] /\ disk = conn
    BY DEF Init, WithAdmin
  <2>3. conn.user \in {-1, 0}
    BY DEF Init, WithAdmin, NoUser
  <2>4. Followers
    BY <2>2, <2>3 DEF Followers, Owned, Followed, NoSession, NoUser
  <2> QED
    BY <2>1, <2>4
<1>2. Inv /\ [Next]_vars => Inv'
  BY TypesStep, FollowersStep
<1>3. Inv => SessionsFollowPassword
  BY DEF Followers, Followed, SessionsFollowPassword, Usable
<1> QED
  BY <1>1, <1>2, <1>3, PTL DEF Spec

-----------------------------------------------------------------------------
(* What was answered                                                       *)

\* The sessions that exist in the tables are somebody's; the password is not older than
\* the last one answered ok, and the sessions answered ended are there, revoked.
Remembers(db) ==
  /\ \A t \in Tokens : db.sessions[t] # NoSession => db.sessions[t].by # NoUser
  /\ acked <= db.user \/ acked = 0
  /\ \A t \in ended : db.sessions[t].by # NoUser /\ db.sessions[t].revoked

\* Revoking forgets nothing, and what it revoked may be added to what was answered.
LEMMA RevokedRemembers ==
  ASSUME Types, NEW db \in Database, NEW ts \in SUBSET Tokens, Remembers(db)
  PROVE  /\ Remembers(Revoked(db, ts))
         /\ \A t \in ts : db.sessions[t] # NoSession =>
              /\ Revoked(db, ts).sessions[t].by # NoUser
              /\ Revoked(db, ts).sessions[t].revoked
<1> DEFINE new == Revoked(db, ts)
<1>1. /\ new.user = db.user /\ new.sessions \in [Tokens -> Session]
      /\ \A t \in Tokens :
           /\ new.sessions[t].by = db.sessions[t].by
           /\ new.sessions[t].until = db.sessions[t].until
           /\ (t \in ts \/ db.sessions[t].revoked => new.sessions[t].revoked)
  BY RevokedKeeps DEF Database
<1>2. \A t \in Tokens : db.sessions[t] \in Session
  BY DEF Database
<1>3. ended \subseteq Tokens
  BY DEF Types, TypeOK
<1>4. \A t \in Tokens : db.sessions[t] = NoSession => new.sessions[t] = NoSession
  <2> SUFFICES ASSUME NEW t \in Tokens, db.sessions[t] = NoSession PROVE new.sessions[t] = NoSession
    OBVIOUS
  <2> HIDE DEF new
  <2>1. new.sessions[t] \in Session /\ new.sessions[t].by = NoUser /\ new.sessions[t].until = 0
        /\ new.sessions[t].revoked = TRUE
    BY <1>1 DEF NoSession, Session
  <2> QED
    BY <2>1 DEF NoSession, Session
<1> HIDE DEF new
<1>5. Remembers(new)
  BY <1>1, <1>3, <1>4 DEF Remembers
<1>6. \A t \in ts : db.sessions[t] # NoSession => new.sessions[t].by # NoUser /\ new.sessions[t].revoked
  BY <1>1 DEF Remembers
<1> QED
  BY <1>5, <1>6 DEF new

\* Every step remembers.
LEMMA RemembersStep ==
  ASSUME Types, Remembers(conn), Remembers(disk), [Next]_vars
  PROVE  Remembers(conn)' /\ Remembers(disk)'
<1>1. conn \in Database /\ disk \in Database /\ changes \in Nat
      /\ acked \in 0 .. changes /\ ended \subseteq Tokens
  BY AccountBounds DEF Types, TypeOK
<1>2. ASSUME UNCHANGED <<acked, ended>>, conn' = conn \/ Remembers(conn'),
             disk' = disk \/ disk' = conn'
      PROVE  Remembers(conn)' /\ Remembers(disk)'
  BY <1>2 DEF Remembers
<1>3. ASSUME NEW c \in Clients, LoginFails(c) PROVE Remembers(conn)' /\ Remembers(disk)'
  BY <1>2, <1>3 DEF LoginFails, tables, history
<1>4. ASSUME NEW c \in Clients, NEW t \in Tokens, Login(c, t)
      PROVE  Remembers(conn)' /\ Remembers(disk)'
  <2> DEFINE new == [by |-> conn.user, until |-> now + Ttl, revoked |-> FALSE]
             db == [conn EXCEPT !.sessions[t] = new]
  <2>1. db.user = conn.user /\ \A u \in Tokens : db.sessions[u] = IF u = t THEN new ELSE conn.sessions[u]
    BY <1>1 DEF Database
  <2>2. conn.user # NoUser /\ conn.sessions[t] = NoSession
    BY <1>4 DEF Login
  <2>3. t \notin ended
    BY <2>2 DEF Remembers, NoSession
  <2>4. Remembers(db)
    BY <1>1, <2>1, <2>2, <2>3 DEF Remembers
  <2> HIDE DEF db
  <2>5. /\ (conn' = db /\ disk' = db) \/ (conn' = conn /\ disk' = disk)
        /\ UNCHANGED <<acked, ended>>
    BY <1>4 DEF Login, Commits, Raises, tables, history, db
  <2> QED
    BY <1>2, <2>4, <2>5
<1>5. ASSUME NEW t \in Tokens, Logout(t) PROVE Remembers(conn)' /\ Remembers(disk)'
  <2>1. Remembers(Revoked(conn, {t}))
    BY <1>1, RevokedRemembers
  <2>2. CASE Commits(Revoked(conn, {t})) /\ ended' = ended \cup {t}
    <3>1. Revoked(conn, {t}).sessions[t].by # NoUser /\ Revoked(conn, {t}).sessions[t].revoked
      BY <1>1, <1>5, RevokedRemembers DEF Logout
    <3>2. acked' = acked
      BY <1>5 DEF Logout
    <3> QED
      BY <2>1, <2>2, <3>1, <3>2 DEF Remembers, Commits
  <2>3. CASE CommitRaises(Revoked(conn, {t})) /\ UNCHANGED ended
    BY <1>2, <1>5, <2>1, <2>3 DEF Logout, CommitRaises
  <2> QED
    BY <1>5, <2>2, <2>3 DEF Logout
<1>6. ASSUME NEW t \in Tokens, Expire(t) PROVE Remembers(conn)' /\ Remembers(disk)'
  <2>1. Remembers(Revoked(conn, {t}))
    BY <1>1, RevokedRemembers
  <2> QED
    BY <1>2, <1>6, <2>1 DEF Expire, Commits, CommitRaises, history
<1>7. ASSUME NEW r \in Requests, RefuseChange(r) \/ \E t \in Tokens : AskChange(r, t)
      PROVE  Remembers(conn)' /\ Remembers(disk)'
  BY <1>2, <1>7 DEF AskChange, RefuseChange, tables, history
<1>8. ASSUME NEW r \in Requests, ReplaceUser(r) PROVE Remembers(conn)' /\ Remembers(disk)'
  <2> DEFINE db == [conn EXCEPT !.user = changes + 1]
  <2>1. db.user = changes + 1 /\ db.sessions = conn.sessions
    BY <1>1 DEF Database
  <2>2. Remembers(db)
    BY <1>1, <2>1 DEF Remembers
  <2> HIDE DEF db
  <2>3. conn' = db /\ disk' \in {disk, db} /\ UNCHANGED <<acked, ended>>
    BY <1>8 DEF ReplaceUser, Commits, CommitRaises, db
  <2> QED
    BY <1>2, <2>2, <2>3
<1>9. ASSUME RevokeSessions PROVE Remembers(conn)' /\ Remembers(disk)'
  <2>1. Existing \in SUBSET Tokens /\ \A t \in Existing : conn.sessions[t] # NoSession
    BY DEF Existing
  <2> DEFINE new == Revoked(conn, Existing)
  <2>2. /\ Remembers(new) /\ new.user = conn.user
        /\ \A t \in Existing : new.sessions[t].by # NoUser /\ new.sessions[t].revoked
    BY <1>1, <2>1, RevokedRemembers, RevokedKeeps
  <2> HIDE DEF new
  <2>3. CASE Commits(new) /\ acked' = conn.user /\ ended' = ended \cup Existing
    <3>1. conn.user \in Nat
      BY <1>1, <1>9, Fields DEF RevokeSessions, EndChange, Types, ChangeCommitted
    <3> QED
      BY <2>2, <2>3, <3>1 DEF Remembers, Commits
  <2>4. CASE (CommitRaises(new) \/ Raises) /\ UNCHANGED <<acked, ended>>
    BY <1>2, <2>2, <2>4 DEF CommitRaises, Raises, tables
  <2> QED
    BY <1>9, <2>3, <2>4 DEF RevokeSessions, EndChange, new
<1>10. ASSUME OtherCommit \/ Tick \/ UNCHANGED vars PROVE Remembers(conn)' /\ Remembers(disk)'
  BY <1>2, <1>10 DEF OtherCommit, Tick, Commits, vars, tables, history
<1>11. ASSUME Restart PROVE Remembers(conn)' /\ Remembers(disk)'
  <2>1. PICK env \in BOOLEAN : conn' = WithAdmin(disk, env) /\ disk' = WithAdmin(disk, env)
    BY <1>11 DEF Restart, Commits
  <2>2. /\ conn'.sessions = disk.sessions /\ disk' = conn'
        /\ conn'.user = disk.user \/ (disk.user = -1 /\ conn'.user = 0)
        /\ UNCHANGED <<acked, ended>>
    BY <1>1, <1>11, <2>1, WithAdminKeeps DEF NoUser, Restart
  <2>3. acked <= conn'.user \/ acked = 0
    BY <1>1, <2>2 DEF Remembers
  <2> QED
    BY <2>2, <2>3 DEF Remembers
<1> QED
  BY <1>3, <1>4, <1>5, <1>6, <1>7, <1>8, <1>9, <1>10, <1>11 DEF Next

\* Whatever fails afterwards, a password answered changed is not replaced by an older one,
\* and a session answered ended is never usable again.
THEOREM AcknowledgedKept == Spec => []AcknowledgedHolds
<1> DEFINE Inv == Types /\ Remembers(conn) /\ Remembers(disk)
<1>1. Init => Inv
  <2> SUFFICES ASSUME Init PROVE Inv
    OBVIOUS
  <2>1. Types
    BY TypesInit
  <2>2. conn.sessions = [t \in Tokens |-> NoSession] /\ disk = conn /\ acked = 0 /\ ended = {}
    BY DEF Init, WithAdmin
  <2> QED
    BY <2>1, <2>2 DEF Remembers
<1>2. Inv /\ [Next]_vars => Inv'
  BY TypesStep, RemembersStep
<1>3. Inv => AcknowledgedHolds
  <2> SUFFICES ASSUME Inv, NEW db \in {conn, disk}
               PROVE  (acked > 0 => db.user >= acked) /\ \A t \in ended : db.sessions[t].revoked
    BY DEF AcknowledgedHolds
  <2>1. db.user \in Int /\ acked \in Nat
    BY Fields, AccountBounds DEF Types, TypeOK
  <2> QED
    BY <2>1 DEF Remembers
<1> QED
  BY <1>1, <1>2, <1>3, PTL DEF Spec
=============================================================================
