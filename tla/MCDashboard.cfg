\* One client, two sessions, two overlapping changes of the password, one restart; series
\* of up to five candles, histories of up to three trades and four snapshots.
SPECIFICATION DashboardSpec
CONSTANTS
  Tokens = {t1, t2}
  Clients = {c1}
  Requests = {r1, r2}
  MaxAttempts = 2
  Lockout = 2
  Ttl = 1
  MaxTime = 3
  MaxChanges = 2
  MaxRestarts = 1
  Top = 5
  Shapes <- MCCandles
  MaxCandles = 5
  Starting = 4
  Pnls <- MCPnls
  Limit = 3
  MaxTrades = 3
  MaxSnaps = 4
INVARIANTS
  SessionsFollowPassword AcknowledgedHolds LockoutHolds
  MirrorImage Bounded StreaksFound DrawdownSeen
PROPERTY LevelsStay
SYMMETRY Swaps
CHECK_DEADLOCK FALSE
