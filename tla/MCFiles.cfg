CONSTANTS
  Parts = {"store", "affinity"}
  Savers = {s1, s2}
  Readers = {r1}
  Updates = {u1, u2}
  Absent = Absent
  Free = Free
  Unowned = Unowned
  Retries = 1
  MaxSaves = 2
  MaxFaults = 2
  p1 = p1
  p2 = p2
  native = native
  codex = codex
  Procs = {p1, p2}
  Sessions = {x1}
  Accounts = {a1}
  Modes = {native, codex}
  ModeOf <- MCModeOf
  NoSession = NoSession
  MissingGrace = 1
  SessionTTL = 2
  MaxKeys = 2
  MaxUses <- MCMaxUses
  LastTick = 2
SPECIFICATION Spec
INVARIANTS FilesSound OneSaverInside
PROPERTIES SavesAreAtomic KeepsLiveSessions EveryQueueDrains
CHECK_DEADLOCK FALSE
