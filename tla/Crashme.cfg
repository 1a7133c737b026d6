SPECIFICATION FairSpec
CONSTANTS
  c1 = c1
  c2 = c2
  f1 = f1
  f2 = f2
  u1 = u1
  u2 = u2
  Conns = {c1, c2}
  Files = {"ctf_heap", "ctf_stack"}
  Writers = {"ctf_stack"}
  Concurrency = 1
  AcceptErrors = 1
  Names = {"ctf/heap", "heap", "ctf/stack"}
  Binary <- MCBinary
  KnownTasks = {"ctf/heap", "ctf/stack"}
  Users = {u1, u2}
  Flags = {f1, f2}
  MaxAttempts = 2
  NoFile = NoFile
  NoFlag = NoFlag
  NoUser = NoUser
INVARIANTS
  TypeOK
  PermitsAccounted
  FlagsEarned
  OneOwner
  OnlyCrashesFetch
PROPERTIES
  Answered
  GoneReleases
CHECK_DEADLOCK FALSE
