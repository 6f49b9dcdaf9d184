CONSTANTS
  t1 = t1
  t2 = t2
  u1 = u1
  u2 = u2
  s1 = s1
  s2 = s2
  s3 = s3
  Thread = {t1, t2}
  Mutex = {m1, m2}
  Unique = {u1, u2}
  Shared = {s1, s2, s3}
  ThreadOf <- MCThreadOf
  NoMutex = NoMutex
  Absent = Absent
SPECIFICATION Spec
INVARIANT OneKeeperPerHold
