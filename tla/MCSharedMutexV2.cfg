CONSTANTS
  Thread = {t1, t2, t3, t4}
SPECIFICATION FairSpec
INVARIANTS TypeOK MutualExclusion NoLostWakeup
PROPERTIES ImplementsSharedMutex WriterAdmitted
