\* Five posts on a counter of four values: the counter wraps.
CONSTANTS Threads = {t1, t2, t3}
          Initial = 1
          W = 4
          MaxPosts = 5
SPECIFICATION LFairSpec
INVARIANTS TypeOK NoLostWakeup NoOverdraft NoPermitLost
PROPERTY AtomicSemaphore
