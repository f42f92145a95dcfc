\* With the pool's destructor the system may stop for good: see ThreadPoolStop.cfg.
SPECIFICATION Spec
CONSTANTS Co = {c1, c2}  Nobody = Nobody  Cancellable = {c1, c2}
INVARIANTS JobNotLost FreeIsIdle FrameOutlivesJob
PROPERTIES CallsReturn
CHECK_DEADLOCK FALSE
