\* The system stops in the middle of Join: that is what the run shows.
SPECIFICATION Spec
CONSTANTS Co = {c1, c2}  Nobody = Nobody  Cancellable = {c1, c2}
PROPERTIES StopIsSeen
CHECK_DEADLOCK FALSE
