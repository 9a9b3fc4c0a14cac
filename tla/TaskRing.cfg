\* A ring of four slots and two tasks, so that every position of head and
\* tail, the full ring and several wraps are reached.
CONSTANTS
  Task = {session, reboot}
  Zero = session
  Size = 4
  None = none
  Done = done
  Failed = failed
SPECIFICATION RingSpec
PROPERTIES ImplementsFifo
