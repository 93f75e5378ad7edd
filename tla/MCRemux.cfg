\* Three packets through queues of one, and two failures of the output, one and one
\* of the attempt to recover from it, or an outage.  The program may stop: it ends.
SPECIFICATION FairSpec
CONSTANTS
  MaxPkts = 3
  Keys = {1, 3}
  thread_queue_size = 1
  queue_size = 1
  Setups <- AllSetups
  Faults = {EIO, EINVAL, EXIT}
  MaxFaults = 2
  OK = OK
  EAGAIN = EAGAIN
  EOF = EOF
  EIO = EIO
  EINVAL = EINVAL
  EXIT = EXIT
  ENOMEM = ENOMEM
  NoError = NoError
  Idle = Idle
INVARIANTS
  TypeOK
  OutputFaithful
PROPERTIES
  Ends
CHECK_DEADLOCK FALSE
