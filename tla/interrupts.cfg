\* The vertical blank, a root counter and a device; every call from anywhere.
CONSTANTS
  Rising = {"vsync", "rcnt1", "device"}
  Timers = {1}
  PortBuffers = {0, 1}
  WordBuffers = {2}
  PadIds = {65, 128, 255}
SPECIFICATION FairSpec
INVARIANTS EventsAsDue TickPending PadsWrittenAsAsked
PROPERTIES InterruptsStayEnabled PendingIsServed
