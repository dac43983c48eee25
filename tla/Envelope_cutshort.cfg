SPECIFICATION EnvelopeSpec
CONSTANTS
  Member = {m1, m2}
  Fates = {{"timesOut"}}
INVARIANTS WayBackIsKept
CHECK_DEADLOCK FALSE
