CONSTANTS
  state = state
  wiring = wiring
  lifecycle = lifecycle
  database = database
  r1 = r1
  Absent = Absent
  Readers = {r1}
  Participants <- MCParticipants
  Wiring <- MCWiring
  Indicators = {lifecycle, database}
  State = state
  Lifecycle = lifecycle
  CheckTimeout = 2
  Generations = 2
SPECIFICATION FairProbesSpec
INVARIANT UpIsEarned
PROPERTY AnsweredInTime
CHECK_DEADLOCK FALSE
