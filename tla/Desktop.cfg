SPECIFICATION Spec
CONSTANTS
  Queries = {q1, q2, Blank}
  q1 = q1
  q2 = q2
  Blank = Blank
  None = None
  Lost = Lost
  MaxEvents = 4
  Media = {a, b}
  a = a
  b = b
  MaxRequests = 3
  MaxSessions = 1
  MaxPending = 2
  Entities = {a, b}
  Grams = {"g", "h"}
  Titles <- MCTitles
  Items = {a, b}
  Cards = {c1, c2}
  First = First
  MaxEdits = 3
  Devices = {d1, d2}
  Controls = {"up", "back"}
  Repeating = {"up"}
  Back = "back"
  MaxInputs = 8
INVARIANTS
  ServerAnswersStand
  ResultsMatchFilter
  TrackingIsExact
  ShownIsServers
  PressesAreMeant
PROPERTIES
  PublishedIsAsked
  SearchesAvoidChanges
  ServicesSettle
CHECK_DEADLOCK FALSE
