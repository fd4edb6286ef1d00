SPECIFICATION FairSpec
CONSTANTS
  v1 = v1
  v2 = v2
  p1 = p1
  p2 = p2
  p3 = p3
  Visits <- GroupVisits
  Participants <- GroupParticipants
  VisitOf <- GroupVisitOf
  SeriesOf <- EachItsOwn
  Shift <- NoShift
  Slots <- CloseSlots
  Early = 1
  Late = 1
  MaxTime = 5
  DayLength = 2
  CutoffHour = 1
  Zone <- SameZone
  SingleUse = FALSE
  Nodes = {n1}
PROPERTIES
  ExpectationEnds
  StayEnds
