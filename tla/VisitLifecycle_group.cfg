SPECIFICATION Spec
CONSTANTS
  v1 = v1
  v2 = v2
  p1 = p1
  p2 = p2
  p3 = p3
  Visits <- TwoVisits
  Participants <- TwoVisitParticipants
  VisitOf <- TwoVisitVisitOf
  SeriesOf <- AllOneSeries
  Shift <- WeeklyShift
  Slots <- TwoSlots
  Early = 1
  Late = 1
  MaxTime = 8
  DayLength = 4
  CutoffHour = 3
  Zone <- TwoZones
  SingleUse = TRUE
  Nodes = {n1, n2}
SYMMETRY MemberSymmetry
INVARIANTS
  IInv
  RosterAgrees
  ClosedIsClosed
  ExpectedGuestsCanEnter
  DoorAndSweepDisjoint
  AdmittedOnce
PROPERTIES
  DepartureIsFinal
  AdmissionIsPlanned
  ImplementsOccupancy
