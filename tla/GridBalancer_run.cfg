SPECIFICATION FairSpec
CONSTANTS
  Capacity = 20
  Critical = 1
  Low = 2
  Full = 19
  MaxCharge = 1
  MaxDischarge = 2
  Baseload = 17
  TotalCapacity = 22
  Threshold = 95
  Demands = {15, 16, 17, 18, 19, 20, 21}
INVARIANTS TypeOK CriticalReserve
PROPERTIES ThrottleIsLastResort SurplusFills
