SPECIFICATION Spec
CONSTANTS Null = Null Marker = Marker Part = Part Undefined = Undefined Parked = Parked
INVARIANTS ReadsBack ReadsEngine SharesHonest
CHECK_DEADLOCK FALSE
