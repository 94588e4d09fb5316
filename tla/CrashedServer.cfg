SPECIFICATION Spec
CONSTANTS Null = Null Marker = Marker Part = Part Undefined = Undefined Parked = Parked
INVARIANTS CrashedIsVisible
CHECK_DEADLOCK FALSE
