CONSTANTS  Timeout = 5  Second = 2  MaxFaults = 1
SPECIFICATION Spec
INVARIANTS TimeoutIsEarned
 
