SPECIFICATION Spec
CONSTANTS
 q1=q1
 q2=q2
 Request={q1,q2}
 MaxUsers=2
 MaxId=3
 MaxRequests=3
CHECK_DEADLOCK FALSE
SYMMETRY Symmetry
INVARIANTS TypeOK AdminStays DisabledIsSignedOut AssignmentsHaveUser LimitHolds
