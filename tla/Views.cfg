SPECIFICATION Spec
CONSTANTS
 k1=k1
 k2=k2
 r1=r1
 r2=r2
 Subject={k1,k2}
 Row={r1,r2}
 None=None
 Screens <- AllScreens
 MaxCalls=2
 MaxSelects=1
 MaxPolls=1
CHECK_DEADLOCK FALSE
SYMMETRY Symmetry
INVARIANTS TypeOK ShowsSelected OwnChangesShown DialogRunsOnce FlagsAreBacked
