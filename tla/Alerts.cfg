SPECIFICATION FairSpec
CONSTANTS
 Slot={1,2}
 MaxRule=2
 MaxPolls=2
 Value={0,2}
 Settings <- AllSettings
 InitialRules <- Beginnings
 MaxDisturbed=1
INVARIANTS TypeOK StateFollowsPolls ToldOnce
PROPERTIES StaysBreachedFires StaysCalmClears
