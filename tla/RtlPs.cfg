SPECIFICATION FairSpec
CONSTANT MaxRaces = 1
INVARIANTS RadioMatches WorkKeepsRadio
PROPERTIES SleepEnds IdleGoesOff
CHECK_DEADLOCK FALSE
