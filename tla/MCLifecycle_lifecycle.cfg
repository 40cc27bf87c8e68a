SPECIFICATION FairSpec
INVARIANTS TypeOK NeverTooEarly 
PROPERTY EventuallyStopped
CHECK_DEADLOCK FALSE
