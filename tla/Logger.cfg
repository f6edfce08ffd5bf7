CONSTANTS
  Threads = {t1, t2, t3}
  Nobody = Nobody
  MaxSaid = 2
SPECIFICATION Spec
INVARIANTS TypeOK LoggedIsPrinted
PROPERTY JournalSpec
CHECK_DEADLOCK FALSE
