CONSTANTS
  Managers = {m1, m2, m3, m4, m5, m6, m7}
  NoManager = NoManager
  Startup = Startup
  Tasks = {t1, t2, t3, t4, t5}
  MaxTries = 2
  MaxOutages = 1
  MaxDrops = 1
  MaxStops = 1
SPECIFICATION FairSpec
CHECK_DEADLOCK FALSE
INVARIANTS TypeOK FlagIsHonest OneLink FlagIsCurrent
PROPERTIES GivesUpOnlyExhausted Reconnects StartupEnds EventsReturn
