CONSTANTS
  Commands = {c1, c2}
  Kinds = {"hyena", "onyx", "zero1", "pacifica", "rise", "nado", "omni", "ethereal"}
  Overlap = {"hyena"}
  HashOf <- MCHashOf
  Doubtful = {2}
  DayOf <- MCDayOf
  WeekLen = 3
  YearLen = 11
  Genesis = 23
  Deal <- MCDeal
  TypeOf <- MCTypeOf
  Points <- MCPoints
  MakerFee = 1
  TakerFee = 2
  PageSize = 2
  Lookback = 2
  Ttl = 1
  ArchiveLag = 2
  MaxLag = 0
  MaxFetch = 1
  MaxTime = 3
SYMMETRY Perms
SPECIFICATION MCSpec
INVARIANTS
  TypeOK
  NothingLost
  SumsAgree
  
CHECK_DEADLOCK FALSE
