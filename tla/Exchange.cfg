SPECIFICATION FairSpec
CONSTANTS
  Envs <- MCEnvs
  Junk = Junk
  Minute = 1
  Day = 1
  Code <- MCCode
  Short <- MCShort
  Procs = {p1, p2}
  MaxStall = 1
  MaxTime = 5
INVARIANTS TypeOK RatesFresh RatesOfBase
PROPERTY Answered
