SPECIFICATION MCSpec
CONSTANTS
  tui = tui
  web = web
  delete = delete
  write = write
  Surface = {tui, web}
  Action = {delete, write}
  Validity = 1
  MaxId = 2
  MaxTime = 2
  once = once
  again = again
  interval = interval
  daily = daily
  weekly = weekly
  Entry = {once, again, interval, daily, weekly}
  Define <- MCDefine
  Cooldown = 2
  MaxPerTick = 2
  Day = 2
  LastMoment = 5
  MaxFaults = 1
SYMMETRY Alike
INVARIANTS
  ConsentBinds
  FiresWhenDue
  Retires
PROPERTY DecisionStands
