SPECIFICATION Spec
CONSTANTS
  Caller = {t1, t2}
  RedisKey = {k}
  MaxLength = 1
  MaxCommands = 2
INVARIANT RefusedSetFails
CHECK_DEADLOCK FALSE
