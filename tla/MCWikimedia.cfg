SPECIFICATION FairSpec
CONSTANTS
  drain = drain
  retry = retry
  stream = stream
  Fetcher = {drain, retry}
  Reader = {stream}
  Lags = {0, 3}
  Interval = 1
  Threshold = 1
  Cooldown = 2
  FetchTimeout = 6
  Maxlag = 1
  MaxlagMax = 3
  BackoffInit = 1
  BackoffMax = 2
  Minute = 2
  RetryAfters = {1, 2}
CHECK_DEADLOCK FALSE
PROPERTIES
  PolicyKept
  GetsThrough
