\* Two goroutines log; the page reconnects, sometimes before the handler of its
\* last connection has gone, and polls.
SPECIFICATION FairSpec
CONSTANTS
  Loggers = {1, 2}
  Polls = {1, 2}
  BufCap = 2
  QueueCap = 2
  ConsoleCap = 2
  Filters = {"info"}
  Level <- SecondDiffers
  StreamPolls = {}
  MaxEvents = 3
  MaxConns = 2
INVARIANTS
  TypeOK
  NoGap
  NoneSkipped
PROPERTY EventuallyShown
