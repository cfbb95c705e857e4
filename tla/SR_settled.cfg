CONSTANTS
  DebounceTime <- MCDebounceTime
  PollTime <- MCPollTime
  Interval <- MCInterval
  Cooldown <- MCCooldown
  LongAgo <- MCLongAgo
SPECIFICATION FairSpec
INVARIANTS TypeOK ReadInTime
PROPERTY SettledIsRead
