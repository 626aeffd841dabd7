CONSTANTS
  Digits = {"1", "2"}
  Wide = {"w"}
  Newline = "newline"
  Comma = ","
  Subscribers = {"s", "t"}
  MinLen = 2
  MaxLen = 2
  MaxInput = 3
  MaxRetries = 2
  Overrides = {0, 4}
  Forever = 4
SPECIFICATION FairSpec
CHECK_DEADLOCK FALSE
INVARIANT DeliveredAsAsked
PROPERTIES Announces PlaybackEnds
