SPECIFICATION MCSpec
CONSTANTS
  Period = 4
  TickUs = 2
  PerMilli = 6
  FractUnit = 2
  Word = 12
  Half = 4
  Latency = 2
  LookWithin = 3
  LookAgain = 3
  MaxTicks = 50
  Delays <- DelayArguments
  Pins <- TwoPins
  Tones <- ShortTones
  IntWord = 8
  Byte = 4
  PerSecond = 3
INVARIANTS MillisExact MillisNotTorn MicrosExact AtRest DurationExact
PROPERTIES DelayExact DelayReturns ToneEnds
