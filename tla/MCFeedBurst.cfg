\* Two starts are enough, and a minute of two intervals.
CONSTANTS
  Tickers = 2
  Loops = 2
  PerMinute = 2
SPECIFICATION BurstSpec
INVARIANT CannotBurst
