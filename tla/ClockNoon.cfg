CONSTANTS
  Instants <- MCInstants
  MaxTicks = 2
SPECIFICATION ClockSpec
INVARIANT ShowsTheTime
