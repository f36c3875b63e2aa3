CONSTANTS
  Timers = {"timer"}
  Conversions = {"adc"}
  Unseen = {"adc"}
  AudioPeriod = 3
  ConversionSlots = 2
  Delays = {0, 2}
  BootHold = 2
  RunSlots = 4
  Enables <- MCEnables
SPECIFICATION FairSpec
INVARIANTS LineIsFresh InterruptsBounded
PROPERTIES TimersOnTime ConversionsBounded SleeperWakes
