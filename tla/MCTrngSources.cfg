SPECIFICATION SourcesSpec
CONSTANTS
  Depth = 2
  Mark = 0
  Samples = 1
  RomSize = 2
  Controls <- Managed
  Reconfigure = FALSE
  Bits = 3
  Durations = {0, 1, 2}
  Ro = {"ro0"}
  AvMax = 2
  rep_cutoff = 2
  rep_max = 3
  adp_cutoff = 1
  adp_max = 3
  window_max = 4
  exc_cutoff = 2
  exc_window = 2
  maxrun = 2
  runs_window = 2
  runs_min <- RunsAtLeast
  runs_max <- RunsAtMost
  MaxSamples <- SamplesOf
  MaxWrites = 2
INVARIANTS
  WordsSound
  XadcBackToSense
  TestsExact
PROPERTY DeadTimeKept
