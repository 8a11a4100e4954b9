\* The letters of files with the special bits: violated.
SPECIFICATION Spec
CONSTANTS
  UINT = 64
  ULL = 4096
  RlimMax = 3
  RlimitFails = FALSE
  Modes <- MCModes
  Ticks <- MCTicks
  Sizes = {0, 1, 63, 64, 65, 4095}
  Moments = {0, 1, 2, 3, 4, 5, 6, 7, 8, 9, 11, 12, 13}
  Drivers <- MCDrivers
  Devices <- MCDevices
  CLK = 4
INVARIANT SetuidShown
