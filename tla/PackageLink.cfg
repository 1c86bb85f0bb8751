CONSTANTS
  Words = {0, 1, 127, 128, 255, 256, 257, 32767, 32768, 65279, 65280, 65535}
SPECIFICATION LinkSpec
INVARIANT
  PackageKept
CHECK_DEADLOCK FALSE
