CONSTANTS
  d1 = d1
  d2 = d2
  k1 = k1
  k2 = k2
  Devices = {d1, d2}
  Keys = {k1, k2}
  NoDevice = NoDevice
  Malformed = Malformed
  Profiles <- MCProfiles
  Motions = {}
  MaxQueue = 3

SPECIFICATION DSpec

PROPERTY ReleasedKeysSettle
