CONSTANTS
  d1 = d1
  d2 = d2
  k1 = k1
  k2 = k2
  k3 = k3
  Devices = {d1, d2}
  Keys = {k1, k2, k3}
  NoDevice = NoDevice
  Malformed = Malformed
  Profiles <- MCProfiles
  Motions <- MCMotions

SPECIFICATION Spec

INVARIANT TypeOK
PROPERTY DeviceScopedPairWins
PROPERTY ImplementsKeyOutputProtocol
 
