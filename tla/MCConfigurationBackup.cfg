\* Saves, edits, reloads and clock changes in any order.
CONSTANTS
  c1 = c1
  c2 = c2
  Default = Default
  Corrupt = Corrupt
  Absent = Absent
  Contents <- MCContents
  Days <- MCDays
  KeepCount = 2
SPECIFICATION Spec
INVARIANT TypeOK
 
