\* The save-time data loss the comment above sync_save_to_file() warns of.
CONSTANTS
  c1 = c1
  c2 = c2
  Default = Default
  Corrupt = Corrupt
  Absent = Absent
  Contents <- MCContents
  Days <- MCDays
  KeepCount = 2
SPECIFICATION Spec


PROPERTY LossOnlyAfterFailedLoad
