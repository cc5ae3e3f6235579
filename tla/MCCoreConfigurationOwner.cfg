\* The owner check against the file actually read, with karabiner.json
\* replaced by another process at any time.
CONSTANTS
  Files <- MCFiles
  MaxProfiles = 3
  MaxId = 8
SPECIFICATION Spec
INVARIANT LoadedFileOwnerValid
