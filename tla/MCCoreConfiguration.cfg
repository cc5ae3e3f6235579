\* Profiles: loads, selection and the settings UI's edits in any order.
CONSTANTS
  Files <- MCFiles
  MaxProfiles = 3
  MaxId = 8
SPECIFICATION Spec
INVARIANT TypeOK
INVARIANT SelectedProfileExists
PROPERTY SelectionIsSticky
