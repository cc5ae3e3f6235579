--------------------------- MODULE ConfigurationBackup ---------------------------
(***************************************************************************)
(* core_configuration::sync_save_to_file() and the automatic backups       *)
(* (src/share/core_configuration/core_configuration.hpp), against the      *)
(* user editing karabiner.json in an editor and the wall clock moving      *)
(* either way.                                                             *)
(*                                                                         *)
(* A configuration is a model value: one of Contents (what a user may      *)
(* write), Default (the "Default profile" configuration the constructor    *)
(* falls back to) or Corrupt (a file parse_jsonc() rejects).  A backup     *)
(* karabiner_YYYYMMDD.json is an entry of the function backups from its    *)
(* day to the content copied; days are numbers, whose order is the         *)
(* lexicographic order of the yyyymmdd names std::sort uses.               *)
(***************************************************************************)
EXTENDS Integers, FiniteSets, Functions, TLC

CONSTANTS
  Contents,     \* configurations a user may write
  Default,      \* the fallback configuration of a failed load
  Corrupt,      \* a file that does not parse
  Absent,       \* no karabiner.json
  KeepCount,    \* keep_count of remove_old_backup_files() (20 in the code)
  Days          \* the local dates the clock may show

VARIABLES
  file,         \* karabiner.json
  mem,          \* to_json() of the core_configuration object in memory
  loaded,       \* its loaded_
  backups,      \* the automatic backups directory: day -> content
  today,        \* make_current_local_yyyymmdd_string()
  made,         \* history: the days a backup was ever created
  lastValid,    \* history: the configuration the user last made, in the
                \* editor or in the settings UI
  step          \* history: the operation that took the last step

vars == <<file, mem, loaded, backups, today, made, lastValid, step>>

Valid == Contents \cup {Default}

(* A new core_configuration built from the file: a configuration that      *)
(* parses is loaded; a missing or corrupt file leaves the fallback.        *)
Load ==
  /\ mem' = IF file \in Valid THEN file ELSE Default
  /\ loaded' = (file \in Valid)
  /\ step' = "load"
  /\ UNCHANGED <<file, backups, today, made, lastValid>>

(* The settings UI changes the configuration in memory (select_profile,    *)
(* a new rule, ...), to be saved later.                                    *)
Change(c) ==
  /\ mem' = c
  /\ lastValid' = c
  /\ step' = "change"
  /\ UNCHANGED <<file, loaded, backups, today, made>>

(* The user writes karabiner.json in an editor, possibly half-written.     *)
UserEdit(c) ==
  /\ file' = c
  /\ lastValid' = IF c \in Valid THEN c ELSE lastValid
  /\ step' = "edit"
  /\ UNCHANGED <<mem, loaded, backups, today, made>>

(* The local date moves on, or is set back (clock change, time zone).      *)
Tick(d) ==
  /\ today' = d
  /\ step' = "tick"
  /\ UNCHANGED <<file, mem, loaded, backups, made, lastValid>>

(* Mutant: the exists() check on karabiner.json dropped.                  *)
MakeBackupFileUnchecked(bs) ==
  IF today \in DOMAIN bs THEN bs ELSE bs @@ (today :> file)

(* make_backup_file(): copy karabiner.json to today's backup unless it is  *)
(* missing or today's backup exists.                                       *)
MakeBackupFile(bs) ==
  IF file = Absent \/ today \in DOMAIN bs THEN bs
  ELSE bs @@ (today :> file)

KeptDays(ds) ==
  {d \in ds : Cardinality({e \in ds : e > d}) < KeepCount}

(* remove_old_backup_files(): when more than keep_count backups exist,    *)
(* remove the first ones in sorted name order.                             *)
RemoveOldBackupFiles(bs) ==
  IF Cardinality(DOMAIN bs) > KeepCount
    THEN Restrict(bs, KeptDays(DOMAIN bs))
    ELSE bs

(* sync_save_to_file(): back up, rotate, then write to_json() over the     *)
(* file (json_writer writes it atomically).                                *)
SyncSaveToFile ==
  /\ backups' = RemoveOldBackupFiles(MakeBackupFile(backups))
  /\ made' = made \cup (IF file = Absent \/ today \in DOMAIN backups
                          THEN {} ELSE {today})
  /\ file' = mem
  /\ lastValid' = mem
  /\ step' = "save"
  /\ UNCHANGED <<mem, loaded, today>>

Init ==
  /\ file \in Valid \cup {Corrupt, Absent}
  /\ mem = IF file \in Valid THEN file ELSE Default
  /\ loaded = (file \in Valid)
  /\ backups = <<>>
  /\ today \in Days
  /\ made = {}
  /\ lastValid = IF file \in Valid THEN file ELSE Default
  /\ step = "init"

Next ==
  \/ Load
  \/ \E c \in Contents : Change(c)
  \/ \E c \in Contents \cup {Corrupt} : UserEdit(c)
  \/ \E d \in Days \ {today} : Tick(d)
  \/ SyncSaveToFile

Spec == Init /\ [][Next]_vars

TypeOK ==
  /\ file \in Valid \cup {Corrupt, Absent}
  /\ mem \in Valid
  /\ loaded \in BOOLEAN
  /\ DOMAIN backups \subseteq Days
  /\ \A d \in DOMAIN backups : backups[d] \in Valid \cup {Corrupt}
  /\ today \in Days
  /\ made \subseteq Days
  /\ lastValid \in Valid
  /\ step \in {"init", "load", "change", "edit", "tick", "save"}

(* Rotation by name (spec 6: "kept up to 20, sorted lexicographically"):   *)
(* whatever order the dates come in, clock set back included, the backups  *)
(* left are exactly the keep_count newest-named of all ever made, so the   *)
(* directory never holds more than keep_count and never drops a newer one  *)
(* while an older one stays.                                               *)
NewestNamed(S, n) ==
  CHOOSE T \in SUBSET S :
    /\ Cardinality(T) = IF Cardinality(S) < n THEN Cardinality(S) ELSE n
    /\ \A x \in T, y \in S \ T : x > y
Copies(f, m, bs) == {f, m} \cup Range(bs)
LossOnlyAfterFailedLoad ==
  [][(SyncSaveToFile /\ loaded /\ lastValid \in Copies(file, mem, backups))
       => lastValid \in Copies(file', mem', backups')]_vars
=============================================================================
