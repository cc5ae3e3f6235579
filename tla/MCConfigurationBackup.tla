------------------------ MODULE MCConfigurationBackup ------------------------
(* Two user configurations, keep_count scaled down to 2 and four dates, so *)
(* that rotation removes backups and a date can be revisited after the     *)
(* clock is set back.                                                      *)
EXTENDS ConfigurationBackup

CONSTANTS c1, c2

MCContents == {c1, c2}
MCDays == 1..4
=============================================================================
