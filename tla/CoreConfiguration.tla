---------------------------- MODULE CoreConfiguration ----------------------------
(***************************************************************************)
(* krbn::core_configuration::core_configuration                            *)
(* (src/share/core_configuration/core_configuration.hpp): the profile      *)
(* vector a configuration object owns, how it is built from karabiner.json *)
(* and the operations the settings UI calls on it.                         *)
(*                                                                         *)
(* A profile is [id |-> n, selected |-> b]: n tells profile objects apart  *)
(* (a fresh number per std::make_shared), b is its "selected" flag; its    *)
(* name and rules do not affect selection and are left out.  A file is    *)
(* [exists, owner, parses, flags]: whether karabiner.json exists, its      *)
(* owner, whether parse_jsonc() and update_value() succeed, and the        *)
(* "selected" flags of its profiles in order.  Indices are the 0-based     *)
(* size_t of the code.                                                     *)
(***************************************************************************)
EXTENDS Integers, Sequences, SequencesExt, FiniteSets

CONSTANTS
  Files,        \* the karabiner.json contents a load may find
  MaxProfiles,  \* bound on the profile vector's length (push_back, duplicate)
  MaxId         \* bound on the profile objects created in one behaviour

VARIABLES
  profiles,     \* profiles_
  loaded,       \* loaded_
  nextId,       \* the id the next profile object gets
  disk,         \* karabiner.json as it is on disk now
  ctor,         \* "idle", or "owner_checked" between the owner check and
                \* the open of a constructor that is running
  readFrom      \* history: the file the current object read its profiles from

objVars == <<profiles, loaded, nextId>>
vars == <<profiles, loaded, nextId, disk, ctor, readFrom>>

Owners == {"root", "user", "other"}
File == [exists: BOOLEAN, owner: Owners, parses: BOOLEAN, flags: Seq(BOOLEAN)]

ASSUME Files \subseteq File

(* Fresh profile objects, one per flag, numbered from first.             *)
NewProfiles(flags, first) ==
  [i \in 1..Len(flags) |-> [id |-> first + i - 1, selected |-> flags[i]]]

(* The owner check: root (uid 0) or the expected session user.             *)
ValidOwner(f) == f.owner \in {"root", "user"}

(* exists() and is_owned(): the checks made on the path before opening.    *)
OwnerCheckPasses(f) == f.exists /\ ValidOwner(f)

(* The ifstream opens and parse_jsonc() and update_value() succeed on the  *)
(* file found at the path when it is opened (loaded_ = true).             *)
ReadsFile(f) == f.exists /\ f.parses

(* The profiles' flags after the constructor: those of the file read when  *)
(* the owner check passed, then the "Default profile" fallback, selected,  *)
(* when profiles_ is empty.                                                *)
ConstructedFlags(ok, f) ==
  LET fromFile == IF ok /\ ReadsFile(f) THEN f.flags ELSE <<>>
  IN IF fromFile = <<>> THEN <<TRUE>> ELSE fromFile

(* The constructor's end: the object the grabber and the settings UI take  *)
(* in place of the old one.                                                *)
Construct(ok, f) ==
  /\ nextId + Len(ConstructedFlags(ok, f)) <= MaxId + 1
  /\ profiles' = NewProfiles(ConstructedFlags(ok, f), nextId)
  /\ loaded' = (ok /\ ReadsFile(f))
  /\ nextId' = nextId + Len(ConstructedFlags(ok, f))

(* A new core_configuration starts (karabiner.json changed): the exists()  *)
(* and owner checks on the path; a failed check ends with the fallback.    *)
BeginLoad ==
  /\ ctor = "idle"
  /\ IF OwnerCheckPasses(disk)
       THEN ctor' = "owner_checked" /\ UNCHANGED <<objVars, readFrom>>
       ELSE Construct(FALSE, disk) /\ readFrom' = disk /\ UNCHANGED ctor
  /\ UNCHANGED disk

(* The constructor opens and parses whatever is at the path now.           *)
FinishLoad ==
  /\ ctor = "owner_checked"
  /\ Construct(TRUE, disk)
  /\ readFrom' = disk
  /\ ctor' = "idle"
  /\ UNCHANGED disk

(* Another process writes or replaces karabiner.json.                      *)
ReplaceFile(f) ==
  /\ disk' = f
  /\ UNCHANGED <<objVars, ctor, readFrom>>

(* Mutant: the range check written index <= size: an index one past the  *)
(* end clears every flag.                                                  *)
SelectProfileOffByOne(index) ==
  /\ index <= Len(profiles)
  /\ profiles' = [i \in DOMAIN profiles |->
                    [profiles[i] EXCEPT !.selected = (i - 1 = index)]]
  /\ UNCHANGED <<loaded, nextId>>

(* select_profile(index): the profile at index is selected, every other    *)
(* one unselected; an index out of range changes nothing.                  *)
SelectProfile(index) ==
  /\ index < Len(profiles)
  /\ profiles' = [i \in DOMAIN profiles |->
                    [profiles[i] EXCEPT !.selected = (i - 1 = index)]]
  /\ UNCHANGED <<loaded, nextId>>

(* push_back_profile(): a "New profile" without "selected" (false).        *)
PushBackProfile ==
  /\ Len(profiles) < MaxProfiles /\ nextId <= MaxId
  /\ profiles' = Append(profiles, [id |-> nextId, selected |-> FALSE])
  /\ nextId' = nextId + 1
  /\ UNCHANGED loaded

(* Mutant: the shared_ptr of the original pushed instead of a copy, so the *)
(* set_selected(false) meant for the copy also unselects the original.     *)
DuplicateProfileShared(index) ==
  /\ index < Len(profiles)
  /\ Len(profiles) < MaxProfiles /\ nextId <= MaxId
  /\ profiles' = LET ps == [profiles EXCEPT ![index + 1].selected = FALSE]
                 IN Append(ps, ps[index + 1])
  /\ UNCHANGED <<loaded, nextId>>

(* duplicate_profile(profile) of the profile at index: a copy appended,    *)
(* renamed " (copy)" and set unselected.                                   *)
DuplicateProfile(index) ==
  /\ index < Len(profiles)
  /\ Len(profiles) < MaxProfiles /\ nextId <= MaxId
  /\ profiles' = Append(profiles, [id |-> nextId, selected |-> FALSE])
  /\ nextId' = nextId + 1
  /\ UNCHANGED loaded

(* Mutant: erase_profile() without the size > 1 check.                     *)
EraseProfileLast(index) ==
  /\ index < Len(profiles)
  /\ profiles' = RemoveAt(profiles, index + 1)
  /\ UNCHANGED <<loaded, nextId>>

(* erase_profile(index): only an index in range, and never the last       *)
(* profile.                                                                *)
EraseProfile(index) ==
  /\ index < Len(profiles)
  /\ Len(profiles) > 1
  /\ profiles' = RemoveAt(profiles, index + 1)
  /\ UNCHANGED <<loaded, nextId>>

(* move_profile(source, destination): vector_utility::move_element, taken *)
(* as: both indices in range, the element removed and inserted at the      *)
(* destination.                                                            *)
MoveProfile(source, destination) ==
  /\ source < Len(profiles) /\ destination < Len(profiles)
  /\ profiles' = InsertAt(RemoveAt(profiles, source + 1), destination + 1,
                          profiles[source + 1])
  /\ UNCHANGED <<loaded, nextId>>

(* get_selected_profile(): the first profile flagged selected, else        *)
(* profiles_[0] (undefined behaviour on an empty vector: no profile).      *)
SelectedProfile(ps) ==
  LET i == SelectInSeq(ps, LAMBDA p : p.selected)
  IN IF i # 0 THEN ps[i] ELSE ps[1]

Init ==
  \E f \in Files :
    /\ profiles = NewProfiles(ConstructedFlags(OwnerCheckPasses(f), f), 1)
    /\ loaded = (OwnerCheckPasses(f) /\ ReadsFile(f))
    /\ nextId = 1 + Len(ConstructedFlags(OwnerCheckPasses(f), f))
    /\ disk = f
    /\ ctor = "idle"
    /\ readFrom = f

Indices == 0..MaxProfiles

(* The settings UI's operations on the current object.                    *)
Edit ==
  \/ \E i \in Indices : SelectProfile(i)
  \/ PushBackProfile
  \/ \E i \in Indices : DuplicateProfile(i)
  \/ \E i \in Indices : EraseProfile(i)
  \/ \E s, d \in Indices : MoveProfile(s, d)

Next ==
  \/ BeginLoad
  \/ FinishLoad
  \/ \E f \in Files : ReplaceFile(f)
  \/ Edit /\ UNCHANGED <<disk, ctor, readFrom>>

Spec == Init /\ [][Next]_vars

Profile == [id: 1..MaxId, selected: BOOLEAN]

TypeOK ==
  /\ profiles \in Seq(Profile)
  /\ IsInjective([i \in DOMAIN profiles |-> profiles[i].id])  \* distinct objects
  /\ Len(profiles) <= MaxProfiles
  /\ loaded \in BOOLEAN
  /\ nextId \in 1..MaxId + 1
  /\ disk \in Files /\ readFrom \in Files
  /\ ctor \in {"idle", "owner_checked"}

Ids(ps) == {ps[i].id : i \in DOMAIN ps}
Flagged(ps) == {ps[i].id : i \in {j \in DOMAIN ps : ps[j].selected}}

(* get_selected_profile() always has a profile to return: the constructor *)
(* adds the fallback and erase_profile() keeps the last one, so            *)
(* profiles_[0] is never read from an empty vector, whatever sequence of   *)
(* loads, erases, moves and duplicates the settings UI makes.              *)
SelectedProfileExists == profiles # <<>>

(* Once exactly one profile is flagged, the profile get_selected_profile() *)
(* returns changes only when select_profile() flags another one or the    *)
(* selected profile object goes away (erased, or a new configuration       *)
(* loaded): pushing, duplicating, moving and erasing other profiles never  *)
(* switch the profile the grabber applies.                                 *)
SelectionIsSticky ==
  [][ (/\ profiles # <<>> /\ profiles' # <<>>
       /\ Cardinality(Flagged(profiles)) = 1
       /\ SelectedProfile(profiles').id # SelectedProfile(profiles).id)
      => \/ SelectedProfile(profiles).id \notin Ids(profiles')
         \/ Flagged(profiles') = {SelectedProfile(profiles').id}
    ]_vars

(* The comment above the owner check: karabiner.json is loaded only when   *)
(* its owner is root or the current session user.  Stated of the file the  *)
(* loaded profiles were actually read from.                                 *)
LoadedFileOwnerValid == loaded => ValidOwner(readFrom)
=============================================================================
