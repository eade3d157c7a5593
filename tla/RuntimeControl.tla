--------------------------- MODULE RuntimeControl ---------------------------
(***************************************************************************)
(* system.control.update_config (src/sys-modules/control.ts) and             *)
(* system.control.toggle_feature (toggle.ts), the stores they persist to     *)
(* (overrides.ts, overrides-file.ts), and registerSysModules()               *)
(* (registration.ts), which restores the overrides when the process starts.  *)
(* An override is a <<kind, name>>: a configuration key or a module's toggle.*)
(* A key is also changed by a name that is not it: by the section it is in,  *)
(* which is replaced, or by the key spelled from apcore.  Such a name is a   *)
(* section here, with the one key of it that matters.                        *)
(***************************************************************************)
EXTENDS Integers

CONSTANTS
  BaseSettings,     \* what the configuration file says: key -> value
  PlaneKey,         \* sys_modules.control.enabled, one of its keys
  Restricted,       \* RESTRICTED_KEYS
  Legal,            \* CONSTRAINTS: key -> the values that pass
  Sections,         \* section -> the key that is changed with it
  NewValues,        \* the values update_config is called with
  Toggled,          \* the modules of the registry
  OldFile,          \* overrides in a file beside the store, <<>> for none
  MaxControls       \* bound: the control calls and the restarts

\* A constrained key is a setting, with its default if the file has none; a
\* section is not a setting.
ASSUME ControlAssumption ==
  /\ BaseSettings \in [DOMAIN BaseSettings -> {BaseSettings[k] : k \in DOMAIN BaseSettings}]
  /\ PlaneKey \in DOMAIN BaseSettings
  /\ DOMAIN Legal \cup Restricted \subseteq DOMAIN BaseSettings
  /\ Sections \in [DOMAIN Sections -> DOMAIN BaseSettings]
  /\ DOMAIN Sections \cap DOMAIN BaseSettings = {}

VARIABLES
  wiring,       \* [mode, store]: how the process is set up, "" before it runs
  live,         \* [settings, disabled, plane]: the Config and the ToggleState,
                \* and whether the control modules are registered
  kept,         \* what the store holds: override -> value
  writes,       \* the read-modify-writes of an asynchronous store under way
  unkept,       \* history: the overrides a write of theirs was disturbed of
  given,        \* history: the overrides given since the store was empty
  unread,       \* history: those that the process did not read when it started
  reached,      \* history: the keys that a section has been written over
  controls      \* bound: how many calls there were

controlVars == <<wiring, live, kept, writes, unkept, given, unread, reached, controls>>

Config_(key) == <<"config", key>>
Toggle_(m) == <<"toggle", m>>

\* A toggle's override: FALSE, and TRUE.
Off == "off"
On  == "on"

\* A store is none, a file (a synchronous store that swallows its errors), a
\* custom synchronous one, or an asynchronous one.
Wirings == [mode : {"legacy", "namespace"}, store : {"none", "file", "custom", "async"}]

\* What the overrides may make of a key: the store's order decides between the
\* key and its section, and a section spelled from apcore may lead nowhere.
Sayings(state, overrides, key) ==
  {overrides[x] : x \in DOMAIN overrides \cap
                        ({Config_(key)} \cup {Config_(s) : s \in {y \in DOMAIN Sections : Sections[y] = key}})}
  \cup {state.settings[key] : x \in {Config_(key)} \ DOMAIN overrides}

Restorings(state, overrides) ==
  {f \in [DOMAIN state.settings -> UNION {Sayings(state, overrides, key) : key \in DOMAIN state.settings}] :
     \A key \in DOMAIN f : f[key] \in Sayings(state, overrides, key)}

\* mutant: a toggle is restored as a configuration entry.
TogglesInert(state, overrides) ==
  {[state EXCEPT !.settings = f] : f \in Restorings(state, overrides)}

\* _applyOverrides: settings through config.set(), toggles to the ToggleState.
ApplyOverrides(state, overrides) ==
  {[state EXCEPT
      !.settings = f,
      !.disabled = {m \in Toggled : IF Toggle_(m) \in DOMAIN overrides
                                      THEN overrides[Toggle_(m)] = Off ELSE m \in @}]
     : f \in Restorings(state, overrides)}

\* registerSysModules() of a new process: the file beside an explicit store
\* first, the store last, an asynchronous one not at all.  In namespace mode
\* the flags are those of the section as it was before.
Booted(w, old, overrides) ==
  LET fresh == [settings |-> BaseSettings, disabled |-> {}, plane |-> TRUE]
      beside == IF w.store \in {"custom", "async"} THEN ApplyOverrides(fresh, old) ELSE {fresh}
      restored == IF w.store \in {"file", "custom"} THEN UNION {ApplyOverrides(b, overrides) : b \in beside}
                  ELSE beside
      Flags(r) == IF w.mode = "namespace" THEN BaseSettings ELSE r.settings
  IN {[r EXCEPT !.plane = Flags(r)[PlaneKey] # "off"] : r \in restored}

ControlInit ==
  /\ wiring = [mode |-> "", store |-> "none"]
  /\ live = [settings |-> BaseSettings, disabled |-> {}, plane |-> FALSE]
  /\ kept = <<>> /\ writes = {} /\ unkept = {} /\ given = {} /\ unread = {} /\ reached = {}
  /\ controls = 0

ProcessStarts ==
  /\ wiring.mode = "" /\ wiring' \in Wirings
  /\ \E old \in {OldFile, <<>>} : live' \in Booted(wiring', old, kept)
  /\ UNCHANGED <<kept, writes, unkept, given, unread, reached, controls>>

Counted == live.plane /\ controls < MaxControls /\ controls' = controls + 1

----------------------------------------------------------------------------
(* Persisting *)

SetOverride(overrides, k, v) ==
  [x \in DOMAIN overrides \cup {k} |-> IF x = k THEN v ELSE overrides[x]]

\* What happens to one read-modify-write: a file that cannot be read is empty,
\* one that cannot be written stays; a custom store throws at either end; all
\* of them are logged and the call succeeds.
SyncOutcomes(k, v) ==
  {[kept |-> SetOverride(kept, k, v), lost |-> {}],
   [kept |-> kept, lost |-> {k}]}
  \cup (IF wiring.store = "file" THEN {[kept |-> SetOverride(<<>>, k, v), lost |-> DOMAIN kept \ {k}]} ELSE {})

\* An asynchronous store: load() is called in this turn, its answer comes later.
StartWrite(k, v) ==
  /\ writes' = writes \cup {[id |-> controls, key |-> k, value |-> v, saving |-> FALSE, seen |-> <<>>]}
  /\ unkept' = IF writes = {} THEN unkept \ {k} ELSE unkept \cup {k} \cup {w.key : w \in writes}
  /\ UNCHANGED kept

\* _persistOverrideToStore and _persistToggleOverride
Persist(k, v) ==
  /\ given' = IF wiring.store = "none" THEN given ELSE given \cup {k}
  /\ unread' = unread \ {k}
  /\ CASE wiring.store = "none" -> UNCHANGED <<kept, writes, unkept>>
       [] wiring.store = "async" -> StartWrite(k, v)
       [] OTHER -> \E o \in SyncOutcomes(k, v) :
                     /\ kept' = o.kept /\ unkept' = (unkept \ {k}) \cup o.lost
                     /\ UNCHANGED writes

\* The store answers load(): the entry is added to what it was then.
LoadAnswers(w) ==
  /\ w \in writes /\ ~w.saving
  /\ writes' = (writes \ {w}) \cup {[w EXCEPT !.saving = TRUE, !.seen = SetOverride(kept, w.key, w.value)]}
  /\ UNCHANGED <<wiring, live, kept, unkept, given, unread, reached, controls>>

\* save() replaces the whole set.
SaveDone(w) ==
  /\ w \in writes /\ w.saving
  /\ kept' = w.seen /\ writes' = writes \ {w}
  /\ UNCHANGED <<wiring, live, unkept, given, unread, reached, controls>>

\* load() or save() rejects.
WriteFails(w) ==
  /\ w \in writes
  /\ writes' = writes \ {w} /\ unkept' = unkept \cup {w.key}
  /\ UNCHANGED <<wiring, live, kept, given, unread, reached, controls>>

----------------------------------------------------------------------------
(* The control modules *)

\* update_config of a restricted key, or of a value that the constraint turns
\* down after it was set: the old value is set again.
UpdateRefused(key, v) ==
  /\ Counted
  /\ key \in Restricted \/ (key \in DOMAIN Legal /\ v \notin Legal[key])
  /\ UNCHANGED <<wiring, live, kept, writes, unkept, given, unread, reached>>

Accepted(key, v) == key \notin Restricted /\ (key \in DOMAIN Legal => v \in Legal[key])

\* The override is persisted before the audit entry is written; when that
\* throws the call has failed, and the value stays.
UpdateConfig(key, v) ==
  /\ Counted /\ Accepted(key, v)
  /\ live' = [live EXCEPT !.settings[key] = v]
  /\ Persist(Config_(key), v)
  /\ UNCHANGED <<wiring, reached>>

\* update_config of a section: the restricted keys and the constraints are looked
\* up by the name that is given, which is neither.
UpdateSection(section, v) ==
  /\ Counted
  /\ live' = [live EXCEPT !.settings[Sections[section]] = v] \/ live' = live
  /\ reached' = reached \cup {Sections[section]}
  /\ Persist(Config_(section), v)
  /\ UNCHANGED wiring

\* toggle_feature: the audit entry comes first, so that when it throws the
\* toggle is in force and not persisted.
ToggleFeature(m, enabled) ==
  /\ Counted
  /\ live' = [live EXCEPT !.disabled = IF enabled THEN @ \ {m} ELSE @ \cup {m}]
  /\ \/ Persist(Toggle_(m), IF enabled THEN On ELSE Off)
     \/ /\ unkept' = unkept \cup {Toggle_(m)}
        /\ UNCHANGED <<kept, writes, given, unread>>
  /\ UNCHANGED <<wiring, reached>>

\* The process ends and starts again.  Of the writes that were under way, those
\* that are being saved may still arrive.  A store, or a file beside it, that
\* cannot be read is logged and taken for empty.
Restart ==
  /\ wiring.mode # "" /\ controls < MaxControls /\ controls' = controls + 1
  /\ \E old \in {OldFile, <<>>}, read \in {kept, <<>>} :
       /\ live' \in Booted(wiring, old, read)
       /\ unread' = DOMAIN kept \ DOMAIN read
  /\ writes' \in SUBSET {w \in writes : w.saving}
  /\ unkept' = unkept \cup {w.key : w \in writes \ writes'}
  /\ UNCHANGED <<wiring, kept, given, reached>>

ControlNext ==
  \/ ProcessStarts \/ Restart
  \/ \E k \in DOMAIN BaseSettings, v \in NewValues : UpdateConfig(k, v) \/ UpdateRefused(k, v)
  \/ \E section \in DOMAIN Sections, v \in NewValues : UpdateSection(section, v)
  \/ \E m \in Toggled, e \in BOOLEAN : ToggleFeature(m, e)
  \/ \E w \in writes : LoadAnswers(w) \/ SaveDone(w) \/ WriteFails(w)

ControlSpec == ControlInit /\ [][ControlNext]_controlVars

----------------------------------------------------------------------------
(* Properties *)

InForce(k) == IF k[1] = "toggle" THEN (IF k[2] \in live.disabled THEN Off ELSE On) ELSE live.settings[k[2]]

Reached(k) == k[1] = "config" /\ (k[2] \in DOMAIN Sections \/ k[2] \in reached)

\* What the control modules were told is what a restart finds: an override
\* whose write is over is in the store, unless its write failed, the file could
\* not be read while another was written, or it was written while another write
\* was under way.  And it is in the store as it is in force, before and after a
\* restart, unless the store could not be read at the last one, or a section has
\* been written that has the key.
OverridesKept ==
  \A k \in given \ unkept :
    \/ \E w \in writes : w.key = k
    \/ /\ k \in DOMAIN kept
       /\ wiring.store # "async" /\ k \notin unread /\ ~Reached(k) => kept[k] = InForce(k)

\* Neither a call nor a restart brings a value in force, or into the store, that
\* a constraint or the list of restricted keys turns down, for a key that is
\* changed by its own name.
ConstraintsKept ==
  /\ \A key \in DOMAIN Legal \ reached : live.settings[key] \in Legal[key]
  /\ \A key \in Restricted \ reached : live.settings[key] = BaseSettings[key]
  /\ \A k \in DOMAIN kept : k[1] = "config" =>
       k[2] \notin Restricted /\ (k[2] \in DOMAIN Legal => kept[k] \in Legal[k[2]])

\* What an operator has set survives a restart, and stays within the constraints.
OverridesDurable == OverridesKept /\ ConstraintsKept
=============================================================================
