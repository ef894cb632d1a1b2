------------------------------ MODULE Settings ------------------------------
(***************************************************************************)
(* Settings that clients change while the backend runs: config_service.py  *)
(* (overrides on top of the environment's settings, kept in a file) with   *)
(* the handlers that call it, the per-tool configurations of               *)
(* tool_config_store.py and the command patterns of command_security.py.   *)
(* The handlers run to completion on the event loop. Left out: what the    *)
(* fields mean; the metadata listings.                                     *)
(***************************************************************************)
EXTENDS Naturals, FiniteSets, FiniteSetsExt, SequencesExt

CONSTANTS
    Fields,         \* of all sections
    Sections,
    SectionOf,      \* [field -> section]
    Sensitive,      \* SENSITIVE_FIELDS
    Values,
    Acceptable,     \* [field -> values its section's model accepts]
    Coerced,        \* [field -> [value -> what its section's model makes of it]]
    Env,            \* [field -> value read from the environment]
    Unset,          \* no override
    MaxSaveFailures \* bound: writes of the overrides file that fail

ASSUME SettingsAssumption ==
    /\ Sensitive \subseteq Fields /\ Unset \notin Values /\ MaxSaveFailures \in Nat
    /\ Env \in [Fields -> Values]
    /\ \A f \in Fields : SectionOf[f] \in Sections /\ Acceptable[f] \subseteq Values /\ Coerced[f] \in [Values -> Values]

Overrides == [Fields -> Values \union {Unset}]
NoOverrides == [f \in Fields |-> Unset]

-----------------------------------------------------------------------------
VARIABLES
    persistent, \* _persistent_overrides
    transient,  \* _transient_overrides
    settings,   \* [field -> value of the Settings object the backend reads]
    onDisk,     \* config_overrides.json
    lingering,  \* history: fields reset since the start, and not set since
    unwritten,  \* history: fields changed since the file was last written
    saveFailures
settingsVars == <<persistent, transient, settings, onDisk, lingering, unwritten, saveFailures>>

(* get_value: transient, then persistent, then the settings. *)
Effective(f) ==
    IF transient[f] # Unset THEN transient[f]
    ELSE IF persistent[f] # Unset THEN persistent[f] ELSE settings[f]

(* get_section: clients are shown the value as the section's model reads it. *)
Presented(f) == Coerced[f][Effective(f)]

Applied(overrides) == [f \in Fields |-> IF overrides[f] # Unset THEN overrides[f] ELSE Env[f]]

SettingsInit ==
    /\ persistent = NoOverrides /\ transient = NoOverrides /\ onDisk = NoOverrides
    /\ settings = Env /\ lingering = {} /\ unwritten = {} /\ saveFailures = 0

(* A new process reads the environment and applies the file on top. *)
RestartSettings ==
    /\ persistent' = onDisk /\ transient' = NoOverrides
    /\ settings' = Applied(onDisk) /\ lingering' = {} /\ unwritten' = {}
    /\ UNCHANGED <<onDisk, saveFailures>>

(* _save_persistent_overrides: all overrides or, when it fails, nothing. *)
Save(overrides, changed) ==
    \/ onDisk' = overrides /\ unwritten' = {} /\ UNCHANGED saveFailures
    \/ /\ saveFailures < MaxSaveFailures /\ saveFailures' = saveFailures + 1
       /\ unwritten' = unwritten \union changed /\ UNCHANGED onDisk

(* update_value refuses unknown and sensitive fields, and values that the
   section's model does not accept. What it keeps is the value as the client
   spelt it, and not what the model makes of it. *)
Accepted(s, f, v) == SectionOf[f] = s /\ f \notin Sensitive /\ v \in Acceptable[f]

(* update_section goes through the fields one by one: those it refuses do
   not keep the others from being changed. *)
UpdateSection(s, updates) ==
    \E good \in {{f \in DOMAIN updates : Accepted(s, f, updates[f])}} :
        /\ good # {}
        /\ persistent' = [f \in Fields |-> IF f \in good THEN updates[f] ELSE persistent[f]]
        /\ settings' = [f \in Fields |-> IF f \in good THEN updates[f] ELSE settings[f]]
        /\ lingering' = lingering \ good
        /\ Save(persistent', good) /\ UNCHANGED transient

(* update_value with persist=False. *)
OverrideForNow(s, f, v) ==
    /\ Accepted(s, f, v)
    /\ transient' = [transient EXCEPT ![f] = v] /\ settings' = [settings EXCEPT ![f] = v]
    /\ UNCHANGED <<persistent, onDisk, lingering, unwritten, saveFailures>>

(* reset_section drops the overrides; the settings object is not touched. *)
InSection(s) == {f \in Fields : SectionOf[f] = s}
WithoutSection(overrides, s) == [f \in Fields |-> IF SectionOf[f] = s THEN Unset ELSE overrides[f]]
ResetSection(s) ==
    /\ persistent' = WithoutSection(persistent, s) /\ transient' = WithoutSection(transient, s)
    /\ lingering' = lingering \union {f \in InSection(s) : settings[f] # Env[f]}
    /\ Save(persistent', InSection(s)) /\ UNCHANGED settings

SettingsNext ==
    \/ RestartSettings
    \/ \E s \in Sections : \E fs \in SUBSET Fields : \E updates \in [fs -> Values] : UpdateSection(s, updates)
    \/ \E s \in Sections, f \in Fields, v \in Values : OverrideForNow(s, f, v)
    \/ \E s \in Sections : ResetSection(s)
SettingsSpec == SettingsInit /\ [][SettingsNext]_settingsVars

-----------------------------------------------------------------------------
(* Per-tool configurations and the extra command patterns.                 *)

CONSTANTS
    ToolNames, ToolFields, ToolValues,
    Defaults,       \* [tool -> configuration]
    Patterns,       \* expressions clients may add; those in BadPatterns do not compile
    BadPatterns,
    MaxPatterns     \* bound: added patterns

ASSUME PatternsAssumption == MaxPatterns \in Nat

VARIABLES
    toolConfigs,    \* _configs: [tool -> configuration, or NoConfig]
    toolFile,       \* tool_configs.json
    toolUnsaved,    \* history: tools changed since the file was last written
    extended,       \* _extended_patterns, in memory only
    configLock      \* "free", or "held" by a call that waits for it itself
toolConfigVars == <<toolConfigs, toolFile, toolUnsaved, extended, configLock>>

NoConfig == [x \in {} |-> x]
ConfigOf(t) == IF toolConfigs[t] # NoConfig THEN toolConfigs[t] ELSE Defaults[t]

ToolConfigInit ==
    /\ toolConfigs = [t \in ToolNames |-> NoConfig] /\ toolFile = toolConfigs
    /\ toolUnsaved = {} /\ extended = <<>> /\ configLock = "free"

\* Every call takes the store's lock; once it is lost the event loop stands still.
Responsive == configLock = "free"

(* _persist: the whole file or, when it fails, nothing; the caller is not told. *)
PersistTool(t) ==
    \/ toolFile' = toolConfigs' /\ toolUnsaved' = {}
    \/ toolUnsaved' = toolUnsaved \union {t} /\ UNCHANGED toolFile

(* A patch is merged into the stored or default configuration. *)
UpdateTool(t) ==
    /\ Responsive
    /\ \E f \in ToolFields, v \in ToolValues :
         toolConfigs' = [toolConfigs EXCEPT ![t] = [ConfigOf(t) EXCEPT ![f] = v]]
    /\ PersistTool(t) /\ UNCHANGED <<extended, configLock>>
ResetTool(t) ==
    /\ Responsive /\ toolConfigs' = [toolConfigs EXCEPT ![t] = NoConfig]
    /\ PersistTool(t) /\ UNCHANGED <<extended, configLock>>

(* get_all holds the lock, which is not reentrant, and calls get, which
   takes it. *)
ListTools2 ==
    /\ Responsive /\ configLock' = "held" /\ UNCHANGED <<toolConfigs, toolFile, toolUnsaved, extended>>

AddPattern(p) ==
    /\ Responsive /\ p \notin BadPatterns /\ Len(extended) < MaxPatterns
    /\ extended' = Append(extended, p) /\ UNCHANGED <<toolConfigs, toolFile, toolUnsaved, configLock>>

RestartTools ==
    /\ toolConfigs' = toolFile /\ toolUnsaved' = {} /\ extended' = <<>> /\ configLock' = "free"
    /\ UNCHANGED toolFile

ToolConfigNext ==
    \/ \E t \in ToolNames : UpdateTool(t) \/ ResetTool(t)
    \/ ListTools2 \/ RestartTools \/ \E p \in Patterns : AddPattern(p)
ToolConfigSpec == ToolConfigInit /\ [][ToolConfigNext]_toolConfigVars

-----------------------------------------------------------------------------
SettingsTypeOK ==
    /\ persistent \in Overrides /\ transient \in Overrides /\ onDisk \in Overrides
    /\ settings \in [Fields -> Values] /\ lingering \subseteq Fields /\ unwritten \subseteq Fields
    /\ saveFailures \in 0 .. MaxSaveFailures /\ toolUnsaved \subseteq ToolNames /\ Len(extended) <= MaxPatterns

(* What clients are told is what the backend uses, unless a later persistent
   change is hidden behind a transient one, or the value was given in another
   spelling than the section's model has for it: the backend then reads what
   the client wrote (config_service.py get_section, update_value). *)
Respelt(f) == Coerced[f][settings[f]] # settings[f]
ToldIsUsed ==
    \A f \in Fields : Presented(f) # settings[f] =>
        Respelt(f) \/ (transient[f] # Unset /\ persistent[f] = settings[f])

(* A restart changes a setting only if it was reset, overridden for this
   process alone, or could not be written. *)
RestartKeeps ==
    \A f \in Fields : Applied(onDisk)[f] # settings[f] =>
        f \in lingering \union unwritten \/ transient[f] # Unset

(* Fields that hold secrets and values that a section refuses never get in,
   in whatever order updates, resets and restarts come; nor do expressions
   that do not compile. *)
OnlyAcceptable ==
    /\ \A f \in Fields : settings[f] # Env[f] => f \notin Sensitive /\ settings[f] \in Acceptable[f]
    /\ ToSet(extended) \cap BadPatterns = {}

(* The configuration of a tool survives a restart, unless writing it failed
   and nothing was written since (tool_config_store.py _persist). *)
ToolConfigsKept == \A t \in ToolNames : toolFile[t] # toolConfigs[t] => t \in toolUnsaved

SettingsSound == SettingsTypeOK /\ ToldIsUsed /\ RestartKeeps /\ OnlyAcceptable /\ ToolConfigsKept

(* A section that was reset has its values from the environment
   (config_service.py:255, "Reset a section to .env defaults by removing
   all overrides."). *)
ResetRestores ==
    \A f \in Fields : persistent[f] = Unset /\ transient[f] = Unset => settings[f] = Env[f]
=============================================================================
