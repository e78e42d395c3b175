------------------------------ MODULE CodexSwitch ------------------------------
(***************************************************************************)
(* internal/client/codex: switching the local Codex installation from one   *)
(* provider to another (Runtime.SwitchCodexProvider and SwitchProvider).    *)
(* Three places hold settings: the client configuration with a template per *)
(* provider group, Codex' own two files ("live"), and a backup of what was  *)
(* live before the first switch.                                            *)
(*                                                                          *)
(* Every file is written atomically, one after the other; a read or a write *)
(* may fail, the client may crash between two of them, and Codex and the    *)
(* user write the live files too, perhaps into something that does not      *)
(* parse.  What a settings file holds is its origin and how often it was    *)
(* edited since.                                                            *)
(***************************************************************************)
EXTENDS Integers

CONSTANTS
  None,           \* no file, no provider
  User,           \* the origin of what was live at first
  Group,          \* the provider groups with Codex settings
  Id,             \* model provider ids of config.toml
  Reserved,       \* reservedModelProviderIDs
  Zenhub,         \* defaultStableModelProviderID
  Installations,  \* the installations of this instance
  MaxEdits        \* bound: edits of one file

\* A piece of settings.
Content == [origin : Group \cup {User}, edits : 0 .. MaxEdits]

\* config.toml: the active model provider, the tables of all of them, and
\* whether the text is TOML.
Config == [active : Id, tables : UNION {[ids -> Content] : ids \in SUBSET Id},
           parses : BOOLEAN]

Settings == [auth : Content, config : Config]
LiveFiles == [auth : Content \cup {None}, config : Config \cup {None}]

Installation == [
  template : [Group -> Settings],  \* the configured settings of each group
  original : LiveFiles,            \* the live files at first
  fromProviders : BOOLEAN]         \* the groups are compiled from `providers`

ASSUME CodexAssumption ==
  /\ None \notin Group \cup Id \cup Content \cup Config
  /\ User \notin Group
  /\ MaxEdits \in Nat
  /\ Reserved \subseteq Id /\ Zenhub \in Id \ Reserved
  /\ \A i \in Installations : i \in Installation

VARIABLES
  installation,  \* never changes
  stored,  \* the client configuration: current provider and templates
  live,    \* auth.json and config.toml of Codex
  backup,  \* original-auth.json and original-config.toml
  switch,  \* the switch under way
  \* History:
  halved,  \* a switch ended with live files it neither recorded nor restored
  adrift,  \* a custom id was live, and a switch did not find it there
  seen,    \* the first custom id that was live
  newest   \* the last version of each provider's settings; None once a switch
           \* went on without having read it, or was left half done

past == <<halved, adrift, seen, newest>>
vars == <<installation, stored, live, backup, switch, past>>

File == [current : Group \cup {None}, codex : [Group -> Settings]]

Switch == [pc : {"idle", "backup auth", "backup config", "backfill",
                 "compose", "write auth", "write config", "save"},
           target : Group \cup {None},
           file : File \cup {None},         \* the configuration in memory
           new : LiveFiles, old : LiveFiles]

NoFiles == [auth |-> None, config |-> None]
Idle == [pc |-> "idle", target |-> None, file |-> None,
         new |-> NoFiles, old |-> NoFiles]

\* A config.toml has a table for the provider it makes active; its settings,
\* and whose they are.
HasTable(config) == config # None /\ config.active \in DOMAIN config.tables
ActiveTable(config) ==
  IF HasTable(config) THEN config.tables[config.active] ELSE None
OriginOf(config) == config.tables[config.active].origin

CustomId(config) ==
  IF HasTable(config) /\ config.active \notin Reserved THEN config.active ELSE None

Init ==
  /\ installation \in Installations
  /\ stored = [current |-> None, codex |-> installation.template]
  /\ live = installation.original
  /\ backup = NoFiles
  /\ switch = Idle
  /\ halved = FALSE /\ adrift = FALSE
  /\ seen = CustomId(live.config)
  /\ newest = [g \in Group |->
       [auth |-> stored.codex[g].auth, table |-> ActiveTable(stored.codex[g].config)]]

-------------------------------------------------------------------------------
(* config.toml *)

\* activeModelProviderIDWithTable
ActiveId(config) ==
  IF HasTable(config) /\ config.parses THEN config.active ELSE None

\* renameModelProvider: the active provider's table moves to `id`, over any
\* table of that name.
Renamed(config, id) ==
  [active |-> id, parses |-> config.parses,
   tables |-> [i \in (DOMAIN config.tables \ {config.active}) \cup {id} |->
                 IF i = id THEN config.tables[config.active]
                           ELSE config.tables[i]]]

\* Without a default there may be no id.
StableId_NoDefault(config, anchor) ==
  LET id == ActiveId(anchor) IN
  IF id # None /\ id \notin Reserved THEN id
  ELSE IF config.active \notin Reserved THEN config.active
  ELSE None

\* stableModelProviderID, with the ids that are used if there is none.
StableId(config, anchor) ==
  LET id == ActiveId(anchor) IN
  IF id # None /\ id \notin Reserved THEN id
  ELSE IF config.active \notin Reserved THEN config.active
  ELSE Zenhub

\* The provider's own id goes live.
Stable_OwnId(config, anchor) == config

\* normalizeStableModelProvider: Codex keeps seeing the same provider id.
Stable(config, anchor) ==
  IF ActiveId(config) = None \/ StableId(config, anchor) = config.active
    THEN config ELSE Renamed(config, StableId(config, anchor))

\* What was live is taken over with the id it had there.
Restored_LiveId(config, template) == config

\* restoreTemplateModelProviderID; a text that does not parse is taken over as
\* it is.
Restored(config, template) ==
  IF ActiveId(template) = None \/ ActiveId(config) \in {None, template.active}
    THEN config ELSE Renamed(config, template.active)

\* What an origin is: at first each provider has its own settings, and what is
\* live is the user's.
ASSUME OriginAssumption ==
  \A i \in Installations :
    /\ \A g \in Group :
         /\ i.template[g].auth.origin = g
         /\ HasTable(i.template[g].config) => OriginOf(i.template[g].config) = g
    /\ i.original.auth # None => i.original.auth.origin = User
    /\ HasTable(i.original.config) => OriginOf(i.original.config) = User

-------------------------------------------------------------------------------
(* The switch *)

\* NormalizeFile, on loading and on saving: groups that are compiled from
\* providers get the providers' settings.
Normalized(f) ==
  IF installation.fromProviders THEN [f EXCEPT !.codex = installation.template]
                                ELSE f

\* LoadFile; the provider is found.
Begin(g) ==
  /\ switch.pc = "idle"
  /\ switch' = [Idle EXCEPT !.pc = "backup auth", !.target = g,
                            !.file = Normalized(stored)]
  /\ UNCHANGED <<stored, live, backup, past>>

\* A backup is made at every switch.
BackedUp_Always(old, current) == current

\* backupFileIfNeeded: nothing is backed up while there is nothing live.
BackedUp(old, current) == IF old = None THEN current ELSE old

BackUpAuth ==
  /\ switch.pc = "backup auth"
  /\ backup' = [backup EXCEPT !.auth = BackedUp(@, live.auth)]
  /\ switch' = [switch EXCEPT !.pc = "backup config"]
  /\ UNCHANGED <<stored, live, past>>

BackUpConfig ==
  /\ switch.pc = "backup config"
  /\ backup' = [backup EXCEPT !.config = BackedUp(@, live.config)]
  /\ switch' = [switch EXCEPT !.pc = "backfill"]
  /\ UNCHANGED <<stored, live, past>>

\* What is live becomes the template of the provider that is switched to.
Backfilled_Target(f, target) ==
  IF f.current \in {None, target} THEN f
  ELSE [f EXCEPT !.codex[target] =
          [auth |-> live.auth,
           config |-> Restored(live.config, f.codex[target].config)]]

\* What is live becomes the template of the provider that is left.
Backfilled(f, target) ==
  IF f.current \in {None, target} THEN f
  ELSE [f EXCEPT !.codex[f.current] =
          [auth |-> live.auth,
           config |-> Restored(live.config, f.codex[f.current].config)]]

\* The template of the provider left is filled from the live files.  If one of
\* them cannot be read the template stays as it is, and the switch goes on.
Backfill ==
  /\ switch.pc = "backfill"
  /\ \E readable \in BOOLEAN :
       /\ switch' = [switch EXCEPT
            !.pc = "compose",
            !.file = IF readable THEN Backfilled(@, switch.target) ELSE @]
       /\ newest' = IF stored.current = None
                        \/ (readable /\ stored.current # switch.target) THEN newest ELSE None
  /\ UNCHANGED <<stored, live, backup, halved, adrift, seen>>

\* What is to be written is put together, with the id to keep from what is
\* live, if that can be read; the live files are read for a rollback.
Compose ==
  LET template == switch.file.codex[switch.target] IN
  /\ switch.pc = "compose"
  /\ template.config.parses
  /\ \E anchor \in {live.config, None} :
       /\ switch' = [switch EXCEPT
            !.pc = "write auth",
            !.new = [auth |-> template.auth,
                     config |-> Stable(template.config, anchor)],
            !.old = live]
       /\ adrift' = (adrift \/ (seen # None /\ ActiveId(anchor) = None))
  /\ UNCHANGED <<stored, live, backup, halved, seen, newest>>

\* writeLiveAtomic: auth.json, then config.toml.
WriteAuth ==
  /\ switch.pc = "write auth"
  /\ live' = [live EXCEPT !.auth = switch.new.auth]
  /\ switch' = [switch EXCEPT !.pc = "write config"]
  /\ UNCHANGED <<stored, backup, past>>

WriteConfig ==
  /\ switch.pc = "write config"
  /\ live' = [live EXCEPT !.config = switch.new.config]
  /\ switch' = [switch EXCEPT !.pc = "save"]
  /\ seen' = IF seen = None THEN CustomId(switch.new.config) ELSE seen
  /\ UNCHANGED <<stored, backup, halved, adrift, newest>>

\* SaveFile: the backfilled templates and the new current provider.
Save ==
  /\ switch.pc = "save"
  /\ stored' = Normalized([switch.file EXCEPT !.current = switch.target])
  /\ switch' = Idle
  /\ UNCHANGED <<live, backup, past>>

-------------------------------------------------------------------------------
(* Codex, the user, and faults *)

MayEdit(x) == x # None /\ x.edits < MaxEdits

\* The files that a switch has read are not read again before they are
\* replaced, or put back.
Unnoticed == switch.pc \in {"compose", "write auth", "write config"}

\* The newest settings of a piece's owner, after an edit of it.
Newest(piece, origin, content) ==
  IF newest = None \/ Unnoticed THEN None
  ELSE IF origin = User THEN newest
  ELSE [newest EXCEPT ![origin][piece] = content]

\* A token is refreshed.
EditAuth ==
  /\ MayEdit(live.auth)
  /\ live' = [live EXCEPT !.auth.edits = @ + 1]
  /\ newest' = Newest("auth", live.auth.origin, live'.auth)

\* A setting of the active provider is changed, and the text may be broken or
\* mended by that.
Edited(config, parses) ==
  [active |-> config.active, parses |-> parses,
   tables |-> [config.tables EXCEPT ![config.active].edits = @ + 1]]

EditConfig ==
  /\ HasTable(live.config)
  /\ MayEdit(ActiveTable(live.config))
  /\ \E parses \in BOOLEAN : live' = [live EXCEPT !.config = Edited(@, parses)]
  /\ newest' = Newest("table", OriginOf(live.config), ActiveTable(live'.config))

EditLive ==
  /\ EditAuth \/ EditConfig
  /\ UNCHANGED <<stored, backup, switch, halved, adrift, seen>>

\* The files cannot be backed up.
BackUpFails ==
  /\ switch.pc \in {"backup auth", "backup config"}
  /\ switch' = Idle
  /\ UNCHANGED <<stored, live, backup, past>>

\* The template does not parse, a live file cannot be read for a rollback, or
\* auth.json not be written: nothing was replaced.
WriteFails ==
  /\ switch.pc \in {"compose", "write auth"}
  /\ switch' = Idle
  /\ UNCHANGED <<stored, live, backup, past>>

LeftHalf == halved' = TRUE /\ newest' = None

\* rollbackFile leaves auth.json as it is.
RolledBack_Not == live.auth

\* rollbackFile: what was read of auth.json is written back, or nothing.
RolledBack == switch.old.auth

\* config.toml cannot be written; nor, perhaps, auth.json once more.  After
\* that config.toml is tried again, with what was read of it.
ConfigFails ==
  /\ switch.pc = "write config"
  /\ \E restored \in BOOLEAN, config \in {live.config, switch.old.config} :
       /\ live' = IF restored THEN [auth |-> RolledBack, config |-> config] ELSE live
       /\ IF restored THEN UNCHANGED <<halved, newest>> ELSE LeftHalf
  /\ switch' = Idle
  /\ UNCHANGED <<stored, backup, adrift, seen>>

\* SaveFile fails: nothing is rolled back.
SaveFails ==
  /\ switch.pc = "save"
  /\ switch' = Idle
  /\ LeftHalf
  /\ UNCHANGED <<stored, live, backup, adrift, seen>>

Crash ==
  /\ switch.pc # "idle"
  /\ switch' = Idle
  /\ IF switch.pc \in {"write config", "save"} THEN LeftHalf
                                              ELSE UNCHANGED <<halved, newest>>
  /\ UNCHANGED <<stored, live, backup, adrift, seen>>

Switching ==
  \/ \E g \in Group : Begin(g)
  \/ BackUpAuth \/ BackUpConfig \/ Backfill \/ Compose
  \/ WriteAuth \/ WriteConfig \/ Save

Failing == BackUpFails \/ WriteFails \/ ConfigFails \/ SaveFails \/ Crash

Next == (Switching \/ EditLive \/ Failing) /\ UNCHANGED installation

Spec == Init /\ [][Next]_vars

-------------------------------------------------------------------------------
(* Properties *)

TypeOK ==
  /\ installation \in Installations
  /\ stored \in File
  /\ live \in LiveFiles
  /\ backup \in LiveFiles
  /\ switch \in Switch
  /\ {halved, adrift} \subseteq BOOLEAN
  /\ seen \in Id \cup {None}
  /\ newest \in [Group -> [auth : Content, table : Content \cup {None}]] \cup {None}

(***************************************************************************)
(* The template of a provider holds its own settings, never those of       *)
(* another that happened to be live, and under the id it was configured    *)
(* with, however often one is switched to and fro and whichever attempts   *)
(* fail, as long as none left half of its work behind.  (A text that does  *)
(* not parse is kept as it was live, id and all, and can not go live.)     *)
(***************************************************************************)
TemplatesStayApart ==
  ~ halved => \A g \in Group :
    LET settings == stored.codex[g] IN
    /\ settings.auth.origin = g
    /\ HasTable(settings.config) => OriginOf(settings.config) = g
    /\ settings.config.parses =>
         settings.config.active = installation.template[g].config.active

(***************************************************************************)
(* Between switches the live files are both the current provider's, which  *)
(* is the one the configuration names: a switch that fails is undone.      *)
(***************************************************************************)
LiveIsCurrent ==
  switch.pc = "idle" /\ ~ halved =>
    LET owner == IF stored.current = None THEN User ELSE stored.current IN
    /\ live.auth # None => live.auth.origin = owner
    /\ HasTable(live.config) => OriginOf(live.config) = owner

(***************************************************************************)
(* The backup of a file that was there at first shows what was live before *)
(* the program first wrote it, whatever failed and was tried again since.  *)
(***************************************************************************)
BackupIsOriginal ==
  LET original == installation.original IN
  /\ original.auth # None /\ backup.auth # None => backup.auth.origin = User
  /\ original.config # None /\ HasTable(backup.config)
       => OriginOf(backup.config) = User

(***************************************************************************)
(* Codex sees one provider id for good, so that its sessions stay usable:  *)
(* whenever a custom id is live it is the first one that was, through any  *)
(* number of switches, rollbacks, half switches and edits and whatever ids *)
(* the templates have.  It holds as long as every switch found the id:     *)
(* after one that could not read the live files, or found a config.toml    *)
(* that does not parse or was written for a provider without a table, the  *)
(* code goes on with the template's own id.                                *)
(***************************************************************************)
LiveIdIsStable ==
  ~ adrift => CustomId(live.config) \in {seen, None}

(***************************************************************************)
(* Switching to and fro loses no edit: the newest settings of each         *)
(* provider, with every token that was refreshed and every table that was  *)
(* changed while they were live, are live if it is the current one and are *)
(* its template otherwise, however many switches and failures lie between. *)
(* It holds as long as no switch went on without having read what was      *)
(* live: because the read failed, because the current provider was chosen  *)
(* again, or because the edit came between the read and the writes.        *)
(***************************************************************************)
EditsAreKept ==
  switch.pc = "idle" /\ newest # None /\ ~ installation.fromProviders =>
    \A g \in Group :
      LET files == IF g = stored.current THEN live ELSE stored.codex[g] IN
      /\ files.auth = newest[g].auth
      /\ ActiveTable(files.config) = newest[g].table
===============================================================================
