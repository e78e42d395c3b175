------------------------------- MODULE CodexProofs -------------------------------
(***************************************************************************)
(* Proofs about CodexSwitch, for any providers, provider ids, installations *)
(* and numbers of edits, whatever fails and wherever the client crashes.    *)
(***************************************************************************)
EXTENDS CodexSwitch, TLAPS

Reading == {"backup auth", "backup config", "backfill"}
Writing == {"write auth", "write config", "save"}
Owner == IF stored.current = None THEN User ELSE stored.current

\* What a switch has in hand is complete; once a provider was switched to, both
\* live files are there.
InHand ==
  /\ switch.pc # "idle" =>
       /\ switch.target \in Group
       /\ switch.file \in File
       /\ switch.file.current = stored.current
  /\ switch.pc \in Writing => switch.new \in Settings
  /\ stored.current # None =>
       /\ live \in Settings
       /\ switch.pc \in Writing => switch.old \in Settings
  /\ switch.pc \in {"write config", "save"} => live.auth \in Content
  /\ switch.pc = "save" => live.config \in Config

AuthOf(auth, owner) == auth # None => auth.origin = owner

\* The active settings are the owner's, and there are such settings if the
\* owner was configured with some.
ConfigOf(i, config, owner) ==
  /\ HasTable(config) => OriginOf(config) = owner
  /\ owner \in Group =>
       LET template == i.template[owner].config IN
       /\ HasTable(config) <=> HasTable(template)
       /\ ~HasTable(config) => config.active = template.active

FilesOf(i, files, owner) ==
  AuthOf(files.auth, owner) /\ ConfigOf(i, files.config, owner)

TemplateOf(i, settings, g) ==
  /\ FilesOf(i, settings, g)
  /\ settings.config.parses => settings.config.active = i.template[g].config.active

\* Until a switch is left half done: the templates, stored and in memory, and
\* the files to be written are those of whom they are for; the live files are
\* the owner's, except for what this switch has written.
Apart ==
  ~halved =>
    /\ \A g \in Group : TemplateOf(installation, stored.codex[g], g)
    /\ switch.pc # "idle" =>
         \A g \in Group : TemplateOf(installation, switch.file.codex[g], g)
    /\ switch.pc \in Writing => FilesOf(installation, switch.new, switch.target)
    /\ switch.pc \in Writing => FilesOf(installation, switch.old, Owner)
    /\ AuthOf(live.auth,
              IF switch.pc \in {"write config", "save"} THEN switch.target ELSE Owner)
    /\ ConfigOf(installation, live.config,
                IF switch.pc = "save" THEN switch.target ELSE Owner)

\* Only a template that parses goes live, so that of the current provider
\* does; a group compiled from providers has the settings it was given.
Parsed ==
  /\ stored.current # None => stored.codex[stored.current].config.parses
  /\ switch.pc \in Reading /\ stored.current # None =>
       switch.file.codex[stored.current].config.parses
  /\ switch.pc \in Writing => switch.file.codex[switch.target].config.parses
  /\ installation.fromProviders =>
       /\ stored.codex = installation.template
       /\ switch.pc \in Reading => switch.file.codex = installation.template
       /\ switch.pc # "idle" =>
            switch.file.codex[switch.target] = installation.template[switch.target]

\* A file that was there at first is there for good, and is backed up before
\* anything is written.
AuthBackedUp ==
  installation.original.auth # None =>
    /\ live.auth # None
    /\ switch.pc \in Writing => switch.old.auth # None
    /\ switch.pc \notin {"idle", "backup auth"} => backup.auth # None
    /\ AuthOf(IF backup.auth = None THEN live.auth ELSE backup.auth, User)

UserConfig(config) == HasTable(config) => OriginOf(config) = User

ConfigBackedUp ==
  installation.original.config # None =>
    /\ live.config # None
    /\ switch.pc \in Writing => switch.old.config # None
    /\ switch.pc \notin {"idle", "backup auth", "backup config"} => backup.config # None
    /\ UserConfig(IF backup.config = None THEN live.config ELSE backup.config)

\* The types of what the histories remember.
HistoryOK ==
  /\ {halved, adrift} \subseteq BOOLEAN
  /\ seen \in Id \cup {None}
  /\ newest \in [Group -> [auth : Content, table : Content \cup {None}]] \cup {None}

IInv == TypeOK /\ InHand /\ Apart /\ Parsed /\ AuthBackedUp /\ ConfigBackedUp

\* The custom ids are the first that was live, unless a switch went adrift; and
\* after the first, none that is not custom has a table.
IdOf(config) ==
  /\ ~adrift => CustomId(config) \in {seen, None}
  /\ seen # None /\ HasTable(config) => config.active \notin Reserved

\* What a switch is to write has the id of what is live, and what it may write
\* back, too.
SameId ==
  /\ IdOf(live.config)
  /\ switch.pc \in {"write auth", "write config"} =>
       /\ IdOf(switch.old.config)
       /\ HasTable(switch.new.config) => switch.new.config.active \notin Reserved
       /\ ~adrift /\ seen # None => CustomId(switch.new.config) \in {seen, None}

\* A provider's settings are in a certain version; those of some providers are.
Has(files, version) ==
  files.auth = version.auth /\ ActiveTable(files.config) = version.table

Have(codex, groups, versions) == \A g \in groups : Has(codex[g], versions[g])

\* Where the newest settings are during a switch: live for the provider that is
\* left, until they are replaced, and in the templates for all the others.
KeptSoFar ==
  LET left == stored.current IN
  /\ switch.pc # "save" => Have(stored.codex, Group \ {left}, newest)
  /\ switch.pc \in Reading => switch.file = stored
  /\ switch.pc \in Reading \cup {"idle", "compose", "write auth"} /\ left # None =>
       Has(live, newest[left])
  /\ switch.pc \in Writing \cup {"compose"} =>
       /\ left # switch.target
       /\ Have(switch.file.codex, Group \ {switch.target}, newest)
  /\ switch.pc = "compose" => Has(switch.file.codex[switch.target], newest[switch.target])
  /\ switch.pc \in {"write auth", "write config"} =>
       /\ Has(switch.new, newest[switch.target])
       /\ left # None => Has(switch.old, newest[left])
  /\ switch.pc = "write config" =>
       /\ live.auth = newest[switch.target].auth
       /\ left # None => ActiveTable(live.config) = newest[left].table
  /\ switch.pc = "save" => Has(live, newest[switch.target])

Kept ==
  newest # None => ~halved /\ (~ installation.fromProviders => KeptSoFar)

-------------------------------------------------------------------------------
(* config.toml *)

LEMMA ConfigParts ==
  ASSUME NEW config \in Config
  PROVE  /\ config = [active |-> config.active, tables |-> config.tables,
                      parses |-> config.parses]
         /\ config.active \in Id /\ config.parses \in BOOLEAN
         /\ DOMAIN config.tables \subseteq Id
         /\ config.tables \in [DOMAIN config.tables -> Content]
         /\ config # None
<1>1. PICK ids \in SUBSET Id : config.tables \in [ids -> Content]
  BY DEF Config
<1> QED
  BY <1>1, CodexAssumption DEF Config

LEMMA ConfigMade ==
  ASSUME NEW id \in Id, NEW ids \in SUBSET Id, NEW tables \in [ids -> Content],
         NEW parses \in BOOLEAN
  PROVE  [active |-> id, tables |-> tables, parses |-> parses] \in Config
  BY DEF Config

LEMMA TableIs ==
  ASSUME NEW config \in Config
  PROVE  /\ HasTable(config) <=> config.active \in DOMAIN config.tables
         /\ ActiveId(config) = IF HasTable(config) /\ config.parses
                                 THEN config.active ELSE None
         /\ ActiveId(config) # None <=> HasTable(config) /\ config.parses
         /\ ActiveTable(config) = IF HasTable(config) THEN config.tables[config.active]
                                                      ELSE None
         /\ ActiveTable(config) \in Content \cup {None}
         /\ HasTable(config) => ActiveTable(config) \in Content
  BY ConfigParts, CodexAssumption DEF ActiveId, HasTable, ActiveTable

\* renameModelProvider keeps the active settings.
LEMMA RenamedKeeps ==
  ASSUME NEW config \in Config, HasTable(config), NEW id \in Id
  PROVE  /\ Renamed(config, id) \in Config
         /\ Renamed(config, id).active = id
         /\ Renamed(config, id).parses = config.parses
         /\ HasTable(Renamed(config, id))
         /\ ActiveTable(Renamed(config, id)) = ActiveTable(config)
         /\ OriginOf(Renamed(config, id)) = OriginOf(config)
<1> DEFINE ids == (DOMAIN config.tables \ {config.active}) \cup {id}
           tables == [i \in ids |-> IF i = id THEN config.tables[config.active]
                                              ELSE config.tables[i]]
<1>1. Renamed(config, id) = [active |-> id, tables |-> tables, parses |-> config.parses]
  BY DEF Renamed
<1>2. config.active \in DOMAIN config.tables
  BY TableIs
<1>3. ids \in SUBSET Id
  BY ConfigParts
<1>4. tables \in [ids -> Content]
  BY <1>2, ConfigParts
<1>5. DOMAIN tables = ids /\ id \in ids /\ tables[id] = config.tables[config.active]
  OBVIOUS
<1> HIDE DEF ids, tables
<1>6. Renamed(config, id) \in Config
  BY <1>1, <1>3, <1>4, ConfigMade, ConfigParts
<1>7. /\ Renamed(config, id).active = id
      /\ Renamed(config, id).tables = tables
      /\ Renamed(config, id).parses = config.parses
  BY <1>1
<1>8. HasTable(Renamed(config, id))
  BY <1>5, <1>6, <1>7, TableIs
<1> QED
  BY <1>5, <1>6, <1>7, <1>8 DEF ActiveTable, OriginOf

\* normalizeStableModelProvider: a text that parses keeps its settings, under
\* the custom id of the anchor if there is one.
LEMMA StableKeeps ==
  ASSUME NEW config \in Config, config.parses, NEW anchor \in Config \cup {None}
  PROVE  /\ Stable(config, anchor) \in Config
         /\ HasTable(Stable(config, anchor)) <=> HasTable(config)
         /\ ~HasTable(config) => Stable(config, anchor) = config
         /\ ActiveTable(Stable(config, anchor)) = ActiveTable(config)
         /\ OriginOf(Stable(config, anchor)) = OriginOf(config)
         /\ HasTable(config) => Stable(config, anchor).active \notin Reserved
         /\ ActiveId(anchor) \notin Reserved \cup {None} /\ HasTable(config)
              => Stable(config, anchor).active = ActiveId(anchor)
<1>1. config.active \in Id /\ ActiveId(anchor) \in Id \cup {None}
  BY ConfigParts DEF ActiveId, HasTable
<1>2. /\ StableId(config, anchor) \in Id /\ StableId(config, anchor) \notin Reserved
      /\ ActiveId(anchor) \notin Reserved \cup {None} =>
           StableId(config, anchor) = ActiveId(anchor)
  BY <1>1, CodexAssumption DEF StableId
<1>3. ActiveId(config) = None <=> ~HasTable(config)
  BY TableIs
<1>4. CASE ~HasTable(config)
  BY <1>3, <1>4 DEF Stable
<1>5. CASE HasTable(config) /\ StableId(config, anchor) = config.active
  BY <1>2, <1>5 DEF Stable
<1>6. CASE HasTable(config) /\ StableId(config, anchor) # config.active
  <2>1. Stable(config, anchor) = Renamed(config, StableId(config, anchor))
    BY <1>3, <1>6 DEF Stable
  <2> QED
    BY <1>2, <1>6, <2>1, RenamedKeeps
<1> QED
  BY <1>4, <1>5, <1>6

\* restoreTemplateModelProviderID keeps the settings, and gives a text that
\* parses the template's id.
LEMMA RestoredKeeps ==
  ASSUME NEW config \in Config, NEW template \in Config
  PROVE  /\ Restored(config, template) \in Config
         /\ Restored(config, template).parses = config.parses
         /\ HasTable(Restored(config, template)) <=> HasTable(config)
         /\ ~HasTable(config) => Restored(config, template) = config
         /\ ActiveTable(Restored(config, template)) = ActiveTable(config)
         /\ OriginOf(Restored(config, template)) = OriginOf(config)
         /\ config.parses /\ HasTable(config) /\ template.parses /\ HasTable(template)
              => Restored(config, template).active = template.active
<1>1. template.active \in Id /\ template.active # None
  BY ConfigParts, CodexAssumption
<1>2. /\ ActiveId(config) # None <=> HasTable(config) /\ config.parses
      /\ ActiveId(template) # None <=> HasTable(template) /\ template.parses
      /\ ActiveId(config) # None => ActiveId(config) = config.active
  BY TableIs
<1>3. CASE ActiveId(template) = None \/ ActiveId(config) \in {None, template.active}
  BY <1>2, <1>3 DEF Restored
<1>4. CASE ~ (ActiveId(template) = None \/ ActiveId(config) \in {None, template.active})
  <2>1. Restored(config, template) = Renamed(config, template.active)
    BY <1>4 DEF Restored
  <2> QED
    BY <1>1, <1>2, <1>4, <2>1, RenamedKeeps
<1> QED
  BY <1>3, <1>4

\* An edit of the active settings, which may break or mend the text.
LEMMA EditKeeps ==
  ASSUME NEW config \in Config, HasTable(config), MayEdit(ActiveTable(config)),
         NEW parses \in BOOLEAN, NEW edited, edited = Edited(config, parses)
  PROVE  /\ edited \in Config
         /\ HasTable(edited)
         /\ edited.active = config.active
         /\ OriginOf(edited) = OriginOf(config)
<1> DEFINE id == config.active
           table == [config.tables[id] EXCEPT !.edits = @ + 1]
           tables == [config.tables EXCEPT ![id] = table]
<1>1. id \in DOMAIN config.tables /\ id \in Id
  BY TableIs, ConfigParts
<1>2. config.tables[id] \in Content /\ MayEdit(config.tables[id])
  BY <1>1, ConfigParts, TableIs
<1>3. /\ config.tables[id].edits + 1 \in 0 .. MaxEdits
      /\ config.tables[id].origin \in Group \cup {User}
  BY <1>2, CodexAssumption DEF Content, MayEdit
<1>4. table \in Content /\ table.origin = config.tables[id].origin
  BY <1>2, <1>3 DEF Content
<1>5. tables \in [DOMAIN config.tables -> Content] /\ tables[id] = table
  BY <1>1, <1>4, ConfigParts
<1>6. edited = [active |-> id, tables |-> tables, parses |-> parses]
  BY DEF Edited
<1> HIDE DEF id, table, tables
<1>7. edited \in Config
  BY <1>1, <1>5, <1>6, ConfigMade, ConfigParts
<1>8. edited.active = id /\ edited.tables = tables
  BY <1>6
<1>9. HasTable(edited)
  BY <1>1, <1>5, <1>7, <1>8, TableIs
<1> QED
  BY <1>4, <1>5, <1>7, <1>8, <1>9 DEF OriginOf, id

-------------------------------------------------------------------------------
(* The invariant *)

LEMMA FileTypes ==
  ASSUME TypeOK
  PROVE  /\ live.auth \in Content \cup {None} /\ live.config \in Config \cup {None}
         /\ live = [auth |-> live.auth, config |-> live.config]
         /\ switch.old.auth \in Content \cup {None}
         /\ switch.old.config \in Config \cup {None}
         /\ backup.auth \in Content \cup {None} /\ backup.config \in Config \cup {None}
         /\ None \notin Content /\ None \notin Config
  BY CodexAssumption DEF TypeOK, LiveFiles, Switch

LEMMA TemplatesGiven ==
  ASSUME NEW i \in Installations
  PROVE  /\ i.template \in [Group -> Settings] /\ i.original \in LiveFiles
         /\ i.fromProviders \in BOOLEAN
         /\ \A g \in Group :
              /\ i.template[g].auth.origin = g
              /\ HasTable(i.template[g].config)
                   => OriginOf(i.template[g].config) = g
         /\ AuthOf(i.original.auth, User) /\ UserConfig(i.original.config)
  BY CodexAssumption, OriginAssumption DEF Installation, AuthOf, UserConfig

\* The templates as they were configured.
LEMMA GivenApart ==
  ASSUME installation \in Installations
  PROVE  \A g \in Group : TemplateOf(installation, installation.template[g], g)
  BY TemplatesGiven DEF TemplateOf, FilesOf, AuthOf, ConfigOf

LEMMA NormalizedKeeps ==
  ASSUME installation \in Installations, NEW f \in File
  PROVE  /\ Normalized(f) \in File
         /\ Normalized(f).current = f.current
         /\ installation.fromProviders => Normalized(f).codex = installation.template
         /\ (\A g \in Group : TemplateOf(installation, f.codex[g], g))
              => \A g \in Group : TemplateOf(installation, Normalized(f).codex[g], g)
         /\ ~ installation.fromProviders => Normalized(f) = f
  BY TemplatesGiven, GivenApart DEF Normalized, File

LEMMA InitIInv == Init => IInv
<1> SUFFICES ASSUME Init PROVE IInv
  OBVIOUS
<1>1. installation \in Installations /\ installation.original \in LiveFiles
      /\ installation.template \in [Group -> Settings]
  BY TemplatesGiven DEF Init
<1>2. switch.pc = "idle" /\ stored.current = None /\ backup.auth = None
      /\ backup.config = None /\ live = installation.original
      /\ stored.codex = installation.template
  BY DEF Init, Idle, NoFiles
<1>3. HistoryOK
  <2>1. live.config \in Config \cup {None}
    BY <1>1, <1>2 DEF LiveFiles
  <2>2. CustomId(live.config) \in Id \cup {None}
    BY <2>1, ConfigParts DEF CustomId, HasTable
  <2>3. \A g \in Group : stored.codex[g].auth \in Content
                         /\ ActiveTable(stored.codex[g].config) \in Content \cup {None}
    BY <1>1, <1>2, TableIs DEF Settings
  <2> QED
    BY <2>2, <2>3 DEF Init, HistoryOK
<1>4. TypeOK
  BY <1>1, <1>3 DEF Init, HistoryOK, TypeOK, File, Idle, NoFiles, Switch, LiveFiles
<1>5. InHand /\ Parsed
  BY <1>2 DEF InHand, Parsed, Reading, Writing
<1>6. Apart
  BY <1>1, <1>2, GivenApart, TemplatesGiven, CodexAssumption
  DEF Apart, Owner, Writing, AuthOf, UserConfig, ConfigOf
<1>7. AuthBackedUp /\ ConfigBackedUp
  BY <1>1, <1>2, TemplatesGiven DEF AuthBackedUp, ConfigBackedUp, Writing
<1> QED
  BY <1>4, <1>5, <1>6, <1>7 DEF IInv

\* A switch that is given up keeps what is stored and backed up.
LEMMA GivenUp ==
  ASSUME IInv, HistoryOK', switch' = Idle,
         UNCHANGED <<installation, stored, backup>>, live' \in LiveFiles,
         ~halved' => /\ ~halved /\ AuthOf(live'.auth, Owner)
                     /\ ConfigOf(installation, live'.config, Owner),
         stored.current # None => live' \in Settings,
         installation.original.auth # None =>
           live'.auth # None /\ (backup.auth = None => live' = live),
         installation.original.config # None =>
           live'.config # None /\ (backup.config = None => live' = live)
  PROVE  IInv'
<1>1. switch'.pc = "idle" /\ Idle \in Switch
  BY DEF Idle, NoFiles, Switch, LiveFiles
<1>2. TypeOK'
  BY <1>1 DEF IInv, TypeOK, HistoryOK
<1>3. InHand' /\ Parsed'
  BY <1>1 DEF IInv, InHand, Parsed, Reading, Writing
<1>4. Apart'
  BY <1>1 DEF IInv, Apart, Owner, Writing
<1>5. AuthBackedUp' /\ ConfigBackedUp'
  BY <1>1 DEF IInv, AuthBackedUp, ConfigBackedUp, Writing
<1> QED
  BY <1>2, <1>3, <1>4, <1>5 DEF IInv

LEMMA FailuresKeep ==
  ASSUME IInv, HistoryOK', Failing, UNCHANGED installation
  PROVE  IInv'
<1>1. CASE BackUpFails \/ WriteFails \/ SaveFails \/ Crash
  <2>1. /\ switch' = Idle /\ UNCHANGED <<stored, backup, live>>
        /\ ~halved' => ~halved /\ switch.pc \notin {"write config", "save"}
    BY <1>1 DEF BackUpFails, WriteFails, SaveFails, Crash, LeftHalf, past
  <2>2. ~halved' => AuthOf(live.auth, Owner) /\ ConfigOf(installation, live.config, Owner)
    BY <2>1 DEF IInv, Apart
  <2> QED
    BY <2>1, <2>2, GivenUp DEF IInv, TypeOK, InHand, AuthBackedUp, ConfigBackedUp
<1>2. CASE ConfigFails
  <2>1. PICK restored \in BOOLEAN, config \in {live.config, switch.old.config} :
          /\ live' = IF restored THEN [auth |-> switch.old.auth, config |-> config]
                                 ELSE live
          /\ IF restored THEN UNCHANGED <<halved, newest>> ELSE LeftHalf
    BY <1>2 DEF ConfigFails, RolledBack
  <2>2. /\ switch.pc = "write config" /\ switch' = Idle
        /\ UNCHANGED <<stored, backup>>
    BY <1>2 DEF ConfigFails
  <2>3. live' \in LiveFiles
    BY <2>1, FileTypes DEF IInv, TypeOK, LiveFiles
  <2>4. ASSUME ~halved'
        PROVE  /\ ~halved /\ AuthOf(live'.auth, Owner)
               /\ ConfigOf(installation, live'.config, Owner)
    <3>1. /\ ~halved /\ live' = [auth |-> switch.old.auth, config |-> config]
      BY <2>1, <2>4 DEF LeftHalf
    <3>2. /\ FilesOf(installation, switch.old, Owner)
          /\ ConfigOf(installation, live.config, Owner)
      BY <2>2, <3>1 DEF IInv, Apart, Writing
    <3> QED
      BY <2>1, <3>1, <3>2 DEF FilesOf
  <2>5. stored.current # None => live' \in Settings
    BY <2>1, <2>2 DEF IInv, InHand, Writing, Settings
  <2>6. /\ installation.original.auth # None => live'.auth # None /\ backup.auth # None
        /\ installation.original.config # None =>
             live'.config # None /\ backup.config # None
    BY <2>1, <2>2 DEF IInv, AuthBackedUp, ConfigBackedUp, Writing
  <2> QED
    BY <2>2, <2>3, <2>4, <2>5, <2>6, GivenUp
<1> QED
  BY <1>1, <1>2 DEF Failing

\* The parts of a switch under way.
LEMMA BeginKeeps ==
  ASSUME IInv, HistoryOK', NEW g \in Group, Begin(g), UNCHANGED <<installation, halved>>
  PROVE  IInv'
<1>1. /\ switch.pc = "idle" /\ UNCHANGED <<stored, live, backup>>
      /\ switch' = [pc |-> "backup auth", target |-> g, file |-> Normalized(stored),
                    new |-> NoFiles, old |-> NoFiles]
  BY DEF Begin, Idle
<1>2. /\ stored \in File /\ Normalized(stored) \in File
      /\ Normalized(stored).current = stored.current
  BY NormalizedKeeps DEF IInv, TypeOK
<1>3. TypeOK'
  BY <1>1, <1>2 DEF IInv, TypeOK, HistoryOK, Switch, LiveFiles, NoFiles
<1>4. InHand' /\ Parsed'
  BY <1>1, <1>2, NormalizedKeeps
  DEF IInv, TypeOK, InHand, Parsed, Reading, Writing
<1>5. Apart'
  <2> SUFFICES ASSUME ~halved PROVE Apart'
    BY <1>1 DEF Apart
  <2>1. \A x \in Group : /\ TemplateOf(installation, stored.codex[x], x)
                         /\ TemplateOf(installation, Normalized(stored).codex[x], x)
    BY <1>2, NormalizedKeeps DEF IInv, Apart, TypeOK
  <2>2. AuthOf(live.auth, Owner) /\ ConfigOf(installation, live.config, Owner)
    BY <1>1 DEF IInv, Apart
  <2> QED
    BY <1>1, <2>1, <2>2 DEF Apart, Writing, Owner
<1>6. AuthBackedUp' /\ ConfigBackedUp'
  BY <1>1 DEF IInv, AuthBackedUp, ConfigBackedUp, Writing
<1> QED
  BY <1>3, <1>4, <1>5, <1>6 DEF IInv

LEMMA BackUpKeeps ==
  ASSUME IInv, HistoryOK', BackUpAuth \/ BackUpConfig, UNCHANGED <<installation, halved>>
  PROVE  IInv'
<1>1. /\ switch.pc \in {"backup auth", "backup config"}
      /\ UNCHANGED <<stored, live>>
      /\ switch'.pc \in {"backup config", "backfill"}
      /\ switch' \in Switch
      /\ switch'.target = switch.target /\ switch'.file = switch.file
  BY DEF BackUpAuth, BackUpConfig, IInv, TypeOK, Switch
<1>2. /\ backup' \in LiveFiles
      /\ \/ /\ switch.pc = "backup auth" /\ switch'.pc = "backup config"
            /\ backup'.auth = BackedUp(backup.auth, live.auth)
            /\ backup'.config = backup.config
         \/ /\ switch.pc = "backup config" /\ switch'.pc = "backfill"
            /\ backup'.config = BackedUp(backup.config, live.config)
            /\ backup'.auth = backup.auth
  BY DEF BackUpAuth, BackUpConfig, BackedUp, IInv, TypeOK, LiveFiles, Switch
<1>3. TypeOK'
  BY <1>1, <1>2 DEF IInv, TypeOK, HistoryOK
<1>4. InHand' /\ Parsed'
  BY <1>1 DEF IInv, InHand, Parsed, Reading, Writing
<1>5. Apart'
  BY <1>1 DEF IInv, Apart, Owner, Writing
<1>6. AuthBackedUp' /\ ConfigBackedUp'
  BY <1>1, <1>2 DEF IInv, AuthBackedUp, ConfigBackedUp, Writing, BackedUp
<1> QED
  BY <1>3, <1>4, <1>5, <1>6 DEF IInv

\* What is live becomes the template of the provider that is left.
LEMMA BackfilledKeeps ==
  ASSUME IInv, switch.pc = "backfill"
  PROVE  LET f == Backfilled(switch.file, switch.target)
             left == stored.current
         IN /\ f \in File /\ f.current = stored.current
            /\ f.codex[switch.target] = switch.file.codex[switch.target]
            /\ ~halved => \A g \in Group : TemplateOf(installation, f.codex[g], g)
            /\ left \in {None, switch.target} => f = switch.file
            /\ left \notin {None, switch.target} =>
                 /\ f.codex[left].auth = live.auth
                 /\ ActiveTable(f.codex[left].config) = ActiveTable(live.config)
                 /\ \A g \in Group \ {left} : f.codex[g] = switch.file.codex[g]
<1> DEFINE left == stored.current
           codex == switch.file.codex
           taken == [auth |-> live.auth,
                     config |-> Restored(live.config, codex[left].config)]
           f == Backfilled(switch.file, switch.target)
<1>1. /\ switch.file \in File /\ switch.file.current = left
      /\ codex \in [Group -> Settings] /\ switch.target \in Group
  BY DEF IInv, InHand, File
<1>2. ~halved => \A g \in Group : TemplateOf(installation, codex[g], g)
  BY DEF IInv, Apart
<1>3. CASE left \in {None, switch.target}
  <2>1. f = switch.file
    BY <1>1, <1>3 DEF Backfilled
  <2> QED
    BY <1>1, <1>2, <1>3, <2>1
<1>4. CASE left \notin {None, switch.target}
  <2>1. left \in Group /\ live \in Settings /\ codex[left].config.parses
    BY <1>4 DEF IInv, TypeOK, File, InHand, Parsed, Reading
  <2>2. live.config \in Config /\ live.auth \in Content /\ codex[left].config \in Config
    BY <1>1, <2>1 DEF Settings
  <2>3. taken \in Settings
    BY <2>2, RestoredKeeps DEF Settings
  <2>4. f = [switch.file EXCEPT !.codex[left] = taken]
    BY <1>1, <1>4 DEF Backfilled
  <2>5. /\ f \in File /\ f.current = left /\ f.codex[left] = taken
        /\ \A g \in Group : g # left => f.codex[g] = codex[g]
    BY <1>1, <2>1, <2>3, <2>4 DEF File
  <2>6. ASSUME ~halved
        PROVE  TemplateOf(installation, taken, left)
    <3>1. TemplateOf(installation, codex[left], left)
      BY <1>2, <2>1, <2>6
    <3>2. AuthOf(live.auth, left) /\ ConfigOf(installation, live.config, left)
      BY <1>4, <2>6 DEF IInv, Apart, Owner
    <3>3. /\ HasTable(taken.config) <=> HasTable(live.config)
          /\ ~HasTable(live.config) => taken.config = live.config
          /\ OriginOf(taken.config) = OriginOf(live.config)
          /\ taken.config.parses = live.config.parses
          /\ live.config.parses /\ HasTable(live.config) /\ HasTable(codex[left].config)
               => taken.config.active = codex[left].config.active
      BY <2>1, <2>2, RestoredKeeps
    <3>4. taken.auth = live.auth
      OBVIOUS
    <3> HIDE DEF taken
    <3>5. FilesOf(installation, taken, left)
      BY <2>1, <3>1, <3>2, <3>3, <3>4 DEF FilesOf, ConfigOf, TemplateOf
    <3>6. taken.config.parses =>
            taken.config.active = installation.template[left].config.active
      BY <2>1, <3>1, <3>2, <3>3 DEF FilesOf, ConfigOf, TemplateOf
    <3> QED
      BY <3>5, <3>6 DEF TemplateOf
  <2>7. taken.auth = live.auth /\ ActiveTable(taken.config) = ActiveTable(live.config)
    BY <2>2, RestoredKeeps
  <2> HIDE DEF taken, f, codex
  <2>8. ~halved => \A g \in Group : TemplateOf(installation, f.codex[g], g)
    BY <1>2, <2>5, <2>6
  <2>9. /\ f.codex[switch.target] = codex[switch.target]
        /\ \A g \in Group \ {left} : f.codex[g] = codex[g]
    BY <1>1, <1>4, <2>5
  <2> QED
    BY <1>4, <2>5, <2>7, <2>8, <2>9 DEF f, codex
<1> QED
  BY <1>3, <1>4

LEMMA BackfillKeeps ==
  ASSUME IInv, HistoryOK', Backfill, UNCHANGED <<installation, halved>>
  PROVE  IInv'
<1>1. PICK f \in {Backfilled(switch.file, switch.target), switch.file} :
        switch' = [switch EXCEPT !.pc = "compose", !.file = f]
  BY DEF Backfill, IInv, TypeOK, Switch
<1>2. switch.pc = "backfill" /\ UNCHANGED <<stored, live, backup>>
  BY DEF Backfill
<1>3. /\ switch.file \in File /\ switch.file.current = stored.current
      /\ ~halved => \A g \in Group : TemplateOf(installation, switch.file.codex[g], g)
  BY <1>2 DEF IInv, InHand, Apart
<1>4. /\ f \in File /\ f.current = stored.current
      /\ f.codex[switch.target] = switch.file.codex[switch.target]
      /\ ~halved => \A g \in Group : TemplateOf(installation, f.codex[g], g)
  BY <1>1, <1>2, <1>3, BackfilledKeeps
<1>5. /\ switch' \in Switch /\ switch'.pc = "compose"
      /\ switch'.file = f /\ switch'.target = switch.target
  BY <1>1, <1>4 DEF IInv, TypeOK, Switch
<1>6. TypeOK'
  BY <1>2, <1>5 DEF IInv, TypeOK, HistoryOK
<1>7. InHand' /\ Parsed'
  BY <1>2, <1>4, <1>5 DEF IInv, InHand, Parsed, Reading, Writing
<1>8. Apart'
  <2> SUFFICES ASSUME ~halved PROVE Apart'
    BY DEF Apart
  <2>1. /\ \A g \in Group : TemplateOf(installation, stored.codex[g], g)
        /\ AuthOf(live.auth, Owner) /\ ConfigOf(installation, live.config, Owner)
    BY <1>2 DEF IInv, Apart, Writing
  <2> QED
    BY <1>2, <1>4, <1>5, <2>1 DEF Apart, Owner, Writing
<1>9. AuthBackedUp' /\ ConfigBackedUp'
  BY <1>2, <1>5 DEF IInv, AuthBackedUp, ConfigBackedUp, Writing
<1> QED
  BY <1>6, <1>7, <1>8, <1>9 DEF IInv

LEMMA ComposeKeeps ==
  ASSUME IInv, HistoryOK', Compose, UNCHANGED <<installation, halved>>
  PROVE  IInv'
<1> DEFINE template == switch.file.codex[switch.target]
<1>1. /\ switch.pc = "compose" /\ UNCHANGED <<stored, live, backup>>
      /\ template.config.parses
  BY DEF Compose
<1>2. PICK anchor \in {live.config, None} :
        switch' = [switch EXCEPT !.pc = "write auth", !.old = live,
                     !.new = [auth |-> template.auth,
                              config |-> Stable(template.config, anchor)]]
  BY DEF Compose
<1> DEFINE new == [auth |-> template.auth,
                   config |-> Stable(template.config, anchor)]
<1>3. switch.target \in Group /\ template \in Settings
  BY <1>1 DEF IInv, InHand, File
<1>4. /\ template.auth \in Content /\ template.config \in Config
      /\ anchor \in Config \cup {None}
  BY <1>2, <1>3, FileTypes DEF Settings, IInv
<1>5. new \in Settings /\ Settings \subseteq LiveFiles
  BY <1>1, <1>4, StableKeeps DEF Settings, LiveFiles
<1>6. ASSUME ~halved
      PROVE  FilesOf(installation, new, switch.target)
  <2>1. FilesOf(installation, template, switch.target)
    BY <1>1, <1>3, <1>6 DEF IInv, Apart, TemplateOf
  <2>2. /\ HasTable(new.config) <=> HasTable(template.config)
        /\ ~HasTable(template.config) => new.config = template.config
        /\ OriginOf(new.config) = OriginOf(template.config)
        /\ new.auth = template.auth
    BY <1>1, <1>4, StableKeeps
  <2> HIDE DEF new, template
  <2> QED
    BY <2>1, <2>2 DEF FilesOf, ConfigOf
<1> HIDE DEF new
<1>7. /\ switch' \in Switch /\ switch'.pc = "write auth" /\ switch'.new = new
      /\ switch'.old = live /\ switch'.file = switch.file
      /\ switch'.target = switch.target
  BY <1>2, <1>5 DEF IInv, TypeOK, Switch, new
<1>8. TypeOK'
  BY <1>1, <1>7 DEF IInv, TypeOK, HistoryOK
<1>9. InHand' /\ Parsed'
  BY <1>1, <1>5, <1>7 DEF IInv, InHand, Parsed, Reading, Writing
<1>10. Apart'
  <2> SUFFICES ASSUME ~halved PROVE Apart'
    BY <1>1 DEF Apart
  <2>1. FilesOf(installation, live, Owner)
    BY <1>1 DEF IInv, Apart, FilesOf
  <2> QED
    BY <1>1, <1>6, <1>7, <2>1 DEF IInv, Apart, Owner, Writing
<1>11. AuthBackedUp' /\ ConfigBackedUp'
  BY <1>1, <1>7 DEF IInv, AuthBackedUp, ConfigBackedUp, Writing
<1> QED
  BY <1>8, <1>9, <1>10, <1>11 DEF IInv

LEMMA WriteAuthKeeps ==
  ASSUME IInv, HistoryOK', WriteAuth, UNCHANGED <<installation, halved>>
  PROVE  IInv'
<1>1. /\ switch.pc = "write auth" /\ UNCHANGED <<stored, backup>>
      /\ live'.auth = switch.new.auth /\ live'.config = live.config
      /\ switch.new \in Settings /\ live' \in LiveFiles
      /\ stored.current # None => live' \in Settings
  BY DEF WriteAuth, IInv, TypeOK, InHand, LiveFiles, Settings, Writing
<1>2. /\ switch' \in Switch /\ switch'.pc = "write config"
      /\ switch'.new = switch.new /\ switch'.old = switch.old
      /\ switch'.file = switch.file /\ switch'.target = switch.target
  BY DEF WriteAuth, IInv, TypeOK, Switch
<1>3. switch.new.auth \in Content /\ switch.new.auth # None
  BY <1>1, CodexAssumption DEF Settings
<1>4. TypeOK'
  BY <1>1, <1>2 DEF IInv, TypeOK, HistoryOK
<1>5. InHand' /\ Parsed'
  BY <1>1, <1>2, <1>3 DEF IInv, InHand, Parsed, Reading, Writing
<1>6. Apart'
  <2> SUFFICES ASSUME ~halved PROVE Apart'
    BY DEF Apart
  <2>1. /\ FilesOf(installation, switch.new, switch.target)
        /\ FilesOf(installation, switch.old, Owner)
        /\ ConfigOf(installation, live.config, Owner)
        /\ \A g \in Group : TemplateOf(installation, stored.codex[g], g)
        /\ \A g \in Group : TemplateOf(installation, switch.file.codex[g], g)
    BY <1>1 DEF IInv, Apart, Writing
  <2>2. AuthOf(live'.auth, switch.target)
    BY <1>1, <2>1 DEF FilesOf
  <2> QED
    BY <1>1, <1>2, <2>1, <2>2 DEF Apart, Owner, Writing
<1>7. AuthBackedUp' /\ ConfigBackedUp'
  BY <1>1, <1>2, <1>3 DEF IInv, AuthBackedUp, ConfigBackedUp, Writing
<1> QED
  BY <1>4, <1>5, <1>6, <1>7 DEF IInv

LEMMA WriteConfigKeeps ==
  ASSUME IInv, HistoryOK', WriteConfig, UNCHANGED <<installation, halved>>
  PROVE  IInv'
<1>1. /\ switch.pc = "write config" /\ UNCHANGED <<stored, backup>>
      /\ live'.auth = live.auth /\ live'.config = switch.new.config
      /\ switch.new \in Settings /\ live' \in LiveFiles /\ live.auth \in Content
      /\ live' \in Settings
  BY DEF WriteConfig, IInv, TypeOK, InHand, LiveFiles, Settings, Writing
<1>2. /\ switch' \in Switch /\ switch'.pc = "save"
      /\ switch'.new = switch.new /\ switch'.old = switch.old
      /\ switch'.file = switch.file /\ switch'.target = switch.target
  BY DEF WriteConfig, IInv, TypeOK, Switch
<1>3. switch.new.config \in Config /\ switch.new.config # None
  BY <1>1, CodexAssumption DEF Settings
<1>4. TypeOK'
  BY <1>1, <1>2 DEF IInv, TypeOK, HistoryOK
<1>5. InHand' /\ Parsed'
  BY <1>1, <1>2, <1>3 DEF IInv, InHand, Parsed, Reading, Writing
<1>6. Apart'
  <2> SUFFICES ASSUME ~halved PROVE Apart'
    BY DEF Apart
  <2>1. /\ FilesOf(installation, switch.new, switch.target)
        /\ FilesOf(installation, switch.old, Owner)
        /\ AuthOf(live.auth, switch.target)
        /\ \A g \in Group : TemplateOf(installation, stored.codex[g], g)
        /\ \A g \in Group : TemplateOf(installation, switch.file.codex[g], g)
    BY <1>1 DEF IInv, Apart, Writing
  <2>2. ConfigOf(installation, live'.config, switch.target)
    BY <1>1, <2>1 DEF FilesOf
  <2> QED
    BY <1>1, <1>2, <2>1, <2>2 DEF Apart, Owner, Writing
<1>7. AuthBackedUp' /\ ConfigBackedUp'
  BY <1>1, <1>2, <1>3 DEF IInv, AuthBackedUp, ConfigBackedUp, Writing
<1> QED
  BY <1>4, <1>5, <1>6, <1>7 DEF IInv

LEMMA SaveKeeps ==
  ASSUME IInv, HistoryOK', Save, UNCHANGED <<installation, halved>>
  PROVE  IInv'
<1> DEFINE f == [switch.file EXCEPT !.current = switch.target]
<1>1. /\ switch.pc = "save" /\ UNCHANGED <<live, backup>>
      /\ stored' = Normalized(f) /\ switch' = Idle
  BY DEF Save
<1>2. /\ switch.target \in Group /\ f \in File /\ f.current = switch.target
      /\ f.codex = switch.file.codex
  BY <1>1 DEF IInv, InHand, File
<1> HIDE DEF f
<1>3. /\ stored' \in File /\ stored'.current = switch.target
      /\ (\A g \in Group : TemplateOf(installation, f.codex[g], g))
           => \A g \in Group : TemplateOf(installation, stored'.codex[g], g)
  BY <1>1, <1>2, NormalizedKeeps DEF IInv, TypeOK
<1>4. switch'.pc = "idle" /\ switch' \in Switch
  BY <1>1 DEF Idle, NoFiles, Switch, LiveFiles
<1>5. TypeOK'
  BY <1>1, <1>3, <1>4 DEF IInv, TypeOK, HistoryOK
<1>6. InHand' /\ Parsed'
  <2>1. live \in Settings
    BY <1>1, FileTypes DEF IInv, InHand, Settings
  <2>2. stored'.codex[switch.target].config.parses
    <3>1. CASE installation.fromProviders
      <4>1. stored'.codex = installation.template
        BY <1>1, <1>2, <3>1, NormalizedKeeps DEF IInv, TypeOK
      <4> QED
        BY <1>1, <3>1, <4>1 DEF IInv, Parsed, Writing
    <3>2. CASE ~ installation.fromProviders
      <4>1. stored' = f
        BY <1>1, <1>2, <3>2, NormalizedKeeps DEF IInv, TypeOK
      <4> QED
        BY <1>1, <1>2, <4>1 DEF IInv, Parsed, Writing
    <3> QED
      BY <3>1, <3>2
  <2>3. installation.fromProviders => stored'.codex = installation.template
    BY <1>1, <1>2, NormalizedKeeps DEF IInv, TypeOK
  <2> QED
    BY <1>1, <1>3, <1>4, <2>1, <2>2, <2>3 DEF InHand, Parsed, Reading, Writing
<1>7. Apart'
  <2> SUFFICES ASSUME ~halved PROVE Apart'
    BY <1>1 DEF Apart
  <2>1. \A g \in Group : TemplateOf(installation, stored'.codex[g], g)
    BY <1>1, <1>2, <1>3 DEF IInv, Apart
  <2>2. /\ AuthOf(live.auth, switch.target)
        /\ ConfigOf(installation, live.config, switch.target)
    BY <1>1 DEF IInv, Apart
  <2>3. Owner' = switch.target
    BY <1>2, <1>3, CodexAssumption DEF Owner
  <2> QED
    BY <1>1, <1>4, <2>1, <2>2, <2>3 DEF Apart, Writing
<1>8. AuthBackedUp' /\ ConfigBackedUp'
  BY <1>1, <1>4 DEF IInv, AuthBackedUp, ConfigBackedUp, Writing
<1> QED
  BY <1>5, <1>6, <1>7, <1>8 DEF IInv

\* An edit leaves the files there, whose they are, and the active provider.
LEMMA EditedFiles ==
  ASSUME IInv, EditLive
  PROVE  /\ live' \in LiveFiles
         /\ live'.auth = None <=> live.auth = None
         /\ live.auth # None => live'.auth \in Content /\ live'.auth.origin = live.auth.origin
         /\ live'.config = None <=> live.config = None
         /\ live.config # None =>
              live'.config \in Config /\ live'.config.active = live.config.active
         /\ HasTable(live'.config) <=> HasTable(live.config)
         /\ HasTable(live.config) => OriginOf(live'.config) = OriginOf(live.config)
         /\ ~HasTable(live.config) => live'.config = live.config
         /\ EditAuth => live'.config = live.config
         /\ EditConfig => live'.auth = live.auth
<1>1. CASE MayEdit(live.auth) /\ live' = [live EXCEPT !.auth.edits = @ + 1]
  <2> DEFINE auth == [live.auth EXCEPT !.edits = @ + 1]
  <2>1. live.auth \in Content /\ live.auth.edits + 1 \in 0 .. MaxEdits
    BY <1>1, FileTypes, CodexAssumption DEF IInv, MayEdit, Content
  <2>2. auth \in Content /\ auth.origin = live.auth.origin
    BY <2>1 DEF Content
  <2>3. live' = [auth |-> auth, config |-> live.config]
    BY <1>1, FileTypes DEF IInv
  <2>4. auth # live.auth
    BY <2>1 DEF Content
  <2> HIDE DEF auth
  <2>5. ~EditConfig
    <3> SUFFICES ASSUME EditConfig PROVE FALSE
      OBVIOUS
    <3>1. PICK parses \in BOOLEAN : live' = [live EXCEPT !.config = Edited(@, parses)]
      BY DEF EditConfig
    <3>2. live'.auth = live.auth
      BY <3>1, FileTypes DEF IInv
    <3> QED
      BY <2>3, <2>4, <3>2
  <2> QED
    BY <2>1, <2>2, <2>3, <2>5, FileTypes DEF IInv, LiveFiles
<1>2. ASSUME HasTable(live.config), MayEdit(ActiveTable(live.config)),
             NEW parses \in BOOLEAN,
             live' = [live EXCEPT !.config = Edited(@, parses)]
      PROVE  /\ live'.auth = live.auth /\ live'.config \in Config
             /\ live' = [auth |-> live.auth, config |-> live'.config]
             /\ HasTable(live'.config)
             /\ live'.config.active = live.config.active
             /\ OriginOf(live'.config) = OriginOf(live.config)
             /\ live.config \in Config
  <2> DEFINE config == Edited(live.config, parses)
  <2>1. live.config \in Config
    BY <1>2, FileTypes DEF IInv, HasTable
  <2>2. live' = [auth |-> live.auth, config |-> config]
    BY <1>2, FileTypes DEF IInv
  <2>3. /\ config \in Config /\ HasTable(config)
        /\ config.active = live.config.active
        /\ OriginOf(config) = OriginOf(live.config)
    BY <1>2, <2>1, EditKeeps
  <2> HIDE DEF config
  <2> QED
    BY <2>1, <2>2, <2>3
<1>3. CASE EditAuth
  BY <1>1, <1>3 DEF EditAuth
<1>4. CASE EditConfig
  <2>1. /\ live'.auth = live.auth /\ live'.config \in Config
        /\ live' = [auth |-> live.auth, config |-> live'.config]
        /\ HasTable(live'.config) /\ HasTable(live.config)
        /\ live'.config.active = live.config.active
        /\ OriginOf(live'.config) = OriginOf(live.config)
        /\ live.config \in Config
    BY <1>2, <1>4 DEF EditConfig
  <2>2. ~EditAuth
    <3> SUFFICES ASSUME EditAuth PROVE FALSE
      OBVIOUS
    <3>1. MayEdit(live.auth) /\ live' = [live EXCEPT !.auth.edits = @ + 1]
      BY DEF EditAuth
    <3>2. live.auth \in Content /\ live'.auth.edits = live.auth.edits + 1
      BY <3>1, FileTypes DEF IInv, MayEdit, Content
    <3> QED
      BY <2>1, <3>2, CodexAssumption DEF Content
  <2> QED
    BY <2>1, <2>2, FileTypes DEF IInv, LiveFiles
<1> QED
  BY <1>3, <1>4 DEF EditLive

LEMMA EditLiveKeeps ==
  ASSUME IInv, HistoryOK', EditLive, UNCHANGED <<installation, halved>>
  PROVE  IInv'
<1>1. UNCHANGED <<installation, halved, stored, backup, switch>>
  BY DEF EditLive
<1>2. TypeOK'
  BY <1>1, EditedFiles DEF IInv, TypeOK, HistoryOK
<1>3. InHand' /\ Parsed'
  <2>1. live \in Settings => live' \in Settings
    BY EditedFiles, FileTypes DEF Settings, LiveFiles, IInv
  <2>2. /\ live.auth \in Content => live'.auth \in Content
        /\ live.config \in Config => live'.config \in Config
    BY EditedFiles, FileTypes DEF IInv
  <2> QED
    BY <1>1, EditedFiles, <2>1, <2>2 DEF IInv, InHand, Parsed
<1>4. Apart'
  <2> SUFFICES ASSUME ~halved PROVE Apart'
    BY DEF Apart
  <2> DEFINE authOwner ==
               IF switch.pc \in {"write config", "save"} THEN switch.target ELSE Owner
             configOwner == IF switch.pc = "save" THEN switch.target ELSE Owner
  <2>1. AuthOf(live.auth, authOwner) /\ ConfigOf(installation, live.config, configOwner)
    BY DEF IInv, Apart
  <2> HIDE DEF authOwner, configOwner
  <2>2. AuthOf(live'.auth, authOwner) /\ ConfigOf(installation, live'.config, configOwner)
    BY EditedFiles, <2>1 DEF AuthOf, ConfigOf
  <2>3. ConfigOf(installation, live.config, configOwner)'
    BY <1>1, <2>2 DEF ConfigOf, configOwner, Owner
  <2>4. (/\ \A g \in Group : TemplateOf(installation, stored.codex[g], g)
         /\ switch.pc # "idle" =>
              \A g \in Group : TemplateOf(installation, switch.file.codex[g], g)
         /\ switch.pc \in Writing => FilesOf(installation, switch.new, switch.target)
         /\ switch.pc \in Writing => FilesOf(installation, switch.old, Owner))'
    BY <1>1 DEF IInv, Apart, Owner
  <2> QED
    BY <1>1, <2>2, <2>3, <2>4 DEF Apart, authOwner, configOwner, Owner
<1>5. AuthBackedUp' /\ ConfigBackedUp'
  <2>1. /\ AuthOf(live.auth, User) => AuthOf(live'.auth, User)
        /\ UserConfig(live.config) => UserConfig(live'.config)
    BY EditedFiles DEF AuthOf, UserConfig
  <2>2. /\ live.auth # None => live'.auth # None
        /\ live.config # None => live'.config # None
    BY EditedFiles
  <2>3. AuthBackedUp'
    BY <1>1, <2>1, <2>2 DEF IInv, AuthBackedUp, AuthOf
  <2>4. ConfigBackedUp'
    BY <1>1, <2>1, <2>2 DEF IInv, ConfigBackedUp, UserConfig
  <2> QED
    BY <2>3, <2>4
<1> QED
  BY <1>2, <1>3, <1>4, <1>5 DEF IInv

\* The types of the histories; only a failure leaves a switch half done.
LEMMA HistoryTypes ==
  ASSUME IInv, Next
  PROVE  HistoryOK' /\ (~Failing => UNCHANGED halved)
<1> USE DEF past, HistoryOK
<1>1. HistoryOK
  BY DEF IInv, TypeOK
<1>2. CASE (\E g \in Group : Begin(g)) \/ BackUpAuth \/ BackUpConfig \/ WriteAuth \/ Save
  BY <1>1, <1>2 DEF Begin, BackUpAuth, BackUpConfig, WriteAuth, Save
<1>3. CASE Backfill
  BY <1>1, <1>3 DEF Backfill
<1>4. CASE Compose
  <2>1. UNCHANGED <<halved, seen, newest>>
    BY <1>4 DEF Compose
  <2>2. adrift' \in BOOLEAN
    BY <1>4 DEF Compose
  <2> QED
    BY <1>1, <2>1, <2>2
<1>5. CASE WriteConfig
  <2>1. switch.new.config \in Config
    BY <1>5 DEF WriteConfig, IInv, InHand, Writing, Settings
  <2>2. CustomId(switch.new.config) \in Id \cup {None}
    BY <2>1, ConfigParts DEF CustomId
  <2> QED
    BY <1>1, <1>5, <2>2 DEF WriteConfig
<1>6. CASE EditLive
  <2>1. UNCHANGED <<halved, adrift, seen>>
    BY <1>6 DEF EditLive
  <2>2. CASE EditAuth
    <3>1. live.auth \in Content /\ live'.auth \in Content
      BY <1>6, <2>2, EditedFiles, FileTypes DEF IInv, EditAuth, MayEdit
    <3>2. newest' = Newest("auth", live.auth.origin, live'.auth)
      BY <2>2 DEF EditAuth
    <3> QED
      BY <1>1, <2>1, <3>1, <3>2 DEF Newest, Content
  <2>3. CASE EditConfig
    <3>1. HasTable(live.config) /\ live.config \in Config
      BY <2>3, FileTypes DEF IInv, EditConfig, HasTable
    <3>2. OriginOf(live.config) \in Group \cup {User}
      BY <3>1, TableIs DEF ActiveTable, OriginOf, Content
    <3>3. live'.config \in Config /\ HasTable(live'.config)
      BY <1>6, <3>1, EditedFiles, ConfigParts
    <3>4. ActiveTable(live'.config) \in Content
      BY <3>3, TableIs
    <3>5. newest' = Newest("table", OriginOf(live.config), ActiveTable(live'.config))
      BY <2>3 DEF EditConfig
    <3> QED
      BY <1>1, <2>1, <3>2, <3>4, <3>5 DEF Newest
  <2> QED
    BY <1>6, <2>2, <2>3 DEF EditLive
<1>7. CASE Failing
  BY <1>1, <1>7
  DEF Failing, BackUpFails, WriteFails, ConfigFails, SaveFails, Crash, LeftHalf
<1> QED
  BY <1>2, <1>3, <1>4, <1>5, <1>6, <1>7 DEF Next, Switching

LEMMA NextKeeps == IInv /\ [Next]_vars => IInv'
<1> SUFFICES ASSUME IInv, [Next]_vars PROVE IInv'
  OBVIOUS
<1>1. CASE UNCHANGED vars
  <2>1. UNCHANGED <<installation, stored, live, backup, switch, halved, adrift, seen, newest>>
    BY <1>1 DEF vars, past
  <2>2. TypeOK' /\ InHand' /\ Parsed'
    BY <2>1 DEF IInv, TypeOK, InHand, Parsed
  <2>3. Apart'
    BY <2>1 DEF IInv, Apart, Owner
  <2>4. AuthBackedUp' /\ ConfigBackedUp'
    BY <2>1 DEF IInv, AuthBackedUp, ConfigBackedUp
  <2> QED
    BY <2>2, <2>3, <2>4 DEF IInv
<1>2. CASE Next
  <2>1. HistoryOK' /\ UNCHANGED installation /\ (~Failing => UNCHANGED halved)
    BY <1>2, HistoryTypes DEF Next
  <2>2. CASE Failing
    BY <2>1, <2>2, FailuresKeep
  <2>3. ASSUME ~Failing, NEW g \in Group, Begin(g) PROVE IInv'
    BY <2>1, <2>3, BeginKeeps
  <2>4. CASE /\ ~Failing
             /\ \/ BackUpAuth \/ BackUpConfig \/ Backfill \/ Compose
                \/ WriteAuth \/ WriteConfig \/ Save \/ EditLive
    BY <2>1, <2>4, BackUpKeeps, BackfillKeeps, ComposeKeeps, WriteAuthKeeps,
       WriteConfigKeeps, SaveKeeps, EditLiveKeeps
  <2> QED
    BY <1>2, <2>2, <2>3, <2>4 DEF Next, Switching
<1> QED
  BY <1>1, <1>2

-------------------------------------------------------------------------------
(* The theorems *)

LEMMA Holds == Spec => []IInv
  BY InitIInv, NextKeeps, PTL DEF Spec

(***************************************************************************)
(* Type correctness: whichever ids are renamed and whatever is edited,      *)
(* config.toml stays one, and the configuration has a template per group.   *)
(***************************************************************************)
THEOREM TypeCorrect == Spec => []TypeOK
<1>1. IInv => TypeOK
  BY DEF IInv
<1> QED
  BY <1>1, Holds, PTL

(***************************************************************************)
(* backfillCurrentCodexProvider never stores one provider's settings as     *)
(* another's, and restoreTemplateModelProviderID brings back the configured *)
(* id: what is live is the current provider's whenever it is taken over.    *)
(***************************************************************************)
THEOREM TemplatesApart == Spec => []TemplatesStayApart
<1>1. ASSUME IInv PROVE TemplatesStayApart
  <2> SUFFICES ASSUME ~halved, NEW g \in Group
               PROVE  LET settings == stored.codex[g] IN
                      /\ settings.auth.origin = g
                      /\ HasTable(settings.config) => OriginOf(settings.config) = g
                      /\ settings.config.parses =>
                           settings.config.active = installation.template[g].config.active
    BY DEF TemplatesStayApart
  <2>1. TemplateOf(installation, stored.codex[g], g)
    BY <1>1 DEF IInv, Apart
  <2>2. stored.codex[g].auth # None
    BY <1>1, CodexAssumption DEF IInv, TypeOK, File, Settings
  <2> QED
    BY <2>1, <2>2 DEF TemplateOf, FilesOf, AuthOf, ConfigOf
<1> QED
  BY <1>1, Holds, PTL

(***************************************************************************)
(* Between switches both live files are those of the provider the           *)
(* configuration names: SwitchProvider writes both or, by rollbackFile,     *)
(* neither, before SaveFile names the new one.                              *)
(***************************************************************************)
THEOREM LiveFilesAreCurrent == Spec => []LiveIsCurrent
<1>1. IInv => LiveIsCurrent
  BY DEF IInv, Apart, LiveIsCurrent, Owner, AuthOf, ConfigOf
<1> QED
  BY <1>1, Holds, PTL

(***************************************************************************)
(* backupFileIfNeeded has backed a file up before anything is written, and  *)
(* never again: the backup shows what was live before the program came.     *)
(***************************************************************************)
THEOREM BackupsAreOriginal == Spec => []BackupIsOriginal
<1>1. IInv => BackupIsOriginal
  BY CodexAssumption DEF IInv, BackupIsOriginal, AuthBackedUp, ConfigBackedUp, AuthOf,
     UserConfig, HasTable
<1> QED
  BY <1>1, Holds, PTL

-------------------------------------------------------------------------------
(* One id *)

LEMMA InitSameId == Init => SameId
  BY DEF Init, Idle, SameId, IdOf, CustomId

LEMMA ComposeSameId ==
  ASSUME IInv, SameId, Compose
  PROVE  SameId'
<1> DEFINE template == switch.file.codex[switch.target]
<1>1. PICK anchor \in {live.config, None} :
        /\ switch' = [switch EXCEPT !.pc = "write auth", !.old = live,
                        !.new = [auth |-> template.auth,
                                 config |-> Stable(template.config, anchor)]]
        /\ adrift' = (adrift \/ (seen # None /\ ActiveId(anchor) = None))
  BY DEF Compose
<1> DEFINE config == Stable(template.config, anchor)
<1>2. switch.pc = "compose" /\ template.config.parses /\ UNCHANGED <<live, seen>>
  BY DEF Compose
<1>3. template.config \in Config /\ anchor \in Config \cup {None}
  BY <1>1, <1>2, FileTypes DEF IInv, InHand, File, Settings
<1>4. /\ HasTable(config) => config.active \notin Reserved
      /\ ActiveId(anchor) \notin Reserved \cup {None} /\ HasTable(config) =>
           config.active = ActiveId(anchor)
  BY <1>2, <1>3, StableKeeps
<1>5. /\ switch'.pc = "write auth" /\ switch'.old = live /\ switch'.new.config = config
  BY <1>1 DEF IInv, TypeOK, Switch
<1> HIDE DEF config, template
<1>6. IdOf(live.config)'
  BY <1>1, <1>2 DEF SameId, IdOf
<1>7. ASSUME ~adrift', seen # None
      PROVE  CustomId(config) \in {seen, None}
  <2>1. ~adrift /\ ActiveId(anchor) # None
    BY <1>1, <1>7
  <2>2. anchor = live.config /\ HasTable(live.config) /\ ActiveId(anchor) = live.config.active
    BY <1>1, <2>1 DEF ActiveId, HasTable
  <2>3. ActiveId(anchor) = seen /\ seen \notin Reserved \cup {None}
    BY <1>7, <2>1, <2>2 DEF SameId, IdOf, CustomId
  <2> QED
    BY <1>4, <2>3 DEF CustomId
<1> QED
  BY <1>2, <1>4, <1>5, <1>6, <1>7 DEF SameId, IdOf

LEMMA NextSameId == IInv /\ SameId /\ [Next]_vars => SameId'
<1> SUFFICES ASSUME IInv, SameId, [Next]_vars PROVE SameId'
  OBVIOUS
<1>1. CASE UNCHANGED vars
  BY <1>1 DEF vars, past, SameId, IdOf
<1>2. CASE \/ (\E g \in Group : Begin(g)) \/ BackUpAuth \/ BackUpConfig \/ Backfill \/ Save
           \/ BackUpFails \/ WriteFails \/ SaveFails \/ Crash
  <2>1. UNCHANGED <<live, adrift, seen>>
    BY <1>2 DEF Begin, BackUpAuth, BackUpConfig, Backfill, Save, BackUpFails, WriteFails,
                SaveFails, Crash, past
  <2>2. switch'.pc \in {"idle", "backup auth", "backup config", "backfill", "compose"}
    <3>1. CASE BackUpAuth
      BY <3>1 DEF BackUpAuth, IInv, TypeOK, Switch
    <3>2. CASE BackUpConfig
      BY <3>2 DEF BackUpConfig, IInv, TypeOK, Switch
    <3>3. CASE Backfill
      BY <3>3 DEF Backfill, IInv, TypeOK, Switch
    <3>4. CASE \E g \in Group : Begin(g)
      BY <3>4 DEF Begin, Idle
    <3>5. CASE Save \/ BackUpFails \/ WriteFails \/ SaveFails \/ Crash
      <4>1. switch' = Idle
        BY <3>5 DEF Save, BackUpFails, WriteFails, SaveFails, Crash
      <4> QED
        BY <4>1 DEF Idle
    <3> QED
      BY <1>2, <3>1, <3>2, <3>3, <3>4, <3>5
  <2> QED
    BY <2>1, <2>2 DEF SameId, IdOf
<1>3. CASE Compose
  BY <1>3, ComposeSameId
<1>4. CASE WriteAuth
  <2>1. /\ live'.config = live.config /\ switch.pc = "write auth"
        /\ switch'.old = switch.old /\ switch'.new = switch.new
        /\ UNCHANGED <<adrift, seen>>
    BY <1>4 DEF WriteAuth, IInv, TypeOK, LiveFiles, Switch, past
  <2> QED
    BY <2>1 DEF SameId, IdOf
<1>5. CASE WriteConfig
  <2>1. /\ live'.config = switch.new.config /\ switch.pc = "write config"
        /\ switch'.pc = "save" /\ UNCHANGED adrift
        /\ seen' = IF seen = None THEN CustomId(switch.new.config) ELSE seen
    BY <1>5 DEF WriteConfig, IInv, TypeOK, LiveFiles, Switch
  <2> QED
    BY <2>1 DEF SameId, IdOf
<1>6. CASE EditLive
  <2>1. UNCHANGED <<switch, adrift, seen>>
    BY <1>6 DEF EditLive
  <2>2. /\ HasTable(live'.config) <=> HasTable(live.config)
        /\ HasTable(live.config) => live'.config.active = live.config.active
    BY <1>6, EditedFiles DEF HasTable
  <2> QED
    BY <2>1, <2>2 DEF SameId, IdOf, CustomId
<1>7. CASE ConfigFails
  <2>1. PICK restored \in BOOLEAN, config \in {live.config, switch.old.config} :
          live' = IF restored THEN [auth |-> RolledBack, config |-> config] ELSE live
    BY <1>7 DEF ConfigFails
  <2>2. live'.config \in {live.config, switch.old.config}
    BY <2>1
  <2>3. /\ switch.pc = "write config" /\ switch'.pc = "idle"
        /\ UNCHANGED <<adrift, seen>>
    BY <1>7 DEF ConfigFails, Idle
  <2> QED
    BY <2>2, <2>3 DEF SameId, IdOf
<1> QED
  BY <1>1, <1>2, <1>3, <1>4, <1>5, <1>6, <1>7 DEF Next, Switching, Failing

(***************************************************************************)
(* normalizeStableModelProvider keeps the custom id that is live, and the   *)
(* rollback writes back what had it: as long as it is found at every        *)
(* switch, Codex sees one custom id for good.                               *)
(***************************************************************************)
THEOREM LiveIdStable == Spec => []LiveIdIsStable
<1>1. Spec => []SameId
  BY InitSameId, NextSameId, Holds, PTL DEF Spec
<1>2. SameId => LiveIdIsStable
  BY DEF SameId, IdOf, LiveIdIsStable
<1> QED
  BY <1>1, <1>2, PTL

-------------------------------------------------------------------------------
(* No edit is lost *)

LEMMA InitKept == Init => Kept
<1> SUFFICES ASSUME Init PROVE ~halved /\ KeptSoFar
  BY DEF Kept
<1>1. switch.pc = "idle" /\ stored.current = None /\ ~halved
  BY DEF Init, Idle
<1>2. \A g \in Group : Has(stored.codex[g], newest[g])
  BY DEF Init, Has
<1> QED
  BY <1>1, <1>2 DEF KeptSoFar, Have, Reading, Writing

\* What was passed over once is not known again, nor what was left half done.
LEMMA NewestKnown ==
  ASSUME IInv, Kept, Next, newest' # None
  PROVE  /\ newest # None
         /\ ~halved /\ ~halved'
         /\ EditLive \/ newest' = newest
<1>1. newest # None
  BY DEF Next, Switching, Failing, Begin, BackUpAuth, BackUpConfig, Backfill, Compose,
         WriteAuth, WriteConfig, Save, EditLive, EditAuth, EditConfig, Newest, BackUpFails,
         WriteFails, ConfigFails, SaveFails, Crash, LeftHalf, past
<1>2. EditLive \/ newest' = newest
  BY DEF Next, Switching, Failing, Begin, BackUpAuth, BackUpConfig, Backfill, Compose,
         WriteAuth, WriteConfig, Save, BackUpFails, WriteFails, ConfigFails, SaveFails,
         Crash, LeftHalf, past
<1>3. ~halved'
  <2>1. ~halved
    BY <1>1 DEF Kept
  <2>2. Failing => halved' = halved
    BY DEF Failing, BackUpFails, WriteFails, ConfigFails, SaveFails, Crash, LeftHalf, past
  <2> QED
    BY <2>1, <2>2, HistoryTypes
<1> QED
  BY <1>1, <1>2, <1>3 DEF Kept

\* The steps of a switch.
LEMMA BackfillKept ==
  ASSUME IInv, KeptSoFar, Backfill, newest # None, newest' = newest
  PROVE  KeptSoFar'
<1> DEFINE left == stored.current
           target == switch.target
<1>1. switch.pc = "backfill" /\ UNCHANGED <<stored, live>>
  BY DEF Backfill
<1>2. PICK readable \in BOOLEAN :
        /\ switch' = [switch EXCEPT
             !.pc = "compose",
             !.file = IF readable THEN Backfilled(@, target) ELSE @]
        /\ left = None \/ (readable /\ left # target)
  BY DEF Backfill
<1>3. /\ switch'.pc = "compose" /\ switch'.target = target
      /\ switch'.file = IF readable THEN Backfilled(switch.file, target) ELSE switch.file
  BY <1>2 DEF IInv, TypeOK, Switch
<1>4. /\ switch.file = stored /\ target \in Group /\ left # target
      /\ Have(stored.codex, Group \ {left}, newest)
      /\ left # None => Has(live, newest[left])
  BY <1>1, <1>2, CodexAssumption DEF KeptSoFar, Reading, IInv, InHand
<1>5. \A g \in Group : Has(switch'.file.codex[g], newest[g])
  <2>1. CASE left = None
    <3>1. switch'.file = stored
      BY <1>3, <1>1, <1>4, <2>1, BackfilledKeeps
    <3>2. None \notin Group
      BY CodexAssumption
    <3> QED
      BY <1>4, <2>1, <3>1, <3>2 DEF Have
  <2>2. CASE left # None
    <3> DEFINE f == Backfilled(switch.file, target)
    <3>1. switch'.file = f
      BY <1>2, <1>3, <2>2
    <3>2. /\ f.codex[left].auth = live.auth
          /\ ActiveTable(f.codex[left].config) = ActiveTable(live.config)
          /\ \A g \in Group \ {left} : f.codex[g] = stored.codex[g]
      BY <1>1, <1>4, <2>2, BackfilledKeeps
    <3> HIDE DEF f
    <3> QED
      BY <1>4, <2>2, <3>1, <3>2 DEF Have, Has
  <2> QED
    BY <2>1, <2>2
<1> QED
  BY <1>1, <1>3, <1>4, <1>5 DEF KeptSoFar, Have, Reading, Writing

LEMMA ComposeKept ==
  ASSUME IInv, KeptSoFar, Compose, newest' = newest
  PROVE  KeptSoFar'
<1> DEFINE template == switch.file.codex[switch.target]
<1>1. PICK anchor \in {live.config, None} :
        switch' = [switch EXCEPT !.pc = "write auth", !.old = live,
                     !.new = [auth |-> template.auth,
                              config |-> Stable(template.config, anchor)]]
  BY DEF Compose
<1> DEFINE new == [auth |-> template.auth, config |-> Stable(template.config, anchor)]
<1>2. switch.pc = "compose" /\ template.config.parses /\ UNCHANGED <<stored, live>>
  BY DEF Compose
<1>3. template.config \in Config /\ anchor \in Config \cup {None}
  BY <1>1, <1>2, FileTypes DEF IInv, InHand, File, Settings
<1>4. new.auth = template.auth /\ ActiveTable(new.config) = ActiveTable(template.config)
  BY <1>2, <1>3, StableKeeps
<1> HIDE DEF new
<1>5. /\ switch'.pc = "write auth" /\ switch'.old = live /\ switch'.new = new
      /\ switch'.file = switch.file /\ switch'.target = switch.target
  BY <1>1 DEF IInv, TypeOK, Switch, new
<1>6. Has(new, newest[switch.target])
  BY <1>2, <1>4 DEF KeptSoFar, Has
<1> QED
  BY <1>2, <1>5, <1>6 DEF KeptSoFar, Have, Reading, Writing

LEMMA WritesKept ==
  ASSUME IInv, KeptSoFar, WriteAuth \/ WriteConfig, newest' = newest
  PROVE  KeptSoFar'
<1>1. /\ stored' = stored /\ switch'.new = switch.new /\ switch'.old = switch.old
      /\ switch'.file = switch.file /\ switch'.target = switch.target
  BY DEF WriteAuth, WriteConfig, IInv, TypeOK, Switch
<1>2. CASE WriteAuth
  <2>1. /\ switch.pc = "write auth" /\ switch'.pc = "write config"
        /\ live'.auth = switch.new.auth /\ live'.config = live.config
    BY <1>2 DEF WriteAuth, IInv, TypeOK, LiveFiles, Switch
  <2> QED
    BY <1>1, <2>1 DEF KeptSoFar, Has, Have, Reading, Writing
<1>3. CASE WriteConfig
  <2>1. /\ switch.pc = "write config" /\ switch'.pc = "save"
        /\ live'.auth = live.auth /\ live'.config = switch.new.config
    BY <1>3 DEF WriteConfig, IInv, TypeOK, LiveFiles, Switch
  <2> QED
    BY <1>1, <2>1 DEF KeptSoFar, Has, Have, Reading, Writing
<1> QED
  BY <1>2, <1>3

LEMMA SaveKept ==
  ASSUME IInv, KeptSoFar, Save, newest' = newest, ~ installation.fromProviders
  PROVE  KeptSoFar'
<1> DEFINE f == [switch.file EXCEPT !.current = switch.target]
<1>1. switch.pc = "save" /\ UNCHANGED live /\ stored' = Normalized(f) /\ switch'.pc = "idle"
  BY DEF Save, Idle
<1>2. f \in File /\ f.current = switch.target /\ f.codex = switch.file.codex
  BY <1>1 DEF IInv, InHand, File
<1> HIDE DEF f
<1>3. stored'.current = switch.target /\ stored'.codex = switch.file.codex
  BY <1>1, <1>2, NormalizedKeeps DEF IInv, TypeOK
<1> QED
  BY <1>1, <1>3 DEF KeptSoFar, Have, Reading, Writing

LEMMA EditKept ==
  ASSUME IInv, KeptSoFar, EditLive, newest # None, newest' # None, ~halved,
         UNCHANGED installation
  PROVE  KeptSoFar'
<1> DEFINE owner == IF switch.pc = "save" THEN switch.target ELSE Owner
<1>1. UNCHANGED <<stored, switch>> /\ ~Unnoticed
  BY DEF EditLive, EditAuth, EditConfig, Newest
<1>2. switch.pc \in Reading \cup {"idle", "save"}
  BY <1>1 DEF Unnoticed, IInv, TypeOK, Switch, Reading
<1>3. AuthOf(live.auth, owner) /\ ConfigOf(installation, live.config, owner)
  BY <1>2 DEF IInv, Apart, Reading
<1>4. owner \in Group \cup {User} /\ User \notin Group
  BY <1>2, CodexAssumption DEF Owner, IInv, TypeOK, File, InHand
<1>5. newest \in [Group -> [auth : Content, table : Content \cup {None}]]
  BY DEF IInv, TypeOK
<1>6. /\ \A g \in Group : g # owner => newest'[g] = newest[g]
      /\ owner \in Group /\ Has(live, newest[owner]) => Has(live', newest'[owner])
  <2>1. CASE EditAuth
    <3>1. live.auth.origin = owner /\ live'.config = live.config
      BY <1>3, <2>1, EditedFiles DEF EditAuth, MayEdit, AuthOf
    <3>2. newest' = IF owner = User THEN newest
                                    ELSE [newest EXCEPT ![owner]["auth"] = live'.auth]
      BY <1>1, <2>1, <3>1 DEF EditAuth, Newest
    <3> QED
      BY <1>4, <1>5, <3>1, <3>2 DEF Has
  <2>2. CASE EditConfig
    <3>1. OriginOf(live.config) = owner /\ live'.auth = live.auth
      BY <1>3, <2>2, EditedFiles DEF EditConfig, ConfigOf
    <3>2. newest' = IF owner = User THEN newest
                    ELSE [newest EXCEPT ![owner]["table"] = ActiveTable(live'.config)]
      BY <1>1, <2>2, <3>1 DEF EditConfig, Newest
    <3> QED
      BY <1>4, <1>5, <3>1, <3>2 DEF Has
  <2> QED
    BY <2>1, <2>2 DEF EditLive
<1>7. CASE switch.pc = "save"
  BY <1>1, <1>6, <1>7 DEF KeptSoFar, Have, Reading, Writing, IInv, InHand
<1>8. CASE switch.pc # "save"
  <2>1. /\ stored.current # None => owner = stored.current /\ owner \in Group
        /\ stored.current = None => owner \notin Group
    BY <1>4, <1>8 DEF Owner, IInv, TypeOK, File
  <2> QED
    BY <1>1, <1>2, <1>6, <1>8, <2>1 DEF KeptSoFar, Have, Reading, Writing
<1> QED
  BY <1>7, <1>8

LEMMA FailuresKept ==
  ASSUME IInv, KeptSoFar, Failing, newest' # None, newest' = newest
  PROVE  KeptSoFar'
<1>1. switch'.pc = "idle" /\ UNCHANGED stored
  <2>1. switch' = Idle /\ UNCHANGED stored
    BY DEF Failing, BackUpFails, WriteFails, ConfigFails, SaveFails, Crash
  <2> QED
    BY <2>1 DEF Idle
<1>2. switch.pc # "save"
  BY DEF Failing, BackUpFails, WriteFails, ConfigFails, SaveFails, Crash, LeftHalf
<1>3. ASSUME stored.current # None
      PROVE  Has(live', newest[stored.current])
  <2>1. CASE BackUpFails \/ WriteFails \/ Crash
    <3>1. UNCHANGED live /\ switch.pc \in Reading \cup {"idle", "compose", "write auth"}
      BY <2>1 DEF BackUpFails, WriteFails, Crash, LeftHalf, Reading, IInv, TypeOK, Switch
    <3> QED
      BY <1>3, <3>1 DEF KeptSoFar
  <2>2. CASE ConfigFails
    <3>1. PICK restored \in BOOLEAN, config \in {live.config, switch.old.config} :
            /\ live' = IF restored THEN [auth |-> switch.old.auth, config |-> config]
                                   ELSE live
            /\ IF restored THEN UNCHANGED <<halved, newest>> ELSE LeftHalf
      BY <2>2 DEF ConfigFails, RolledBack
    <3>2. live' = [auth |-> switch.old.auth, config |-> config]
      BY <3>1 DEF LeftHalf
    <3>3. switch.pc = "write config"
      BY <2>2 DEF ConfigFails
    <3>4. /\ Has(switch.old, newest[stored.current])
          /\ ActiveTable(live.config) = newest[stored.current].table
      BY <1>3, <3>3 DEF KeptSoFar
    <3>5. ActiveTable(config) = newest[stored.current].table
      BY <3>1, <3>4 DEF Has
    <3>6. live'.auth = switch.old.auth /\ live'.config = config
      BY <3>2
    <3> QED
      BY <3>4, <3>5, <3>6 DEF Has
  <2>3. ~SaveFails
    BY DEF SaveFails, LeftHalf
  <2> QED
    BY <2>1, <2>2, <2>3 DEF Failing
<1> QED
  BY <1>1, <1>2, <1>3 DEF KeptSoFar, Have, Reading, Writing

LEMMA NextKept == IInv /\ Kept /\ [Next]_vars => Kept'
<1> SUFFICES ASSUME IInv, Kept, [Next]_vars, newest' # None
             PROVE  ~halved' /\ (~ installation'.fromProviders => KeptSoFar')
  BY DEF Kept
<1>1. CASE UNCHANGED vars
  BY <1>1 DEF vars, past, Kept, KeptSoFar, Have
<1>2. CASE Next
  <2>1. /\ newest # None /\ ~halved /\ ~halved' /\ UNCHANGED installation
        /\ EditLive \/ newest' = newest
    BY <1>2, NewestKnown DEF Next
  <2> SUFFICES ASSUME ~ installation.fromProviders PROVE KeptSoFar'
    BY <2>1
  <2>2. KeptSoFar
    BY <2>1 DEF Kept
  <2>3. CASE EditLive
    BY <2>1, <2>2, <2>3, EditKept
  <2> SUFFICES ASSUME newest' = newest PROVE KeptSoFar'
    BY <2>1, <2>3
  <2>4. CASE \E g \in Group : Begin(g)
    <3>1. PICK g \in Group : Begin(g)
      BY <2>4
    <3>2. /\ switch.pc = "idle" /\ switch'.pc = "backup auth"
          /\ switch'.file = Normalized(stored) /\ UNCHANGED <<stored, live>>
      BY <3>1 DEF Begin, Idle
    <3>3. Normalized(stored) = stored
      BY NormalizedKeeps DEF IInv, TypeOK
    <3> QED
      BY <2>2, <3>2, <3>3 DEF KeptSoFar, Have, Reading, Writing
  <2>5. CASE BackUpAuth \/ BackUpConfig
    <3>1. /\ switch.pc \in Reading /\ switch'.pc \in Reading /\ switch'.file = switch.file
          /\ UNCHANGED <<stored, live>>
      BY <2>5 DEF BackUpAuth, BackUpConfig, Reading, IInv, TypeOK, Switch
    <3> QED
      BY <2>2, <3>1 DEF KeptSoFar, Have, Reading, Writing
  <2>6. CASE Backfill
    BY <2>1, <2>2, <2>6, BackfillKept
  <2>7. CASE Compose
    BY <2>2, <2>7, ComposeKept
  <2>8. CASE WriteAuth \/ WriteConfig
    BY <2>2, <2>8, WritesKept
  <2>9. CASE Save
    BY <2>2, <2>9, SaveKept
  <2>10. CASE Failing
    BY <2>2, <2>10, FailuresKept
  <2> QED
    BY <1>2, <2>3, <2>4, <2>5, <2>6, <2>7, <2>8, <2>9, <2>10 DEF Next, Switching
<1> QED
  BY <1>1, <1>2

(***************************************************************************)
(* Between backfillCurrentCodexProvider and SaveFile, over any number of    *)
(* switches, failures and rollbacks, no token that Codex refreshed and no   *)
(* edit of the user gets lost, as long as each switch could read what was   *)
(* live, chose another provider, and was not raced by the edit.             *)
(***************************************************************************)
THEOREM EditsKept == Spec => []EditsAreKept
<1>1. Spec => []Kept
  BY InitKept, NextKept, Holds, PTL DEF Spec
<1>2. ASSUME IInv, Kept PROVE EditsAreKept
  <2> SUFFICES ASSUME switch.pc = "idle", newest # None, ~ installation.fromProviders,
                      NEW g \in Group
               PROVE  Has(IF g = stored.current THEN live ELSE stored.codex[g], newest[g])
    BY DEF EditsAreKept, Has
  <2>1. KeptSoFar
    BY <1>2 DEF Kept
  <2>2. g # None
    BY CodexAssumption
  <2> QED
    BY <2>1, <2>2 DEF KeptSoFar, Have
<1> QED
  BY <1>1, <1>2, Holds, PTL

===============================================================================
