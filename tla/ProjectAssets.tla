---------------------------- MODULE ProjectAssets ----------------------------
(***************************************************************************)
(* The package's files in a project: what cwf project init, cwf project    *)
(* sync and cwf dev refresh plan for each of them (src/lib/                *)
(* copy-template.js, src/lib/host-assets.js, src/commands/), by the sync   *)
(* policy of host-assets.json, the hosts the project uses and the language *)
(* its config.yaml asks for.  A command builds its plan from the files it  *)
(* finds and applies it later; in between the user edits files and the     *)
(* package itself may be updated.                                          *)
(*                                                                         *)
(* One asset stands for each class of paths the policy tells apart.  Of a  *)
(* file the model keeps the release its packaged text is from, one word of *)
(* it that some code reads, and whether it holds text of the user's.  That *)
(* a plan is applied as a whole or not at all is AssetTransaction's        *)
(* concern: Apply and Refused are its two outcomes.                        *)
(***************************************************************************)
EXTENDS Naturals, FiniteSets

CONSTANTS
    Template,      \* files of the package's template, but for .version
    SkillCopies,   \* Skill files that have a place under a host's read root
    RetiredSkills, \* paths on the obsolete list that name a Skill
    RetiredFiles,  \* and those that do not
    WithOriginal,  \* retired Skills the template still has a Skill for
    VersionFile, Config, Developer,  \* .version, config.yaml and .developer
    Hosts,         \* the platforms of the manifest
    Owners,        \* hosts an asset belongs to, none if to all: assetOwners
    ReadRoot,      \* hosts that read a Skill copy
    Marker,        \* files whose presence shows a host: detectAny
    SafePaths,     \* paths on the manifest's safe lists
    ProtectedPaths, ForceProtectedPaths, ManagedPaths,
    RuntimePaths,  \* paths under .cowork-flow
    Localized,     \* assets with an English copy under locales/
    Unchanging,    \* assets every release ships alike
    Releases,      \* 1 .. the last release
    Starts,        \* the projects to start from
    Editable,      \* files the user edits and
    Deletable,     \* deletes
    Kinds,         \* the commands run
    MaxCommands, MaxPuts  \* bounds

AssetClasses == Template \cup SkillCopies \cup RetiredSkills \cup RetiredFiles \cup {VersionFile}

\* rel 0: no text of the package.  The word is the language of a localized
\* asset, the language: setting of config.yaml or the name in .developer.
FileTexts == [rel : {0} \cup Releases, own : BOOLEAN,
             word : {"none", "zh", "en", "bad", "named", "nameless", "placeholder"}]

Nothing == [rel |-> 0, own |-> FALSE, word |-> "none"]

\* What host-assets.json has: a path is of one class; what a host owns or
\* reads and is detected by is its alone; every template file is protected or
\* updated; config.yaml is created once.
Policy ==
    /\ {Config, Developer} \subseteq Template /\ Config # Developer
    /\ Template \cap (SkillCopies \cup RetiredSkills \cup RetiredFiles \cup {VersionFile}) = {}
    /\ SkillCopies \cap (RetiredSkills \cup RetiredFiles \cup {VersionFile}) = {}
    /\ RetiredSkills \cap (RetiredFiles \cup {VersionFile}) = {}
    /\ VersionFile \notin RetiredFiles
    /\ WithOriginal \subseteq RetiredSkills
    /\ ManagedPaths \subseteq Template \ ProtectedPaths
    /\ Localized \subseteq Template \ {Config, Developer}
    /\ Config \in ForceProtectedPaths /\ ForceProtectedPaths \subseteq ProtectedPaths
    /\ ProtectedPaths \cap (SkillCopies \cup RetiredFiles \cup {VersionFile}) = {}
    /\ Owners \in [Template -> SUBSET Hosts]
    /\ ReadRoot \in [SkillCopies -> SUBSET Hosts]
    /\ Marker \in [Hosts -> SUBSET (AssetClasses \ {VersionFile, Config, Developer})]
    /\ \A h \in Hosts : \A a \in Marker[h] :
          (a \in Template => Owners[a] = {h}) /\ (a \in SkillCopies => ReadRoot[a] = {h})
    /\ \A a \in Template \ (ProtectedPaths \cup ManagedPaths) :
          a \in SafePaths \/ Owners[a] # {}
    /\ Kinds \subseteq {"init", "sync", "refresh"} /\ Releases \subseteq Nat
    /\ Editable \cup Deletable \subseteq AssetClasses
    /\ Starts \subseteq [AssetClasses -> FileTexts]
    /\ \A s \in Starts : s[Developer].word \in {"none", "named", "nameless", "placeholder"}

ASSUME PolicyAssumption == Policy

VARIABLES
    files,     \* the project
    release,   \* the installed package
    cmd,       \* the command that is running, and its plan
    chosen,    \* history: hosts the user has asked for, by init or by hand
    rewritten, \* files written since the plan was built
    settled,   \* the last thing that happened is an undisturbed sync
    commands, puts

projectVars == <<files, release, cmd, chosen, rewritten, settled, commands, puts>>

Idle == [kind |-> "idle"]

Exists(a) == files[a] # Nothing

\* the template's text of an asset: localizedSource picks the copy
Shipped(a, rel, lang) ==
    [rel |-> IF a \in Unchanging THEN 1 ELSE rel, own |-> FALSE,
     word |-> IF a \in Localized THEN lang
              ELSE IF a = Config THEN "zh"
              ELSE IF a = Developer THEN "placeholder" ELSE "none"]

\* readProjectLanguage, and the language it falls back on
LanguageOf(fs) == IF fs[Config].word \in {"zh", "en"} THEN fs[Config].word ELSE "zh"

\* readProjectLanguageStrict raises
LanguageRefused(fs) == fs[Config].word = "bad"

Detected(fs) == {h \in Hosts : \E a \in Marker[h] : fs[a] # Nothing}

MutantInclude(a, hosts) == TRUE
ShouldInclude(a, hosts) == Owners[a] = {} \/ Owners[a] \cap hosts # {}

IsProtectedSyncFile(a) == a \in ProtectedPaths

IsSafeSyncFile(a) == a \in SafePaths \/ Owners[a] # {}

\* One planned action: what is done, the text it leaves, and whether that
\* text is copied from the package when the plan is applied.
Act(do, to, copied) == [do |-> do, to |-> to, copied |-> copied]
Leave(fs, a, do) == Act(do, fs[a], FALSE)

MutantSkillAct(fs, a, hosts, rel, sync) ==
    IF ReadRoot[a] \cap hosts # {} /\ fs[a] = Nothing
    THEN Act("create", Shipped(a, rel, "zh"), TRUE) ELSE Leave(fs, a, "skip")
SkillAct(fs, a, hosts, rel, sync) ==
    LET new == Shipped(a, rel, "zh") IN
    IF ReadRoot[a] \cap hosts = {} THEN Leave(fs, a, "none")
    ELSE IF fs[a] = Nothing THEN Act("create", new, TRUE)
    ELSE IF sync /\ fs[a] # new THEN Act("update", new, TRUE)
    ELSE Leave(fs, a, "skip")

-----------------------------------------------------------------------------
(* cwf project init                                                        *)

\* readExistingDeveloper finds no name= line; resolveDeveloperName has one then,
\* from --developer, git or the user.
DeveloperMissing(fs) == fs[Developer].word \notin {"named", "placeholder"}

InitAct(fs, a, hosts, force, rel, lang) ==
    LET new == Shipped(a, rel, lang) IN
    IF a \in SkillCopies THEN SkillAct(fs, a, hosts, rel, FALSE)
    ELSE IF a = Config /\ fs[a] = Nothing
         THEN Act("create", [new EXCEPT !.word = lang], FALSE)
    ELSE IF a = Developer /\ DeveloperMissing(fs)
         THEN Act("create", [new EXCEPT !.word = "named"], FALSE)
    ELSE IF a \notin Template \cup {VersionFile} THEN Leave(fs, a, "none")
    ELSE IF a # VersionFile /\ ~ShouldInclude(a, hosts) THEN Leave(fs, a, "none")
    ELSE IF fs[a] = Nothing THEN Act("create", new, a # VersionFile)
    ELSE IF a \in ForceProtectedPaths THEN Leave(fs, a, "protected")
    ELSE IF force /\ a # Developer THEN Act("update", new, a # VersionFile)
    ELSE Leave(fs, a, "skip")

\* the language asked for counts only where there is no config.yaml yet
InitLanguage(fs, lang) == IF fs[Config] # Nothing THEN LanguageOf(fs) ELSE lang

InitPlan(fs, hosts, force, rel, lang) ==
    [a \in AssetClasses |-> InitAct(fs, a, hosts, force, rel, InitLanguage(fs, lang))]

-----------------------------------------------------------------------------
(* cwf project sync                                                        *)

MutantManaged(fs, a, force, new) ==
    IF fs[a] = Nothing THEN Act("create", new, TRUE)
    ELSE IF force THEN Act("update", new, TRUE)
    ELSE IF fs[a] = new THEN Leave(fs, a, "skip")
    ELSE Act("update", new, FALSE)

\* replaceManagedBlock keeps the text around the block
ManagedAct(fs, a, force, new) ==
    LET merged == [new EXCEPT !.own = fs[a].own] IN
    IF fs[a] = Nothing THEN Act("create", new, TRUE)
    ELSE IF force THEN Act("update", new, TRUE)
    ELSE IF fs[a].rel = 0 THEN Leave(fs, a, "protected")
    ELSE IF merged = fs[a] THEN Leave(fs, a, "skip")
    ELSE Act("update", merged, FALSE)

MutantFileAct(fs, a, force, new) ==
    IF IsProtectedSyncFile(a) /\ ~force THEN Leave(fs, a, "protected")
    ELSE Act("update", new, TRUE)
FileAct(fs, a, force, new) ==
    IF fs[a] = Nothing THEN Act("create", new, TRUE)
    ELSE IF \/ a \in ForceProtectedPaths
            \/ IsProtectedSyncFile(a) /\ ~force
            \/ ~IsSafeSyncFile(a) /\ ~force
         THEN Leave(fs, a, "protected")
    ELSE IF fs[a] = new THEN Leave(fs, a, "skip")
    ELSE Act("update", new, TRUE)

\* A retired Skill goes only where it is still the template's, byte for byte,
\* a retired file goes unless it is protected.
RetiredAct(fs, a, rel) ==
    LET keep == IF a \in RetiredSkills
                THEN a \notin WithOriginal \/ fs[a] # Shipped(a, rel, "zh")
                ELSE IsProtectedSyncFile(a)
    IN IF fs[a] = Nothing \/ keep THEN Leave(fs, a, "none")
       ELSE Act("delete", Nothing, FALSE)

\* The marker is planned as an update even where it is missing.
SyncVersionAct(fs, rel) ==
    LET new == Shipped(VersionFile, rel, "zh") IN
    IF fs[VersionFile] = new THEN Leave(fs, VersionFile, "skip") ELSE Act("update", new, FALSE)

SyncPlan(fs, hosts, force, rel, lang) ==
    [a \in AssetClasses |->
       IF a = VersionFile THEN SyncVersionAct(fs, rel)
       ELSE IF a \in RetiredSkills \cup RetiredFiles THEN RetiredAct(fs, a, rel)
       ELSE IF a \in SkillCopies THEN SkillAct(fs, a, hosts, rel, TRUE)
       ELSE IF ~ShouldInclude(a, hosts) THEN Leave(fs, a, "none")
       ELSE IF a \in ManagedPaths THEN ManagedAct(fs, a, force, Shipped(a, rel, lang))
       ELSE FileAct(fs, a, force, Shipped(a, rel, lang))]

-----------------------------------------------------------------------------
(* cwf dev refresh: the checkout of the package's own repository           *)

IsSourceCheckoutProtected(a) == a \in {Config, Developer}

RefreshPlan(fs, rel, lang) ==
    LET new(a) == Shipped(a, rel, lang) IN
    [a \in AssetClasses |->
       IF a \in RetiredSkills \cup RetiredFiles THEN RetiredAct(fs, a, rel)
       ELSE IF a \in SkillCopies THEN SkillAct(fs, a, Hosts, rel, TRUE)
       ELSE IF a \notin RuntimePaths \/ IsSourceCheckoutProtected(a)
            THEN Leave(fs, a, "none")
       ELSE IF fs[a] = Nothing THEN Act("create", new(a), a # VersionFile)
       ELSE IF fs[a] = new(a) THEN Leave(fs, a, "skip")
       ELSE Act("update", new(a), a # VersionFile)]

-----------------------------------------------------------------------------
(* Commands                                                                *)

ProjectInit ==
    /\ files \in Starts
    /\ release = 1
    /\ cmd = Idle
    /\ chosen = Detected(files)
    /\ rewritten = {}
    /\ settled = FALSE
    /\ commands = 0 /\ puts = 0

Begin(kind, force, plan) ==
    /\ cmd = Idle /\ kind \in Kinds
    /\ commands < MaxCommands
    /\ commands' = commands + 1
    /\ cmd' = [kind |-> kind, force |-> force, rel |-> release, plan |-> plan]
    /\ rewritten' = {}
    /\ UNCHANGED <<files, release, settled, puts>>

\* what --host may name, or the user be asked for; {} if --host is not given
Selections == {hs \in SUBSET Hosts : hs = {} => Detected(files) # {}}

\* Without --host an init takes the hosts it detects; only where there are
\* none does it ask.
InitHosts(named) == IF named = {} THEN Detected(files) ELSE named

BeginInit ==
    \E named \in Selections, force \in BOOLEAN, lang \in {"zh", "en"} :
        LET hosts == InitHosts(named)
        IN /\ Begin("init", force, InitPlan(files, hosts, force, release, lang))
           /\ chosen' = chosen \cup hosts

BeginSync ==
    \E force \in BOOLEAN :
        /\ \E a \in RuntimePaths : Exists(a)
        /\ ~LanguageRefused(files)
        /\ Begin("sync", force,
                 SyncPlan(files, Detected(files), force, release, LanguageOf(files)))
        /\ UNCHANGED chosen

\* A source checkout carries the replicas of every host.
BeginRefresh ==
    /\ ~LanguageRefused(files)
    /\ Begin("refresh", FALSE, RefreshPlan(files, release, LanguageOf(files)))
    /\ chosen' = Hosts

-----------------------------------------------------------------------------
(* src/lib/plan-applier.js, as a whole                                     *)

\* validateTargetState: an update claims that its target was there.
TargetChanged(a) ==
    \/ cmd.plan[a].do = "create" /\ Exists(a)
    \/ cmd.plan[a].do \in {"update", "delete"} /\ ~Exists(a)

\* stagePlan: what is copied now is not what was hashed when it was planned.
StagedHashDiffers(a) == cmd.plan[a].copied /\ release # cmd.rel /\ a \notin Unchanging

Fails == \E a \in AssetClasses : TargetChanged(a) \/ StagedHashDiffers(a)

Outcome(plan, fs) ==
    [a \in AssetClasses |-> IF plan[a].do \in {"create", "update", "delete"}
                            THEN plan[a].to ELSE fs[a]]

ApplyPlan ==
    /\ cmd # Idle /\ ~Fails
    /\ files' = Outcome(cmd.plan, files)
    /\ settled' = (cmd.kind = "sync" /\ rewritten = {} /\ release = cmd.rel)
    /\ cmd' = Idle
    /\ UNCHANGED <<release, chosen, rewritten, commands, puts>>

\* The transaction is rolled back.
Refused ==
    /\ cmd # Idle /\ Fails
    /\ cmd' = Idle
    /\ UNCHANGED <<files, release, chosen, rewritten, settled, commands, puts>>

-----------------------------------------------------------------------------
(* The user                                                                *)

Put(a, content) ==
    /\ puts < MaxPuts
    /\ puts' = puts + 1
    /\ content # files[a]
    /\ files' = [files EXCEPT ![a] = content]
    /\ rewritten' = rewritten \cup {a}
    /\ chosen' = chosen \cup Detected(files')
    /\ settled' = FALSE
    /\ UNCHANGED <<release, cmd, commands>>

\* text of the user's: outside the block where there is one
EditFile == \E a \in Editable :
    Put(a, [files[a] EXCEPT !.own = TRUE,
                            !.word = IF a = Developer /\ ~Exists(a) THEN "nameless" ELSE @])

\* the language: line of config.yaml, and the markers of a managed block
SetLanguage == \E w \in {"zh", "en", "bad"} :
    Exists(Config) /\ Put(Config, [files[Config] EXCEPT !.word = w, !.own = TRUE])

DropBlock == \E a \in ManagedPaths \cap Editable :
    Exists(a) /\ Put(a, [Nothing EXCEPT !.own = TRUE])

Delete == \E a \in Deletable : Put(a, Nothing)

\* cwf self update: npm has a later release and the installation succeeds;
\* its other outcomes change nothing.
SelfUpdate ==
    /\ release + 1 \in Releases
    /\ release' = release + 1
    /\ settled' = FALSE
    /\ UNCHANGED <<files, cmd, chosen, rewritten, commands, puts>>

ProjectNext ==
    \/ BeginInit \/ BeginSync \/ BeginRefresh \/ ApplyPlan \/ Refused
    \/ EditFile \/ SetLanguage \/ DropBlock \/ Delete \/ SelfUpdate

ProjectSpec == ProjectInit /\ [][ProjectNext]_projectVars

-----------------------------------------------------------------------------
(* Properties                                                              *)

ProjectOwned == ProtectedPaths \cup ManagedPaths \cup RetiredSkills

\* A command removes text of the user's only from the framework's own files,
\* by --force (and then neither from config.yaml nor from a retired Skill), by
\* a dev refresh outside what that protects, or from a managed or retired file
\* that was edited after the command had built its plan.
OwnTextKept ==
    [][cmd # Idle /\ cmd' = Idle =>
         \A a \in AssetClasses : files[a].own /\ ~files'[a].own =>
            \/ a \notin ProjectOwned
            \/ cmd.force /\ a \notin ForceProtectedPaths \cup RetiredSkills
            \/ cmd.kind = "refresh" /\ a \in RuntimePaths \ {Config, Developer}
            \/ a \in rewritten /\ a \in ManagedPaths \cup RetiredSkills]_projectVars

Used(a) == IF a \in SkillCopies THEN ReadRoot[a] \cap Detected(files) # {}
           ELSE a = VersionFile \/ (a \in Template /\ ShouldInclude(a, Detected(files)))

\* One sync is enough: right after a sync that nothing disturbed, forced or
\* not, whatever came before it, each framework file of the hosts the project
\* then has is the release's in the language of its config.yaml, each managed
\* block is the release's, and no retired file is left but those a Skill keeps.
SyncReaches ==
    settled => \A a \in AssetClasses :
        /\ Used(a) /\ a \notin ProtectedPaths \cup ManagedPaths =>
             files[a] = Shipped(a, release, LanguageOf(files))
        /\ Used(a) /\ a \in ManagedPaths => files[a].rel \in {0, Shipped(a, release, "zh").rel}
        /\ a \in RetiredFiles => ~Exists(a)
        /\ a \in WithOriginal /\ Exists(a) => files[a] # Shipped(a, release, "zh")

\* init and sync agree on the hosts of a project: nothing a command installs
\* makes a host look used that the user has neither asked for nor marked by a
\* file of their own.
HostsHaveACause == Detected(files) \subseteq chosen

\* A command that was accepted is rolled back only where the project or the
\* package changed while it ran, where .version is missing, which a sync plans
\* to update, or where .developer has no name, which an init plans to create.
FailureHasACause ==
    [][Refused => \/ rewritten # {} \/ release # cmd.rel
                  \/ cmd.kind = "sync" /\ ~Exists(VersionFile)
                  \/ cmd.kind = "init" /\ files[Developer].word \in {"none", "nameless"}
                     /\ Exists(Developer)]_projectVars

=============================================================================
