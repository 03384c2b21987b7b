----------------------------- MODULE HostPlugin -----------------------------
(***************************************************************************)
(* The machine-level plugin of one host: what cwf host add, cwf host       *)
(* remove and cwf host inspect do for zcode, qoder, kimi-code, claude-code *)
(* and codex (src/commands/install-*-plugin.js, src/lib/payload-install.js *)
(* and src/lib/kimi-installed-registry.js).  A command copies the packaged *)
(* plugin under the host's home and records it in files the host shares    *)
(* with other plugins.  It takes no lock and undoes nothing: it may stop   *)
(* after any step, its error path being to stop there, and meanwhile the   *)
(* host and the user change the same files.                                *)
(*                                                                         *)
(* A payload directory holds no file, some files but no manifest (bare),   *)
(* the manifest, every file host inspect looks for (most) or all of them;  *)
(* Qoder's copy also bundles agents until they are stripped.               *)
(***************************************************************************)
EXTENDS Naturals, Sequences

CONSTANTS
    HostKinds,   \* the hosts to start with
    LastRelease, \* of the package
    MaxHostCommands, MaxStops, MaxActs  \* bounds: commands, stops, acts of others

\* The hosts cwf host knows; a package has a release.
ASSUME HostAssumption ==
    /\ HostKinds \subseteq {"zcode", "qoder", "kimi-code", "claude-code", "codex"}
    /\ LastRelease \in Nat \ {0}

PluginReleases == 1 .. LastRelease
Partial == {"bare", "manifest", "most"}
Parts == {"none", "foreign", "bundled", "whole"} \cup Partial
Others == {"plugin", "setting"}
NoPayload == [part |-> "none", rel |-> 0]
NoRecord == [active |-> 0, market |-> 0, known |-> "none", switch |-> "none", cached |-> 0]
NoCommand == [op |-> "none", force |-> FALSE, prune |-> FALSE, rel |-> 0, full |-> FALSE,
              todo |-> <<>>, view |-> [active |-> 0, others |-> {}]]

VARIABLES
    host,
    packaged, \* the release of the installed package
    payload,  \* by place: a release for zcode and qoder, else 1, and 0 for
              \* the source copy kimi-code keeps besides the managed one
    rec,      \* our entries in the host's records
    legacy,   \* an entry of ours in zcode's older marketplace, which an add takes away
    shared,   \* the record shared with other plugins: ok or broken
    others,   \* what is not ours in the shared records
    agents,   \* Qoder's user-level agents under our names: none, managed, user
    job,      \* the command that runs
    result,   \* of the last command
    cut,      \* releases a command that stopped may have left half done
    meanwhile, \* what others wrote while the command ran
    hostCommands, stops, acts
pluginVars == <<host, packaged, payload, rec, legacy, shared, others, agents, job, result,
                cut, meanwhile, hostCommands, stops, acts>>
counters == <<hostCommands, stops, acts>>
pluginFiles == <<payload, rec, legacy, shared, others, agents>>

ByRelease == host \in {"zcode", "qoder"}
Place(r) == IF ByRelease THEN r ELSE 1
Busy == job.op # "none"
Named(p) == payload[p].part \in {"manifest", "most", "bundled", "whole"}  \* ownsInstall

-----------------------------------------------------------------------------
\* What host inspect reports.
Facts(status, version) == [status |-> status, version |-> version]

ZcodeFacts ==
    IF rec.active = 0 THEN Facts("missing", 0)
    ELSE IF ~Named(rec.active) THEN Facts("broken", 0)
    ELSE Facts("installed", payload[rec.active].rel)

QoderFacts ==
    IF shared = "broken" \/ rec.active = 0 THEN Facts("missing", 0)
    ELSE IF payload[rec.active].part \in {"none", "bare", "manifest"} THEN Facts("broken", 0)
    ELSE Facts("installed", rec.active)

KimiFacts ==
    IF shared = "broken" \/ rec.active = 0 THEN Facts("missing", 0)
    ELSE IF payload[1].part \notin {"most", "whole"} THEN Facts("broken", 0)
    ELSE Facts("installed", payload[1].rel)

ClaudeFacts ==
    IF ~Named(1) THEN Facts("missing", 0)
    ELSE IF payload[1].part = "manifest" THEN Facts("broken", payload[1].rel)
    ELSE Facts("installed", payload[1].rel)

CodexFacts ==
    IF rec.known = "none" THEN Facts("missing", 0)
    ELSE IF ~Named(1) THEN Facts("broken", 0)
    ELSE Facts("installed", payload[1].rel)

Inspect == CASE host = "zcode" -> ZcodeFacts
             [] host = "qoder" -> QoderFacts
             [] host = "kimi-code" -> KimiFacts
             [] host = "claude-code" -> ClaudeFacts
             [] host = "codex" -> CodexFacts

-----------------------------------------------------------------------------
\* The steps of a command, as it finds the files when it starts.
Step(do, place) == [do |-> do, at |-> place]
Do(do) == Step(do, 0)

Materialize(p) == <<Step("wipe", p), Step("copy", p), Step("stamp", p)>>

MutantHealthy == payload[packaged].part # "none" /\ rec.active # 0

\* installQoderHome: the edition needs no new copy
Healthy == payload[packaged].part # "none" /\ rec.active # 0 /\ rec.switch = "on"

AddSteps(force) ==
    CASE host = "zcode" ->
            (IF ~force /\ payload[packaged].part # "none" THEN <<>> ELSE Materialize(packaged))
            \o <<Do("market"), Do("active"), Do("known"), Do("legacy"), Do("prune")>>
      [] host = "qoder" ->
            IF ~force /\ Healthy THEN <<Do("agents"), Step("strip", packaged)>>
            ELSE Materialize(packaged)
                 \o <<Do("agents"), Step("strip", packaged), Do("register"), Do("enable")>>
      [] host = "kimi-code" ->
            <<Step("guard", 0)>> \o Materialize(0) \o <<Step("guard", 1)>> \o Materialize(1)
            \o <<Do("record")>>
      [] host = "claude-code" -> <<Step("guard", 1)>> \o Materialize(1)
      [] host = "codex" -> Materialize(1) \o <<Do("source"), Do("cli"), Do("plug")>>

RemoveSteps ==
    CASE host = "zcode" -> <<Do("forget"), Do("rmcache"), Do("rmmarket"), Do("rmactive")>>
      [] host = "qoder" -> <<Do("unregister"), Do("disable"), Do("rmcache"), Do("rmagents")>>
      [] host = "kimi-code" -> <<Step("guard", 1), Step("wipe", 1), Step("guard", 0),
                                 Step("wipe", 0), Do("unrecord")>>
      [] host = "claude-code" -> <<Step("guard", 1), Step("wipe", 1)>>
      [] host = "codex" -> <<Do("unplug"), Do("rmroot")>>

\* loadConfigs and readInstalledRegistry stop before the first write.
RecordUnreadable == host \in {"qoder", "kimi-code"} /\ shared = "broken"

Start(op, force, prune) ==
    /\ ~Busy /\ hostCommands < MaxHostCommands
    /\ prune => host = "zcode" /\ op = "add"
    /\ hostCommands' = hostCommands + 1
    /\ meanwhile' = {}
    /\ IF RecordUnreadable THEN result' = "failed" /\ UNCHANGED job
       ELSE LET todo == IF op = "add" THEN AddSteps(force) ELSE RemoveSteps
            IN  /\ job' = [op |-> op, force |-> force, prune |-> prune, rel |-> packaged,
                           full |-> \E i \in DOMAIN todo : todo[i].do = "wipe",
                           todo |-> todo,
                           view |-> [active |-> rec.active, others |-> others]]
                /\ result' = "running"
    /\ UNCHANGED <<host, packaged, pluginFiles, cut, stops, acts>>

-----------------------------------------------------------------------------
\* Outcomes of a step: the command goes on to what is left, or it stops.
GoOn(left) ==
    IF left # <<>>
    THEN job' = [job EXCEPT !.todo = left] /\ UNCHANGED <<result, cut>>
    ELSE /\ job' = NoCommand /\ result' = "done"
         /\ cut' = IF job.full THEN cut \ {job.rel} ELSE cut

Stop ==
    /\ job' = NoCommand /\ result' = "failed"
    /\ cut' = cut \cup (IF job.op = "add" THEN {job.rel} ELSE PluginReleases)

At(do) == Busy /\ Head(job.todo).do = do
Here == Head(job.todo).at
Rest == Tail(job.todo)
Working == Busy /\ UNCHANGED <<host, packaged, meanwhile, counters>>

\* claude-code's onExisting: a directory of ours at this release is kept.
KeptAsIs ==
    /\ host = "claude-code" /\ job.op = "add" /\ ~job.force
    /\ payload[Here].rel = job.rel

MutantGuard ==
    /\ At("guard") /\ Working /\ UNCHANGED pluginFiles
    /\ IF payload[Here].part = "none" THEN GoOn(Rest)
       ELSE IF KeptAsIs THEN job' = NoCommand /\ result' = "done" /\ UNCHANGED cut
       ELSE GoOn(Rest)

\* The ownership guard of installPayloadDir and uninstallPayloadDir.
Guard ==
    /\ At("guard") /\ Working /\ UNCHANGED pluginFiles
    /\ IF payload[Here].part = "none" THEN GoOn(Rest)
       ELSE IF ~Named(Here) /\ ~job.force THEN Stop
       ELSE IF KeptAsIs THEN job' = NoCommand /\ result' = "done" /\ UNCHANGED cut
       ELSE GoOn(Rest)

Wipe ==
    /\ At("wipe") /\ Working
    /\ payload' = [payload EXCEPT ![Here] = NoPayload]
    /\ GoOn(Rest) /\ UNCHANGED <<rec, legacy, shared, others, agents>>

\* The packaged manifest carries the release, or in a checkout another one.
Copy ==
    /\ At("copy") /\ Working
    /\ \E r \in {0, job.rel} :
         payload' = [payload EXCEPT ![Here] =
             [part |-> IF host = "qoder" THEN "bundled" ELSE "whole", rel |-> r]]
    /\ GoOn(Rest) /\ UNCHANGED <<rec, legacy, shared, others, agents>>

\* stampPayloadManifest
Stamp ==
    /\ At("stamp") /\ Working
    /\ IF Named(Here)
       THEN payload' = [payload EXCEPT ![Here].rel = job.rel] /\ GoOn(Rest)
       ELSE UNCHANGED payload /\ Stop
    /\ UNCHANGED <<rec, legacy, shared, others, agents>>

\* syncQoderUserAgents validates every target before it writes one.
SyncAgents ==
    /\ At("agents") /\ Working
    /\ IF agents = "user" THEN UNCHANGED agents /\ Stop
       ELSE agents' = "managed" /\ GoOn(Rest)
    /\ UNCHANGED <<payload, rec, legacy, shared, others>>

StripBundled ==
    /\ At("strip") /\ Working
    /\ payload' = [payload EXCEPT ![Here].part = IF @ = "bundled" THEN "whole" ELSE @]
    /\ GoOn(Rest) /\ UNCHANGED <<rec, legacy, shared, others, agents>>

\* Qoder's two records are written whole, from what the command read first.
WriteRegistry(active) ==
    /\ rec' = [rec EXCEPT !.active = active]
    /\ others' = (others \ {"plugin"}) \cup (job.view.others \cap {"plugin"})
    /\ shared' = "ok"

WriteSettings(switch) ==
    /\ rec' = [rec EXCEPT !.switch = switch]
    /\ others' = (others \ {"setting"}) \cup (job.view.others \cap {"setting"})
    /\ UNCHANGED shared

QoderRecords ==
    /\ Working /\ UNCHANGED <<payload, legacy, agents>>
    /\ GoOn(Rest)
    /\ \/ At("register") /\ WriteRegistry(job.rel)
       \/ At("enable") /\ WriteSettings("on")
       \/ At("unregister") /\ IF job.view.active # 0 THEN WriteRegistry(0)
                              ELSE UNCHANGED <<rec, others, shared>>
       \/ At("disable") /\ IF rec.switch # "none" THEN WriteSettings("none")
                           ELSE UNCHANGED <<rec, others, shared>>

\* updateMarketplace writes the source and the active copy, then
\* updateKnownMarketplaces, which takes a malformed list for an empty one,
\* and removeLegacyMarketplaceEntry.
ZcodeRecords ==
    /\ Working /\ UNCHANGED <<payload, agents>> /\ GoOn(Rest)
    /\ \/ /\ At("market") /\ rec' = [rec EXCEPT !.market = job.rel]
          /\ UNCHANGED <<legacy, shared, others>>
       \/ /\ At("active") /\ rec' = [rec EXCEPT !.active = job.rel]
          /\ UNCHANGED <<legacy, shared, others>>
       \/ /\ At("known") /\ rec' = [rec EXCEPT !.known = "ours"]
          /\ others' = IF shared = "broken" THEN {} ELSE others
          /\ shared' = "ok" /\ UNCHANGED legacy
       \/ At("legacy") /\ legacy' = FALSE /\ UNCHANGED <<rec, shared, others>>
       \/ /\ At("forget")
          /\ rec' = IF shared = "broken" THEN rec ELSE [rec EXCEPT !.known = "none"]
          /\ UNCHANGED <<legacy, shared, others>>
       \/ /\ At("rmmarket") /\ rec' = [rec EXCEPT !.market = 0]
          /\ UNCHANGED <<legacy, shared, others>>
       \/ /\ At("rmactive") /\ rec' = [rec EXCEPT !.active = 0]
          /\ UNCHANGED <<legacy, shared, others>>

Prune ==
    /\ At("prune") /\ Working
    /\ payload' = IF job.prune
                  THEN [p \in DOMAIN payload |-> IF p = job.rel THEN payload[p] ELSE NoPayload]
                  ELSE payload
    /\ GoOn(Rest) /\ UNCHANGED <<rec, legacy, shared, others, agents>>

RemoveCache ==
    /\ At("rmcache") /\ Working
    /\ payload' = [p \in DOMAIN payload |-> NoPayload]
    /\ GoOn(Rest) /\ UNCHANGED <<rec, legacy, shared, others, agents>>

\* removeQoderUserAgents leaves a file without our marker.
RemoveAgents ==
    /\ At("rmagents") /\ Working
    /\ agents' = IF agents = "managed" THEN "none" ELSE agents
    /\ GoOn(Rest) /\ UNCHANGED <<payload, rec, legacy, shared, others>>

\* upsertPluginRecord and removePluginRecord read the registry again; the
\* user's switch is kept.
KimiRecord ==
    /\ At("record") \/ At("unrecord")
    /\ Working /\ UNCHANGED <<payload, legacy, shared, others, agents>>
    /\ IF shared = "broken" THEN Stop /\ UNCHANGED rec
       ELSE /\ GoOn(Rest)
            /\ rec' = IF At("unrecord") THEN NoRecord
                      ELSE [rec EXCEPT !.active = 1, !.switch = IF @ = "none" THEN "on" ELSE @]

-----------------------------------------------------------------------------
\* The codex CLI keeps the registration itself; any of its commands may fail,
\* and it may not be there (findCodexCli).
CodexAdd ==
    /\ Working /\ UNCHANGED <<payload, legacy, shared, others, agents>>
    /\ \/ At("source") /\ rec' = [rec EXCEPT !.market = job.rel] /\ GoOn(Rest)
       \/ At("cli") /\ Stop /\ UNCHANGED rec
       \/ At("cli") /\ rec' = [rec EXCEPT !.known = "ours"] /\ GoOn(Rest)
       \/ /\ At("plug") /\ UNCHANGED rec
          /\ IF rec.cached = job.rel /\ ~job.force THEN GoOn(Rest) ELSE Stop
       \/ /\ At("plug") /\ (rec.cached # job.rel \/ job.force) /\ GoOn(Rest)
          /\ rec' = [rec EXCEPT !.cached = payload[1].rel, !.switch = "on"]

MutantCodexRemove ==
    /\ Working /\ UNCHANGED <<legacy, shared, others, agents>>
    /\ \/ /\ At("unplug") /\ UNCHANGED payload
          /\ \E plugin, marketplace \in BOOLEAN :
               /\ rec' = [rec EXCEPT !.known = IF marketplace THEN "none" ELSE @,
                                     !.switch = IF plugin THEN "none" ELSE @,
                                     !.cached = IF plugin THEN 0 ELSE @]
               /\ GoOn(Rest)
       \/ /\ At("rmroot") /\ payload' = [payload EXCEPT ![1] = NoPayload]
          /\ rec' = [rec EXCEPT !.market = 0]
          /\ GoOn(Rest)

\* uninstall of install-codex-plugin.js: both commands are tried; the files
\* stay when either fails, and go, with exit code 1, when there is no CLI
CodexRemove ==
    /\ Working /\ UNCHANGED <<legacy, shared, others, agents>>
    /\ \/ /\ At("unplug") /\ UNCHANGED payload
          /\ \E plugin, marketplace \in BOOLEAN :
               /\ rec' = [rec EXCEPT !.known = IF marketplace THEN "none" ELSE @,
                                     !.switch = IF plugin THEN "none" ELSE @,
                                     !.cached = IF plugin THEN 0 ELSE @]
               /\ IF plugin /\ marketplace THEN GoOn(Rest) ELSE Stop
       \/ /\ At("unplug") /\ Stop
          /\ payload' = [payload EXCEPT ![1] = NoPayload]
          /\ rec' = [rec EXCEPT !.market = 0]
       \/ /\ At("rmroot") /\ GoOn(Rest)
          /\ payload' = [payload EXCEPT ![1] = NoPayload]
          /\ rec' = [rec EXCEPT !.market = 0]

-----------------------------------------------------------------------------
\* What a deletion that stops leaves of a directory, and what a copy does.
Shrunk(part) == CASE part \in {"whole", "bundled"} -> Partial
                  [] part = "most" -> {"bare", "manifest"}
                  [] part = "manifest" -> {"bare"}
                  [] OTHER -> {part}

\* The process is killed or a file system call fails.
Interrupted ==
    /\ Busy /\ stops < MaxStops
    /\ stops' = stops + 1
    /\ Stop
    /\ \/ UNCHANGED payload
       \/ /\ At("wipe")
          /\ \E part \in Shrunk(payload[Here].part) : payload' = [payload EXCEPT ![Here].part = part]
       \/ /\ At("rmcache")
          /\ \E p \in DOMAIN payload : \E part \in Shrunk(payload[p].part) :
               payload' = [payload EXCEPT ![p].part = part]
       \/ /\ At("copy")
          /\ \E part \in Partial, r \in {0, job.rel} :
               payload' = [payload EXCEPT ![Here] = [part |-> part, rel |-> r]]
    /\ UNCHANGED <<host, packaged, rec, legacy, shared, others, agents, meanwhile, hostCommands, acts>>

OutsideAct ==
    /\ acts < MaxActs
    /\ acts' = acts + 1 /\ UNCHANGED <<host, job, result, cut, hostCommands, stops>>

\* Another plugin is installed, or the user changes another setting.
OtherRegisters ==
    /\ OutsideAct /\ shared = "ok"
    /\ \E o \in Others \ others :
         /\ o = "setting" => host = "qoder"
         /\ others' = others \cup {o} /\ meanwhile' = meanwhile \cup {o}
    /\ UNCHANGED <<packaged, payload, rec, legacy, shared, agents>>

\* The shared record becomes unreadable, or readable again.
Garbled ==
    /\ OutsideAct /\ host \in {"zcode", "qoder", "kimi-code"}
    /\ shared' = IF shared = "ok" THEN "broken" ELSE "ok"
    /\ meanwhile' = meanwhile \cup {"shared"}
    /\ UNCHANGED <<packaged, payload, rec, legacy, others, agents>>

TurnedOff ==
    /\ OutsideAct /\ rec.switch = "on"
    /\ rec' = [rec EXCEPT !.switch = "off"]
    /\ meanwhile' = meanwhile \cup {"switch"}
    /\ UNCHANGED <<packaged, payload, legacy, shared, others, agents>>

\* The user keeps an agent under one of our names, or takes it away.
UserAgent ==
    /\ OutsideAct /\ host = "qoder" /\ agents \in {"none", "user"}
    /\ agents' = IF agents = "none" THEN "user" ELSE "none"
    /\ UNCHANGED <<packaged, payload, rec, legacy, shared, others, meanwhile>>

ForeignDirectory ==
    /\ OutsideAct /\ ~Busy
    /\ \E p \in (IF host = "kimi-code" THEN {0, 1} ELSE {1}) :
         /\ host \in {"kimi-code", "claude-code"} /\ payload[p] = NoPayload
         /\ payload' = [payload EXCEPT ![p].part = "foreign"]
    /\ UNCHANGED <<packaged, rec, legacy, shared, others, agents, meanwhile>>

PackageUpdated ==
    /\ OutsideAct /\ ~Busy /\ packaged < LastRelease
    /\ packaged' = packaged + 1
    /\ UNCHANGED <<pluginFiles, meanwhile>>

PluginInit ==
    /\ host \in HostKinds
    /\ packaged = 1
    /\ payload = [p \in 0 .. LastRelease |-> NoPayload]
    /\ rec = NoRecord
    /\ legacy \in IF host = "zcode" THEN BOOLEAN ELSE {FALSE}
    /\ shared = "ok" /\ others = {} /\ agents = "none"
    /\ job = NoCommand /\ result = "none" /\ cut = {} /\ meanwhile = {}
    /\ hostCommands = 0 /\ stops = 0 /\ acts = 0

Command ==
    \/ \E op \in {"add", "remove"}, force, prune \in BOOLEAN : Start(op, force, prune)
    \/ Guard \/ Wipe \/ Copy \/ Stamp \/ SyncAgents \/ StripBundled \/ QoderRecords
    \/ ZcodeRecords \/ Prune \/ RemoveCache \/ RemoveAgents \/ KimiRecord
    \/ CodexAdd \/ CodexRemove
Outside == OtherRegisters \/ Garbled \/ TurnedOff \/ UserAgent \/ ForeignDirectory
           \/ PackageUpdated

PluginNext == Command \/ Interrupted \/ Outside

PluginSpec == PluginInit /\ [][PluginNext]_pluginVars

-----------------------------------------------------------------------------
Completed(op) == job.op = op /\ job'.op = "none" /\ result' = "done"

Delivered(r) ==
    /\ Inspect = Facts("installed", r)
    /\ payload[Place(r)] = [part |-> "whole", rel |-> r]
    /\ host = "qoder" => rec.switch = "on" /\ agents = "managed"
    /\ host = "zcode" => rec.known = "ours" /\ ~legacy

\* A host add that reports success has delivered: the payload is complete and
\* host inspect finds it installed at the package's release, whatever earlier
\* commands, other plugins and the user left behind.  The exceptions are an
\* add that reuses the directory of a release an earlier command stopped at,
\* and acts of the user's on what this add had already written.
AddDelivers ==
    [][Completed("add") =>
        \/ \E r \in {job.rel} : Delivered(r)'
        \/ ~job.full /\ job.rel \in cut
        \/ host = "claude-code" /\ job.rel \in cut /\ ~job.force
        \/ host = "qoder" /\ (shared' = "broken" \/ agents' # "managed" \/ "switch" \in meanwhile)]_pluginVars

\* A command leaves what is not ours: entries of other plugins and settings of
\* the user in a shared record are lost only to Qoder's write of what it read
\* before they were added, or to zcode's replacement of a list it cannot read;
\* a directory of someone else goes only with --force, and the user's own
\* agents never.
ForeignKept ==
    [][/\ others \subseteq others' \/ (host = "qoder" /\ others \ others' \subseteq meanwhile)
                                   \/ (host = "zcode" /\ shared = "broken")
       /\ \A p \in DOMAIN payload :
            payload[p].part = "foreign" /\ payload'[p].part # "foreign" => job.force
       /\ Busy /\ agents = "user" => agents' = "user" \/ acts' # acts]_pluginVars

\* A host remove that reports success leaves neither a payload nor an entry of
\* ours in the records the host reads, unless zcode's list of marketplaces could
\* not be read.  Zcode's older marketplace is the other exception: uninstall
\* does not look into it, only an add takes our entry out of it, and so a remove
\* leaves the one it found there.
RemoveLeavesNothing ==
    [][Completed("remove") =>
        /\ \A p \in DOMAIN payload : payload'[p].part = "none"
        /\ agents' # "managed"
        /\ rec' = [NoRecord EXCEPT !.known = IF host = "zcode" THEN rec'.known ELSE "none"]
        /\ rec'.known = "none" \/ shared' = "broken" \/ "shared" \in meanwhile
        /\ legacy' => host = "zcode" /\ legacy]_pluginVars
=============================================================================
