-------------------------- MODULE CodexIntegration --------------------------
(***************************************************************************)
(* connect, disconnect and status of the Codex integration: three durable  *)
(* transactions - collector settings, LaunchAgent, Codex configuration -   *)
(* that one lifecycle lock makes a single one. A call is a list of steps,  *)
(* each changing one file or the service; between any two the process may  *)
(* die, and any step may fail, which sends the call to its compensation.   *)
(*                                                                         *)
(* Codex configuration is what CodexConfig shows it to be: owned with some *)
(* values or not owned, and in conflict while an edit of the user's is in  *)
(* the way. Nobody else writes the plist. Credentials do not expire.       *)
(***************************************************************************)
EXTENDS Integers, Sequences

CONSTANTS
  Executables,     \* what the plist may start
  Ports,
  MaxGenerations,  \* bound: how many credential generations are made
  OwnsNotify,      \* whether the notify slot was free, and so names the executable
  Upgrades,        \* whether a v2 installation may be connected already
  RollbackFaults,  \* whether a rollback of the LaunchAgent may itself be cut short
  Legacy,          \* its credential generation
  NoPlist,
  PriorServices,   \* what the LaunchAgent's file and service may have been before
  NoTxn, NoSettings, NoJournal, NoConfig, NoCall

(* What the files hold: the plist, the records of the two transactions,    *)
(* collector.json and the values in Codex configuration.                   *)
Plists == Executables \cup {NoPlist} \cup {s.plist : s \in PriorServices}
Txns ==
  [prior: Plists, priorLoaded: BOOLEAN, rollback: Plists, rollbackLoaded: BOOLEAN,
   desired: Plists, desiredLoaded: BOOLEAN,
   operation: {"connect", "reconnect", "disconnect"},
   phase: {"prepared", "service_stopped", "plist_written", "bootstrapped", "applied",
           "restored", "owned"}]
Settings == [generation: Nat \cup {Legacy}, port: Ports]
Journals == [phase: {"pending", "committed"}, previous: Settings, replacement: Nat]
Configs == [executable: Executables, generation: Nat \cup {Legacy}, port: Ports]

\* The steps that put a LaunchAgent transaction into effect, those that end it,
\* and all steps there are.
Applying == {"stop", "stopped", "replace", "written", "start", "started"}
Finishing == {"applied", "restored", "owned", "own", "undone"}
Working == Applying \cup Finishing \cup {"save", "remove"}
CallSteps ==
  {"recover_migration", "install_settings", "journal", "generate", "adopt", "probe",
   "finalize", "unjournal", "drop_replacement", "restore_settings", "rollback_settings",
   "commit_settings", "recover", "install", "ready", "config", "commit_install",
   "uninstall", "release", "commit_uninstall", "reinstall", "observe"} \cup Working
\* A call: what is to do, what recovery was told of the configuration, and the
\* transaction at work with the plist it was read against.
Calls ==
  [kind: {"connect", "disconnect", "status"}, executable: Executables, todo: Seq(CallSteps),
   mode: {"connect", "disconnect", "status", "connected", "disconnected", "conflict"},
   restart: BOOLEAN, txn: Txns \cup {NoTxn}, expected: Plists, failed: BOOLEAN]

\* The v2 credentials have a generation of their own, and a missing file, and
\* no call, are told from one that is there.
ASSUME IntegrationConstants ==
  /\ \A s \in PriorServices : s.loaded \in BOOLEAN
  /\ Legacy \notin Nat
  /\ NoTxn \notin Txns /\ NoSettings \notin Settings
  /\ NoJournal \notin Journals /\ NoConfig \notin Configs /\ NoCall \notin Calls

VARIABLES
  plist, loaded,   \* the LaunchAgent's file, and whether launchd runs it
  txn,             \* its ownership transaction
  original,        \* what plist and loaded were before the first connect
  settings, journal, credentials,
  generations,     \* how many have been made
  managed,         \* the values Codex is configured with
  clash,           \* the user has edited the configuration since
  call,            \* the call that holds the lifecycle lock
  outcome          \* what the last call returned, while nothing has happened since

service == <<plist, loaded, txn>>
settingsFiles == <<settings, journal, credentials, generations>>
codex == <<managed, clash>>
integrationVars == <<service, original, settingsFiles, codex, call, outcome>>

Owned(before, e) ==
  [prior |-> before.plist, priorLoaded |-> before.loaded,
   rollback |-> before.plist, rollbackLoaded |-> before.loaded,
   desired |-> e, desiredLoaded |-> TRUE, operation |-> "connect", phase |-> "owned"]

IntegrationInit ==
  /\ original \in PriorServices
  /\ journal = NoJournal /\ generations = 0
  /\ clash = FALSE /\ call = NoCall /\ outcome = "none"
  /\ \/ /\ plist = original.plist /\ loaded = original.loaded
        /\ txn = NoTxn /\ managed = NoConfig
        /\ \/ settings = NoSettings /\ credentials = {}
           \/ \E p \in Ports : settings = [generation |-> Legacy, port |-> p]
              /\ credentials = {Legacy}
     \/ /\ Upgrades
        /\ \E e \in Executables, p \in Ports :
             /\ plist = e /\ loaded = TRUE /\ txn = Owned(original, e)
             /\ settings = [generation |-> Legacy, port |-> p]
             /\ managed = [executable |-> e, generation |-> Legacy, port |-> p]
        /\ credentials = {Legacy}

----------------------------------------------------------------------------
(* Steps                                                                   *)

Due(step) == call # NoCall /\ call.todo # <<>> /\ Head(call.todo) = step
Rest == Tail(call.todo)
Then(steps) == call' = [call EXCEPT !.todo = steps \o Rest]
Done == Then(<<>>)

\* Compensation: a call that failed takes these steps and returns the error.
Fails(steps) == call' = [call EXCEPT !.todo = steps, !.failed = TRUE]

----------------------------------------------------------------------------
(* Codex configuration                                                     *)

Matches(e) ==
  /\ managed.generation = settings.generation /\ managed.port = settings.port
  /\ OwnsNotify => managed.executable = e

\* A manager without settings of its own accepts whatever is owned.
Ownership ==
  CASE managed = NoConfig          -> "disconnected"
    [] managed # NoConfig /\ clash -> "conflict"
    [] OTHER                      -> "connected"
ConfigStatus(e) ==
  IF Ownership = "connected" /\ ~Matches(e) THEN "conflict" ELSE Ownership

----------------------------------------------------------------------------
(* Collector settings                                                      *)

IsV3 == settings # NoSettings /\ settings.generation # Legacy

\* recover_settings_migration_before_install
RecoverMigration ==
  /\ Due("recover_migration")
  /\ \/ journal = NoJournal /\ Done
     \/ journal # NoJournal /\ journal.phase = "committed" /\ Then(<<"finalize", "unjournal">>)
     \/ /\ journal # NoJournal /\ journal.phase = "pending"
        /\ IF settings = journal.previous THEN Then(<<"drop_replacement", "unjournal">>)
           ELSE IF settings.generation = journal.replacement THEN Done ELSE Fails(<<>>)
  /\ UNCHANGED <<service, settingsFiles, codex>>

InstallSettings ==
  /\ Due("install_settings")
  /\ IF IsV3 THEN Done
     ELSE Then(IF settings = NoSettings THEN <<"generate", "adopt">>
               ELSE <<"journal", "generate", "adopt">>)
  /\ UNCHANGED <<service, settingsFiles, codex>>

Begin ==
  /\ Due("journal") /\ generations < MaxGenerations
  /\ journal' = [phase |-> "pending", previous |-> settings, replacement |-> generations + 1]
  /\ Done
  /\ UNCHANGED <<service, settings, credentials, generations, codex>>

Generate ==
  /\ Due("generate") /\ generations < MaxGenerations
  /\ generations' = generations + 1
  /\ credentials' = credentials \cup {generations + 1}
  /\ Done
  /\ UNCHANGED <<service, settings, journal, codex>>

Adopt ==
  /\ Due("adopt")
  /\ \E p \in Ports : settings' = [generation |-> generations, port |-> p]
  /\ Done
  /\ UNCHANGED <<service, journal, credentials, generations, codex>>

\* recover_connect_settings: a collector that does not answer is restarted,
\* on another port if its own is taken.
Probe ==
  /\ Due("probe")
  /\ \/ loaded /\ call' = [call EXCEPT !.todo = Rest, !.restart = FALSE] /\ UNCHANGED settings
     \/ /\ call' = [call EXCEPT !.todo = Rest, !.restart = TRUE]
        /\ \E p \in Ports : settings' = [settings EXCEPT !.port = p]
  /\ UNCHANGED <<service, journal, credentials, generations, codex>>

CommitSettings ==
  /\ Due("commit_settings")
  /\ \/ journal = NoJournal /\ Done /\ UNCHANGED journal
     \/ /\ journal # NoJournal
        /\ IF ~IsV3 \/ settings.generation # journal.replacement
           THEN Fails(<<>>) /\ UNCHANGED journal
           ELSE /\ journal' = [journal EXCEPT !.phase = "committed"]
                /\ Then(<<"finalize", "unjournal">>)
  /\ UNCHANGED <<service, settings, credentials, generations, codex>>

(* Mutant: the candidate's credentials go before the settings that use them. *)
RollbackCleansFirst ==
  /\ Due("rollback_settings")
  /\ IF journal = NoJournal THEN Done ELSE Then(<<"drop_replacement", "restore_settings", "unjournal">>)
  /\ UNCHANGED <<service, settingsFiles, codex>>
RollbackSettings ==
  /\ Due("rollback_settings")
  /\ \/ journal = NoJournal /\ Done
     \/ journal # NoJournal /\ journal.phase = "committed" /\ Then(<<"finalize", "unjournal">>)
     \/ /\ journal # NoJournal /\ journal.phase = "pending"
        /\ IF settings = journal.previous THEN Then(<<"drop_replacement", "unjournal">>)
           ELSE IF settings.generation # journal.replacement \/ Legacy \notin credentials
           THEN Fails(<<>>)
           ELSE Then(<<"restore_settings", "drop_replacement", "unjournal">>)
  /\ UNCHANGED <<service, settingsFiles, codex>>

RestoreSettings ==
  /\ Due("restore_settings")
  /\ settings' = journal.previous
  /\ Done
  /\ UNCHANGED <<service, journal, credentials, generations, codex>>

DropReplacement ==
  /\ Due("drop_replacement")
  /\ credentials' = credentials \ {IF journal = NoJournal THEN generations ELSE journal.replacement}
  /\ Done
  /\ UNCHANGED <<service, settings, journal, generations, codex>>

\* finalize_committed_settings_migration
Finalize ==
  /\ Due("finalize")
  /\ IF IsV3 /\ settings.generation = journal.replacement
     THEN credentials' = credentials \ {journal.previous.generation} /\ Done
     ELSE Fails(<<>>) /\ UNCHANGED credentials
  /\ UNCHANGED <<service, settings, journal, generations, codex>>

RemoveJournal ==
  /\ Due("unjournal")
  /\ journal' = NoJournal
  /\ Done
  /\ UNCHANGED <<service, settings, credentials, generations, codex>>

----------------------------------------------------------------------------
(* LaunchAgent                                                             *)

\* launch_agent_transaction_conflicts, validated_launch_agent_file
Conflicts(t) ==
  plist # t.desired /\ (t.phase = "owned" \/ plist # t.rollback)

\* apply_launch_agent_desired
Apply(t) ==
  IF t.desiredLoaded THEN <<"stop", "stopped", "replace", "written", "start", "started">>
                     ELSE <<"stop", "stopped", "replace", "written">>

\* "t" is applied over "expected"; then "after", and what the call has left.
Applies(t, expected, before, after) ==
  call' = [call EXCEPT !.txn = t, !.expected = expected,
                       !.todo = before \o Apply(t) \o after \o Rest]

Left(step) == \E i \in DOMAIN call.todo : call.todo[i] = step

RollingBack(t) == [t EXCEPT !.desired = t.rollback, !.desiredLoaded = t.rollbackLoaded]

\* recover_launch_agent_transaction
Recover ==
  /\ Due("recover")
  /\ \/ txn = NoTxn /\ Done /\ UNCHANGED txn
     \/ txn # NoTxn /\ Conflicts(txn) /\ Fails(<<>>) /\ UNCHANGED txn
     \/ /\ txn # NoTxn /\ ~Conflicts(txn) /\ txn.phase = "owned"
        /\ IF loaded = txn.desiredLoaded THEN Done
           ELSE Applies([txn EXCEPT !.operation = "reconnect", !.rollback = txn.desired,
                                    !.rollbackLoaded = txn.desiredLoaded, !.phase = "prepared"],
                        plist, <<"save">>, <<"owned">>)
        /\ UNCHANGED txn
     \/ /\ txn # NoTxn /\ ~Conflicts(txn) /\ txn.phase # "owned"
        /\ CASE txn.operation # "disconnect" /\ call.mode = "connected" ->
                  /\ txn' = [txn EXCEPT !.operation = "connect", !.phase = "owned"]
                  /\ Done
             [] txn.operation = "connect" /\ call.mode # "connected" ->
                  Applies(RollingBack(txn), plist, <<>>, <<"undone">>) /\ UNCHANGED txn
             [] \/ txn.operation = "reconnect" /\ call.mode # "connected"
                \/ txn.operation = "disconnect" /\ call.mode \in {"connect", "connected"} ->
                  Applies(RollingBack(txn), plist, <<>>, <<"own">>) /\ UNCHANGED txn
             [] txn.operation = "disconnect" /\ call.mode \in {"disconnect", "disconnected"} ->
                  /\ Applies(txn, plist, <<>>,
                             IF call.mode = "disconnect" THEN <<"restored">> ELSE <<"restored", "remove">>)
                  /\ UNCHANGED txn
             [] OTHER ->  \* a disconnect, and the configuration is in conflict
                  Fails(<<>>) /\ UNCHANGED txn
  /\ UNCHANGED <<plist, loaded, settingsFiles, codex>>

(* Mutant: a service we own already is taken for the user's.               *)
InstallOverOwn ==
  /\ Due("install")
  /\ Applies([Owned([plist |-> plist, loaded |-> loaded], call.executable) EXCEPT !.phase = "prepared"],
             plist, <<"save">>, <<"applied">>)
  /\ UNCHANGED <<service, settingsFiles, codex>>
(* Mutant: an owned service is kept whatever it starts.                    *)
InstallKeeps ==
  /\ Due("install")
  /\ IF txn # NoTxn /\ ~call.restart THEN Done
     ELSE Applies([Owned([plist |-> plist, loaded |-> loaded], call.executable) EXCEPT !.phase = "prepared"],
                  plist, <<"save">>, <<"applied">>)
  /\ UNCHANGED <<service, settingsFiles, codex>>
\* install_collector_service_with, after its recovery
Install ==
  /\ Due("install")
  /\ IF txn # NoTxn
     THEN IF ~call.restart /\ txn.desired = call.executable THEN Done
          ELSE Applies([txn EXCEPT !.rollback = txn.desired, !.rollbackLoaded = txn.desiredLoaded,
                                   !.desired = call.executable, !.desiredLoaded = TRUE,
                                   !.operation = "reconnect", !.phase = "prepared"],
                       txn.desired, <<"save">>, <<"applied">>)
     ELSE IF loaded /\ plist = NoPlist THEN Fails(<<>>)
          ELSE Applies([Owned([plist |-> plist, loaded |-> loaded], call.executable)
                          EXCEPT !.phase = "prepared"],
                       plist, <<"save">>, <<"applied">>)
  /\ UNCHANGED <<service, settingsFiles, codex>>

\* uninstall_collector_service_with, after its recovery
Uninstall ==
  /\ Due("uninstall")
  /\ IF txn = NoTxn \/ (txn # NoTxn /\ txn.operation = "disconnect" /\ txn.phase = "restored")
     THEN Done
     ELSE Applies([txn EXCEPT !.rollback = txn.desired, !.rollbackLoaded = txn.desiredLoaded,
                              !.desired = txn.prior, !.desiredLoaded = txn.priorLoaded,
                              !.operation = "disconnect", !.phase = "prepared"],
                  txn.desired, <<"save">>, <<"restored">>)
  /\ UNCHANGED <<service, settingsFiles, codex>>

\* rollback_collector_service_uninstall
Reinstall ==
  /\ Due("reinstall")
  /\ IF txn = NoTxn \/ (txn # NoTxn /\ (txn.operation # "disconnect" \/ Conflicts(txn)))
     THEN Fails(<<>>)
     ELSE Applies([RollingBack(txn) EXCEPT !.phase = "prepared"], plist, <<"save">>, <<"own">>)
  /\ UNCHANGED <<service, settingsFiles, codex>>

Stop ==
  /\ Due("stop")
  /\ loaded' = FALSE
  /\ Done
  /\ UNCHANGED <<plist, txn, settingsFiles, codex>>

\* The file is replaced only while it holds what was read.
Replace ==
  /\ Due("replace")
  /\ plist = call.expected
  /\ plist' = call.txn.desired
  /\ Done
  /\ UNCHANGED <<loaded, txn, settingsFiles, codex>>

Start ==
  /\ Due("start")
  /\ call.txn.desired # NoPlist
  /\ loaded' = TRUE
  /\ Done
  /\ UNCHANGED <<plist, txn, settingsFiles, codex>>

\* save_launch_agent_transaction
Saved(step) ==
  CASE step = "save"     -> call.txn
    [] step = "stopped"  -> [call.txn EXCEPT !.phase = "service_stopped"]
    [] step = "written"  -> [call.txn EXCEPT !.phase = "plist_written"]
    [] step = "started"  -> [call.txn EXCEPT !.phase = "bootstrapped"]
    [] step = "applied"  -> [call.txn EXCEPT !.phase = "applied"]
    [] step = "restored" -> [call.txn EXCEPT !.phase = "restored"]
    [] step = "owned"    -> [call.txn EXCEPT !.phase = "owned"]
    [] step = "own"      -> [call.txn EXCEPT !.phase = "owned", !.operation = "connect"]

Save(step) ==
  /\ Due(step)
  /\ txn' = Saved(step)
  /\ call' = [call EXCEPT !.todo = Rest, !.txn = Saved(step)]
  /\ UNCHANGED <<plist, loaded, settingsFiles, codex>>

RemoveTxn ==
  /\ Due("remove") \/ Due("undone")
  /\ txn' = NoTxn
  /\ Done
  /\ UNCHANGED <<plist, loaded, settingsFiles, codex>>

CommitInstall ==
  /\ Due("commit_install")
  /\ \/ /\ txn # NoTxn /\ txn.operation = "connect" /\ txn.phase = "owned"
        /\ Done /\ UNCHANGED txn
     \/ /\ txn # NoTxn /\ txn.operation # "disconnect" /\ txn.phase = "applied"
        /\ txn' = [txn EXCEPT !.operation = "connect", !.phase = "owned"]
        /\ Done
     \/ /\ \/ txn = NoTxn
           \/ /\ txn # NoTxn /\ txn.phase # "applied"
              /\ ~(txn.operation = "connect" /\ txn.phase = "owned")
        /\ Fails(<<>>) /\ UNCHANGED txn
  /\ UNCHANGED <<plist, loaded, settingsFiles, codex>>

CommitUninstall ==
  /\ Due("commit_uninstall")
  /\ \/ txn = NoTxn /\ Done /\ UNCHANGED txn
     \/ /\ txn # NoTxn
        /\ IF txn.operation = "disconnect" /\ txn.phase = "restored"
           THEN txn' = NoTxn /\ Done
           ELSE Fails(<<>>) /\ UNCHANGED txn
  /\ UNCHANGED <<plist, loaded, settingsFiles, codex>>

----------------------------------------------------------------------------
(* Calls                                                                   *)

Called(kind, e, todo, mode) ==
  call' = [kind |-> kind, executable |-> e, todo |-> todo, mode |-> mode,
           restart |-> FALSE, txn |-> NoTxn, expected |-> NoPlist, failed |-> FALSE]

Connect(e) ==
  /\ call = NoCall
  /\ Called("connect", e,
       <<"recover_migration", "install_settings", "probe", "recover", "install", "ready",
         "config", "commit_install", "commit_settings">>, "connect")
  /\ outcome' = "none"
  /\ UNCHANGED <<service, settingsFiles, codex>>

Releasing == <<"recover", "uninstall", "release", "commit_uninstall", "rollback_settings">>

Disconnect(e) ==
  /\ call = NoCall
  /\ IF journal # NoJournal /\ Ownership = "disconnected"
     THEN Called("status", e, <<"recover", "rollback_settings">>, "disconnected")
     ELSE /\ Ownership # "conflict"
          /\ settings = NoSettings \/ IsV3
          /\ ~(settings = NoSettings /\ txn # NoTxn /\ Conflicts(txn))
          /\ Called("disconnect", e, Releasing, "disconnect")
  /\ outcome' = "none"
  /\ UNCHANGED <<service, settingsFiles, codex>>

\* A journal is settled before the settings are read.
Status(e) ==
  /\ call = NoCall
  /\ IF journal # NoJournal
     THEN /\ Ownership # "conflict"
          /\ IF Ownership = "connected"
             THEN Called("status", e, <<"recover", "commit_settings", "observe">>, "connected")
             ELSE Called("status", e, <<"recover", "rollback_settings">>, "disconnected")
     ELSE IsV3 /\ Called("status", e, <<"observe">>, "status")
  /\ outcome' = "none"
  /\ UNCHANGED <<service, settingsFiles, codex>>

\* The status itself: the service and the settings follow the configuration.
ObserveStatus ==
  /\ Due("observe")
  /\ call' = [call EXCEPT !.mode = ConfigStatus(call.executable),
                          !.todo = <<"recover">> \o
                            CASE ConfigStatus(call.executable) = "connected"    -> <<"commit_settings">>
                              [] ConfigStatus(call.executable) = "disconnected" -> <<"rollback_settings">>
                              [] OTHER -> <<>>]
  /\ UNCHANGED <<service, settingsFiles, codex>>

\* wait_until_ready and load_settings
Ready ==
  /\ Due("ready")
  /\ Done
  /\ UNCHANGED <<service, settingsFiles, codex>>

\* An edit outside the owned values is taken over, any other is refused. An
\* error may come before the file has changed or after it.
ConnectConfig ==
  /\ Due("config")
  /\ \/ /\ managed' = [executable |-> call.executable, generation |-> settings.generation,
                       port |-> settings.port]
        /\ clash' = FALSE
        /\ Done \/ Fails(<<>>)
     \/ /\ Fails(IF ConfigStatus(call.executable) = "disconnected"
                 THEN <<"recover", "rollback_settings">> ELSE <<>>)
        /\ UNCHANGED codex
  /\ UNCHANGED <<service, settingsFiles>>

ReleaseConfig ==
  /\ Due("release")
  /\ \/ /\ Ownership # "conflict"
        /\ managed' = NoConfig
        /\ Done \/ Fails(<<"commit_uninstall">>)
     \/ /\ Fails(IF Ownership = "connected" THEN <<"reinstall">> ELSE <<"commit_uninstall">>)
        /\ UNCHANGED managed
  /\ UNCHANGED <<service, settingsFiles, clash>>

MayStop == RollbackFaults \/ ~(Left("own") \/ Left("undone"))

\* A step fails without effect. Only connect takes back what it began, and
\* only while the steps are its own: a compensation is not compensated.
StepFails ==
  /\ call # NoCall /\ call.todo # <<>> /\ MayStop
  /\ LET step == Head(call.todo)
     IN Fails(CASE call.failed -> <<>>
                [] ~call.failed /\ step \in {"generate", "adopt"} ->
                     IF journal = NoJournal THEN <<"drop_replacement">>
                     ELSE <<"drop_replacement", "unjournal">>
                [] ~call.failed /\ step = "probe" -> <<"rollback_settings">>
                [] ~call.failed /\ step = "ready" -> <<"recover", "rollback_settings">>
                [] ~call.failed /\ step \in Applying /\ call.kind = "connect"
                     /\ Left("applied") -> <<"recover">>
                [] OTHER -> <<>>)
  /\ UNCHANGED <<service, settingsFiles, codex>>

EndCall ==
  /\ call # NoCall /\ call.todo = <<>>
  /\ call' = NoCall
  /\ outcome' = IF call.failed \/ call.kind = "status" THEN "none" ELSE call.kind
  /\ UNCHANGED <<service, settingsFiles, codex>>

\* Also an unverified storage write, after which nothing is compensated.
Crash ==
  /\ call # NoCall /\ MayStop
  /\ call' = NoCall
  /\ UNCHANGED <<service, settingsFiles, codex>>

\* launchd gives up the service, or the user stops it.
Unload ==
  /\ call = NoCall /\ txn # NoTxn /\ loaded
  /\ loaded' = FALSE
  /\ UNCHANGED <<plist, txn, settingsFiles, codex, call>>

\* The user edits the configuration, or takes the edit back.
EditConfig ==
  /\ managed # NoConfig
  /\ clash' = ~clash
  /\ UNCHANGED <<service, settingsFiles, managed, call>>

SettingsStep ==
  RecoverMigration \/ InstallSettings \/ Begin \/ Generate \/ Adopt \/ Probe \/ CommitSettings
  \/ RollbackSettings \/ RestoreSettings \/ DropReplacement \/ Finalize \/ RemoveJournal
ServiceStep ==
  \/ Recover \/ Install \/ Uninstall \/ Reinstall \/ Stop \/ Replace \/ Start
  \/ \E step \in {"save", "stopped", "written", "started", "applied", "restored", "owned", "own"} :
       Save(step)
  \/ RemoveTxn \/ CommitInstall \/ CommitUninstall

IntegrationNext ==
  /\ UNCHANGED original
  /\ \/ \E e \in Executables : Connect(e) \/ Disconnect(e) \/ Status(e)
     \/ EndCall
     \/ /\ UNCHANGED outcome
        /\ SettingsStep \/ ServiceStep \/ ObserveStatus \/ Ready \/ ConnectConfig \/ ReleaseConfig
           \/ StepFails \/ Crash
     \/ outcome' = "none" /\ (Unload \/ EditConfig)

IntegrationSpec == IntegrationInit /\ [][IntegrationNext]_integrationVars

----------------------------------------------------------------------------
\* Without a transaction the LaunchAgent is exactly what it was before the
\* first connect: no crash, failed start or failed compensation loses the
\* plist the user had or leaves ours behind unrecorded.
PriorServiceReturns ==
  txn = NoTxn => plist = original.plist /\ loaded = original.loaded

\* The settings on disk always have their credentials, and until the new
\* settings are committed so have the ones they replace.
SettingsUsable ==
  /\ settings # NoSettings => settings.generation \in credentials
  /\ journal # NoJournal /\ journal.phase = "pending" =>
       journal.previous.generation \in credentials

\* A connect that returns has brought all three parts to the same values, and
\* a disconnect that returns has given all three back.
CallsConverge ==
  /\ outcome = "connect" =>
       /\ loaded /\ txn # NoTxn /\ txn.phase = "owned" /\ plist = txn.desired
       /\ managed # NoConfig /\ Matches(plist) /\ journal = NoJournal
  /\ outcome = "disconnect" =>
       txn = NoTxn /\ managed = NoConfig /\ journal = NoJournal

\* "failure or crash restores that exact state" (docs/COLLECTION_FLOW.md:123):
\* nobody but the calls touches the plist, so the transaction on disk must
\* always recognise it; recovery refuses a plist it does not.
ServiceRecoverable == call = NoCall /\ txn # NoTxn => ~Conflicts(txn)

\* "They are removed only after all commits succeed"
\* (docs/LOCAL_RUNTIME.md:97): the credentials Codex is configured with exist.
ConfiguredCredentialsExist == managed # NoConfig => managed.generation \in credentials
=============================================================================
