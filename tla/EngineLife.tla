----------------------------- MODULE EngineLife -----------------------------
(***************************************************************************)
(* The engine process, from the desktop shell that starts it to the        *)
(* control API it serves, over the files it keeps in its data directory:   *)
(* the device key, the API token, the database's schema and the            *)
(* assistant's settings.                                                   *)
(*                                                                         *)
(* The shell kills the engine whose process ID it recorded, starts another *)
(* and records that one (lib.rs).  An engine loads or creates the key,     *)
(* migrates the database, loads or creates the token (daemon.New), binds   *)
(* the API's port and then the peers' (Daemon.Run).  The shell quits, is   *)
(* killed and is started again while engines run or start; nothing keeps   *)
(* two engines from sharing the directory but the API's port.              *)
(*                                                                         *)
(* os.WriteFile empties a file and then fills it: what is left in between  *)
(* is Torn.                                                                *)
(***************************************************************************)
EXTENDS Integers

CONSTANTS
  Engine,      \* process slots; a slot is used again once its engine is gone
  Nobody,
  Old,         \* the key and token an earlier release has left
  Missing,     \* no such file
  Torn,        \* a file that was emptied and not filled
  Request,     \* saves of the assistant's settings that may overlap
  Latest,      \* len(migrations)
  MaxLaunches, \* bound: how often the shell starts
  MaxFaults,   \* bound: how many processes are stopped and calls fail
  MaxSaves     \* bound: how many settings are saved

ASSUME EngineLifeAssumption ==
  /\ Nobody \notin Engine
  /\ Missing \notin Engine \cup {Old, Torn} /\ Torn \notin Engine \cup {Old}
  /\ Latest \in Nat \ {0}
  /\ MaxLaunches \in Nat /\ MaxFaults \in Nat /\ MaxSaves \in Nat

\* device.key and api-token.  A random secret is named after the engine that
\* generated it.
Kept == {"key", "token"}
Secret == Engine \cup {Old}
Stored == Secret \cup {Missing, Torn}

\* An ai.Config of a provider that needs a key; the other fields are left out.
Setting == [enabled : BOOLEAN, apiKey : {"", "one"}]
Default == [enabled |-> FALSE, apiKey |-> ""]

VARIABLES
  shell,    \* "off", "kill", "spawn", "record" (setup), "on"
  child,    \* the engine the shell has started and not yet recorded
  pidFile,  \* syncyd.pid: the engine recorded last
  app,      \* the token api.ts has read and keeps; Missing when it has none
  pc,       \* pc[e]: where e is in daemon.New and Run; "off" when it is gone
  file,     \* file[f]: what the data directory holds
  held,     \* held[e][f]: what e has loaded or generated
  tables,   \* the migrations whose tables the database has
  version,  \* its user_version
  seen,     \* seen[e]: the loop variable of migrate
  port,     \* the engine that holds the API's port
  aiFile,   \* ai.json
  aiCfg,    \* aiCfg[e]: Server.aiCfg
  save,     \* save[r]: a request in handleSaveAI
  launches, faults, saves

\* What the properties need to remember; no action's guard reads these.
VARIABLES
  raced,    \* an engine has started while another created its files
  stray,    \* the shell has been stopped before it recorded its engine
  calm      \* since the shell's last start nothing has failed, and no engine
            \* has found the port still held by a killed one

disk   == <<file, tables, version, aiFile>>
memory == <<pc, held, seen, aiCfg>>
bounds == <<launches, faults, saves>>
ghosts == <<raced, stray, calm>>
desktop == <<shell, child, pidFile, app>>
vars   == <<desktop, disk, memory, port, save, bounds, ghosts>>

Idle == [stage |-> "idle", cfg |-> Default]
Waiting == {"listen", "syncing", "paused"}  \* the API is served
Alive(e) == pc[e] \notin {"off", "dying"}

\* A new installation, or what an earlier release has left.
Init ==
  /\ shell = "off" /\ child = Nobody /\ pidFile = Nobody /\ app = Missing
  /\ pc = [e \in Engine |-> "off"]
  /\ \/ file = [f \in Kept |-> Missing] /\ version = 0
     \/ file = [f \in Kept |-> Old] /\ version \in 1 .. Latest
  /\ tables = 1 .. version
  /\ held = [e \in Engine |-> [f \in Kept |-> Missing]]
  /\ seen = [e \in Engine |-> 0]
  /\ port = Nobody
  /\ aiFile = Missing
  /\ aiCfg = [e \in Engine |-> Default]
  /\ save = [r \in Request |-> Idle]
  /\ launches = 0 /\ faults = 0 /\ saves = 0
  /\ raced = FALSE /\ stray = FALSE /\ calm = TRUE

-----------------------------------------------------------------------------
(* The shell *)

\* The application starts; a second instance only shows the first.
Launch ==
  /\ shell = "off" /\ launches < MaxLaunches
  /\ launches' = launches + 1
  /\ shell' = "kill"
  /\ calm' = TRUE
  /\ UNCHANGED <<child, pidFile, app, disk, memory, port, save, faults, saves,
                 raced, stray>>

\* The user quits the application, or it is killed, wherever it is.  The
\* engine runs on.
Quit ==
  /\ shell # "off"
  /\ shell' = "off" /\ child' = Nobody /\ app' = Missing
  /\ stray' = (stray \/ shell = "record")
  /\ UNCHANGED <<pidFile, disk, memory, port, save, bounds, raced, calm>>

\* e is gone: its port is free, its memory lost, the requests it was serving
\* are broken off.
Ends(e) ==
  /\ pc' = [pc EXCEPT ![e] = "off"]
  /\ held' = [held EXCEPT ![e] = [f \in Kept |-> Missing]]
  /\ seen' = [seen EXCEPT ![e] = 0]
  /\ aiCfg' = [aiCfg EXCEPT ![e] = Default]
  /\ port' = IF port = e THEN Nobody ELSE port
  /\ save' = IF port = e THEN [r \in Request |-> Idle] ELSE save

\* Mutant of KillStale: the engine that is still there is left alone.
KillNothing ==
  /\ shell = "kill"
  /\ shell' = "spawn"
  /\ UNCHANGED <<child, pidFile, app, disk, memory, port, save, bounds, ghosts>>

\* kill_stale_engine: kill -9, taskkill /F.  Neither waits until the engine is
\* gone.
KillStale ==
  /\ shell = "kill"
  /\ shell' = "spawn"
  /\ IF pidFile = Nobody \/ ~Alive(pidFile)
     THEN UNCHANGED pc
     ELSE pc' = [pc EXCEPT ![pidFile] = "dying"]
  /\ UNCHANGED <<held, seen, aiCfg, port, save>>
  /\ UNCHANGED <<child, pidFile, app, disk, bounds, ghosts>>

Spawn(e) ==
  /\ shell = "spawn" /\ pc[e] = "off"
  /\ shell' = "record" /\ child' = e
  /\ pc' = [pc EXCEPT ![e] = "key"]
  /\ UNCHANGED <<pidFile, app, disk, held, seen, aiCfg, port, save, bounds,
                 ghosts>>

Record ==
  /\ shell = "record"
  /\ shell' = "on" /\ pidFile' = child /\ child' = Nobody
  /\ UNCHANGED <<app, disk, memory, port, save, bounds, ghosts>>

\* A screen asks for the token (daemon_info).  The first answer is kept, an
\* empty one too; without the file the screen shows an error.
ReadToken ==
  /\ shell = "on" /\ app = Missing
  /\ file["token"] # Missing
  /\ app' = file["token"]
  /\ UNCHANGED <<shell, child, pidFile, disk, memory, port, save, bounds,
                 ghosts>>

-----------------------------------------------------------------------------
(* An engine: daemon.New *)

Goto(e, place) == pc' = [pc EXCEPT ![e] = place]

\* The steps on the two files, and where they lead.
Loading == [key |-> "key", token |-> "token"]
Creating == [key |-> "createKey", token |-> "createToken"]
Writing  == [key |-> "writeKey", token |-> "writeToken"]
After == [key |-> "version", token |-> "bind"]

\* os.Exit(1): an error from New, or from Run.
Exit(e) == Ends(e) /\ UNCHANGED <<desktop, disk, bounds, ghosts>>

\* LoadOrCreate, loadOrCreateToken: what is there is used - a token as it is,
\* a key if it can be read - and only a missing file is created.
Load(e, f) ==
  /\ pc[e] = Loading[f]
  /\ \/ /\ file[f] \in Secret \cup IF f = "token" THEN {Torn} ELSE {}
        /\ held' = [held EXCEPT ![e][f] = file[f]]
        /\ Goto(e, After[f])
        /\ UNCHANGED <<seen, aiCfg, port, save>>
     \/ /\ file[f] = Missing
        /\ held' = [held EXCEPT ![e][f] = e]
        /\ Goto(e, Creating[f])
        /\ UNCHANGED <<seen, aiCfg, port, save>>
     \/ file[f] = Torn /\ f = "key" /\ Ends(e)
  /\ raced' = (raced \/ \E x \in Engine \ {e} :
                          pc[x] \in {Creating[f], Writing[f]})
  /\ UNCHANGED <<desktop, disk, bounds, stray, calm>>

\* Mutant of LoadFails: a file that cannot be read is created anew.
LoadFailsAnew(e, f) ==
  /\ pc[e] = Loading[f] /\ file[f] # Missing
  /\ faults < MaxFaults /\ faults' = faults + 1
  /\ held' = [held EXCEPT ![e][f] = e]
  /\ Goto(e, Creating[f])
  /\ UNCHANGED <<seen, aiCfg, port, save, desktop, disk, launches, saves,
                 ghosts>>

\* The file exists and cannot be read.
LoadFails(e, f) ==
  /\ pc[e] = Loading[f] /\ file[f] # Missing
  /\ faults < MaxFaults /\ faults' = faults + 1
  /\ Ends(e)
  /\ calm' = FALSE
  /\ UNCHANGED <<desktop, disk, launches, saves, raced, stray>>

\* os.WriteFile opens the file, which empties it.
Create(e, f) ==
  /\ pc[e] = Creating[f]
  /\ file' = [file EXCEPT ![f] = Torn]
  /\ Goto(e, Writing[f])
  /\ UNCHANGED <<held, seen, aiCfg, port, save, desktop, tables, version,
                 aiFile, bounds, ghosts>>

Write(e, f) ==
  /\ pc[e] = Writing[f]
  /\ file' = [file EXCEPT ![f] = held[e][f]]
  /\ Goto(e, After[f])
  /\ UNCHANGED <<held, seen, aiCfg, port, save, desktop, tables, version,
                 aiFile, bounds, ghosts>>

\* migrate reads the schema's version once, outside the transactions.
ReadVersion(e) ==
  /\ pc[e] = "version"
  /\ seen' = [seen EXCEPT ![e] = version]
  /\ Goto(e, IF version < Latest THEN "migrate" ELSE "token")
  /\ UNCHANGED <<held, aiCfg, port, save, desktop, disk, bounds, ghosts>>

\* The transaction of migration seen + 1 commits with the version.
Commit(e) ==
  /\ tables' = tables \cup {seen[e] + 1}
  /\ version' = seen[e] + 1
  /\ seen' = [seen EXCEPT ![e] = version']
  /\ Goto(e, IF version' < Latest THEN "migrate" ELSE "token")
  /\ UNCHANGED <<file, aiFile, held, aiCfg, port, save, desktop, bounds,
                 ghosts>>

\* Mutant of Migrate: CREATE TABLE IF NOT EXISTS.
MigrateAgain(e) == pc[e] = "migrate" /\ Commit(e)

\* applyMigration: one transaction, the version in it.  A table that exists
\* makes it roll back, and the start fails.
Migrate(e) ==
  /\ pc[e] = "migrate"
  /\ IF seen[e] + 1 \in tables THEN Exit(e) ELSE Commit(e)

-----------------------------------------------------------------------------
(* An engine: Daemon.Run *)

\* loadAIConfig: without a readable file the settings are empty.
Loaded == IF aiFile \in Setting THEN aiFile ELSE Default

\* Mutant of Bind: the port is shared.
BindAnyway(e) ==
  /\ pc[e] = "bind"
  /\ port' = e
  /\ aiCfg' = [aiCfg EXCEPT ![e] = Loaded]
  /\ Goto(e, "listen")
  /\ UNCHANGED <<held, seen, save, desktop, disk, bounds, ghosts>>

\* The control API is bound, with its server, or the engine gives up.
Bind(e) ==
  /\ pc[e] = "bind"
  /\ IF port # Nobody
     THEN /\ Ends(e)
          /\ calm' = (calm /\ Alive(port))
          /\ UNCHANGED <<desktop, disk, bounds, raced, stray>>
     ELSE /\ port' = e
          /\ aiCfg' = [aiCfg EXCEPT ![e] = Loaded]
          /\ Goto(e, "listen")
          /\ UNCHANGED <<held, seen, save, desktop, disk, bounds, ghosts>>

\* Another program may hold the peers' port: the engine stays up without it.
Listen(e) ==
  /\ pc[e] = "listen"
  /\ \E place \in {"syncing", "paused"} : Goto(e, place)
  /\ UNCHANGED <<held, seen, aiCfg, port, save, desktop, disk, bounds,
                 ghosts>>

\* A process is stopped at any point, or a call fails and it gives up.
Crash(e) ==
  /\ Alive(e)
  /\ faults < MaxFaults /\ faults' = faults + 1
  /\ Ends(e)
  /\ calm' = FALSE
  /\ UNCHANGED <<desktop, disk, launches, saves, raced, stray>>

Die(e) ==
  /\ pc[e] = "dying"
  /\ Exit(e)

-----------------------------------------------------------------------------
(* handleSaveAI: three steps, with the lock only around the first and last *)

Serving == port # Nobody /\ Alive(port)
At(r, stage) == Serving /\ save[r].stage = stage
Moves(r, stage) == save' = [save EXCEPT ![r].stage = stage]

\* Server.authorized: an engine without a token refuses every request.
Authorized(e) == app \in Secret /\ app = held[e]["token"]

\* Config.Validate, of a provider that needs a key.
Valid(cfg) == cfg.apiKey # ""

\* The request is decoded, an empty key replaced by the one in memory, and
\* enabled settings validated.
Ask(r) ==
  /\ At(r, "idle") /\ Authorized(port) /\ saves < MaxSaves
  /\ saves' = saves + 1
  /\ \E s \in Setting :
       LET key == IF s.apiKey = "" THEN aiCfg[port].apiKey ELSE s.apiKey
           merged == [enabled |-> s.enabled, apiKey |-> key]
       IN  /\ merged.enabled => Valid(merged)
           /\ save' = [save EXCEPT ![r] = [stage |-> "open", cfg |-> merged]]
  /\ UNCHANGED <<desktop, disk, memory, port, launches, faults, ghosts>>

OpenFile(r) ==
  /\ At(r, "open")
  /\ aiFile' = Torn
  /\ Moves(r, "write")
  /\ UNCHANGED <<desktop, file, tables, version, memory, port, bounds,
                 ghosts>>

\* Two requests that both write leave the longer one's end behind the shorter.
WriteFile(r) ==
  /\ At(r, "write")
  /\ aiFile' \in {save[r].cfg} \cup IF aiFile = Torn THEN {} ELSE {Torn}
  /\ Moves(r, "set")
  /\ UNCHANGED <<desktop, file, tables, version, memory, port, bounds,
                 ghosts>>

SetMemory(r) ==
  /\ At(r, "set")
  /\ aiCfg' = [aiCfg EXCEPT ![port] = save[r].cfg]
  /\ save' = [save EXCEPT ![r] = Idle]
  /\ UNCHANGED <<desktop, disk, pc, held, seen, port, bounds, ghosts>>

\* Mutant of SaveFails: the error is reported, the settings are used.
SaveFailsSet(r) ==
  /\ At(r, "open") \/ At(r, "write")
  /\ faults < MaxFaults /\ faults' = faults + 1
  /\ aiCfg' = [aiCfg EXCEPT ![port] = save[r].cfg]
  /\ save' = [save EXCEPT ![r] = Idle]
  /\ calm' = FALSE
  /\ UNCHANGED <<desktop, disk, pc, held, seen, port, launches, saves, raced,
                 stray>>

\* The file cannot be opened, or not be filled: the request fails.
SaveFails(r) ==
  /\ At(r, "open") \/ At(r, "write")
  /\ faults < MaxFaults /\ faults' = faults + 1
  /\ save' = [save EXCEPT ![r] = Idle]
  /\ calm' = FALSE
  /\ UNCHANGED <<desktop, disk, memory, port, launches, saves, raced, stray>>

-----------------------------------------------------------------------------

Setup == KillStale \/ Record \/ \E e \in Engine : Spawn(e)

Step(e) ==
  \/ \E f \in Kept : Load(e, f) \/ Create(e, f) \/ Write(e, f)
  \/ ReadVersion(e) \/ Migrate(e)
  \/ Bind(e) \/ Listen(e) \/ Die(e)

Handle(r) == Ask(r) \/ OpenFile(r) \/ WriteFile(r) \/ SetMemory(r)

Next ==
  \/ Launch \/ Quit \/ Setup \/ ReadToken
  \/ \E e \in Engine : Step(e) \/ Crash(e) \/ \E f \in Kept : LoadFails(e, f)
  \/ \E r \in Request : Handle(r) \/ SaveFails(r)

Spec == Init /\ [][Next]_vars

\* A process that can run does: the shell's set-up and the engines' starts.
FairSpec == Spec /\ WF_vars(Setup) /\ \A e \in Engine : WF_vars(Step(e))

-----------------------------------------------------------------------------

Places == {"off", "dying", "version", "migrate", "bind"} \cup Waiting
          \cup UNION {{Loading[f], Creating[f], Writing[f]} : f \in Kept}

\* The state has its type, and the API's port is held by the engine that
\* serves it: an engine that is gone has left nothing behind.
TypeOK ==
  /\ shell \in {"off", "kill", "spawn", "record", "on"}
  /\ child \in Engine \cup {Nobody} /\ pidFile \in Engine \cup {Nobody}
  /\ pc \in [Engine -> Places]
  /\ app \in Stored
  /\ file \in [Kept -> Stored]
  /\ held \in [Engine -> [Kept -> Stored]]
  /\ tables \subseteq 1 .. Latest
  /\ version \in 0 .. Latest
  /\ seen \in [Engine -> 0 .. Latest]
  /\ aiFile \in Setting \cup {Missing, Torn}
  /\ aiCfg \in [Engine -> Setting]
  /\ save \in [Request -> [stage : {"idle", "open", "write", "set"},
                           cfg : Setting]]
  /\ launches \in 0 .. MaxLaunches /\ faults \in 0 .. MaxFaults
  /\ saves \in 0 .. MaxSaves
  /\ raced \in BOOLEAN /\ stray \in BOOLEAN /\ calm \in BOOLEAN
  /\ \A e \in Engine : /\ pc[e] \in Waiting => port = e
                       /\ pc[e] = "off" => port # e

\* The database has exactly the tables of its version, whichever engines
\* migrate it at once and wherever they are stopped: a version that fell
\* behind its tables would fail every later start.
SchemaWhole == tables = 1 .. version

\* A device keeps its identity: no start, no failing read and no crash
\* replaces a key that has been stored.  Only two first starts at once do
\* (IdentityNeverChanges).
IdentityKept ==
  [][file["key"] \in Secret /\ ~raced' => file'["key"] = file["key"]]_vars

\* While no save is under way, the settings an engine uses are those the next
\* one will load, unless a save was broken off in the file; no failed save
\* takes effect in one place only.
SettingsAgree ==
  Serving /\ (\A r \in Request : save[r].stage = "idle") =>
    \/ aiCfg[port] = Loaded
    \/ aiFile = Torn /\ faults > 0

\* Once the application is up, and nothing fails, an engine accepts its
\* requests: under the token that the application has read or will read, and it
\* is the engine the application has started, not an older one, unless that was
\* never recorded.  What a crash has left torn prevents it for good, and so
\* do an application that read the token's file before it was filled and a
\* killed engine that had the port for too long (PortIsFreed).
Answered ==
  /\ Serving /\ pc[port] \in {"syncing", "paused"}
  /\ held[port]["token"] \in Secret
  /\ held[port]["token"] = file["token"]
  /\ app \in {Missing, held[port]["token"]}
  /\ port = pidFile \/ stray

ComesUp ==
  shell = "on" ~> \/ Answered
                  \/ Torn \in {file["key"], file["token"], app}
                  \/ raced \/ ~calm \/ shell # "on"

(* What does not hold *)

\* No key that has been stored is ever replaced.
IdentityNeverChanges ==
  [][file["key"] \in Secret => file'["key"] = file["key"]]_vars

\* The stale engine never stands in the way: "The app cleans up a stale engine
\* left by a previous run (tracked by PID) before starting a new one"
\* (CHANGELOG.md).
PortIsFreed ==
  shell = "on" ~> \/ Answered
                  \/ Torn \in {file["key"], file["token"], app}
                  \/ raced \/ shell # "on"

\* Where no process is stopped, the application is answered in the end: "It may
\* still be starting - try again in a moment" (desktop/src/lib/api.ts).
TryAgain == shell = "on" ~> Answered \/ raced \/ shell # "on"
=============================================================================
