-------------------------- MODULE EngineLifeProofs --------------------------
(* The schema stays whole and the identity stays the same, for any number of *)
(* engines and launches.                                                     *)
EXTENDS EngineLife, TLAPS

USE EngineLifeAssumption

\* An engine that is in the middle of the migrations has read a version that
\* the database had, and knows that there are some left.
SInv ==
  /\ version \in 0 .. Latest
  /\ SchemaWhole
  /\ pc \in [Engine -> Places]
  /\ seen \in [Engine -> 0 .. Latest]
  /\ \A e \in Engine : /\ seen[e] <= version
                       /\ pc[e] = "migrate" => seen[e] < Latest

LEMMA PlacesFacts ==
  /\ \A f \in Kept : /\ Loading[f] \in Places /\ Creating[f] \in Places
                     /\ Writing[f] \in Places /\ After[f] \in Places
                     /\ "migrate" \notin {Loading[f], Creating[f], Writing[f],
                                          After[f]}
  /\ {"off", "dying", "key", "version", "migrate", "bind", "token"}
       \subseteq Places
  /\ Waiting \subseteq Places /\ "migrate" \notin Waiting
  BY DEF Places, Kept, Loading, Creating, Writing, After, Waiting

\* An engine that ends, or goes on to a place that is not the migration's,
\* leaves the schema alone.
LEMMA MovesKeep ==
  ASSUME SInv, NEW e \in Engine, NEW place \in Places \ {"migrate"},
         Goto(e, place), UNCHANGED <<tables, version>>,
         seen' = seen \/ seen' = [seen EXCEPT ![e] = 0]
  PROVE  SInv'
<1>1. \A x \in Engine : seen'[x] \in {0, seen[x]}
  BY DEF SInv
<1>2. seen' \in [Engine -> 0 .. Latest]
  BY DEF SInv
<1>3. pc' \in [Engine -> Places]
      /\ \A x \in Engine : pc'[x] = "migrate" => pc[x] = "migrate"
  BY DEF SInv, Goto
<1>4. \A x \in Engine : /\ seen'[x] <= version
                        /\ pc'[x] = "migrate" => seen'[x] < Latest
  BY <1>1, <1>3 DEF SInv
<1> QED
  BY <1>2, <1>3, <1>4 DEF SInv, SchemaWhole

LEMMA EndsKeeps ==
  ASSUME SInv, NEW e \in Engine, Ends(e), UNCHANGED <<tables, version>>
  PROVE  SInv'
<1>1. Goto(e, "off") /\ seen' = [seen EXCEPT ![e] = 0]
  BY DEF Ends, Goto
<1> QED
  BY <1>1, MovesKeep, PlacesFacts

\* Everything that leaves the engines where they are, and the schema.
LEMMA StillKeeps ==
  ASSUME SInv, UNCHANGED <<pc, seen, tables, version>>
  PROVE  SInv'
  BY DEF SInv, SchemaWhole

LEMMA SInit == ASSUME Init PROVE SInv
<1>1. version \in 0 .. Latest
  BY DEF Init
<1> QED
  BY <1>1, PlacesFacts DEF Init, SInv, SchemaWhole

\* A step of the shell.
LEMMA ShellKeeps ==
  ASSUME SInv, Launch \/ Quit \/ Setup \/ ReadToken,
         pidFile \in Engine \cup {Nobody}
  PROVE  SInv'
<1>1. CASE Launch \/ Quit \/ Record \/ ReadToken
  BY <1>1, StillKeeps DEF Launch, Quit, Record, ReadToken, disk, memory
<1>2. CASE KillStale
  <2>1. CASE pidFile = Nobody \/ ~Alive(pidFile)
    BY <1>2, <2>1, StillKeeps DEF KillStale, disk, memory
  <2>2. CASE ~(pidFile = Nobody \/ ~Alive(pidFile))
    <3>1. pidFile \in Engine /\ Goto(pidFile, "dying") /\ seen' = seen
      BY <1>2, <2>2 DEF KillStale, Goto
    <3> QED
      BY <1>2, <3>1, MovesKeep, PlacesFacts DEF KillStale, disk
  <2> QED
    BY <2>1, <2>2
<1>3. ASSUME NEW e \in Engine, Spawn(e) PROVE SInv'
  <2>1. Goto(e, "key") /\ UNCHANGED <<seen, tables, version>>
    BY <1>3 DEF Spawn, Goto, disk
  <2> QED
    BY <2>1, MovesKeep, PlacesFacts
<1> QED
  BY <1>1, <1>2, <1>3 DEF Setup

\* A step of an engine's start.
LEMMA StepKeeps ==
  ASSUME SInv, NEW e \in Engine, Step(e)
  PROVE  SInv'
<1>1. ASSUME NEW f \in Kept, Load(e, f) PROVE SInv'
  <2>1. CASE Ends(e)
    BY <1>1, <2>1, EndsKeeps DEF Load, disk
  <2>2. CASE \E place \in {After[f], Creating[f]} : Goto(e, place) /\ seen' = seen
    BY <1>1, <2>2, MovesKeep, PlacesFacts DEF Load, disk
  <2> QED
    BY <1>1, <2>1, <2>2 DEF Load
<1>2. ASSUME NEW f \in Kept, Create(e, f) \/ Write(e, f) PROVE SInv'
  <2>1. \E place \in {After[f], Writing[f]} : Goto(e, place)
    BY <1>2 DEF Create, Write
  <2>2. UNCHANGED <<seen, tables, version>>
    BY <1>2 DEF Create, Write
  <2> QED
    BY <2>1, <2>2, MovesKeep, PlacesFacts
<1>3. CASE ReadVersion(e)
  <2>1. /\ seen' = [seen EXCEPT ![e] = version]
        /\ Goto(e, IF version < Latest THEN "migrate" ELSE "token")
        /\ UNCHANGED <<tables, version>>
    BY <1>3 DEF ReadVersion, disk
  <2>2. pc' \in [Engine -> Places] /\ seen' \in [Engine -> 0 .. Latest]
    BY <2>1, PlacesFacts DEF SInv, Goto
  <2>3. \A x \in Engine : /\ seen'[x] <= version
                          /\ pc'[x] = "migrate" => seen'[x] < Latest
    BY <2>1 DEF SInv, Goto
  <2> QED
    BY <2>1, <2>2, <2>3 DEF SInv, SchemaWhole
<1>4. CASE Migrate(e)
  <2>1. CASE seen[e] + 1 \in tables
    BY <1>4, <2>1, EndsKeeps DEF Migrate, Exit, disk
  <2>2. CASE seen[e] + 1 \notin tables
    <3>1. Commit(e) /\ pc[e] = "migrate"
      BY <1>4, <2>2 DEF Migrate
    <3>2. seen[e] = version /\ version < Latest
      BY <2>2, <3>1 DEF SInv, SchemaWhole
    <3>3. /\ version' = version + 1 /\ version' \in 0 .. Latest
          /\ tables' = 1 .. version'
      BY <3>1, <3>2 DEF Commit, SInv, SchemaWhole
    <3>4. /\ seen' = [seen EXCEPT ![e] = version']
          /\ Goto(e, IF version' < Latest THEN "migrate" ELSE "token")
      BY <3>1 DEF Commit
    <3>5. pc' \in [Engine -> Places] /\ seen' \in [Engine -> 0 .. Latest]
      BY <3>3, <3>4, PlacesFacts DEF SInv, Goto
    <3>6. \A x \in Engine : /\ seen'[x] <= version'
                            /\ pc'[x] = "migrate" => seen'[x] < Latest
      BY <3>2, <3>3, <3>4 DEF SInv, Goto
    <3> QED
      BY <3>3, <3>5, <3>6 DEF SInv, SchemaWhole
  <2> QED
    BY <2>1, <2>2
<1>5. CASE Bind(e)
  <2>1. CASE port # Nobody
    BY <1>5, <2>1, EndsKeeps DEF Bind, disk
  <2>2. CASE port = Nobody
    <3>1. Goto(e, "listen") /\ UNCHANGED <<seen, tables, version>>
      BY <1>5, <2>2 DEF Bind, disk
    <3> QED
      BY <3>1, MovesKeep, PlacesFacts DEF Waiting
  <2> QED
    BY <2>1, <2>2
<1>6. CASE Listen(e)
  <2>1. PICK place \in {"syncing", "paused"} : Goto(e, place)
    BY <1>6 DEF Listen
  <2>2. UNCHANGED <<seen, tables, version>>
    BY <1>6 DEF Listen, disk
  <2> QED
    BY <2>1, <2>2, MovesKeep, PlacesFacts DEF Waiting
<1>7. CASE Die(e)
  BY <1>7, EndsKeeps DEF Die, Exit, disk
<1> QED
  BY <1>1, <1>2, <1>3, <1>4, <1>5, <1>6, <1>7 DEF Step

\* A fault, and a request.
LEMMA FaultKeeps ==
  ASSUME SInv, NEW e \in Engine, NEW f \in Kept, Crash(e) \/ LoadFails(e, f)
  PROVE  SInv'
  BY EndsKeeps DEF Crash, LoadFails, disk

LEMMA RequestKeeps ==
  ASSUME SInv, NEW r \in Request, Handle(r) \/ SaveFails(r)
  PROVE  SInv'
  BY StillKeeps DEF Handle, Ask, OpenFile, WriteFile, SetMemory, SaveFails,
     disk, memory

-----------------------------------------------------------------------------
(* The type invariant *)

LEMMA SecretFacts ==
  /\ Missing \in Stored /\ Torn \in Stored /\ Old \in Stored
  /\ Engine \subseteq Stored /\ Secret \subseteq Stored
  /\ Missing \notin Secret /\ Torn \notin Secret
  BY DEF Stored, Secret

LEMMA SettingFacts == Default \in Setting /\ Loaded \in Setting
  BY DEF Default, Setting, Loaded

\* The parts of TypeOK that an engine's steps change.
MemoryType ==
  /\ pc \in [Engine -> Places]
  /\ held \in [Engine -> [Kept -> Stored]]
  /\ seen \in [Engine -> 0 .. Latest]
  /\ aiCfg \in [Engine -> Setting]
  /\ save \in [Request -> [stage : {"idle", "open", "write", "set"},
                           cfg : Setting]]
  /\ port \in Engine \cup {Nobody}
  /\ \A e \in Engine : /\ pc[e] \in Waiting => port = e
                       /\ pc[e] = "off" => port # e

\* The others.
RestType ==
  /\ shell \in {"off", "kill", "spawn", "record", "on"}
  /\ child \in Engine \cup {Nobody} /\ pidFile \in Engine \cup {Nobody}
  /\ app \in Stored
  /\ file \in [Kept -> Stored]
  /\ tables \subseteq 1 .. Latest
  /\ version \in 0 .. Latest
  /\ aiFile \in Setting \cup {Missing, Torn}
  /\ launches \in 0 .. MaxLaunches /\ faults \in 0 .. MaxFaults
  /\ saves \in 0 .. MaxSaves
  /\ raced \in BOOLEAN /\ stray \in BOOLEAN /\ calm \in BOOLEAN

Typed == MemoryType /\ RestType

\* Except for an engine that starts to wait, which Bind treats, an engine may
\* go anywhere.
LEMMA GoesTyped ==
  ASSUME MemoryType, NEW e \in Engine, NEW place \in Places \ {"off"},
         Goto(e, place), UNCHANGED port, place \in Waiting => port = e
  PROVE  /\ pc' \in [Engine -> Places]
         /\ \A x \in Engine : /\ pc'[x] \in Waiting => port' = x
                              /\ pc'[x] = "off" => port' # x
<1>1. /\ pc' \in [Engine -> Places] /\ pc'[e] = place
      /\ \A x \in Engine \ {e} : pc'[x] = pc[x]
  BY DEF MemoryType, Goto
<1> QED
  BY <1>1 DEF MemoryType

LEMMA EndsTyped ==
  ASSUME MemoryType, NEW e \in Engine, Ends(e)
  PROVE  MemoryType'
<1>1. /\ pc' = [pc EXCEPT ![e] = "off"]
      /\ held' = [held EXCEPT ![e] = [f \in Kept |-> Missing]]
      /\ seen' = [seen EXCEPT ![e] = 0]
      /\ aiCfg' = [aiCfg EXCEPT ![e] = Default]
      /\ port' = IF port = e THEN Nobody ELSE port
      /\ save' = IF port = e THEN [r \in Request |-> Idle] ELSE save
  BY DEF Ends
<1>2. pc' \in [Engine -> Places] /\ pc'[e] = "off"
      /\ \A x \in Engine \ {e} : pc'[x] = pc[x]
  BY <1>1, PlacesFacts DEF MemoryType
<1>3. [f \in Kept |-> Missing] \in [Kept -> Stored]
  BY SecretFacts
<1>4. held' \in [Engine -> [Kept -> Stored]]
  BY <1>1, <1>3 DEF MemoryType
<1>5. seen' \in [Engine -> 0 .. Latest] /\ aiCfg' \in [Engine -> Setting]
  BY <1>1, SettingFacts DEF MemoryType
<1>6. Idle \in [stage : {"idle", "open", "write", "set"}, cfg : Setting]
  BY SettingFacts DEF Idle
<1>7. save' \in [Request -> [stage : {"idle", "open", "write", "set"},
                             cfg : Setting]]
  BY <1>1, <1>6 DEF MemoryType
<1>8. port' \in Engine \cup {Nobody} /\ port' # e
  BY <1>1 DEF MemoryType
<1>9. \A x \in Engine : /\ pc'[x] \in Waiting => port' = x
                        /\ pc'[x] = "off" => port' # x
  BY <1>1, <1>2, <1>8 DEF MemoryType, Waiting
<1> QED
  BY <1>2, <1>4, <1>5, <1>7, <1>8, <1>9 DEF MemoryType

LEMMA MemoryStill ==
  ASSUME MemoryType, UNCHANGED <<memory, port, save>>
  PROVE  MemoryType'
  BY DEF MemoryType, memory

LEMMA InitTyped == ASSUME Init PROVE Typed
<1>1. version \in 0 .. Latest /\ tables = 1 .. version
  BY DEF Init
<1>2. tables \subseteq 1 .. Latest
  BY <1>1
<1>3. file \in [Kept -> Stored]
  BY SecretFacts DEF Init
<1>4. RestType
  <2>1. raced \in BOOLEAN /\ stray \in BOOLEAN /\ calm \in BOOLEAN
    BY Zenon DEF Init
  <2>2. /\ launches \in 0 .. MaxLaunches /\ faults \in 0 .. MaxFaults
        /\ saves \in 0 .. MaxSaves
    BY DEF Init
  <2>3. /\ shell = "off" /\ child = Nobody /\ pidFile = Nobody
        /\ aiFile = Missing /\ app \in Stored
    BY DEF Init, Stored
  <2> QED
    BY <1>1, <1>2, <1>3, <2>1, <2>2, <2>3 DEF RestType
<1>5. Idle \in [stage : {"idle", "open", "write", "set"}, cfg : Setting]
  BY SettingFacts DEF Idle
<1>6. /\ pc \in [Engine -> Places] /\ seen \in [Engine -> 0 .. Latest]
      /\ held \in [Engine -> [Kept -> Stored]]
      /\ aiCfg \in [Engine -> Setting]
  BY SecretFacts, SettingFacts, PlacesFacts DEF Init
<1>7. save \in [Request -> [stage : {"idle", "open", "write", "set"},
                            cfg : Setting]]
  BY <1>5 DEF Init
<1>8. port = Nobody /\ \A e \in Engine : pc[e] = "off"
  BY DEF Init
<1>9. MemoryType
  BY <1>6, <1>7, <1>8 DEF MemoryType, Waiting
<1> QED
  BY <1>4, <1>9 DEF Typed

LEMMA ShellTyped ==
  ASSUME Typed, Launch \/ Quit \/ Setup \/ ReadToken
  PROVE  Typed'
<1> USE DEF Typed
<1>1. CASE Launch
  <2>1. /\ launches' \in 0 .. MaxLaunches /\ shell' = "kill"
        /\ UNCHANGED <<child, pidFile, app, disk, memory, port, save, faults,
                       saves, raced, stray>>
    BY <1>1 DEF Launch, RestType
  <2>2. calm' \in BOOLEAN
    BY <1>1, Zenon DEF Launch
  <2> QED
    BY <2>1, <2>2, MemoryStill DEF RestType, disk
<1>2. CASE Quit
  <2>1. /\ shell' = "off" /\ child' = Nobody /\ app' = Missing
        /\ UNCHANGED <<pidFile, disk, memory, port, save, bounds, raced, calm>>
    BY <1>2 DEF Quit
  <2>2. stray' \in BOOLEAN
    BY <1>2, Zenon DEF Quit
  <2>3. Missing \in Stored
    BY DEF Stored
  <2> QED
    BY <2>1, <2>2, <2>3, MemoryStill DEF RestType, disk, bounds
<1>3. CASE Record
  BY <1>3, MemoryStill DEF Record, RestType, disk, bounds, ghosts
<1>6. CASE ReadToken
  <2>1. \E f \in Kept : app' = file[f]
    BY <1>6 DEF ReadToken, Kept
  <2>2. app' \in Stored
    BY <2>1 DEF RestType
  <2> QED
    BY <1>6, <2>2, MemoryStill DEF ReadToken, RestType, disk, bounds, ghosts
<1>4. CASE KillStale
  <2>1. RestType'
    BY <1>4 DEF KillStale, RestType, disk, bounds, ghosts
  <2>2. CASE pidFile = Nobody \/ ~Alive(pidFile)
    BY <1>4, <2>1, <2>2, MemoryStill DEF KillStale, memory
  <2>3. CASE ~(pidFile = Nobody \/ ~Alive(pidFile))
    <3>1. /\ pidFile \in Engine /\ Goto(pidFile, "dying")
          /\ UNCHANGED <<held, seen, aiCfg, port, save>>
      BY <1>4, <2>3 DEF KillStale, Goto, RestType
    <3> QED
      BY <2>1, <3>1, GoesTyped, PlacesFacts DEF MemoryType, Waiting
  <2> QED
    BY <2>2, <2>3
<1>5. ASSUME NEW e \in Engine, Spawn(e) PROVE Typed'
  <2>1. Goto(e, "key") /\ UNCHANGED <<held, seen, aiCfg, port, save>>
    BY <1>5 DEF Spawn, Goto
  <2>2. MemoryType'
    BY <2>1, GoesTyped, PlacesFacts DEF MemoryType, Waiting
  <2> QED
    BY <1>5, <2>2 DEF Spawn, RestType, disk, bounds, ghosts
<1> QED
  BY <1>1, <1>2, <1>3, <1>4, <1>5, <1>6 DEF Setup

\* The places of a start at which the API is not served.
LEMMA QuietPlaces ==
  \A f \in Kept : {Loading[f], Creating[f], Writing[f], After[f]}
                    \cap (Waiting \cup {"off"}) = {}
  BY DEF Kept, Loading, Creating, Writing, After, Waiting

LEMMA StartTyped ==
  ASSUME Typed, SInv, NEW e \in Engine, Step(e)
  PROVE  Typed'
<1> USE DEF Typed
<1>1. ASSUME NEW f \in Kept, Load(e, f) PROVE Typed'
  <2>1. RestType'
    <3>1. raced' \in BOOLEAN
      BY <1>1, Zenon DEF Load
    <3>2. UNCHANGED <<desktop, disk, bounds, stray, calm>>
      BY <1>1 DEF Load
    <3> QED
      BY <3>1, <3>2 DEF RestType, desktop, disk, bounds
  <2>2. CASE Ends(e)
    BY <2>1, <2>2, EndsTyped
  <2>3. CASE /\ held' = [held EXCEPT ![e][f] = file[f]] \/
                held' = [held EXCEPT ![e][f] = e]
             /\ Goto(e, After[f]) \/ Goto(e, Creating[f])
             /\ UNCHANGED <<seen, aiCfg, port, save>>
    <3>1. file[f] \in Stored /\ e \in Stored
      BY SecretFacts DEF RestType
    <3>2. held' \in [Engine -> [Kept -> Stored]]
      <4>1. PICK s \in Stored : held' = [held EXCEPT ![e][f] = s]
        BY <2>3, <3>1
      <4>2. held[e] \in [Kept -> Stored]
        BY DEF MemoryType
      <4>3. [held[e] EXCEPT ![f] = s] \in [Kept -> Stored]
        BY <4>1, <4>2
      <4>4. held' = [held EXCEPT ![e] = [held[e] EXCEPT ![f] = s]]
        BY <4>1 DEF MemoryType
      <4> QED
        BY <4>3, <4>4 DEF MemoryType
    <3>3. /\ pc' \in [Engine -> Places]
          /\ \A x \in Engine : /\ pc'[x] \in Waiting => port' = x
                               /\ pc'[x] = "off" => port' # x
      BY <2>3, GoesTyped, PlacesFacts, QuietPlaces
    <3> QED
      BY <2>1, <2>3, <3>2, <3>3 DEF MemoryType
  <2> QED
    BY <1>1, <2>2, <2>3 DEF Load
<1>2. ASSUME NEW f \in Kept, Create(e, f) \/ Write(e, f) PROVE Typed'
  <2>1. \E s \in {Torn, held[e][f]} : file' = [file EXCEPT ![f] = s]
    BY <1>2 DEF Create, Write
  <2>2. held[e][f] \in Stored /\ Torn \in Stored
    BY SecretFacts DEF MemoryType
  <2>3. file' \in [Kept -> Stored]
    BY <2>1, <2>2 DEF RestType
  <2>4. /\ UNCHANGED <<held, seen, aiCfg, port, save, desktop, tables,
                       version, aiFile, bounds, ghosts>>
        /\ \E place \in {After[f], Writing[f]} : Goto(e, place)
    BY <1>2 DEF Create, Write
  <2>5. /\ pc' \in [Engine -> Places]
        /\ \A x \in Engine : /\ pc'[x] \in Waiting => port' = x
                             /\ pc'[x] = "off" => port' # x
    BY <2>4, GoesTyped, PlacesFacts, QuietPlaces
  <2>6. MemoryType'
    BY <2>4, <2>5 DEF MemoryType
  <2> QED
    BY <2>3, <2>4, <2>6 DEF RestType, desktop, bounds, ghosts
<1>3. CASE ReadVersion(e)
  <2>1. /\ seen' \in [Engine -> 0 .. Latest]
        /\ \E place \in {"migrate", "token"} : Goto(e, place)
        /\ UNCHANGED <<held, aiCfg, port, save, desktop, disk, bounds, ghosts>>
    BY <1>3 DEF ReadVersion, MemoryType, RestType
  <2>2. MemoryType'
    BY <2>1, GoesTyped, PlacesFacts DEF MemoryType, Waiting
  <2> QED
    BY <2>1, <2>2 DEF RestType, desktop, disk, bounds, ghosts
<1>4. CASE Migrate(e)
  <2>1. CASE Exit(e)
    BY <2>1, EndsTyped DEF Exit, RestType, desktop, disk, bounds, ghosts
  <2>2. CASE Commit(e) /\ pc[e] = "migrate"
    <3>1. seen[e] + 1 \in 1 .. Latest
      BY <2>2 DEF SInv
    <3>2. /\ tables' \subseteq 1 .. Latest /\ version' \in 0 .. Latest
          /\ seen' \in [Engine -> 0 .. Latest]
          /\ \E place \in {"migrate", "token"} : Goto(e, place)
          /\ UNCHANGED <<file, aiFile, held, aiCfg, port, save, desktop,
                         bounds, ghosts>>
      <4>1. /\ tables' = tables \cup {seen[e] + 1}
            /\ version' = seen[e] + 1
            /\ seen' = [seen EXCEPT ![e] = version']
        BY <2>2 DEF Commit
      <4>2. tables' \subseteq 1 .. Latest
        BY <3>1, <4>1 DEF RestType
      <4>3. version' \in 0 .. Latest /\ seen' \in [Engine -> 0 .. Latest]
        BY <3>1, <4>1 DEF MemoryType
      <4> QED
        BY <2>2, <4>2, <4>3 DEF Commit
    <3>3. MemoryType'
      BY <3>2, GoesTyped, PlacesFacts DEF MemoryType, Waiting
    <3> QED
      BY <3>2, <3>3 DEF RestType, desktop, bounds, ghosts
  <2> QED
    BY <1>4, <2>1, <2>2 DEF Migrate
<1>5. CASE Bind(e)
  <2>1. CASE port # Nobody
    BY <1>5, <2>1, EndsTyped DEF Bind, Alive, RestType, desktop, disk, bounds
  <2>2. CASE port = Nobody
    <3>1. /\ port' = e /\ aiCfg' = [aiCfg EXCEPT ![e] = Loaded]
          /\ pc' = [pc EXCEPT ![e] = "listen"]
          /\ UNCHANGED <<held, seen, save, desktop, disk, bounds, ghosts>>
      BY <1>5, <2>2 DEF Bind, Goto
    <3>2. aiCfg' \in [Engine -> Setting]
      BY <3>1, SettingFacts DEF MemoryType
    <3>3. /\ pc' \in [Engine -> Places] /\ pc'[e] = "listen"
          /\ \A x \in Engine \ {e} : pc'[x] = pc[x]
      BY <3>1, PlacesFacts DEF MemoryType, Waiting
    <3>4. \A x \in Engine : /\ pc'[x] \in Waiting => port' = x
                            /\ pc'[x] = "off" => port' # x
      BY <2>2, <3>1, <3>3 DEF MemoryType
    <3>5. MemoryType'
      BY <3>1, <3>2, <3>3, <3>4 DEF MemoryType
    <3> QED
      BY <3>1, <3>5 DEF RestType, desktop, disk, bounds, ghosts
  <2> QED
    BY <1>5, <2>1, <2>2 DEF Bind
<1>6. CASE Listen(e)
  <2>1. PICK place \in {"syncing", "paused"} : Goto(e, place)
    BY <1>6 DEF Listen
  <2>2. /\ port = e
        /\ UNCHANGED <<held, seen, aiCfg, port, save, desktop, disk, bounds,
                       ghosts>>
    BY <1>6 DEF Listen, MemoryType, Waiting
  <2>3. MemoryType'
    BY <2>1, <2>2, GoesTyped, PlacesFacts DEF MemoryType, Waiting
  <2> QED
    BY <2>2, <2>3 DEF RestType, desktop, disk, bounds, ghosts
<1>7. CASE Die(e)
  BY <1>7, EndsTyped DEF Die, Exit, RestType, desktop, disk, bounds, ghosts
<1> QED
  BY <1>1, <1>2, <1>3, <1>4, <1>5, <1>6, <1>7 DEF Step

SaveState == [stage : {"idle", "open", "write", "set"}, cfg : Setting]

LEMMA HandlersTyped ==
  ASSUME Typed, NEW r \in Request, Handle(r)
  PROVE  Typed'
<1> USE DEF Typed
<1>1. /\ save[r] \in SaveState /\ save[r].cfg \in Setting
      /\ Idle \in SaveState
  BY SettingFacts DEF MemoryType, SaveState, Idle
<1>2. ASSUME NEW s \in SaveState, save' = [save EXCEPT ![r] = s],
             UNCHANGED <<memory, port>>
      PROVE  MemoryType'
  BY <1>2 DEF MemoryType, SaveState, memory
<1>3. ASSUME NEW stage \in {"open", "write", "set"}, Moves(r, stage)
      PROVE  \E s \in SaveState : save' = [save EXCEPT ![r] = s]
  <2>1. [save[r] EXCEPT !.stage = stage] \in SaveState
    BY <1>1 DEF SaveState
  <2> QED
    BY <1>3, <2>1 DEF Moves, MemoryType
<1>4. CASE Ask(r)
  <2>1. PICK s \in Setting :
          save' = [save EXCEPT ![r] =
                     [stage |-> "open",
                      cfg |-> [enabled |-> s.enabled,
                               apiKey |-> IF s.apiKey = ""
                                          THEN aiCfg[port].apiKey
                                          ELSE s.apiKey]]]
    BY <1>4 DEF Ask
  <2>2. port \in Engine /\ aiCfg[port] \in Setting
    BY <1>4 DEF Ask, At, Serving, MemoryType
  <2> DEFINE key == IF s.apiKey = "" THEN aiCfg[port].apiKey ELSE s.apiKey
             cfg == [enabled |-> s.enabled, apiKey |-> key]
  <2>3. key \in {"", "one"} /\ s.enabled \in BOOLEAN
    BY <2>2 DEF Setting
  <2>4. cfg \in Setting
    BY <2>3 DEF Setting
  <2> HIDE DEF key, cfg
  <2>5. [stage |-> "open", cfg |-> cfg] \in SaveState
    BY <2>4 DEF SaveState
  <2>6. save' = [save EXCEPT ![r] = [stage |-> "open", cfg |-> cfg]]
    BY <2>1 DEF cfg, key
  <2>7. /\ saves' \in 0 .. MaxSaves
        /\ UNCHANGED <<desktop, disk, memory, port, launches, faults, ghosts>>
    <3>1. /\ saves < MaxSaves /\ saves' = saves + 1
          /\ UNCHANGED <<desktop, disk, memory, port, launches, faults, ghosts>>
      BY <1>4, Zenon DEF Ask
    <3>2. saves' \in 0 .. MaxSaves
      BY <3>1 DEF RestType
    <3> QED
      BY <3>1, <3>2
  <2> QED
    BY <1>2, <2>5, <2>6, <2>7 DEF RestType, desktop, disk, ghosts
<1>5. CASE OpenFile(r)
  <2>1. MemoryType'
    BY <1>2, <1>3, <1>5 DEF OpenFile
  <2> QED
    BY <1>5, <2>1 DEF OpenFile, RestType, desktop, bounds, ghosts
<1>6. CASE WriteFile(r)
  <2>1. MemoryType'
    BY <1>2, <1>3, <1>6 DEF WriteFile
  <2>2. aiFile' \in Setting \cup {Torn}
    BY <1>1, <1>6 DEF WriteFile
  <2> QED
    BY <1>6, <2>1, <2>2 DEF WriteFile, RestType, desktop, bounds, ghosts
<1>7. CASE SetMemory(r)
  <2>1. /\ port \in Engine
        /\ aiCfg' = [aiCfg EXCEPT ![port] = save[r].cfg]
        /\ save' = [save EXCEPT ![r] = Idle]
        /\ UNCHANGED <<desktop, disk, pc, held, seen, port, bounds, ghosts>>
    BY <1>7 DEF SetMemory, At, Serving, MemoryType
  <2>2. aiCfg' \in [Engine -> Setting] /\ save' \in [Request -> SaveState]
    BY <1>1, <2>1 DEF MemoryType, SaveState
  <2>3. MemoryType'
    BY <2>1, <2>2 DEF MemoryType, SaveState
  <2> QED
    BY <2>1, <2>3 DEF RestType, desktop, disk, bounds, ghosts
<1> QED
  BY <1>4, <1>5, <1>6, <1>7 DEF Handle

LEMMA FaultTyped ==
  ASSUME RestType, faults < MaxFaults, faults' = faults + 1, calm' = FALSE,
         UNCHANGED <<desktop, disk, launches, saves, raced, stray>>
  PROVE  RestType'
<1>1. faults' \in 0 .. MaxFaults
  BY DEF RestType
<1>2. calm' \in BOOLEAN
  BY Zenon
<1> QED
  BY <1>1, <1>2 DEF RestType, desktop, disk

LEMMA StopTyped ==
  ASSUME Typed, NEW e \in Engine, NEW f \in Kept,
         Crash(e) \/ LoadFails(e, f)
  PROVE  Typed'
  BY FaultTyped, EndsTyped DEF Crash, LoadFails, Typed

LEMMA SaveFailsTyped ==
  ASSUME Typed, NEW r \in Request, SaveFails(r)
  PROVE  Typed'
<1>1. save' = [save EXCEPT ![r] = Idle] /\ UNCHANGED <<memory, port>>
  BY DEF SaveFails
<1>2. Idle \in SaveState
  BY SettingFacts DEF Idle, SaveState
<1>3. MemoryType'
  BY <1>1, <1>2 DEF MemoryType, SaveState, memory, Typed
<1> QED
  BY <1>3, FaultTyped DEF SaveFails, Typed

IInv == Typed /\ SInv

LEMMA NextKeeps == ASSUME IInv, [Next]_vars PROVE IInv'
<1> USE DEF IInv
<1>1. CASE Launch \/ Quit \/ Setup \/ ReadToken
  BY <1>1, ShellTyped, ShellKeeps DEF Typed, RestType
<1>2. ASSUME NEW e \in Engine, Step(e) PROVE IInv'
  BY <1>2, StartTyped, StepKeeps
<1>3. ASSUME NEW r \in Request, Handle(r) \/ SaveFails(r) PROVE IInv'
  BY <1>3, HandlersTyped, SaveFailsTyped, RequestKeeps
<1>4. ASSUME NEW e \in Engine, NEW f \in Kept, Crash(e) \/ LoadFails(e, f)
      PROVE  IInv'
  BY <1>4, StopTyped, FaultKeeps
<1>5. CASE UNCHANGED vars
  <2>1. MemoryType' /\ SInv'
    BY <1>5, MemoryStill, StillKeeps DEF vars, disk, memory, Typed
  <2>2. RestType'
    BY <1>5 DEF vars, desktop, disk, bounds, ghosts, RestType, Typed
  <2> QED
    BY <2>1, <2>2 DEF Typed
<1>6. Kept # {}
  BY DEF Kept
<1> QED
  BY <1>1, <1>2, <1>3, <1>4, <1>5, <1>6 DEF Next

\* The state always has its type, and the API's port its one engine.
THEOREM TypeCorrect == Spec => []TypeOK
<1>1. Init => IInv
  BY SInit, InitTyped DEF IInv
<1>2. IInv /\ [Next]_vars => IInv'
  BY NextKeeps
<1>3. IInv => TypeOK
  BY DEF IInv, Typed, MemoryType, RestType, TypeOK
<1> QED
  BY <1>1, <1>2, <1>3, PTL DEF Spec

\* The database always has exactly the tables of its version.
THEOREM SchemaStaysWhole == Spec => []SchemaWhole
<1>1. Init => IInv
  BY SInit, InitTyped DEF IInv
<1>2. IInv /\ [Next]_vars => IInv'
  BY NextKeeps
<1>3. IInv => SchemaWhole
  BY DEF IInv, SInv
<1> QED
  BY <1>1, <1>2, <1>3, PTL DEF Spec

-----------------------------------------------------------------------------
(* The identity *)

\* Unless two engines have raced, the one that creates the key is alone with
\* it, from finding no file to filling it.
CreatesKey(e) == pc[e] \in {"createKey", "writeKey"}

KeyInv ==
  ~raced =>
    /\ \A e \in Engine : CreatesKey(e) => file["key"] \notin Secret
    /\ \A e, x \in Engine : CreatesKey(e) /\ CreatesKey(x) => e = x

LEMMA KeyPlaces ==
  /\ Creating["key"] = "createKey" /\ Writing["key"] = "writeKey"
  /\ Creating["token"] = "createToken" /\ Writing["token"] = "writeToken"
  /\ "key" \in Kept
  /\ \A f \in Kept : After[f] \notin {"createKey", "writeKey"}
  /\ \A f \in Kept : f # "key" => f = "token"
  BY DEF Creating, Writing, After, Kept

\* A step that leaves the file alone, and brings no engine to its creation,
\* keeps the invariant.
LEMMA KeyStill ==
  ASSUME KeyInv, raced => raced', file'["key"] = file["key"],
         \A e \in Engine : CreatesKey(e)' => CreatesKey(e)
  PROVE  KeyInv'
  BY DEF KeyInv

LEMMA GoesNowhere ==
  ASSUME Typed, NEW e \in Engine, NEW place,
         place \notin {"createKey", "writeKey"}, Goto(e, place)
  PROVE  \A x \in Engine : CreatesKey(x)' => CreatesKey(x)
  BY DEF Typed, MemoryType, Goto, CreatesKey

LEMMA EndsNowhere ==
  ASSUME Typed, NEW e \in Engine, Ends(e)
  PROVE  \A x \in Engine : CreatesKey(x)' => CreatesKey(x)
<1>1. Goto(e, "off")
  BY DEF Ends, Goto
<1> QED
  BY <1>1, GoesNowhere

LEMMA LoadKeepsKey ==
  ASSUME Typed, KeyInv, NEW e \in Engine, NEW f \in Kept, Load(e, f)
  PROVE  KeyInv'
<1>1. file' = file /\ (raced => raced')
  BY DEF Load, disk
<1>2. CASE Ends(e)
  BY <1>1, <1>2, EndsNowhere, KeyStill
<1>3. CASE Goto(e, After[f])
  BY <1>1, <1>3, GoesNowhere, KeyStill, KeyPlaces
<1>4. CASE Goto(e, Creating[f]) /\ f = "token"
  BY <1>1, <1>4, GoesNowhere, KeyStill, KeyPlaces
<1>5. CASE Goto(e, Creating[f]) /\ f = "key" /\ file[f] = Missing
  <2>1. ASSUME ~raced'
        PROVE  \A x \in Engine : CreatesKey(x)' => x = e
    <3>1. \A x \in Engine \ {e} : pc[x] \notin {"createKey", "writeKey"}
      BY <1>5, <2>1, KeyPlaces DEF Load
    <3> QED
      BY <1>5, <3>1 DEF Goto, CreatesKey, Typed, MemoryType
  <2>2. file'["key"] \notin Secret
    BY <1>1, <1>5, SecretFacts
  <2> QED
    BY <2>1, <2>2 DEF KeyInv
<1> QED
  BY <1>2, <1>3, <1>4, <1>5, KeyPlaces DEF Load

LEMMA FillKeepsKey ==
  ASSUME Typed, KeyInv, NEW e \in Engine, NEW f \in Kept,
         Create(e, f) \/ Write(e, f)
  PROVE  /\ KeyInv'
         /\ file["key"] \in Secret /\ ~raced' => file'["key"] = file["key"]
<1>1. raced' = raced /\ file \in [Kept -> Stored]
  BY DEF Create, Write, ghosts, Typed, RestType
<1>2. CASE f = "token"
  <2>1. file'["key"] = file["key"]
    BY <1>1, <1>2, KeyPlaces DEF Create, Write
  <2>2. \E place \in {After[f], Writing[f]} : Goto(e, place)
    BY DEF Create, Write
  <2>3. \A x \in Engine : CreatesKey(x)' => CreatesKey(x)
    BY <1>2, <2>2, GoesNowhere, KeyPlaces
  <2> QED
    BY <1>1, <2>1, <2>3, KeyStill
<1>3. CASE f = "key"
  <2>1. CreatesKey(e)
    BY <1>3, KeyPlaces DEF Create, Write, CreatesKey
  <2>2. \A x \in Engine : CreatesKey(x)' => CreatesKey(x)
    BY <2>1, <1>3, KeyPlaces DEF Create, Write, Goto, CreatesKey, Typed,
       MemoryType
  <2>3. CASE Create(e, f)
    <3>1. file'["key"] = Torn
      BY <1>1, <1>3, <2>3, KeyPlaces DEF Create
    <3> QED
      BY <1>1, <2>1, <2>2, <3>1, SecretFacts DEF KeyInv
  <2>4. CASE Write(e, f)
    <3>1. ~CreatesKey(e)'
      BY <1>3, <2>4, KeyPlaces DEF Write, Goto, CreatesKey, Typed, MemoryType
    <3> QED
      BY <1>1, <2>1, <2>2, <3>1 DEF KeyInv
  <2> QED
    BY <2>3, <2>4
<1> QED
  BY <1>2, <1>3, KeyPlaces

KeepsKey ==
  /\ KeyInv'
  /\ file["key"] \in Secret /\ ~raced' => file'["key"] = file["key"]

LEMMA StillKeepsKey ==
  ASSUME KeyInv, UNCHANGED <<file, raced>>,
         \A e \in Engine : CreatesKey(e)' => CreatesKey(e)
  PROVE  KeepsKey
  BY KeyStill DEF KeepsKey

LEMMA MemoryKeepsKey ==
  ASSUME KeyInv, UNCHANGED <<file, raced, pc>>
  PROVE  KeepsKey
  BY StillKeepsKey DEF CreatesKey

LEMMA ExitKeepsKey ==
  ASSUME Typed, KeyInv, NEW e \in Engine, Exit(e)
  PROVE  KeepsKey
  BY EndsNowhere, StillKeepsKey DEF Exit, disk, ghosts

LEMMA StartKeepsKey ==
  ASSUME Typed, KeyInv, NEW e \in Engine, Step(e)
  PROVE  KeepsKey
<1>1. ASSUME NEW f \in Kept, Load(e, f) PROVE KeepsKey
  BY <1>1, LoadKeepsKey DEF Load, disk, KeepsKey
<1>2. ASSUME NEW f \in Kept, Create(e, f) \/ Write(e, f) PROVE KeepsKey
  BY <1>2, FillKeepsKey DEF KeepsKey
<1>3. ASSUME NEW place, place \notin {"createKey", "writeKey"},
             Goto(e, place), UNCHANGED <<file, raced>>
      PROVE  KeepsKey
  BY <1>3, GoesNowhere, StillKeepsKey
<1>4. CASE ReadVersion(e)
  <2>1. \E place \in {"migrate", "token"} : Goto(e, place)
    BY <1>4 DEF ReadVersion
  <2> QED
    BY <1>3, <1>4, <2>1 DEF ReadVersion, disk, ghosts
<1>5. CASE Migrate(e)
  <2>1. CASE Commit(e)
    <3>1. \E place \in {"migrate", "token"} : Goto(e, place)
      BY <2>1 DEF Commit
    <3> QED
      BY <1>3, <2>1, <3>1 DEF Commit, ghosts
  <2> QED
    BY <1>5, <2>1, ExitKeepsKey DEF Migrate
<1>6. CASE Bind(e)
  <2>1. CASE Goto(e, "listen") /\ UNCHANGED <<disk, ghosts>>
    BY <1>3, <2>1 DEF disk, ghosts
  <2>2. CASE Ends(e) /\ UNCHANGED <<disk, raced>>
    BY <2>2, EndsNowhere, StillKeepsKey DEF disk
  <2> QED
    BY <1>6, <2>1, <2>2 DEF Bind
<1>7. CASE Listen(e)
  BY <1>3, <1>7 DEF Listen, disk, ghosts
<1>8. CASE Die(e)
  BY <1>8, ExitKeepsKey DEF Die
<1> QED
  BY <1>1, <1>2, <1>4, <1>5, <1>6, <1>7, <1>8 DEF Step

LEMMA NextKeepsKey ==
  ASSUME IInv, KeyInv, [Next]_vars
  PROVE  KeepsKey
<1>0. Typed /\ pidFile \in Engine \cup {Nobody}
  BY DEF IInv, Typed, RestType
<1>1. CASE Launch \/ Quit \/ Record \/ ReadToken
  BY <1>1, MemoryKeepsKey DEF Launch, Quit, Record, ReadToken, disk, memory, ghosts
<1>2. CASE KillStale
  <2>1. UNCHANGED <<file, raced>>
    BY <1>2 DEF KillStale, disk, ghosts
  <2>2. CASE UNCHANGED pc
    BY <2>1, <2>2, MemoryKeepsKey
  <2>3. CASE pidFile \in Engine /\ Goto(pidFile, "dying")
    BY <1>0, <2>1, <2>3, GoesNowhere, StillKeepsKey
  <2> QED
    BY <1>0, <1>2, <2>2, <2>3 DEF KillStale, Goto
<1>3. ASSUME NEW e \in Engine, Spawn(e) PROVE KeepsKey
  <2>1. Goto(e, "key") /\ UNCHANGED <<file, raced>>
    BY <1>3 DEF Spawn, Goto, disk, ghosts
  <2> QED
    BY <1>0, <2>1, GoesNowhere, StillKeepsKey
<1>4. ASSUME NEW e \in Engine, Step(e) PROVE KeepsKey
  BY <1>0, <1>4, StartKeepsKey
<1>5. ASSUME NEW e \in Engine, NEW f \in Kept, Crash(e) \/ LoadFails(e, f)
      PROVE  KeepsKey
  BY <1>0, <1>5, EndsNowhere, StillKeepsKey DEF Crash, LoadFails, disk
<1>6. ASSUME NEW r \in Request, Handle(r) \/ SaveFails(r) PROVE KeepsKey
  BY <1>6, MemoryKeepsKey DEF Handle, Ask, OpenFile, WriteFile, SetMemory,
     SaveFails, disk, memory, ghosts
<1>7. CASE UNCHANGED vars
  BY <1>7, MemoryKeepsKey DEF vars, disk, memory, ghosts
<1>8. Kept # {}
  BY DEF Kept
<1> QED
  BY <1>1, <1>2, <1>3, <1>4, <1>5, <1>6, <1>7, <1>8 DEF Next, Setup

\* A stored key is never replaced, unless two engines raced through their
\* first start.
THEOREM IdentityStays == Spec => IdentityKept
<1>1. Init => IInv /\ KeyInv
  BY SInit, InitTyped DEF IInv, Init, KeyInv, CreatesKey
<1>2. IInv /\ KeyInv /\ [Next]_vars => IInv' /\ KeyInv'
  BY NextKeeps, NextKeepsKey DEF KeepsKey
<1>3. IInv /\ KeyInv /\ [Next]_vars =>
        [file["key"] \in Secret /\ ~raced' =>
           file'["key"] = file["key"]]_vars
  BY NextKeepsKey DEF KeepsKey
<1> QED
  BY <1>1, <1>2, <1>3, PTL DEF Spec, IdentityKept
-----------------------------------------------------------------------------
(* The assistant's settings *)

\* handleSaveAI holds its lock around the first and the last step only.
OneSave == \A r, x \in Request : r = x

Agree == aiCfg[port] = Loaded \/ (aiFile = Torn /\ faults > 0)

\* A save that has opened the file has left it torn, and one that has filled
\* it has left its settings there.
Saving(r) ==
  /\ save[r].stage = "write" => aiFile = Torn
  /\ save[r].stage = "set" => aiFile = save[r].cfg

\* Requests are served under the port only, and before and after they change
\* anything the settings agree.
SaveInv ==
  /\ \A r \in Request : Saving(r)
  /\ port = Nobody => \A r \in Request : save[r].stage = "idle"
  /\ port # Nobody /\ (\A r \in Request : save[r].stage \in {"idle", "open"})
       => Agree

LEMMA SaveStill ==
  ASSUME SaveInv, UNCHANGED <<port, aiFile, save>>,
         port # Nobody => aiCfg'[port] = aiCfg[port],
         faults > 0 => faults' > 0
  PROVE  SaveInv'
  BY DEF SaveInv, Saving, Agree, Loaded

LEMMA SaveEnds ==
  ASSUME Typed, SaveInv, NEW e \in Engine, Ends(e), aiFile' = aiFile,
         faults > 0 => faults' > 0
  PROVE  SaveInv'
<1>1. CASE port = e
  <2>1. port' = Nobody /\ \A r \in Request : save'[r].stage = "idle"
    BY <1>1 DEF Ends, Idle
  <2> QED
    BY <2>1 DEF SaveInv, Saving
<1>2. CASE port # e
  BY <1>2, SaveStill DEF Ends, Typed, MemoryType
<1> QED
  BY <1>1, <1>2

LEMMA StartKeepsSave ==
  ASSUME Typed, SaveInv, NEW e \in Engine, Step(e)
  PROVE  SaveInv'
<1>1. CASE Ends(e) /\ UNCHANGED <<aiFile, faults>>
  BY <1>1, SaveEnds
<1>2. CASE UNCHANGED <<port, aiFile, save, aiCfg, faults>>
  BY <1>2, SaveStill
<1>3. ASSUME NEW f \in Kept, Load(e, f) \/ Create(e, f) \/ Write(e, f)
      PROVE  SaveInv'
  BY <1>1, <1>2, <1>3 DEF Load, Create, Write, disk, bounds
<1>4. CASE ReadVersion(e) \/ Migrate(e) \/ Listen(e) \/ Die(e)
  BY <1>1, <1>2, <1>4 DEF ReadVersion, Migrate, Commit, Exit, Listen, Die,
     disk, bounds
<1>5. CASE Bind(e)
  <2>1. CASE port = Nobody
    <3>1. /\ port' = e /\ port' # Nobody
          /\ aiCfg' = [aiCfg EXCEPT ![e] = Loaded]
          /\ UNCHANGED <<save, aiFile>>
      BY <1>5, <2>1 DEF Bind, disk
    <3>2. aiCfg'[port'] = Loaded /\ Loaded' = Loaded
      BY <3>1 DEF Loaded, Typed, MemoryType
    <3> QED
      BY <3>1, <3>2 DEF SaveInv, Saving, Agree
  <2> QED
    BY <1>1, <1>5, <2>1 DEF Bind, disk, bounds
<1> QED
  BY <1>3, <1>4, <1>5 DEF Step

\* The one save there is takes its steps under the port.
LEMMA HandlerKeepsSave ==
  ASSUME OneSave, Typed, SaveInv, NEW r \in Request, Handle(r) \/ SaveFails(r)
  PROVE  SaveInv'
<1>1. port \in Engine /\ port # Nobody /\ port' = port
  BY DEF Handle, Ask, OpenFile, WriteFile, SetMemory, SaveFails, At, Serving,
     Typed, MemoryType
<1>2. save \in [Request -> SaveState] /\ aiCfg \in [Engine -> Setting]
  BY DEF Typed, MemoryType, SaveState
<1>3. \A x \in Request : x = r
  BY DEF OneSave
<1>4. CASE Ask(r)
  <2>1. save[r].stage = "idle" /\ save'[r].stage = "open"
    <3>1. PICK c : save' = [save EXCEPT ![r] = [stage |-> "open", cfg |-> c]]
      BY <1>4 DEF Ask
    <3> QED
      BY <1>2, <1>4, <3>1 DEF Ask, At, SaveState
  <2>2. UNCHANGED <<aiFile, aiCfg, faults>>
    BY <1>4 DEF Ask, disk, memory
  <2> QED
    BY <1>1, <1>3, <2>1, <2>2 DEF SaveInv, Saving, Agree, Loaded
<1>5. CASE OpenFile(r)
  <2>1. aiFile' = Torn /\ save'[r].stage = "write"
    BY <1>2, <1>5 DEF OpenFile, Moves, SaveState
  <2> QED
    BY <1>1, <1>3, <2>1 DEF SaveInv, Saving
<1>6. CASE WriteFile(r)
  <2>1. aiFile = Torn
    BY <1>6 DEF WriteFile, At, SaveInv, Saving
  <2>2. aiFile' = save'[r].cfg /\ save'[r].stage = "set"
    BY <1>2, <1>6, <2>1 DEF WriteFile, Moves, SaveState
  <2> QED
    BY <1>1, <1>3, <2>2 DEF SaveInv, Saving
<1>7. CASE SetMemory(r)
  <2>1. aiFile = save[r].cfg /\ save[r].cfg \in Setting
    BY <1>2, <1>7 DEF SetMemory, At, SaveInv, Saving, SaveState
  <2>2. /\ aiFile' = aiFile /\ aiCfg'[port'] = save[r].cfg
        /\ save'[r].stage = "idle"
    BY <1>1, <1>2, <1>7 DEF SetMemory, disk, Idle
  <2> QED
    BY <1>1, <1>3, <2>1, <2>2 DEF SaveInv, Saving, Agree, Loaded
<1>8. CASE SaveFails(r)
  <2>1. /\ save[r].stage = "open" \/ aiFile = Torn
        /\ save'[r].stage = "idle"
        /\ UNCHANGED <<aiFile, aiCfg>> /\ faults' = faults + 1
    BY <1>2, <1>8 DEF SaveFails, At, SaveInv, Saving, disk, memory, Idle
  <2>2. faults' > 0
    BY <2>1 DEF Typed, RestType
  <2>3. Agree'
    BY <1>1, <1>3, <2>1, <2>2 DEF SaveInv, Agree, Loaded
  <2> QED
    BY <1>1, <1>3, <2>1, <2>3 DEF SaveInv, Saving
<1> QED
  BY <1>4, <1>5, <1>6, <1>7, <1>8 DEF Handle

LEMMA NextKeepsSave ==
  ASSUME OneSave, IInv, SaveInv, [Next]_vars
  PROVE  SaveInv'
<1>0. Typed /\ faults \in Nat
  BY DEF IInv, Typed, RestType
<1>1. CASE Launch \/ Quit \/ Setup \/ ReadToken \/ UNCHANGED vars
  BY <1>1, SaveStill DEF Launch, Quit, Setup, KillStale, Spawn, Record,
     ReadToken, vars, disk, memory, bounds
<1>2. ASSUME NEW e \in Engine, Step(e) PROVE SaveInv'
  BY <1>0, <1>2, StartKeepsSave
<1>3. ASSUME NEW e \in Engine, NEW f \in Kept, Crash(e) \/ LoadFails(e, f)
      PROVE  SaveInv'
  <2>1. Ends(e) /\ aiFile' = aiFile /\ faults' = faults + 1
    BY <1>3 DEF Crash, LoadFails, disk
  <2> QED
    BY <1>0, <2>1, SaveEnds
<1>4. ASSUME NEW r \in Request, Handle(r) \/ SaveFails(r) PROVE SaveInv'
  BY <1>0, <1>4, HandlerKeepsSave
<1>5. Kept # {}
  BY DEF Kept
<1> QED
  BY <1>1, <1>2, <1>3, <1>4, <1>5 DEF Next

\* With one save at a time (handleSaveAI), the settings an engine uses are
\* those in ai.json whenever no save is under way, wherever saves fail and
\* engines are stopped.
THEOREM SettingsStayInStep ==
  ASSUME OneSave
  PROVE  Spec => []SettingsAgree
<1>1. ASSUME Init PROVE IInv /\ SaveInv
  <2>1. IInv
    BY <1>1, SInit, InitTyped DEF IInv
  <2>2. port = Nobody /\ \A r \in Request : save[r].stage = "idle"
    BY <1>1 DEF Init, Idle
  <2> QED
    BY <2>1, <2>2 DEF SaveInv, Saving
<1>2. IInv /\ SaveInv /\ [Next]_vars => IInv' /\ SaveInv'
  BY NextKeeps, NextKeepsSave
<1>3. SaveInv => SettingsAgree
  BY DEF SaveInv, SettingsAgree, Serving, Agree
<1> QED
  BY <1>1, <1>2, <1>3, PTL DEF Spec
-----------------------------------------------------------------------------
(* The application comes up: what ComesUp says of a state in which nothing  *)
(* is left to happen by itself.                                             *)

AtRest ==
  shell = "on" /\ \A e \in Engine : pc[e] \in {"off", "syncing", "paused"}

UpAtRest ==
  AtRest => \/ Answered
            \/ Torn \in {file["key"], file["token"], app}
            \/ raced \/ ~calm

\* An engine that will not find the table of its next migration in its way.
Hopeful(e) == Alive(e) /\ ~(pc[e] = "migrate" /\ seen[e] < version)

PortIsServed == \A e \in Engine : port = e => pc[e] \in Waiting \cup {"dying"}

\* There is always one that will get there: an engine gives up only for another
\* one's sake, be it the one that was started last or not.
OnItsWay ==
  shell \in {"record", "on"} /\ calm /\ file["key"] # Torn =>
    \E e \in Engine : Hopeful(e)

\* Unless the shell was stopped before it recorded its engine, none is alive but
\* the one it started last.
Recorded ==
  ~stray =>
    \A e \in Engine : Alive(e) =>
      /\ shell # "spawn"
      /\ e = IF shell = "record" THEN child ELSE pidFile

Token == file["token"]
Makes(e) == pc[e] \in {"createToken", "writeToken"}
Has(e) == pc[e] = "bind" \/ pc[e] \in Waiting

\* Unless engines have raced, the one that creates the token is alone with it,
\* and those that have got further have the file's, like the application.
OneToken ==
  ~raced =>
    /\ app \in {Missing, Torn, Token}
    /\ \A e \in Engine :
         /\ Makes(e) =>
              /\ Token = IF pc[e] = "createToken" THEN Missing ELSE Torn
              /\ held[e]["token"] \in Secret
              /\ \A x \in Engine : ~Has(x) /\ (Makes(x) => x = e)
         /\ Has(e) => held[e]["token"] = Token /\ Token # Missing

UInv == PortIsServed /\ OnItsWay /\ Recorded /\ OneToken

LEMMA UInit == ASSUME Init PROVE UInv
BY DEF Init, UInv, PortIsServed, OnItsWay, Recorded, OneToken, Alive, Makes, Has,
       Waiting

LEMMA UpPlaces ==
  /\ "key" \in Kept /\ "token" \in Kept
  /\ \A f \in Kept : f = "key" \/ f = "token"
  /\ Loading["key"] = "key" /\ Loading["token"] = "token"
  /\ Creating["key"] = "createKey" /\ Creating["token"] = "createToken"
  /\ Writing["key"] = "writeKey" /\ Writing["token"] = "writeToken"
  /\ After["key"] = "version" /\ After["token"] = "bind"
BY DEF Kept, Loading, Creating, Writing, After

\* An engine ends, and leaves another one that is on its way.
LEMMA EndsUp ==
  ASSUME IInv, UInv, NEW e \in Engine, Ends(e),
         UNCHANGED <<desktop, file, version, stray>>, raced => raced',
         calm' => calm,
         calm' /\ file["key"] # Torn /\ (\E x \in Engine : Hopeful(x)) =>
           \E x \in Engine \ {e} : Hopeful(x)
  PROVE  UInv'
<1>1. /\ pc'[e] = "off" /\ port' # e /\ (port' = port \/ port' = Nobody)
      /\ \A x \in Engine \ {e} :
           pc'[x] = pc[x] /\ seen'[x] = seen[x] /\ held'[x] = held[x]
  BY DEF Ends, IInv, Typed, MemoryType
<1>2. PortIsServed'
  BY <1>1 DEF UInv, PortIsServed, Waiting
<1>3. \A x \in Engine \ {e} : Hopeful(x)' = Hopeful(x)
  BY <1>1 DEF Hopeful, Alive
<1>4. OnItsWay'
  BY <1>3 DEF UInv, OnItsWay, desktop
<1>5. Recorded'
  BY <1>1 DEF UInv, Recorded, Alive, desktop
<1>6. \A x \in Engine : /\ Makes(x)' => x # e /\ Makes(x)
                        /\ Has(x)' => x # e /\ Has(x)
  BY <1>1 DEF Makes, Has, Waiting
<1>7. OneToken'
  BY <1>1, <1>6 DEF UInv, OneToken, Token, desktop
<1>8. QED BY <1>2, <1>4, <1>5, <1>7 DEF UInv

\* An engine goes on, and is on its way itself.
LEMMA GoesUp ==
  ASSUME IInv, UInv, NEW e \in Engine, NEW place, Goto(e, place), Alive(e),
         Hopeful(e)', UNCHANGED <<shell, child, pidFile, stray, calm>>,
         \/ port' = port /\ (pc[e] \in Waiting => place \in Waiting)
         \/ port' = e /\ place \in Waiting
  PROVE  PortIsServed' /\ OnItsWay' /\ Recorded'
<1>1. pc'[e] = place /\ \A x \in Engine \ {e} : pc'[x] = pc[x]
  BY DEF Goto, IInv, Typed, MemoryType
<1>2. PortIsServed'
  BY <1>1 DEF UInv, PortIsServed, Alive
<1>3. OnItsWay'
  BY DEF OnItsWay
<1>4. Recorded'
  BY <1>1 DEF UInv, Recorded, Alive
<1>5. QED BY <1>2, <1>3, <1>4

\* What has nothing to do with the token.
LEMMA TokenStill ==
  ASSUME OneToken, raced => raced', app' \in {app, Missing},
         file'["token"] = file["token"],
         \A x \in Engine :
           /\ Makes(x)' => /\ Makes(x) /\ pc'[x] = pc[x]
                          /\ held'[x]["token"] = held[x]["token"]
           /\ Has(x)' => Has(x) /\ held'[x]["token"] = held[x]["token"]
  PROVE  OneToken'
BY DEF OneToken, Token

LEMMA GoesToken ==
  ASSUME IInv, OneToken, NEW e \in Engine, NEW place, Goto(e, place),
         place \notin {"createToken", "writeToken"},
         place = "bind" \/ place \in Waiting => Has(e),
         raced => raced', app' = app, file'["token"] = file["token"],
         \A x \in Engine : held'[x]["token"] = held[x]["token"]
  PROVE  OneToken'
<1>1. pc'[e] = place /\ \A x \in Engine \ {e} : pc'[x] = pc[x]
  BY DEF Goto, IInv, Typed, MemoryType
<1>2. QED BY <1>1, TokenStill DEF Makes, Has

-----------------------------------------------------------------------------

LEMMA LoadUp ==
  ASSUME IInv, UInv, NEW e \in Engine, NEW f \in Kept, Load(e, f)
  PROVE  UInv'
<1>0. /\ pc[e] = Loading[f] /\ Alive(e) /\ pc[e] \notin Waiting
      /\ UNCHANGED <<desktop, file, version, stray, calm>> /\ (raced => raced')
      /\ file \in [Kept -> Stored] /\ held \in [Engine -> [Kept -> Stored]]
      /\ pc \in [Engine -> Places]
  BY UpPlaces DEF Load, disk, Alive, Waiting, IInv, Typed, MemoryType, RestType
<1>1. CASE Ends(e) /\ file[f] = Torn /\ f = "key"
  BY <1>0, <1>1, EndsUp
<1>2. ASSUME NEW place \in {After[f], Creating[f]}, Goto(e, place),
             UNCHANGED <<seen, port>>
      PROVE  PortIsServed' /\ OnItsWay' /\ Recorded'
  <2>1. pc'[e] = place /\ place \notin {"off", "dying", "migrate"}
    BY <1>0, <1>2, UpPlaces DEF Goto
  <2>2. Hopeful(e)'
    BY <2>1 DEF Hopeful, Alive
  <2>3. QED BY <1>0, <1>2, <2>2, GoesUp DEF desktop
<1>3. ASSUME NEW s \in Stored, held' = [held EXCEPT ![e][f] = s], f = "key",
             NEW place \in {After[f], Creating[f]}, Goto(e, place)
      PROVE  OneToken'
  <2>1. \A x \in Engine : held'[x]["token"] = held[x]["token"]
    BY <1>0, <1>3, UpPlaces
  <2>2. place \notin {"createToken", "writeToken", "bind"} \cup Waiting
    BY <1>3, UpPlaces DEF Waiting
  <2>3. QED BY <1>0, <1>3, <2>1, <2>2, GoesToken DEF UInv, desktop
<1>4. CASE /\ file[f] \in Secret \cup {Torn} /\ UNCHANGED <<seen, port>>
           /\ held' = [held EXCEPT ![e][f] = file[f]] /\ Goto(e, After[f])
  <2>1. CASE f = "token"
    <3>1. /\ pc'[e] = "bind" /\ held'[e]["token"] = Token
          /\ \A x \in Engine \ {e} : pc'[x] = pc[x] /\ held'[x] = held[x]
      BY <1>0, <1>4, <2>1, UpPlaces DEF Goto, Token
    <3>2. ~raced' => \A x \in Engine \ {e} : ~Makes(x)
      BY <2>1, UpPlaces DEF Load, Makes
    <3>3. ~Makes(e)'
      BY <3>1 DEF Makes
    <3>4. \A x \in Engine \ {e} : Makes(x)' = Makes(x) /\ Has(x)' = Has(x)
      BY <3>1 DEF Makes, Has
    <3>5. Token # Missing
      BY <1>4, <2>1, SecretFacts DEF Token
    <3>6. OneToken'
      BY <1>0, <3>1, <3>2, <3>3, <3>4, <3>5 DEF UInv, OneToken, Token, desktop
    <3>7. QED BY <1>2, <1>4, <3>6 DEF UInv
  <2>2. CASE f = "key"
    <3>1. file[f] \in Stored
      BY <1>0
    <3>2. QED BY <1>2, <1>3, <1>4, <2>2, <3>1 DEF UInv
  <2>3. QED BY <2>1, <2>2, UpPlaces
<1>5. CASE /\ file[f] = Missing /\ UNCHANGED <<seen, port>>
           /\ held' = [held EXCEPT ![e][f] = e] /\ Goto(e, Creating[f])
  <2>1. CASE f = "token"
    <3>1. /\ pc'[e] = "createToken" /\ held'[e]["token"] = e
          /\ \A x \in Engine \ {e} : pc'[x] = pc[x] /\ held'[x] = held[x]
      BY <1>0, <1>5, <2>1, UpPlaces DEF Goto
    <3>2. ~raced' => \A x \in Engine \ {e} : ~Makes(x)
      BY <2>1, UpPlaces DEF Load, Makes
    <3>3. \A x \in Engine \ {e} : Makes(x)' = Makes(x) /\ Has(x)' = Has(x)
      BY <3>1 DEF Makes, Has
    <3>4. Token = Missing /\ ~Has(e)'
      BY <1>5, <2>1, <3>1 DEF Token, Has, Waiting
    <3>5. ~raced' => \A x \in Engine : ~Has(x)'
      BY <1>0, <3>3, <3>4 DEF UInv, OneToken
    <3>6. e \in Secret
      BY DEF Secret
    <3>7. OneToken'
      BY <1>0, <3>1, <3>2, <3>3, <3>4, <3>5, <3>6
         DEF UInv, OneToken, Token, desktop
    <3>8. QED BY <1>2, <1>5, <3>7 DEF UInv
  <2>2. CASE f = "key"
    BY <1>2, <1>3, <1>5, <2>2, SecretFacts DEF UInv
  <2>3. QED BY <2>1, <2>2, UpPlaces
<1>6. QED BY <1>1, <1>4, <1>5 DEF Load

LEMMA FillUp ==
  ASSUME IInv, UInv, NEW e \in Engine, NEW f \in Kept,
         Create(e, f) \/ Write(e, f)
  PROVE  UInv'
<1>0. /\ Alive(e) /\ pc[e] \notin Waiting
      /\ UNCHANGED <<desktop, held, seen, port, version, stray, calm, raced>>
      /\ file \in [Kept -> Stored] /\ pc \in [Engine -> Places]
  BY UpPlaces DEF Create, Write, ghosts, Alive, Waiting, IInv, Typed, MemoryType,
     RestType
<1>1. PICK place \in {Writing[f], After[f]} : Goto(e, place)
  BY DEF Create, Write
<1>2. /\ pc'[e] = place /\ \A x \in Engine \ {e} : pc'[x] = pc[x]
      /\ place \notin {"off", "dying", "migrate"}
  BY <1>0, <1>1, UpPlaces DEF Goto
<1>3. Hopeful(e)'
  BY <1>2 DEF Hopeful, Alive
<1>4. PortIsServed' /\ OnItsWay' /\ Recorded'
  BY <1>0, <1>1, <1>3, GoesUp DEF desktop
<1>5. CASE f = "key"
  <2>1. file'["token"] = file["token"]
    BY <1>0, <1>5, UpPlaces DEF Create, Write
  <2>2. place \notin {"createToken", "writeToken", "bind"} \cup Waiting
    BY <1>5, UpPlaces DEF Waiting
  <2>3. OneToken'
    BY <1>0, <1>1, <2>1, <2>2, GoesToken DEF UInv, desktop
  <2>4. QED BY <1>4, <2>3 DEF UInv
<1>6. CASE f = "token"
  <2>1. Makes(e)
    BY <1>6, UpPlaces DEF Create, Write, Makes
  <2>2. ~raced => /\ held[e]["token"] \in Secret
                  /\ app \in {Missing, Torn}
                  /\ \A x \in Engine : ~Has(x) /\ (Makes(x) => x = e)
    BY <2>1 DEF UInv, OneToken
  <2>3. \A x \in Engine \ {e} : Makes(x)' = Makes(x) /\ Has(x)' = Has(x)
    BY <1>2 DEF Makes, Has
  <2>4. CASE Create(e, f)
    <3>1. file'["token"] = Torn /\ pc'[e] = "writeToken"
      BY <1>0, <1>6, <2>4, UpPlaces DEF Create, Goto
    <3>2. Makes(e)' /\ ~Has(e)'
      BY <3>1 DEF Makes, Has, Waiting
    <3>3. OneToken'
      BY <1>0, <2>2, <2>3, <3>1, <3>2 DEF OneToken, Token, desktop
    <3>4. QED BY <1>4, <3>3 DEF UInv
  <2>5. CASE Write(e, f)
    <3>1. file'["token"] = held[e]["token"] /\ pc'[e] = "bind"
      BY <1>0, <1>6, <2>5, UpPlaces DEF Write, Goto
    <3>2. ~Makes(e)' /\ Has(e)'
      BY <3>1 DEF Makes, Has
    <3>3. OneToken'
      BY <1>0, <2>2, <2>3, <3>1, <3>2, SecretFacts DEF OneToken, Token, desktop
    <3>4. QED BY <1>4, <3>3 DEF UInv
  <2>6. QED BY <2>4, <2>5
<1>7. QED BY <1>5, <1>6, UpPlaces

\* The rest of a start.
LEMMA StartUp ==
  ASSUME IInv, UInv, NEW e \in Engine,
         ReadVersion(e) \/ Migrate(e) \/ Bind(e) \/ Listen(e) \/ Die(e)
  PROVE  UInv'
<1>0. /\ pc \in [Engine -> Places] /\ seen \in [Engine -> 0 .. Latest]
      /\ version \in 0 .. Latest /\ tables = 1 .. version
      /\ seen[e] \in 0 .. version
      /\ (pc[e] = "migrate" => seen[e] < Latest)
      /\ \A x \in Engine : pc[x] \in Waiting => port = x
      /\ port \in Engine \cup {Nobody}
  BY DEF IInv, Typed, MemoryType, SInv, SchemaWhole
<1>1. ASSUME NEW place \in {"migrate", "token"}, Goto(e, place), Hopeful(e)',
             Alive(e), pc[e] \notin Waiting,
             UNCHANGED <<desktop, file, port, held, ghosts>>
      PROVE  UInv'
  <2>1. PortIsServed' /\ OnItsWay' /\ Recorded'
    BY <1>1, GoesUp DEF desktop, ghosts
  <2>2. OneToken'
    BY <1>1, GoesToken DEF UInv, desktop, ghosts, Waiting
  <2>3. QED BY <2>1, <2>2 DEF UInv
<1>2. CASE ReadVersion(e)
  <2>1. PICK place \in {"migrate", "token"} : Goto(e, place)
    BY <1>2 DEF ReadVersion
  <2>2. seen'[e] = version' /\ version' = version
    BY <1>0, <1>2 DEF ReadVersion, disk
  <2>3. Hopeful(e)'
    BY <1>0, <2>1, <2>2 DEF Goto, Hopeful, Alive
  <2>4. QED BY <1>1, <1>2, <2>1, <2>3 DEF ReadVersion, Alive, Waiting, disk
<1>3. CASE Migrate(e) /\ seen[e] + 1 \notin tables
  <2>1. Commit(e) /\ pc[e] = "migrate"
    BY <1>3 DEF Migrate
  <2>2. PICK place \in {"migrate", "token"} : Goto(e, place)
    BY <2>1 DEF Commit
  <2>3. seen'[e] = version' /\ version' \in Nat
    BY <1>0, <2>1 DEF Commit
  <2>4. Hopeful(e)'
    BY <1>0, <2>2, <2>3 DEF Goto, Hopeful, Alive
  <2>5. QED BY <1>1, <2>1, <2>2, <2>4 DEF Commit, Alive, Waiting
<1>4. CASE Migrate(e) /\ seen[e] + 1 \in tables
  <2>1. pc[e] = "migrate" /\ seen[e] < version
    BY <1>0, <1>4 DEF Migrate
  <2>2. ~Hopeful(e)
    BY <2>1 DEF Hopeful
  <2>3. QED BY <1>4, <2>2, EndsUp DEF Migrate, Exit, disk, ghosts
<1>5. CASE Bind(e) /\ port # Nobody
  <2>1. /\ Ends(e) /\ calm' = (calm /\ Alive(port)) /\ pc[e] = "bind"
        /\ UNCHANGED <<desktop, disk, raced, stray>>
    BY <1>5 DEF Bind
  <2>2. port \in Engine /\ pc[port] \in Waiting \cup {"dying"}
    BY <1>0, <1>5 DEF UInv, PortIsServed
  <2>3. port # e
    BY <2>1, <2>2 DEF Waiting
  <2>4. calm' => Hopeful(port)
    BY <2>1, <2>2 DEF Alive, Hopeful, Waiting
  <2>5. QED BY <2>1, <2>2, <2>3, <2>4, EndsUp DEF disk
<1>6. ASSUME NEW place \in Waiting, Goto(e, place), Alive(e), Has(e),
             port' = e \/ port' = port,
             UNCHANGED <<desktop, file, held, ghosts>>
      PROVE  UInv'
  <2>1. pc'[e] = place
    BY <1>0, <1>6 DEF Goto
  <2>2. Hopeful(e)'
    BY <2>1 DEF Hopeful, Alive, Waiting
  <2>3. PortIsServed' /\ OnItsWay' /\ Recorded'
    BY <1>6, <2>2, GoesUp DEF desktop, ghosts
  <2>4. OneToken'
    BY <1>6, GoesToken DEF UInv, desktop, ghosts, Waiting
  <2>5. QED BY <2>3, <2>4 DEF UInv
<1>7. CASE Bind(e) /\ port = Nobody
  BY <1>6, <1>7 DEF Bind, Alive, Has, Waiting, disk
<1>8. CASE Listen(e)
  BY <1>6, <1>8 DEF Listen, Alive, Has, Waiting, disk
<1>9. CASE Die(e)
  <2>1. ~Hopeful(e)
    BY <1>9 DEF Die, Hopeful, Alive
  <2>2. QED BY <1>9, <2>1, EndsUp DEF Die, Exit, disk, ghosts
<1>10. QED BY <1>2, <1>3, <1>4, <1>5, <1>7, <1>8, <1>9

\* The shell.
LEMMA ShellUp ==
  ASSUME IInv, UInv, Launch \/ Quit \/ Setup \/ ReadToken
  PROVE  UInv'
<1>0. /\ pc \in [Engine -> Places] /\ pidFile \in Engine \cup {Nobody}
      /\ shell \in {"off", "kill", "spawn", "record", "on"}
      /\ stray \in BOOLEAN
      /\ \A e \in Engine : pc[e] = "off" => port # e
  BY DEF IInv, Typed, MemoryType, RestType
<1>1. ASSUME UNCHANGED <<pc, seen, held, port, file, version, raced>>,
             app' \in {app, Missing, Token}
      PROVE  /\ PortIsServed' /\ OneToken'
             /\ \A e \in Engine : /\ Hopeful(e)' = Hopeful(e)
                                  /\ Alive(e)' = Alive(e)
  <2>1. \A e \in Engine : /\ Hopeful(e)' = Hopeful(e) /\ Alive(e)' = Alive(e)
                          /\ Makes(e)' = Makes(e) /\ Has(e)' = Has(e)
    BY <1>1 DEF Hopeful, Alive, Makes, Has
  <2>2. QED BY <1>1, <2>1 DEF UInv, PortIsServed, OneToken, Token
<1>2. CASE Launch
  <2>1. PortIsServed' /\ OneToken' /\ \A e \in Engine : Alive(e)' = Alive(e)
    BY <1>1, <1>2 DEF Launch, disk, memory
  <2>2. QED BY <1>2, <2>1 DEF Launch, UInv, OnItsWay, Recorded
<1>3. CASE Quit
  <2>1. PortIsServed' /\ OneToken' /\ \A e \in Engine : Alive(e)' = Alive(e)
    BY <1>1, <1>3 DEF Quit, disk, memory
  <2>2. /\ shell' = "off" /\ pidFile' = pidFile
        /\ ~stray' => ~stray /\ shell # "record"
    BY <1>0, <1>3 DEF Quit
  <2>3. QED BY <2>1, <2>2 DEF UInv, OnItsWay, Recorded
<1>4. CASE Record
  <2>1. /\ PortIsServed' /\ OneToken'
        /\ \A e \in Engine : /\ Alive(e)' = Alive(e)
                             /\ Hopeful(e)' = Hopeful(e)
    BY <1>1, <1>4 DEF Record, disk, memory, ghosts
  <2>2. /\ shell = "record" /\ shell' = "on" /\ pidFile' = child
        /\ UNCHANGED <<calm, stray, file>>
    BY <1>4 DEF Record, ghosts, disk
  <2>3. QED BY <2>1, <2>2 DEF UInv, OnItsWay, Recorded
<1>5. CASE ReadToken
  <2>1. /\ PortIsServed' /\ OneToken'
        /\ \A e \in Engine : /\ Alive(e)' = Alive(e)
                             /\ Hopeful(e)' = Hopeful(e)
    BY <1>1, <1>5 DEF ReadToken, Token, disk, memory, ghosts
  <2>2. UNCHANGED <<shell, child, pidFile, calm, stray, file>>
    BY <1>5 DEF ReadToken, ghosts, disk
  <2>3. QED BY <2>1, <2>2 DEF UInv, OnItsWay, Recorded
<1>6. CASE KillStale
  <2>1. /\ shell = "kill" /\ shell' = "spawn"
        /\ UNCHANGED <<seen, held, port, file, version, raced, stray, app>>
    BY <1>6 DEF KillStale, disk, ghosts
  <2>2. CASE pidFile = Nobody \/ ~Alive(pidFile)
    <3>1. PortIsServed' /\ OneToken' /\ \A e \in Engine : Alive(e)' = Alive(e)
      BY <1>1, <1>6, <2>1, <2>2 DEF KillStale
    <3>2. QED BY <2>1, <2>2, <3>1 DEF UInv, OnItsWay, Recorded
  <2>3. CASE pidFile \in Engine /\ Alive(pidFile)
    <3>1. pc' = [pc EXCEPT ![pidFile] = "dying"] /\ Goto(pidFile, "dying")
      BY <1>6, <2>3 DEF KillStale, Goto
    <3>2. /\ pc'[pidFile] = "dying"
          /\ \A x \in Engine \ {pidFile} : pc'[x] = pc[x]
      BY <1>0, <2>3, <3>1
    <3>3. PortIsServed' /\ OnItsWay'
      BY <2>1, <3>2 DEF UInv, PortIsServed, OnItsWay
    <3>4. Recorded'
      BY <2>1, <3>2 DEF UInv, Recorded, Alive
    <3>5. OneToken'
      BY <2>1, <2>3, <3>1, GoesToken DEF UInv, Waiting
    <3>6. QED BY <3>3, <3>4, <3>5 DEF UInv
  <2>4. QED BY <1>0, <2>2, <2>3
<1>7. ASSUME NEW e \in Engine, Spawn(e) PROVE UInv'
  <2>1. /\ shell = "spawn" /\ shell' = "record" /\ child' = e
        /\ pc[e] = "off" /\ Goto(e, "key")
        /\ UNCHANGED <<seen, held, port, file, version, raced, stray, app>>
    BY <1>7 DEF Spawn, disk, ghosts, Goto
  <2>2. pc'[e] = "key" /\ \A x \in Engine \ {e} : pc'[x] = pc[x]
    BY <1>0, <2>1 DEF Goto
  <2>3. Hopeful(e)'
    BY <2>2 DEF Hopeful, Alive
  <2>4. PortIsServed' /\ OnItsWay'
    BY <1>0, <2>1, <2>2, <2>3 DEF UInv, PortIsServed, OnItsWay
  <2>5. Recorded'
    BY <2>1, <2>2 DEF UInv, Recorded, Alive
  <2>6. OneToken'
    BY <2>1, GoesToken DEF UInv, Waiting
  <2>7. QED BY <2>4, <2>5, <2>6 DEF UInv
<1>8. QED BY <1>2, <1>3, <1>4, <1>5, <1>6, <1>7 DEF Setup

\* What leaves the engines where they are, and may fail.
LEMMA StillUp ==
  ASSUME UInv, UNCHANGED <<desktop, file, version, pc, held, seen, port, raced,
                           stray>>,
         calm' => calm
  PROVE  UInv'
<1>1. \A e \in Engine : /\ Hopeful(e)' = Hopeful(e) /\ Alive(e)' = Alive(e)
                        /\ Makes(e)' = Makes(e) /\ Has(e)' = Has(e)
  BY DEF Hopeful, Alive, Makes, Has
<1>2. PortIsServed' /\ OnItsWay' /\ Recorded'
  BY <1>1 DEF UInv, PortIsServed, OnItsWay, Recorded, desktop
<1>3. OneToken'
  BY <1>1 DEF UInv, OneToken, Token, desktop
<1>4. QED BY <1>2, <1>3 DEF UInv

LEMMA NextUp == ASSUME IInv, UInv, [Next]_vars PROVE UInv'
<1>1. CASE Launch \/ Quit \/ Setup \/ ReadToken
  BY <1>1, ShellUp
<1>2. ASSUME NEW e \in Engine, Step(e) PROVE UInv'
  BY <1>2, LoadUp, FillUp, StartUp DEF Step
<1>3. ASSUME NEW e \in Engine, NEW f \in Kept, Crash(e) \/ LoadFails(e, f)
      PROVE  UInv'
  BY <1>3, EndsUp DEF Crash, LoadFails, disk
<1>4. ASSUME NEW r \in Request, Handle(r) \/ SaveFails(r) PROVE UInv'
  <2>1. UNCHANGED <<desktop, file, version, pc, held, seen, port, raced, stray>>
    BY <1>4 DEF Handle, Ask, OpenFile, WriteFile, SetMemory, SaveFails, disk,
       memory, ghosts
  <2>2. calm' => calm
    BY <1>4 DEF Handle, Ask, OpenFile, WriteFile, SetMemory, SaveFails, ghosts
  <2>3. QED BY <2>1, <2>2, StillUp
<1>5. CASE UNCHANGED vars
  BY <1>5, StillUp DEF vars, desktop, disk, memory, ghosts
<1>6. Kept # {}
  BY UpPlaces
<1>7. QED BY <1>1, <1>2, <1>3, <1>4, <1>5, <1>6 DEF Next

\* When the shell has set up and the engines have nothing left to do, the
\* application is answered: the safety half of ComesUp, with its exceptions.
\* Engines that get in each other's way never all give up.
THEOREM UpAtRestHolds == Spec => []UpAtRest
<1>1. ASSUME IInv, UInv PROVE UpAtRest
  <2> SUFFICES ASSUME AtRest, ~raced, calm, file["key"] # Torn, Token # Torn,
                      app # Torn
               PROVE  Answered
    BY DEF UpAtRest, Token
  <2>1. PICK e \in Engine : Hopeful(e)
    BY <1>1 DEF AtRest, UInv, OnItsWay
  <2>2. pc[e] \in {"syncing", "paused"} /\ Alive(e) /\ Has(e)
    BY <2>1 DEF AtRest, Hopeful, Alive, Has, Waiting
  <2>3. port = e
    BY <1>1, <2>2 DEF IInv, Typed, MemoryType, Waiting
  <2>4. held[e]["token"] = Token /\ Token # Missing /\ app \in {Missing, Token}
    BY <1>1, <2>2 DEF UInv, OneToken
  <2>5. Token \in Secret
    BY <1>1, <2>4, UpPlaces DEF IInv, Typed, RestType, Token, Stored
  <2>6. e = pidFile \/ stray
    BY <1>1, <2>2 DEF UInv, Recorded, AtRest
  <2>7. QED BY <2>2, <2>3, <2>4, <2>5, <2>6 DEF Answered, Serving, Token
<1>2. Init => IInv /\ UInv
  BY SInit, InitTyped, UInit DEF IInv
<1>3. IInv /\ UInv /\ [Next]_vars => IInv' /\ UInv'
  BY NextKeeps, NextUp
<1>4. QED BY <1>1, <1>2, <1>3, PTL DEF Spec
=============================================================================
