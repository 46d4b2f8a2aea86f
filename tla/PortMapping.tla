---------------------------- MODULE PortMapping ----------------------------
(***************************************************************************)
(* How a device stays reachable from the internet: daemon.natLoop asks the *)
(* router to map the daemon's port, as long as the user has internet       *)
(* discovery on, and advertises the external endpoint the router gave it   *)
(* (Daemon.endpoints).  The router drops the mapping when its lease ends,  *)
(* and earlier when it restarts, or when this machine sleeps: the loop's   *)
(* timers, which use the monotonic clock, stand still then.                *)
(*                                                                         *)
(* Time is counted in units.  What the loop does between two waits takes   *)
(* none, but for asking the router.                                        *)
(***************************************************************************)
EXTENDS Integers

CONSTANTS
  CheckEvery,    \* natCheckInterval
  RefreshEvery,  \* natRefreshInterval
  MapTime,       \* the longest that nat.ExternalEndpoint takes: the timeout of
                 \*   refreshNAT, and that of the NAT-PMP client after it
  LeaseTime      \* nat.LeaseSeconds

\* In seconds: 60, 2400, 34 and 3600.
ASSUME TimeAssumption ==
  /\ CheckEvery \in Nat \ {0}
  /\ RefreshEvery \in Nat \ {0}
  /\ MapTime \in Nat \ {0}
  /\ LeaseTime \in Nat
  /\ LeaseTime >= RefreshEvery + CheckEvery + 2 * MapTime

VARIABLES
  internet,  \* DiscoverySettings.Internet, as stored
  pc,        \* natLoop: "check" the setting, "map", "wait"
  timer,     \* what is left of the wait; how long the router has been asked
  age,       \* time since lastAttempt, RefreshEvery when zero or longer ago
  external,  \* an external endpoint is advertised
  granted,   \* the router has granted the mapping asked for
  lease      \* what is left of the mapping's lease; 0: no mapping

\* What the properties need to remember; no guard reads these.  The clocks
\* stop at Long.
VARIABLES
  lost,      \* the mapping went before the end of its lease
  dead,      \* since when
  off,       \* how long internet discovery has been off
  on,        \* how long it has been on without a failed attempt
  failed     \* the loop waits after an attempt that failed

loop   == <<pc, timer, age, external, granted>>
ghosts == <<lost, dead, off, on, failed>>
vars   == <<internet, loop, lease, ghosts>>

Long == RefreshEvery + CheckEvery + 2 * MapTime

Later(t, max) == IF t < max THEN t + 1 ELSE t

Init ==
  /\ internet \in BOOLEAN
  /\ pc = "check" /\ timer = 0 /\ age = RefreshEvery
  /\ external = FALSE /\ granted = FALSE
  /\ lease = 0
  /\ lost = FALSE /\ dead = 0 /\ off = 0 /\ on = 0 /\ failed = FALSE

-----------------------------------------------------------------------------
(* The user and the router *)

\* The user saves the discovery settings.
Toggle ==
  /\ internet' = ~internet
  /\ off' = 0 /\ on' = 0
  /\ UNCHANGED <<loop, lease, lost, dead, failed>>

\* The router answers the request with a mapping, for as long as was asked.  (A
\* NAT-PMP gateway may grant less, which the code does not look at: its mapping
\* is gone early, which is Lose.)
Grant ==
  /\ pc = "map"
  /\ granted' = TRUE
  /\ lease' = LeaseTime
  /\ lost' = FALSE /\ dead' = 0
  /\ UNCHANGED <<internet, pc, timer, age, external, off, on, failed>>

\* The router restarts, or this machine sleeps through a part of the lease.
Lose ==
  /\ lease > 0
  /\ lease' \in 0 .. lease - 1
  /\ lost' = TRUE
  /\ UNCHANGED <<internet, loop, dead, off, on, failed>>

-----------------------------------------------------------------------------
(* Daemon.natLoop *)

Wait ==
  /\ pc' = "wait"
  /\ timer' = CheckEvery

\* Mutant of Quiet: the endpoint stays advertised.
QuietKeeping ==
  /\ external' = external
  /\ age' = RefreshEvery
  /\ failed' = FALSE
  /\ Wait

\* Mutant of Quiet: the time of the last attempt is kept.
QuietRemembering ==
  /\ external' = FALSE
  /\ age' = age
  /\ failed' = FALSE
  /\ Wait

\* The loop finds internet discovery off.
Quiet ==
  /\ external' = FALSE
  /\ age' = RefreshEvery
  /\ failed' = FALSE
  /\ Wait

CheckOff ==
  /\ pc = "check" /\ ~internet
  /\ Quiet
  /\ UNCHANGED <<internet, granted, lease, lost, dead, off, on>>

\* A setting that cannot be read counts as off.
CheckFails ==
  /\ pc = "check" /\ internet
  /\ Quiet
  /\ on' = 0
  /\ UNCHANGED <<internet, granted, lease, lost, dead, off>>

\* Mutant of CheckOn: an endpoint that is advertised is left as it is.
CheckOnOnce ==
  /\ pc = "check" /\ internet
  /\ IF age >= RefreshEvery /\ ~external
     THEN pc' = "map" /\ timer' = 0
     ELSE Wait
  /\ UNCHANGED <<internet, age, external, granted, lease, ghosts>>

\* On: ask the router when it has not been asked lately.
CheckOn ==
  /\ pc = "check" /\ internet
  /\ IF age >= RefreshEvery
     THEN pc' = "map" /\ timer' = 0
     ELSE Wait
  /\ UNCHANGED <<internet, age, external, granted, lease, ghosts>>

\* refreshNAT has an endpoint; the attempt is over.
Mapped ==
  /\ pc = "map" /\ granted
  /\ external' = TRUE /\ granted' = FALSE
  /\ age' = 0
  /\ failed' = FALSE
  /\ Wait
  /\ UNCHANGED <<internet, lease, lost, dead, off, on>>

\* Mutant of Refused: the endpoint is kept for the next attempt.
RefusedKeeping ==
  /\ pc = "map"
  /\ external' = external /\ granted' = FALSE
  /\ age' = 0
  /\ failed' = TRUE /\ on' = 0
  /\ Wait
  /\ UNCHANGED <<internet, lease, lost, dead, off>>

\* refreshNAT has none: no router, a private address, or an answer got lost.
Refused ==
  /\ pc = "map"
  /\ external' = FALSE /\ granted' = FALSE
  /\ age' = 0
  /\ failed' = TRUE /\ on' = 0
  /\ Wait
  /\ UNCHANGED <<internet, lease, lost, dead, off>>

Wake ==
  /\ pc = "wait" /\ timer = 0
  /\ pc' = "check"
  /\ UNCHANGED <<internet, timer, age, external, granted, lease, ghosts>>

\* Mutant of Pass: the router is asked without a timeout.
PassPatient ==
  /\ \/ pc = "wait" /\ timer > 0 /\ timer' = timer - 1
     \/ pc = "map" /\ timer' = timer + 1
  /\ age' = Later(age, RefreshEvery)
  /\ lease' = IF lease > 0 THEN lease - 1 ELSE 0
  /\ dead' = IF lost THEN Later(dead, Long) ELSE 0
  /\ off' = IF internet THEN 0 ELSE Later(off, Long)
  /\ on' = IF internet THEN Later(on, Long) ELSE 0
  /\ UNCHANGED <<internet, pc, external, granted, lost, failed>>

\* A unit of time passes.
Pass ==
  /\ \/ pc = "wait" /\ timer > 0 /\ timer' = timer - 1
     \/ pc = "map" /\ timer < MapTime /\ timer' = timer + 1
  /\ age' = Later(age, RefreshEvery)
  /\ lease' = IF lease > 0 THEN lease - 1 ELSE 0
  /\ dead' = IF lost THEN Later(dead, Long) ELSE 0
  /\ off' = IF internet THEN 0 ELSE Later(off, Long)
  /\ on' = IF internet THEN Later(on, Long) ELSE 0
  /\ UNCHANGED <<internet, pc, external, granted, lost, failed>>

Next ==
  \/ Toggle \/ Grant \/ Lose
  \/ CheckOff \/ CheckFails \/ CheckOn \/ Mapped \/ Refused \/ Wake
  \/ Pass

Spec == Init /\ [][Next]_vars

-----------------------------------------------------------------------------

\* The state has its type: the loop never waits longer than a check interval
\* nor for the router longer than its timeout.
TypeOK ==
  /\ internet \in BOOLEAN
  /\ pc \in {"check", "map", "wait"}
  /\ timer \in Nat
  /\ pc = "check" => timer = 0
  /\ pc = "wait" => timer <= CheckEvery
  /\ pc = "map" => timer <= MapTime
  /\ age \in 0 .. RefreshEvery
  /\ external \in BOOLEAN /\ granted \in BOOLEAN
  /\ lease \in 0 .. LeaseTime
  /\ lost \in BOOLEAN /\ failed \in BOOLEAN
  /\ dead \in 0 .. Long /\ off \in 0 .. Long /\ on \in 0 .. Long

\* An advertised endpoint is one the router forwards, unless the mapping went
\* before its time: the refreshes come early enough for the lease, a slow
\* router and a check that came just too soon included.
AdvertisedIsMapped == external => lease > 0 \/ lost

\* Nothing is advertised for long after the user has switched internet
\* discovery off, though the loop may be asking the router meanwhile.
OffIsObeyed == external => off <= CheckEvery + MapTime

\* The device is soon reachable when the user has switched it on and the router
\* grants the mapping, though it was off, or on, a moment before; after an
\* attempt that failed, once the refresh interval is over.
OnIsObeyed ==
  ~external => on <= CheckEvery + MapTime
                       + (IF failed THEN RefreshEvery ELSE 0)

\* An endpoint the router has forgotten is not advertised for ever.
LossIsNoticed ==
  external /\ lost => dead < RefreshEvery + CheckEvery + 2 * MapTime
=============================================================================
