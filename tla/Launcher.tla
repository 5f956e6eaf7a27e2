------------------------------ MODULE Launcher ------------------------------
(***************************************************************************)
(* TelemetryApp.exe (client/launcher.cpp): it looks for a service process, *)
(* has the service control manager start the installed service or starts   *)
(* one of its own, runs the client, and ends the service it started when   *)
(* the client is closed. Nothing keeps a user from starting it twice, and  *)
(* the installed service starts, stops and fails by itself meanwhile.      *)
(*                                                                         *)
(* broken and refused are not in the code: the launchers during whose life *)
(* a service process has ended, and whether the manager ever refused a     *)
(* start it could have made.                                               *)
(***************************************************************************)
EXTENDS Integers, FiniteSets

CONSTANTS Launchers,      \* launcher processes
          MaxLaunches,    \* bound of the runs: starts of a launcher
          MaxServiceMoves \* bound of the runs: what else happens to processes

ASSUME LauncherAssumption == MaxLaunches \in Nat /\ MaxServiceMoves \in Nat

VARIABLES
  rights,     \* is the service "absent", may the user not open it ("denied"),
              \* or may he start it ("granted")?
  installed,  \* its dwCurrentState: "stopped", "start", "running", "stop"
  at,         \* where each launcher is; "idle" if there is no such process
  own,        \* started_service, of each launcher
  consoles,   \* the launchers whose service process (--run) is alive
  strays,     \* processes whose launcher was killed
  clients,    \* the launchers whose client is alive
  launches, events, broken, refused

envVars      == <<rights, launches, events>>
processVars  == <<installed, consoles, strays, clients>>
historyVars  == <<broken, refused>>
launcherVars == <<envVars, processVars, historyVars, at, own>>

LauncherInit ==
  /\ rights \in {"absent", "denied", "granted"}
  /\ installed \in IF rights = "absent" THEN {"stopped"} ELSE {"stopped", "running"}
  /\ at = [l \in Launchers |-> "idle"] /\ own = [l \in Launchers |-> FALSE]
  /\ consoles = {} /\ strays = {} /\ clients = {}
  /\ launches = 0 /\ events = 0
  /\ broken = {} /\ refused = FALSE

\* The service processes, by who started them.
Services ==
  (consoles \cup strays) \cup (IF installed = "stopped" THEN {} ELSE {"manager"})

Goto(l, where) == at' = [at EXCEPT ![l] = where]

\* A service process has ended; who was alive lived through it.
Breaks == broken' = broken \cup {l \in Launchers : at[l] # "idle"}

-----------------------------------------------------------------------------
(* wWinMain, a step of it for each look at what other processes do.        *)
Launch(l) ==
  /\ at[l] = "idle" /\ l \notin clients \cup strays /\ launches < MaxLaunches
  /\ launches' = launches + 1
  /\ Goto(l, "look") /\ own' = [own EXCEPT ![l] = FALSE]
  /\ broken' = broken \ {l}
  /\ UNCHANGED <<rights, events, processVars, refused>>

\* One look at the names of all processes, which may fail.
IsProcessRunning(l) ==
  /\ at[l] = "look"
  /\ \/ Services # {} /\ Goto(l, "client")
     \/ Goto(l, "query")
  /\ UNCHANGED <<envVars, processVars, historyVars, own>>

\* TryStartInstalledService up to StartService. The query may fail, too.
QueryInstalled(l) ==
  /\ at[l] = "query"
  /\ \/ rights # "granted" /\ Goto(l, "console")
     \/ rights = "granted" /\ installed \in {"start", "running"} /\ Goto(l, "client")
     \/ rights = "granted" /\ Goto(l, "start")
  /\ UNCHANGED <<envVars, processVars, historyVars, own>>

\* Mutant: ERROR_SERVICE_ALREADY_RUNNING is an error like any other.
StartInstalledStrict(l) ==
  /\ at[l] = "start"
  /\ \/ installed = "stopped" /\ installed' = "start" /\ Goto(l, "client") /\ UNCHANGED refused
     \/ installed # "stopped" /\ Goto(l, "console") /\ UNCHANGED <<installed, refused>>
     \/ installed = "stopped" /\ Goto(l, "console") /\ refused' = TRUE /\ UNCHANGED installed
  /\ UNCHANGED <<envVars, own, consoles, strays, clients, broken>>

\* StartService: done, already running (which it is until it has stopped), or
\* refused (disabled, no process to be had).
StartInstalled(l) ==
  /\ at[l] = "start"
  /\ \/ installed = "stopped" /\ installed' = "start" /\ Goto(l, "client") /\ UNCHANGED refused
     \/ installed # "stopped" /\ Goto(l, "client") /\ UNCHANGED <<installed, refused>>
     \/ installed = "stopped" /\ Goto(l, "console") /\ refused' = TRUE /\ UNCHANGED installed
  /\ UNCHANGED <<envVars, own, consoles, strays, clients, broken>>

\* StartProcess for the service; without one the launcher gives up.
StartConsole(l) ==
  /\ at[l] = "console"
  /\ \/ /\ consoles' = consoles \cup {l} /\ own' = [own EXCEPT ![l] = TRUE]
        /\ Goto(l, "client")
     \/ Goto(l, "idle") /\ UNCHANGED <<own, consoles>>
  /\ UNCHANGED <<envVars, installed, strays, clients, historyVars>>

\* TerminateProcess, of the process it created, and the launcher's end.
EndOwn(l) ==
  /\ Goto(l, "idle")
  /\ IF own[l] /\ l \in consoles THEN consoles' = consoles \ {l} /\ Breaks
                                 ELSE UNCHANGED <<consoles, broken>>

\* StartProcess for the client.
StartClient(l) ==
  /\ at[l] = "client"
  /\ \/ clients' = clients \cup {l} /\ Goto(l, "wait") /\ UNCHANGED <<consoles, broken>>
     \/ EndOwn(l) /\ UNCHANGED clients
  /\ UNCHANGED <<envVars, installed, strays, own, refused>>

ClientExits(l) ==
  /\ l \in clients /\ clients' = clients \ {l}
  /\ UNCHANGED <<envVars, installed, consoles, strays, historyVars, at, own>>

StopOwn(l) ==
  /\ at[l] = "wait" /\ l \notin clients
  /\ EndOwn(l)
  /\ UNCHANGED <<envVars, installed, strays, clients, own, refused>>

-----------------------------------------------------------------------------
(* What else happens to processes.                                         *)
Move == events < MaxServiceMoves /\ events' = events + 1

\* A service of a launcher fails to start, or dies.
ConsoleEnds(l) ==
  /\ Move /\ l \in consoles \cup strays
  /\ consoles' = consoles \ {l} /\ strays' = strays \ {l} /\ Breaks
  /\ UNCHANGED <<rights, launches, installed, clients, refused, at, own>>

\* The installed service is started: with the machine, by sc start (the
\* settings page too), or by the recovery actions after it died.
InstalledStarts ==
  /\ Move /\ rights # "absent" /\ installed = "stopped" /\ installed' = "start"
  /\ UNCHANGED <<rights, launches, consoles, strays, clients, historyVars, at, own>>

\* ServiceMain: SERVICE_RUNNING once everything is set up, or the end.
InstalledSetUp ==
  /\ installed = "start"
  /\ \/ installed' = "running" /\ UNCHANGED broken
     \/ installed' = "stopped" /\ Breaks
  /\ UNCHANGED <<envVars, consoles, strays, clients, refused, at, own>>

\* It is told to stop (sc stop), and goes on as SERVICE_STOP_PENDING until its
\* threads have ended.
InstalledTold ==
  /\ Move /\ installed = "running" /\ installed' = "stop"
  /\ UNCHANGED <<rights, launches, consoles, strays, clients, historyVars, at, own>>

InstalledEnds ==
  /\ \/ installed = "stop" /\ UNCHANGED events
     \/ installed = "running" /\ Move
  /\ installed' = "stopped" /\ Breaks
  /\ UNCHANGED <<rights, launches, consoles, strays, clients, refused, at, own>>

\* External: a launcher is killed; what it started stays.
LauncherKilled(l) ==
  /\ Move /\ at[l] # "idle" /\ Goto(l, "idle")
  /\ strays' = strays \cup ({l} \cap consoles) /\ consoles' = consoles \ {l}
  /\ UNCHANGED <<rights, launches, installed, clients, broken, refused, own>>

LauncherNext ==
  \/ \E l \in Launchers :
       \/ Launch(l) \/ IsProcessRunning(l) \/ QueryInstalled(l) \/ StartInstalled(l)
       \/ StartConsole(l) \/ StartClient(l) \/ ClientExits(l) \/ StopOwn(l)
       \/ ConsoleEnds(l) \/ LauncherKilled(l)
  \/ InstalledStarts \/ InstalledSetUp \/ InstalledTold \/ InstalledEnds

LauncherSpec == LauncherInit /\ [][LauncherNext]_launcherVars

-----------------------------------------------------------------------------
(* README.md:261: the launcher "stops the backend instance it started when *)
(* the GUI closes", on every path.                                         *)
NothingLeftBehind == \A l \in consoles : at[l] # "idle"

(* Who starts a client has a service for it, unless one ended since the    *)
(* launcher was started.                                                   *)
ClientHasService ==
  \A l \in Launchers : at[l] \in {"client", "wait"} /\ l \notin broken => Services # {}

(* Where the user may start the installed service, it is the only one,     *)
(* however many launchers race for it.                                     *)
InstalledIsShared ==
  rights = "granted" /\ ~refused => Services \subseteq {"manager"}

LauncherInv == NothingLeftBehind /\ ClientHasService /\ InstalledIsShared

(* What the message of launcher.cpp:181 means to keep: "launcher will not  *)
(* start or stop another service".                                         *)
OneService == Cardinality(Services) <= 1
=============================================================================
