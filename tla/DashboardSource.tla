--------------------------- MODULE DashboardSource ---------------------------
(***************************************************************************)
(* Where the dashboard and the HUD bar take their values from: the machine *)
(* itself or a trusted device of the fleet (the telemetry sources of       *)
(* client/window.cpp).                                                     *)
(*                                                                         *)
(* A value is abstracted to the source it was read from: "local", a device,*)
(* or "zero" for the 0 that stands for a failed read. Only the window's    *)
(* thread acts, but the menus of the bar post their command, which meets   *)
(* whatever the list of devices is by then.                                *)
(***************************************************************************)
EXTENDS Naturals, Sequences, FiniteSets, SequencesExt

CONSTANTS Devices, NoDevice,
          MaxChanges     \* bound of the runs: steps of the user

ASSUME SourceAssumption == MaxChanges \in Nat

VARIABLES rows,       \* trusted remote rows of the fleet page, in its order
          online,     \* the rows whose state is "Online"
          selected,   \* m_selected_source_id
          label,      \* m_selected_source_label
          snapshot,   \* whose values m_remote_snapshot_values holds
          rings,      \* whose samples the dashboard's rings hold
          barValues,  \* whose value the bar shows
          onDashboard,
          command,    \* index of a WM_COMMAND in the queue, 0 for none
          changes

sourceVars == <<rows, online, selected, label, snapshot, rings, barValues,
                onDashboard, command, changes>>

fleetVars == <<rows, online>>
shownVars == <<selected, label, snapshot, rings>>

\* BuildTelemetrySources: the trusted rows that are not this machine's.
Sources == rows
Known(d) == d \in {rows[i] : i \in DOMAIN rows}

Local ==
  /\ selected' = "local" /\ label' = "local"
  /\ snapshot' = NoDevice /\ rings' = {}

\* SelectTelemetrySourceLocal
SelectTelemetrySourceLocal ==
  /\ changes < MaxChanges /\ changes' = changes + 1
  /\ Local /\ onDashboard' = TRUE
  /\ UNCHANGED <<fleetVars, barValues, command>>

\* Mutant: the snapshot of the source before is kept.
ByIndexKeeps(i) ==
  IF i > Len(Sources)
  THEN Local /\ UNCHANGED onDashboard
  ELSE IF Sources[i] \notin online
  THEN UNCHANGED <<shownVars, onDashboard>>
  ELSE /\ selected' = Sources[i] /\ label' = Sources[i]
       /\ rings' = {} /\ UNCHANGED snapshot
       /\ onDashboard' = TRUE

\* SelectTelemetrySourceByIndex: an index past the list means this machine, an
\* offline device a message and no change.
ByIndex(i) ==
  IF i > Len(Sources)
  THEN Local /\ UNCHANGED onDashboard
  ELSE IF Sources[i] \notin online
  THEN UNCHANGED <<shownVars, onDashboard>>
  ELSE /\ selected' = Sources[i] /\ label' = Sources[i]
       /\ snapshot' = NoDevice /\ rings' = {}
       /\ onDashboard' = TRUE

\* The tray's menu and the fleet page act at once.
SelectTelemetrySource ==
  /\ changes < MaxChanges /\ changes' = changes + 1
  /\ \E i \in DOMAIN Sources : ByIndex(i)
  /\ UNCHANGED <<fleetVars, barValues, command>>

\* The bar's menu, which greys the offline devices, posts the command.
PickOnBar ==
  /\ changes < MaxChanges /\ changes' = changes + 1 /\ command = 0
  /\ \E i \in DOMAIN Sources : Sources[i] \in online /\ command' = i
  /\ UNCHANGED <<fleetVars, shownVars, barValues, onDashboard>>

HandleMenuCommand ==
  /\ command # 0 /\ command' = 0
  /\ ByIndex(command)
  /\ UNCHANGED <<fleetVars, barValues, changes>>

\* ValidateSelectedTelemetrySource, with a list as it is after a change.
Validate(list) ==
  IF selected = "local" \/ selected \in {list[i] : i \in DOMAIN list}
  THEN UNCHANGED shownVars ELSE Local

-----------------------------------------------------------------------------
(* The fleet page's list. *)

\* A device is enrolled or deleted; SetOnDevicesChanged validates at once.
DevicesChange ==
  /\ changes < MaxChanges /\ changes' = changes + 1
  /\ \E d \in Devices :
       /\ rows' = IF Known(d) THEN Remove(rows, d) ELSE Append(rows, d)
       /\ online' \in IF Known(d) THEN {online \ {d}} ELSE {online, online \cup {d}}
       /\ Validate(rows')
  /\ UNCHANGED <<barValues, onDashboard, command>>

\* A probe or a job marks a row online or offline.
StateChanges ==
  /\ changes < MaxChanges /\ changes' = changes + 1
  /\ \E i \in DOMAIN rows :
       online' = IF rows[i] \in online THEN online \ {rows[i]} ELSE online \cup {rows[i]}
  /\ UNCHANGED <<rows, shownVars, barValues, onDashboard, command>>

\* The pages are built again from the files, which may have lost trust of a
\* row; the dashboard starts with empty rings and the next frame validates.
\* Nothing validates between the two.
Rebuilt ==
  /\ changes < MaxChanges /\ changes' = changes + 1
  /\ \E gone \in SUBSET {rows[i] : i \in DOMAIN rows} :
       /\ rows' = SelectSeq(rows, LAMBDA d : d \notin gone)
       /\ online' = online \ gone
  /\ rings' = {}
  /\ UNCHANGED <<selected, label, snapshot, barValues, onDashboard, command>>

OnRender ==
  /\ Validate(rows)
  /\ UNCHANGED <<fleetVars, barValues, onDashboard, command, changes>>

\* The user goes to another page.
Navigate ==
  /\ onDashboard' = ~onDashboard
  /\ UNCHANGED <<fleetVars, shownVars, barValues, command, changes>>

-----------------------------------------------------------------------------
\* OnDataTick. FetchSelectedRemoteSnapshot falls back to this machine when the
\* row has gone and keeps the last snapshot when the device does not answer;
\* the values of this tick are then still read as a remote source's. A value
\* the snapshot does not have leaves the bar alone and is a 0 in the rings.
OnDataTick ==
  \E answers, reads, has \in BOOLEAN, hudVisible \in BOOLEAN :
    LET remote == selected # "local"
        gone   == remote /\ ~Known(selected)
        snap   == IF ~remote \/ gone THEN NoDevice
                  ELSE IF answers THEN selected ELSE snapshot
        value  == IF remote
                  THEN IF snap # NoDevice /\ has THEN snap ELSE "zero"
                  ELSE IF reads THEN "local" ELSE "zero"
        kept   == IF gone THEN {} ELSE rings
    IN  /\ selected' = IF gone THEN "local" ELSE selected
        /\ label' = IF gone THEN "local" ELSE label
        /\ snapshot' = IF remote THEN snap ELSE snapshot
        /\ rings' = IF onDashboard THEN kept \cup {value} ELSE kept
        /\ barValues' = IF hudVisible /\ ~(remote /\ value = "zero") THEN value ELSE barValues
        /\ UNCHANGED <<fleetVars, onDashboard, command, changes>>

SourceInit ==
  /\ rows \in {s \in BoundedSeq(Devices, 2) : IsInjective(s)}
  /\ online = {rows[i] : i \in DOMAIN rows}
  /\ selected = "local" /\ label = "local" /\ snapshot = NoDevice
  /\ rings = {} /\ barValues = "zero" /\ onDashboard = TRUE
  /\ command = 0 /\ changes = 0

SourceNext ==
  \/ SelectTelemetrySourceLocal \/ SelectTelemetrySource
  \/ PickOnBar \/ HandleMenuCommand
  \/ DevicesChange \/ StateChanges \/ Rebuilt
  \/ OnRender \/ Navigate \/ OnDataTick

SourceSpec == SourceInit /\ [][SourceNext]_sourceVars

-----------------------------------------------------------------------------
\* The dashboard never draws one device's samples under another's name: whatever
\* was selected, removed, offline or silent in between, what the rings and the
\* snapshot hold is the selected source's, or the 0 of a failed read.
SamplesAreSelected ==
  /\ rings \subseteq {selected, "zero"}
  /\ snapshot \in {selected, NoDevice}
  /\ label = selected
=============================================================================
