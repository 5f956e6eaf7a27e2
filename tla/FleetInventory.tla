--------------------------- MODULE FleetInventory ---------------------------
(***************************************************************************)
(* The fleet host's inventory, fleet_devices.json, which two programs of   *)
(* the host write: the service, for every heartbeat of a sensor            *)
(* (service/ipc/http_server.cpp, MergeFleetHeartbeat), and the Fleet page  *)
(* of the GUI (client/pages/fleet_page.cpp), from the list it has in       *)
(* memory.  Neither locks the file: each reads all of it, opens it again   *)
(* truncating it, and writes all of it.  Sensors are found at addresses    *)
(* that DHCP may hand to others.  A device stands for its stable identity  *)
(* (device id, sensor hash and MAC hash together).                         *)
(***************************************************************************)
EXTENDS Integers, Sequences, FiniteSets, SequencesExt

CONSTANTS Devices,     \* the sensors
          Addresses,   \* address and port
          Https,       \* HTTP threads of the service
          HistoryMax,  \* 12 in the code
          MaxMoves,    \* bound: changes of address
          MaxClicks,   \* bound: what the operator does
          MaxCrashes   \* bound: ends of the service process

ASSUME FleetAssumption ==
  /\ HistoryMax \in Nat \ {0} /\ MaxMoves \in Nat /\ MaxClicks \in Nat /\ MaxCrashes \in Nat
  /\ Cardinality(Devices) <= Cardinality(Addresses)

VARIABLES
  at, moves,       \* the address of each device, and how often they changed
  file,            \* fleet_devices.json: its rows, and is it whole JSON?
  http,            \* per HTTP thread: where it is, and what it will write
  gui, saving,     \* m_devices without the local one; is SaveDevices under way?
  clicks, crashes,
  ever, enrolled   \* the devices the operator ever enrolled, and those of
                   \* them that were not deleted since

vars == <<at, moves, file, http, gui, saving, clicks, crashes, ever, enrolled>>

Row == [dev : Devices, address : Addresses, trusted : BOOLEAN,
        address_history : Seq(Addresses)]

Whole(rows) == [whole |-> TRUE, rows |-> rows]
Torn == [whole |-> FALSE, rows |-> <<>>]
Idle == [pc |-> "idle", rows |-> <<>>]

Init ==
  /\ at \in {f \in [Devices -> Addresses] : \A d, e \in Devices : f[d] = f[e] => d = e}
  /\ moves = 0 /\ file = Whole(<<>>)
  /\ http = [h \in Https |-> Idle]
  /\ gui = <<>> /\ saving = FALSE
  /\ clicks = 0 /\ crashes = 0 /\ ever = {} /\ enrolled = {}

-----------------------------------------------------------------------------
\* Rows.

\* Mutant: what there is no room for is not added.
AppendUniqueAddressFull(history, address) ==
  IF Contains(history, address) \/ Len(history) = HistoryMax THEN history
  ELSE Append(history, address)

\* The oldest address goes when there are too many.
AppendUniqueAddress(history, address) ==
  LET all == IF Contains(history, address) THEN history ELSE Append(history, address)
  IN  IF Len(all) > HistoryMax THEN Tail(all) ELSE all

Remembered(row, address) ==
  AppendUniqueAddress(AppendUniqueAddress(row.address_history, row.address), address)

SameFleetDevice(row, dev, address) == row.dev = dev \/ row.address = address

\* Mutant: a candidate that is enrolled on the sensor's side is trusted.
CandidateTrusted(dev, address) ==
  [dev |-> dev, address |-> address, trusted |-> TRUE, address_history |-> <<address>>]

Candidate(dev, address) ==
  [dev |-> dev, address |-> address, trusted |-> FALSE, address_history |-> <<address>>]

\* Mutant: every heartbeat makes a row.
MergedNever(rows, dev, address) == Append(rows, Candidate(dev, address))

\* The rows of the device or at the address, and the first of them.
Matches(rows, dev, address) == {i \in DOMAIN rows : SameFleetDevice(rows[i], dev, address)}
FirstOf(matches) == CHOOSE i \in matches : \A j \in matches : i <= j

(* The first row that matches becomes the device's, with the trust it had; *)
(* if there is none, a candidate is added.  Heartbeats and the GUI's       *)
(* probes do the same.                                                     *)
Merged(rows, dev, address) ==
  LET matches == Matches(rows, dev, address)
  IN  IF matches = {} THEN Append(rows, Candidate(dev, address))
      ELSE [rows EXCEPT ![FirstOf(matches)] =
              [dev |-> dev, address |-> address, trusted |-> @.trusted,
               address_history |-> Remembered(@, address)]]

\* What LoadDevices does with one row of the file: one of a device or address
\* that it has already becomes that one, which keeps its trust.
Joins(rows, row) ==
  LET matches == Matches(rows, row.dev, row.address)
  IN  IF matches = {}
      THEN Append(rows, [row EXCEPT !.address_history = AppendUniqueAddress(@, row.address)])
      ELSE [rows EXCEPT ![FirstOf(matches)] =
              [dev |-> row.dev, address |-> row.address, trusted |-> @.trusted,
               address_history |-> Remembered(@, row.address)]]

Loaded(rows) ==
  LET upTo[n \in 0 .. Len(rows)] == IF n = 0 THEN <<>> ELSE Joins(upTo[n - 1], rows[n])
  IN  upTo[Len(rows)]

-----------------------------------------------------------------------------
\* The network.

Move(d, a) ==
  /\ moves < MaxMoves /\ \A e \in Devices : at[e] # a
  /\ at' = [at EXCEPT ![d] = a] /\ moves' = moves + 1
  /\ UNCHANGED <<file, http, gui, saving, clicks, crashes, ever, enrolled>>

-----------------------------------------------------------------------------
\* The service: a heartbeat of d.

\* What cannot be parsed is an empty inventory.
Heartbeat(h, d) ==
  /\ http[h].pc = "idle"
  /\ http' = [http EXCEPT ![h] = [pc |-> "open", rows |-> Merged(file.rows, d, at[d])]]
  /\ UNCHANGED <<at, moves, file, gui, saving, clicks, crashes, ever, enrolled>>

OpenFile(h) ==
  /\ http[h].pc = "open"
  /\ http' = [http EXCEPT ![h].pc = "write"]
  /\ file' = Torn
  /\ UNCHANGED <<at, moves, gui, saving, clicks, crashes, ever, enrolled>>

(* Who writes from the start of a file that another has written to since   *)
(* it was truncated, or will still write to, may leave a mixture.          *)
Written(rows, others) == {Whole(rows)} \cup IF file.whole \/ others THEN {Torn} ELSE {}

WriteFile(h) ==
  /\ http[h].pc = "write"
  /\ file' \in Written(http[h].rows, saving \/ \E g \in Https \ {h} : http[g].pc = "write")
  /\ http' = [http EXCEPT ![h] = Idle]
  /\ UNCHANGED <<at, moves, gui, saving, clicks, crashes, ever, enrolled>>

Crash ==
  /\ crashes < MaxCrashes /\ crashes' = crashes + 1
  /\ http' = [h \in Https |-> Idle]
  /\ UNCHANGED <<at, moves, file, gui, saving, clicks, ever, enrolled>>

-----------------------------------------------------------------------------
\* The GUI: one thread, every action of which ends in SaveDevices.

Click ==
  /\ ~saving /\ clicks < MaxClicks
  /\ clicks' = clicks + 1
  /\ UNCHANGED <<at, moves, http, crashes>>

Save == saving' = TRUE /\ file' = Torn

\* AddOrUpdateRemoteCandidate, by Search LAN or Manual Add.
Probe(d) ==
  /\ Click
  /\ gui' = Merged(gui, d, at[d])
  /\ Save
  /\ UNCHANGED <<ever, enrolled>>

(* Refresh: the same for the address of a row, whose trust is then         *)
(* restored.  That it saves twice in a row is left out.                    *)
RefreshDevice(i, d) ==
  /\ Click /\ at[d] = gui[i].address
  /\ LET rows == Merged(gui, d, at[d])
     IN  gui' = [j \in DOMAIN rows |->
           [rows[j] EXCEPT !.trusted =
              @ \/ (SameFleetDevice(rows[j], gui[i].dev, gui[i].address) /\ gui[i].trusted)]]
  /\ Save
  /\ UNCHANGED <<ever, enrolled>>

\* Enroll: the sensor at the row's address accepts only its own fingerprint.
EnrollDevice(i) ==
  /\ Click /\ at[gui[i].dev] = gui[i].address
  /\ gui' = [gui EXCEPT ![i].trusted = TRUE,
                        ![i].address_history = AppendUniqueAddress(@, gui[i].address)]
  /\ enrolled' = enrolled \cup {gui[i].dev} /\ ever' = ever \cup {gui[i].dev}
  /\ Save

\* A refresh or an enrollment that failed is saved as well.
Failed == Click /\ gui # <<>> /\ Save /\ UNCHANGED <<gui, ever, enrolled>>

DeleteDevice(i) ==
  /\ Click
  /\ gui' = RemoveAt(gui, i)
  /\ enrolled' = enrolled \ {gui[i].dev} /\ UNCHANGED ever
  /\ Save

SaveDevices ==
  /\ saving /\ saving' = FALSE
  /\ file' \in Written(gui, \E h \in Https : http[h].pc = "write")
  /\ UNCHANGED <<at, moves, http, gui, clicks, crashes, ever, enrolled>>

\* The GUI is started again: what it cannot parse it takes for nothing, and
\* rows of one device or address become one row.
LoadDevices ==
  /\ Click
  /\ gui' = Loaded(file.rows)
  /\ UNCHANGED <<file, saving, ever, enrolled>>

-----------------------------------------------------------------------------
Sensor == \E d \in Devices, a \in Addresses : Move(d, a)

Service == \/ \E h \in Https : OpenFile(h) \/ WriteFile(h) \/ \E d \in Devices : Heartbeat(h, d)
           \/ Crash

Gui == \/ \E d \in Devices : Probe(d) \/ \E i \in DOMAIN gui : RefreshDevice(i, d)
       \/ \E i \in DOMAIN gui : EnrollDevice(i) \/ DeleteDevice(i)
       \/ Failed \/ SaveDevices \/ LoadDevices

Next == Sensor \/ Service \/ Gui

Spec == Init /\ [][Next]_vars

-----------------------------------------------------------------------------
Lists == {file.rows, gui} \cup {http[h].rows : h \in Https}

TypeOK ==
  /\ at \in [Devices -> Addresses] /\ moves \in 0 .. MaxMoves
  /\ file.whole \in BOOLEAN
  /\ \A rows \in Lists : /\ rows \in Seq(Row)
                         /\ \A i \in DOMAIN rows : Len(rows[i].address_history) <= HistoryMax
  /\ \A h \in Https : http[h].pc \in {"idle", "open", "write"}
  /\ saving \in BOOLEAN /\ clicks \in 0 .. MaxClicks /\ crashes \in 0 .. MaxCrashes
  /\ enrolled \subseteq ever /\ ever \subseteq Devices

TrustedWereEnrolled ==
  \A rows \in Lists : \A i \in DOMAIN rows : rows[i].trusted => rows[i].dev \in ever

(* While devices keep their addresses, no list, on disk or in memory,      *)
(* trusts a device the operator never enrolled, whatever was torn, lost or *)
(* overwritten.                                                            *)
TrustIsOperators == moves = 0 => TrustedWereEnrolled

(* Meanwhile the records of a device are reconciled: it has one row,       *)
(* whoever wrote the file last and however often it was found torn.        *)
OneRowPerDevice ==
  moves = 0 => \A rows \in Lists : \A i, j \in DOMAIN rows : rows[i].dev = rows[j].dev => i = j

\* Histories are within their bound in every list, and the rows are one per
\* device.
InventoryInv == TypeOK /\ OneRowPerDevice

(* However often a device moves and its history is cut, the address at     *)
(* which it was last seen is in the history.                               *)
HistoryKnowsAddress ==
  \A rows \in Lists : \A i \in DOMAIN rows :
    Contains(rows[i].address_history, rows[i].address)

-----------------------------------------------------------------------------
(* What documents say, and the code does not do.                           *)

\* README.md:195: "Heartbeat never auto-enrolls or auto-trusts a device",
\* also when devices change their addresses.
HeartbeatNeverTrusts == TrustedWereEnrolled

(* README, Enroll "persists the device in the Fleet Host inventory": while *)
(* nobody is writing, a device that was enrolled and not deleted is        *)
(* trusted in the file.                                                    *)
EnrollmentPersists ==
  ~saving /\ (\A h \in Https : http[h].pc # "write") =>
    \A d \in enrolled : \E i \in DOMAIN file.rows : file.rows[i].dev = d /\ file.rows[i].trusted
=============================================================================
