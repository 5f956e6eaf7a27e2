---------------------------- MODULE Desktop_proof ----------------------------
(***************************************************************************)
(* Proofs about the programs of the desktop, of any number of launchers,   *)
(* keys, devices, logging sessions, panels, files and steps: the           *)
(* launcher's processes, the desktop's own key, the source the dashboard   *)
(* shows, the client's window, and the edits of the dashboard and of the   *)
(* metrics page.                                                           *)
(***************************************************************************)
EXTENDS ClientWindow, DashboardSource, DashboardEdit, DesktopKeys, Launcher, Subsequences_proof, TLAPS

-----------------------------------------------------------------------------
(* The launcher. LauncherInv follows from where the launchers are that own *)
(* a process, and from where none can be that starts one although the user *)
(* may start the installed service.                                        *)

Places == {"idle", "look", "query", "start", "console", "client", "wait"}

LauncherTypes ==
  /\ rights \in {"absent", "denied", "granted"}
  /\ installed \in {"stopped", "start", "running", "stop"}
  /\ at \in [Launchers -> Places] /\ own \in [Launchers -> BOOLEAN]
  /\ consoles \subseteq Launchers /\ strays \subseteq Launchers
  /\ clients \subseteq Launchers /\ broken \subseteq Launchers
  /\ refused \in BOOLEAN

\* Whose console is alive owns it, and has come to start its client.
OwnersInv == \A l \in consoles : own[l] /\ at[l] \in {"client", "wait"}

\* Nobody is about to start a service, or has, where the manager's can be had.
SharedInv ==
  rights = "granted" /\ ~refused =>
    /\ consoles = {} /\ strays = {}
    /\ \A l \in Launchers : at[l] # "console"

LauncherIInv == LauncherTypes /\ OwnersInv /\ SharedInv /\ ClientHasService

\* The invariant is what is claimed, and more.
LEMMA LauncherSuffices ==
  LauncherIInv => LauncherInv
BY DEF LauncherIInv, LauncherTypes, OwnersInv, SharedInv, LauncherInv, NothingLeftBehind,
       InstalledIsShared, Services

\* No launcher runs at the start.
LEMMA LauncherInitial ==
  LauncherInit => LauncherIInv
BY DEF LauncherInit, LauncherIInv, LauncherTypes, OwnersInv, SharedInv, ClientHasService, Places

\* The steps of one launcher preserve the invariant.
LEMMA LauncherSteps ==
  ASSUME LauncherIInv, NEW l \in Launchers,
         \/ Launch(l) \/ IsProcessRunning(l) \/ QueryInstalled(l) \/ StartInstalled(l)
         \/ StartConsole(l) \/ StartClient(l) \/ ClientExits(l) \/ StopOwn(l)
         \/ ConsoleEnds(l) \/ LauncherKilled(l)
  PROVE  LauncherIInv'
<1> USE DEF LauncherIInv, LauncherTypes, OwnersInv, SharedInv, ClientHasService, Services, Goto, Places,
            envVars, processVars, historyVars
<1>1. CASE Launch(l)
  BY <1>1 DEF Launch
<1>2. CASE IsProcessRunning(l)
  BY <1>2 DEF IsProcessRunning
<1>3. CASE QueryInstalled(l)
  BY <1>3 DEF QueryInstalled
<1>4. CASE StartInstalled(l)
  <2>1. LauncherTypes'
    BY <1>4 DEF StartInstalled
  <2>2. OwnersInv'
    BY <1>4 DEF StartInstalled
  <2>3. SharedInv'
    BY <1>4 DEF StartInstalled
  <2>4. ClientHasService'
    BY <1>4 DEF StartInstalled
  <2>5. QED
    BY <2>1, <2>2, <2>3, <2>4
<1>5. CASE StartConsole(l)
  <2>1. LauncherTypes'
    BY <1>5 DEF StartConsole
  <2>2. OwnersInv'
    BY <1>5 DEF StartConsole
  <2>3. SharedInv'
    BY <1>5 DEF StartConsole
  <2>4. ClientHasService'
    BY <1>5 DEF StartConsole
  <2>5. QED
    BY <2>1, <2>2, <2>3, <2>4
<1>6. CASE StartClient(l)
  BY <1>6 DEF StartClient, EndOwn, Breaks
<1>7. CASE ClientExits(l)
  BY <1>7 DEF ClientExits
<1>8. CASE StopOwn(l)
  BY <1>8 DEF StopOwn, EndOwn, Breaks
<1>9. CASE ConsoleEnds(l)
  BY <1>9 DEF ConsoleEnds, Breaks, Move
<1>10. CASE LauncherKilled(l)
  BY <1>10 DEF LauncherKilled, Move
<1>11. QED
  BY <1>1, <1>2, <1>3, <1>4, <1>5, <1>6, <1>7, <1>8, <1>9, <1>10

\* So do the steps of the installed service, and a step that changes nothing.
LEMMA ServiceSteps ==
  ASSUME LauncherIInv,
         \/ InstalledStarts \/ InstalledSetUp \/ InstalledTold \/ InstalledEnds
         \/ UNCHANGED launcherVars
  PROVE  LauncherIInv'
<1> USE DEF LauncherIInv, LauncherTypes, OwnersInv, SharedInv, ClientHasService, Services, Places,
            envVars, processVars, historyVars
<1>1. CASE InstalledStarts
  BY <1>1 DEF InstalledStarts, Move
<1>2. CASE InstalledSetUp
  BY <1>2 DEF InstalledSetUp, Breaks
<1>3. CASE InstalledTold
  BY <1>3 DEF InstalledTold, Move
<1>4. CASE InstalledEnds
  BY <1>4 DEF InstalledEnds, Move, Breaks
<1>5. CASE UNCHANGED launcherVars
  BY <1>5 DEF launcherVars
<1>6. QED
  BY <1>1, <1>2, <1>3, <1>4, <1>5

\* A launcher that has ended has left no service process of its own, who starts
\* a client has a service for it unless one ended meanwhile, and the installed
\* service, where it can be started, is the only one (client/launcher.cpp).
THEOREM LauncherCorrect ==
  LauncherSpec => []LauncherInv
<1>1. LauncherInit => LauncherIInv
  BY LauncherInitial
<1>2. LauncherIInv /\ [LauncherNext]_launcherVars => LauncherIInv'
  BY LauncherSteps, ServiceSteps DEF LauncherNext
<1>3. LauncherIInv => LauncherInv
  BY LauncherSuffices
<1>4. QED
  BY <1>1, <1>2, <1>3, PTL DEF LauncherSpec

-----------------------------------------------------------------------------
(* The desktop's key. The list the API page works on may be older than the *)
(* one the callbacks look the deleted key up in: what saves the desktop is *)
(* that a key missing from the newer one has ended, and can never come     *)
(* back (RowsInv).                                                         *)

Fates == {"unborn", "live", "expired", "ended", "retired"}

DesktopKeyTypes ==
  /\ fate \in [Drawn -> Fates]
  /\ saved \in Drawn \cup {NoKey} /\ stored \in Drawn \cup {NoKey}
  /\ field \in Drawn \cup {NoKey, Undrawn}
  /\ cache \subseteq Drawn /\ rects \subseteq Drawn /\ exchanged \subseteq Drawn

\* Keys in use have been created.
BornInv ==
  \A k \in Drawn :
    k = saved \/ k = stored \/ k = field \/ k \in cache \/ k \in rects => fate[k] # "unborn"

\* A row drawn of a key that the newer list does not have is of one that ended.
RowsInv == \A k \in rects \ cache : fate[k] \in {"ended", "retired"}

\* The file is behind only by what the settings page has done.
StoredInv == stored = saved \/ stored = NoKey \/ stored \in exchanged

DesktopKeysIInv == DesktopKeyTypes /\ BornInv /\ RowsInv /\ StoredInv /\ RetiredIsForgotten

LEMMA DesktopKeysInitial == DesktopKeysInit => DesktopKeysIInv
BY DesktopKeysAssumption
   DEF DesktopKeysInit, DesktopKeysIInv, DesktopKeyTypes, BornInv, RowsInv, StoredInv, RetiredIsForgotten,
       Drawn, Fates

\* Steps of the API page and of its callbacks.
LEMMA ApiPageSteps ==
  ASSUME DesktopKeysIInv,
         \/ ApiTick \/ DrawTable \/ NewKeyButton \/ CancelDialog \/ CreateKey
         \/ BootstrapKey \/ \E k \in Drawn : DeleteKey(k) \/ RotateKey(k)
  PROVE  DesktopKeysIInv'
<1> USE DesktopKeysAssumption
    DEF DesktopKeysIInv, DesktopKeyTypes, BornInv, RowsInv, StoredInv, RetiredIsForgotten, Drawn, Fates,
        OnApiTick, Listed, Adopt, Act, savedVars, listVars, pageKeyVars
<1>1. CASE ApiTick
  BY <1>1 DEF ApiTick
<1>2. CASE DrawTable
  BY <1>2 DEF DrawTable
<1>3. CASE NewKeyButton \/ CancelDialog
  BY <1>3 DEF NewKeyButton, CancelDialog
<1>4. CASE CreateKey
  <2>1. CASE UNCHANGED <<fate, savedVars, listVars>> /\ banner' = NoKey
    BY <1>4, <2>1 DEF CreateKey
  <2>2. ASSUME NEW k \in Drawn, Fresh(k), fate' = Born(k), banner' = NoKey, UNCHANGED <<savedVars, listVars>>
        PROVE  DesktopKeysIInv'
    BY <1>4, <2>2 DEF CreateKey, Fresh, Born
  <2>3. ASSUME NEW k \in Drawn, Fresh(k), fate' = Born(k), banner' = k,
               IF saved = NoKey THEN Adopt(k) ELSE UNCHANGED savedVars, OnApiTick(fate', saved')
        PROVE  DesktopKeysIInv'
    <3>1. DesktopKeyTypes'
      BY <1>4, <2>3 DEF CreateKey, Born
    <3>2. BornInv' /\ StoredInv'
      BY <1>4, <2>3 DEF CreateKey, Fresh, Born
    <3>3. RowsInv' /\ RetiredIsForgotten'
      BY <1>4, <2>3 DEF CreateKey, Fresh, Born
    <3>4. QED
      BY <3>1, <3>2, <3>3
  <2>4. QED
    BY <1>4, <2>1, <2>2, <2>3 DEF CreateKey
<1>5. CASE BootstrapKey
  BY <1>5 DEF BootstrapKey, Fresh, Born
<1>6. ASSUME NEW k \in Drawn, DeleteKey(k) PROVE DesktopKeysIInv'
  <2>1. CASE UNCHANGED <<fate, savedVars, listVars>>
    BY <1>6, <2>1 DEF DeleteKey
  <2>2. CASE fate' = Removed(k, NoKey, "ended") /\ UNCHANGED <<savedVars, listVars>>
    BY <1>6, <2>2 DEF DeleteKey, Removed
  <2>3. CASE /\ CheckAuth(saved) /\ k \in Listed(fate)
             /\ fate' = Removed(k, NoKey, "retired")
             /\ IF k \in cache /\ saved = k THEN Adopt(NoKey) ELSE UNCHANGED savedVars
             /\ OnApiTick(fate', saved')
    <3>1. /\ fate' \in [Drawn -> Fates]
          /\ \A j \in Drawn : j # k => fate'[j] = fate[j]
          /\ fate'[k] = "retired" /\ fate[k] # "unborn"
          /\ UNCHANGED <<rects, field, exchanged>>
      BY <1>6, <2>3 DEF DeleteKey, Removed
    <3>2. DesktopKeyTypes'
      BY <2>3, <3>1
    <3>3. BornInv'
      BY <2>3, <3>1, <3>2
    <3>4. RowsInv'
      BY <2>3, <3>1, <3>2
    <3>5. k \in rects /\ fate[k] \notin {"ended", "retired"}
      BY <1>6, <2>3 DEF DeleteKey
    <3>6. StoredInv' /\ RetiredIsForgotten'
      BY <2>3, <3>1, <3>2, <3>5
    <3>7. QED
      BY <3>2, <3>3, <3>4, <3>6
  <2>4. QED
    BY <1>6, <2>1, <2>2, <2>3 DEF DeleteKey
<1>7. ASSUME NEW k \in Drawn, RotateKey(k) PROVE DesktopKeysIInv'
  <2>1. CASE UNCHANGED <<fate, savedVars, listVars, banner>>
    BY <1>7, <2>1 DEF RotateKey
  <2>2. ASSUME NEW n \in Drawn, k \in Listed(fate), Fresh(n),
               fate' = Removed(k, n, "ended"), UNCHANGED <<savedVars, listVars>>
        PROVE  DesktopKeysIInv'
    <3>1. /\ fate[n] = "unborn" /\ fate[k] # "unborn"
          /\ \A j \in Drawn : j \notin {k, n} => fate'[j] = fate[j]
          /\ fate'[k] = "ended" /\ fate'[n] = "live"
          /\ DesktopKeyTypes'
      BY <1>7, <2>2 DEF RotateKey, Removed, Fresh
    <3>2. UNCHANGED <<saved, stored, field, cache, rects, exchanged>>
      BY <1>7, <2>2 DEF RotateKey
    <3>3. BornInv' /\ RowsInv'
      BY <3>1, <3>2
    <3>4. StoredInv' /\ RetiredIsForgotten'
      BY <3>1, <3>2
    <3>5. QED
      BY <3>1, <3>3, <3>4
  <2>3. ASSUME NEW n \in Drawn, k \in Listed(fate), Fresh(n),
               fate' = Removed(k, n, "retired"), Adopt(n), OnApiTick(fate', n)
        PROVE  DesktopKeysIInv'
    <3>1. /\ fate[n] = "unborn" /\ fate[k] # "unborn"
          /\ \A j \in Drawn : j \notin {k, n} => fate'[j] = fate[j]
          /\ fate'[k] = "retired" /\ fate'[n] = "live"
          /\ UNCHANGED <<rects, field, exchanged>>
          /\ DesktopKeyTypes'
      BY <1>7, <2>3 DEF RotateKey, Removed, Fresh
    <3>2. BornInv' /\ RowsInv'
      BY <2>3, <3>1
    <3>3. StoredInv' /\ RetiredIsForgotten'
      BY <2>3, <3>1
    <3>4. QED
      BY <3>1, <3>2, <3>3
  <2>4. QED
    BY <1>7, <2>1, <2>2, <2>3 DEF RotateKey
<1>8. QED
  BY <1>1, <1>2, <1>3, <1>4, <1>5, <1>6, <1>7

\* Steps of the settings page, of the window and of others.
LEMMA SettingsSteps ==
  ASSUME DesktopKeysIInv,
         \/ DrawFields \/ EmptyUrl \/ SaveConfig
         \/ \E k \in Drawn \cup {NoKey} : TypeKey(k)
         \/ \E save \in BOOLEAN : CommitEdits(save)
         \/ RebuildPages \/ RestartDesktop \/ Elsewhere
         \/ UNCHANGED desktopKeyVars
  PROVE  DesktopKeysIInv'
<1> USE DesktopKeysAssumption
    DEF DesktopKeysIInv, DesktopKeyTypes, BornInv, RowsInv, StoredInv, RetiredIsForgotten, Drawn, Fates,
        Adopt, Act, savedVars, listVars, pageKeyVars
<1>1. CASE DrawFields
  BY <1>1 DEF DrawFields
<1>2. CASE EmptyUrl
  BY <1>2 DEF EmptyUrl
<1>3. CASE SaveConfig
  BY <1>3 DEF SaveConfig
<1>4. ASSUME NEW k \in Drawn \cup {NoKey}, TypeKey(k) PROVE DesktopKeysIInv'
  BY <1>4 DEF TypeKey
<1>5. ASSUME NEW save \in BOOLEAN, CommitEdits(save) PROVE DesktopKeysIInv'
  BY <1>5 DEF CommitEdits
<1>6. CASE RebuildPages
  BY <1>6 DEF RebuildPages
<1>7. CASE RestartDesktop
  BY <1>7 DEF RestartDesktop
<1>8. CASE Elsewhere
  BY <1>8 DEF Elsewhere, Fresh, Born, Listed
<1>9. CASE UNCHANGED desktopKeyVars
  BY <1>9 DEF desktopKeyVars
<1>10. QED
  BY <1>1, <1>2, <1>3, <1>4, <1>5, <1>6, <1>7, <1>8, <1>9

\* The desktop does not go on with a key it deleted or rotated itself and was
\* told so (the callbacks of client/window.cpp), unless the settings page put
\* the key back or took it out.
THEOREM RetiredForgotten ==
  DesktopKeysSpec => []RetiredIsForgotten
<1>1. DesktopKeysInit => DesktopKeysIInv
  BY DesktopKeysInitial
<1>2. DesktopKeysIInv /\ [DesktopKeysNext]_desktopKeyVars => DesktopKeysIInv'
  BY ApiPageSteps, SettingsSteps DEF DesktopKeysNext
<1>3. DesktopKeysIInv => RetiredIsForgotten
  BY DEF DesktopKeysIInv
<1>4. QED
  BY <1>1, <1>2, <1>3, PTL DEF DesktopKeysSpec

-----------------------------------------------------------------------------
(* The source of the dashboard's values.                                   *)

\* Choosing a source, by an index or because the old one has gone, throws away
\* what was read from the other.
LEMMA ChoiceKeepsSource ==
  ASSUME SamplesAreSelected, Local \/ (\E i \in Nat : ByIndex(i)) \/ (\E list : Validate(list))
  PROVE  SamplesAreSelected'
BY DEF SamplesAreSelected, Local, ByIndex, Validate, shownVars, Sources

LEMMA TickKeepsSource ==
  ASSUME SamplesAreSelected, OnDataTick
  PROVE  SamplesAreSelected'
BY DEF SamplesAreSelected, OnDataTick

LEMMA SourceSteps == SamplesAreSelected /\ [SourceNext]_sourceVars => SamplesAreSelected'
<1> SUFFICES ASSUME SamplesAreSelected, [SourceNext]_sourceVars PROVE SamplesAreSelected'
  OBVIOUS
<1> USE DEF fleetVars, shownVars
<1>1. CASE SelectTelemetrySourceLocal
  BY <1>1, ChoiceKeepsSource DEF SelectTelemetrySourceLocal
<1>2. CASE SelectTelemetrySource
  BY <1>2 DEF SelectTelemetrySource, ByIndex, Sources, Local, SamplesAreSelected
<1>3. CASE HandleMenuCommand
  BY <1>3 DEF HandleMenuCommand, ByIndex, Sources, Local, SamplesAreSelected
<1>4. CASE DevicesChange
  BY <1>4, ChoiceKeepsSource DEF DevicesChange
<1>5. CASE OnRender
  BY <1>5, ChoiceKeepsSource DEF OnRender
<1>6. CASE Rebuilt
  BY <1>6 DEF Rebuilt, SamplesAreSelected
<1>7. CASE PickOnBar \/ StateChanges \/ Navigate
  BY <1>7 DEF PickOnBar, StateChanges, Navigate, SamplesAreSelected
<1>8. CASE OnDataTick
  BY <1>8, TickKeepsSource
<1>9. CASE UNCHANGED sourceVars
  BY <1>9 DEF sourceVars, SamplesAreSelected
<1>10. QED
  BY <1>1, <1>2, <1>3, <1>4, <1>5, <1>6, <1>7, <1>8, <1>9 DEF SourceNext

\* Whatever was selected, removed, offline or silent in between, the rings and
\* the snapshot of the dashboard hold values of the source it names, or the 0 of
\* a failed read (the telemetry sources of client/window.cpp).
THEOREM SamplesStaySelected == SourceSpec => []SamplesAreSelected
<1>1. SourceInit => SamplesAreSelected
  BY DEF SourceInit, SamplesAreSelected
<1>2. QED
  BY <1>1, SourceSteps, PTL DEF SourceSpec

-----------------------------------------------------------------------------
(* The client's window: first the bar and the shell's record of it.        *)

Bars   == [pos : Positions, shown : BOOLEAN, registered : BOOLEAN, pending : BOOLEAN,
           last : Rects \cup {NoRect}, bar : Rects]
Shells == [up : BOOLEAN, knows : BOOLEAN, refused : BOOLEAN, reserved : Rects \cup {NoRect}]

\* The shell knows a registered bar only, and what it reserves is where the bar
\* was placed last.
Fits(h, s) ==
  /\ h \in Bars /\ s \in Shells
  /\ h.registered => h.last = h.bar
  /\ s.knows => h.registered
  /\ ~s.knows => s.reserved = NoRect
  /\ s.reserved # NoRect => s.reserved = h.bar

BarInv ==
  /\ Fits(hud, shell) /\ (shell.reserved # NoRect => hud.shown)
  /\ layout \in Layouts /\ notes \in 0 .. MaxNotes /\ posts \in Nat

\* ApplyAppBarPosition places a bar so that both agree.
LEMMA PlacedBar ==
  ASSUME NEW h, NEW s, Fits(h, s), layout \in Layouts, notes \in 0 .. MaxNotes,
         ApplyAppBarPosition(h, s)
  PROVE  /\ Fits(hud', shell') /\ hud'.shown /\ shell'.up = s.up
         /\ notes' \in 0 .. MaxNotes
<1>1. h \in Bars /\ s \in Shells
  BY DEF Fits
<1>2. PICK bar : bar = ComputeBarRect(h)
  OBVIOUS
<1>3. bar \in Rects
  BY <1>1, <1>2 DEF ComputeBarRect, Bars, Rects
<1>4. PICK r \in RegisterAppBar(h) :
        /\ hud' = [r EXCEPT !.bar = bar, !.last = bar, !.shown = TRUE]
        /\ shell' = [s EXCEPT !.knows = (s.knows \/ (r.registered /\ ~h.registered)),
                              !.refused = @ \/ ~r.registered,
                              !.reserved = IF /\ r.registered /\ bar # r.last
                                              /\ s.knows \/ (r.registered /\ ~h.registered)
                                           THEN bar ELSE @]
        /\ notes' \in IF /\ r.registered /\ bar # r.last
                         /\ s.knows \/ (r.registered /\ ~h.registered)
                      THEN Notified(notes) ELSE {notes}
  BY <1>2, Zenon DEF ApplyAppBarPosition
<1>5. PICK ok \in BOOLEAN : r = [h EXCEPT !.registered = ok] /\ (h.registered => ok)
  BY <1>4 DEF RegisterAppBar
<1>6. /\ r \in Bars /\ r.registered = ok /\ r.last = h.last /\ r.bar = h.bar
  BY <1>1, <1>5 DEF Bars
<1>7. /\ hud' \in Bars /\ hud'.shown /\ hud'.registered = ok /\ hud'.last = bar /\ hud'.bar = bar
  BY <1>3, <1>4, <1>6 DEF Bars
<1>8. PICK knows, rejected, reserved :
         /\ knows = (s.knows \/ (ok /\ ~h.registered)) /\ rejected = (s.refused \/ ~ok)
         /\ reserved = IF ok /\ bar # h.last /\ knows THEN bar ELSE s.reserved
         /\ shell' = [s EXCEPT !.knows = knows, !.refused = rejected, !.reserved = reserved]
  BY <1>1, <1>4, <1>6 DEF Shells
<1>9. knows \in BOOLEAN /\ rejected \in BOOLEAN /\ reserved \in Rects \cup {NoRect}
  BY <1>1, <1>3, <1>5, <1>8 DEF Shells
<1>10. /\ shell' \in Shells /\ shell'.knows = knows /\ shell'.reserved = reserved
       /\ shell'.up = s.up
  BY <1>1, <1>8, <1>9 DEF Shells
<1>11. knows => ok
  BY <1>5, <1>8 DEF Fits
<1>12. ~knows => reserved = NoRect
  BY <1>8 DEF Fits
<1>13. reserved # NoRect => reserved = bar
  <2>1. CASE ok /\ bar # h.last /\ knows
    BY <1>8, <2>1
  <2>2. CASE ~knows
    BY <1>12, <2>2
  <2>3. CASE knows /\ bar = h.last
    <3>1. reserved = s.reserved
      BY <1>8, <2>3
    <3>2. s.reserved = NoRect \/ (s.knows /\ h.registered /\ s.reserved = h.bar /\ h.last = h.bar)
      BY <1>1 DEF Fits
    <3>3. QED
      BY <2>3, <3>1, <3>2
  <2>4. QED
    BY <1>11, <2>1, <2>2, <2>3
<1>14. notes' \in 0 .. MaxNotes
  <2>1. notes' \in Notified(notes) \cup {notes}
    BY <1>4 DEF Notified
  <2>2. QED
    BY <2>1, HudAssumption DEF Notified
<1>15. QED
  BY <1>7, <1>10, <1>11, <1>12, <1>13, <1>14 DEF Fits

\* A bar that is taken away leaves nothing reserved.
LEMMA TakenBar ==
  ASSUME NEW h, Fits(h, shell), NEW u, u = UnregisterAppBar(h), NEW f, f = Freed(h)
  PROVE  /\ Fits(u, f) /\ ~u.registered /\ f.reserved = NoRect /\ f.up = shell.up
         /\ u.shown = h.shown
<1>1. h \in Bars /\ shell \in Shells
  BY DEF Fits
<1>2. CASE h.registered
  <2>1. /\ u = [h EXCEPT !.registered = FALSE, !.pending = FALSE, !.last = NoRect]
        /\ f = [shell EXCEPT !.knows = FALSE, !.reserved = NoRect]
    BY <1>2 DEF UnregisterAppBar, Freed
  <2>2. /\ u \in Bars /\ ~u.registered /\ u.shown = h.shown
        /\ f \in Shells /\ ~f.knows /\ f.reserved = NoRect /\ f.up = shell.up
    BY <1>1, <2>1 DEF Bars, Shells
  <2>3. QED
    BY <2>2 DEF Fits
<1>3. CASE ~h.registered
  <2>1. u = h /\ f = shell
    BY <1>3 DEF UnregisterAppBar, Freed
  <2>2. QED
    BY <1>3, <2>1 DEF Fits
<1>4. QED
  BY <1>2, <1>3

\* Members that neither the shell nor the last placement depends on.
LEMMA FitsWith ==
  ASSUME NEW h, NEW s, Fits(h, s)
  PROVE  /\ Fits([h EXCEPT !.shown = FALSE], s) /\ ~[h EXCEPT !.shown = FALSE].shown
         /\ Fits([h EXCEPT !.pending = FALSE], s)
         /\ Fits([h EXCEPT !.pending = TRUE], s) /\ [h EXCEPT !.pending = TRUE].shown = h.shown
         /\ \A p \in Positions : Fits([h EXCEPT !.pos = p], s) /\ [h EXCEPT !.pos = p].shown = h.shown
<1>1. h \in Bars /\ s \in Shells
  BY DEF Fits
<1>2. ASSUME NEW g \in Bars, g.registered = h.registered, g.last = h.last, g.bar = h.bar
      PROVE  Fits(g, s)
  BY <1>1, <1>2 DEF Fits
<1>3. /\ Fits([h EXCEPT !.shown = FALSE], s) /\ ~[h EXCEPT !.shown = FALSE].shown
  <2>1. PICK g : g = [h EXCEPT !.shown = FALSE]
    OBVIOUS
  <2>2. g \in Bars /\ g.registered = h.registered /\ g.last = h.last /\ g.bar = h.bar /\ g.shown = FALSE
    BY <1>1, <2>1 DEF Bars
  <2>3. QED
    BY <1>2, <2>1, <2>2
<1>4. ASSUME NEW b \in BOOLEAN
      PROVE  Fits([h EXCEPT !.pending = b], s) /\ [h EXCEPT !.pending = b].shown = h.shown
  <2>1. PICK g : g = [h EXCEPT !.pending = b]
    OBVIOUS
  <2>2. g \in Bars /\ g.registered = h.registered /\ g.last = h.last /\ g.bar = h.bar /\ g.shown = h.shown
    BY <1>1, <2>1 DEF Bars
  <2>3. QED
    BY <1>2, <2>1, <2>2
<1>5. ASSUME NEW p \in Positions
      PROVE  Fits([h EXCEPT !.pos = p], s) /\ [h EXCEPT !.pos = p].shown = h.shown
  <2>1. PICK g : g = [h EXCEPT !.pos = p]
    OBVIOUS
  <2>2. g \in Bars /\ g.registered = h.registered /\ g.last = h.last /\ g.bar = h.bar /\ g.shown = h.shown
    BY <1>1, <2>1 DEF Bars
  <2>3. QED
    BY <1>2, <2>1, <2>2
<1>6. QED
  BY <1>3, <1>4, <1>5

\* The operations of the bar, those the window calls and those of its messages.
LEMMA ShowKeepsBar ==
  ASSUME BarInv, Show, layout' \in Layouts
  PROVE  BarInv' /\ shell'.up = shell.up
<1>1. /\ Fits(hud, shell) /\ layout \in Layouts /\ notes \in 0 .. MaxNotes
      /\ ApplyAppBarPosition(hud, shell) /\ UNCHANGED posts
  BY DEF BarInv, Show
<1>2. Fits(hud', shell') /\ hud'.shown /\ shell'.up = shell.up /\ notes' \in 0 .. MaxNotes
  BY <1>1, PlacedBar
<1>3. QED
  BY <1>1, <1>2 DEF BarInv

LEMMA HideKeepsBar ==
  ASSUME BarInv, layout' \in Layouts, notes' \in 0 .. MaxNotes, posts' \in Nat,
         hud' = [UnregisterAppBar(hud) EXCEPT !.shown = FALSE], shell' = Freed(hud)
  PROVE  BarInv' /\ shell'.up = shell.up
<1>1. PICK u, f : u = UnregisterAppBar(hud) /\ f = Freed(hud)
  OBVIOUS
<1>2. Fits(hud, shell)
  BY DEF BarInv
<1>3. Fits(u, f) /\ f.reserved = NoRect /\ f.up = shell.up
  BY <1>1, <1>2, TakenBar
<1>4. Fits([u EXCEPT !.shown = FALSE], f)
  BY <1>3, FitsWith
<1>5. QED
  BY <1>1, <1>3, <1>4 DEF BarInv

LEMMA SetPositionKeepsBar ==
  ASSUME BarInv, NEW p \in Positions, SetPosition(p), layout' \in Layouts
  PROVE  BarInv' /\ shell'.up = shell.up
<1>1. /\ Fits(hud, shell) /\ layout \in Layouts /\ notes \in 0 .. MaxNotes /\ posts' \in Nat
  BY DEF BarInv, SetPosition
<1>2. CASE hud.shown /\ hud.pos # p
  <2>1. PICK u, f : u = UnregisterAppBar(hud) /\ f = Freed(hud)
    OBVIOUS
  <2>2. PICK h : h = [u EXCEPT !.pos = p]
    OBVIOUS
  <2>3. Fits(u, f) /\ f.up = shell.up
    BY <1>1, <2>1, TakenBar
  <2>4. Fits(h, f)
    BY <2>2, <2>3, FitsWith
  <2>5. ApplyAppBarPosition(h, f)
    BY <1>2, <2>1, <2>2 DEF SetPosition
  <2>6. Fits(hud', shell') /\ hud'.shown /\ shell'.up = f.up /\ notes' \in 0 .. MaxNotes
    BY <1>1, <2>4, <2>5, PlacedBar
  <2>7. QED
    BY <1>1, <2>3, <2>6 DEF BarInv
<1>3. CASE ~(hud.shown /\ hud.pos # p)
  <2>1. hud' = [hud EXCEPT !.pos = p] /\ UNCHANGED <<shell, notes>>
    BY <1>3 DEF SetPosition
  <2>2. Fits([hud EXCEPT !.pos = p], shell) /\ [hud EXCEPT !.pos = p].shown = hud.shown
    BY <1>1, FitsWith
  <2>3. QED
    BY <1>1, <2>1, <2>2 DEF BarInv
<1>4. QED
  BY <1>2, <1>3

LEMMA PumpKeepsBar ==
  ASSUME BarInv, Pump
  PROVE  BarInv' /\ shell'.up = shell.up
<1>1. Fits(hud, shell) /\ layout \in Layouts /\ notes \in 0 .. MaxNotes /\ posts \in Nat
  BY DEF BarInv
<1>2. CASE AppBarCallback
  <2>1. UNCHANGED <<shell, layout>> /\ notes' \in 0 .. MaxNotes /\ posts' \in Nat
    BY <1>1, <1>2, HudAssumption DEF AppBarCallback
  <2>2. hud' = hud \/ hud' = [hud EXCEPT !.pending = TRUE]
    BY <1>2 DEF AppBarCallback
  <2>3. Fits(hud', shell) /\ hud'.shown = hud.shown
    BY <1>1, <2>2, FitsWith
  <2>4. QED
    BY <1>1, <2>1, <2>3 DEF BarInv
<1>3. CASE AppBarReposition
  <2>1. UNCHANGED layout /\ posts' \in Nat
    BY <1>1, <1>3 DEF AppBarReposition
  <2>2. CASE hud.shown
    <3>1. PICK h : h = [hud EXCEPT !.pending = FALSE]
      OBVIOUS
    <3>2. Fits(h, shell) /\ ApplyAppBarPosition(h, shell)
      BY <1>1, <1>3, <2>2, <3>1, FitsWith DEF AppBarReposition
    <3>3. Fits(hud', shell') /\ hud'.shown /\ shell'.up = shell.up /\ notes' \in 0 .. MaxNotes
      BY <1>1, <3>2, PlacedBar
    <3>4. QED
      BY <1>1, <2>1, <3>3 DEF BarInv
  <2>3. CASE ~hud.shown
    <3>1. UNCHANGED <<hud, shell, notes>>
      BY <1>3, <2>3 DEF AppBarReposition
    <3>2. QED
      BY <2>1, <3>1 DEF BarInv
  <2>4. QED
    BY <2>2, <2>3
<1>4. QED
  BY <1>2, <1>3 DEF Pump

\* What the desktop does.
LEMMA LayoutKeepsBar ==
  ASSUME BarInv, LayoutChanges
  PROVE  BarInv' /\ shell'.up = shell.up
BY HudAssumption DEF BarInv, LayoutChanges

LEMMA ShellKeepsBar ==
  ASSUME BarInv, ShellChanges
  PROVE  BarInv' /\ shell'.up = ~shell.up
<1>1. Fits(hud, shell) /\ shell \in Shells /\ UNCHANGED <<hud, layout, notes, posts>>
  BY DEF BarInv, Fits, ShellChanges
<1>2. PICK up \in BOOLEAN : /\ up = ~shell.up
                            /\ shell' = [shell EXCEPT !.up = up, !.knows = FALSE, !.reserved = NoRect]
  BY <1>1 DEF ShellChanges, Shells
<1>3. shell' \in Shells /\ ~shell'.knows /\ shell'.reserved = NoRect /\ shell'.up = up
  BY <1>1, <1>2 DEF Shells
<1>4. QED
  BY <1>1, <1>2, <1>3 DEF BarInv, Fits

LEMMA BarInitial == HudInit => BarInv /\ moves \in 0 .. MaxMoves
<1> SUFFICES ASSUME HudInit PROVE BarInv /\ moves \in 0 .. MaxMoves
  OBVIOUS
<1>1. layout \in Layouts /\ notes = 0 /\ posts = 0 /\ moves = 0
  BY DEF HudInit
<1>2. PICK p \in Positions :
        hud = [pos |-> p, shown |-> FALSE, registered |-> FALSE, pending |-> FALSE,
               last |-> NoRect, bar |-> [edge |-> p, layout |-> layout, own |-> 0]]
  BY DEF HudInit
<1>3. PICK up \in BOOLEAN :
        shell = [up |-> up, knows |-> FALSE, reserved |-> NoRect, refused |-> FALSE]
  BY DEF HudInit
<1>4. [edge |-> p, layout |-> layout, own |-> 0] \in Rects
  BY <1>1 DEF Rects
<1>5. hud \in Bars /\ ~hud.registered
  BY <1>2, <1>4 DEF Bars
<1>6. shell \in Shells /\ ~shell.knows /\ shell.reserved = NoRect
  BY <1>3 DEF Shells
<1>7. QED
  BY <1>1, <1>5, <1>6, HudAssumption DEF BarInv, Fits

\* Whatever the window does the shell comes and goes only with Explorer.
LEMMA BarSteps ==
  ASSUME BarInv, WindowNext
  PROVE  BarInv' /\ (app' = "up" /\ ~ExplorerChanges => shell'.up = shell.up)
<1> DEFINE Spared == BarInv' /\ (app' = "up" /\ ~ExplorerChanges => shell'.up = shell.up)
<1> SUFFICES Spared
  OBVIOUS
<1>1. ASSUME NEW how, how # "up", Ends(how)
      PROVE  Spared
  <2>1. /\ layout' \in Layouts /\ notes' \in 0 .. MaxNotes /\ posts' \in Nat
        /\ hud' = [UnregisterAppBar(hud) EXCEPT !.shown = FALSE] /\ shell' = Freed(hud)
        /\ app' # "up"
    BY <1>1, HudAssumption DEF Ends, BarInv
  <2>2. QED
    BY <2>1, HideKeepsBar
<1>2. ASSUME UNCHANGED barVars
      PROVE  Spared
  BY <1>2 DEF barVars, BarInv
<1>3. CASE MetricsClickLogging \/ ToggleMetricLoggingFromMenu
  BY <1>2, <1>3 DEF MetricsClickLogging, ToggleMetricLoggingFromMenu
<1>4. CASE \E chosen \in BOOLEAN : MetricsFolder(chosen) \/ MenuFolder(chosen)
  BY <1>1, <1>2, <1>4 DEF MetricsFolder, MenuFolder
<1>5. CASE LocalJobStart \/ LocalJobStop \/ SearchLan \/ Recreate
  BY <1>2, <1>5 DEF LocalJobStart, LocalJobStop, SearchLan, Recreate
<1>6. CASE Probed \/ Tick
  BY <1>1, <1>2, <1>6 DEF Probed, Tick
<1>7. CASE \E b \in Behaviours : DoMinimize(b)
  <2>1. UNCHANGED barVars \/ (Show /\ UNCHANGED layout)
    BY <1>7 DEF DoMinimize
  <2>2. QED
    BY <1>2, <2>1, ShowKeepsBar DEF BarInv
<1>8. CASE Restore \/ TaskbarCreated
  BY <1>2, <1>8 DEF Restore, TaskbarCreated
<1>9. CASE HudCommand
  <2>1. Show /\ layout' \in Layouts
    BY <1>9 DEF HudCommand, BarInv
  <2>2. QED
    BY <2>1, ShowKeepsBar
<1>10. CASE RestoreAndHide
  <2>1. /\ layout' \in Layouts /\ notes' \in 0 .. MaxNotes /\ posts' \in Nat
        /\ hud' = [UnregisterAppBar(hud) EXCEPT !.shown = FALSE] /\ shell' = Freed(hud)
    BY <1>10 DEF RestoreAndHide, Hide, BarInv
  <2>2. QED
    BY <2>1, HideKeepsBar
<1>11. CASE \E p \in Positions : SetHudPosition(p)
  <2>1. PICK p \in Positions : SetPosition(p) /\ layout' \in Layouts
    BY <1>11 DEF SetHudPosition, BarInv
  <2>2. QED
    BY <2>1, SetPositionKeepsBar
<1>12. CASE Exit
  BY <1>1, <1>12 DEF Exit
<1>13. CASE ExplorerChanges
  BY <1>13, ShellKeepsBar DEF ExplorerChanges
<1>14. CASE BarPump
  BY <1>14, PumpKeepsBar DEF BarPump
<1>15. CASE LayoutChanges
  BY <1>15, LayoutKeepsBar
<1>16. QED
  BY <1>3, <1>4, <1>5, <1>6, <1>7, <1>8, <1>9, <1>10, <1>11, <1>12, <1>13, <1>14, <1>15
     DEF WindowNext

-----------------------------------------------------------------------------
(* The icon.                                                               *)

TrayTypes == tray \in [shown : BOOLEAN, added : BOOLEAN] /\ created \in Nat

LEMMA TraySteps ==
  ASSUME TrayTypes, TrayIsBack, WindowNext, shell.up \in BOOLEAN,
         app' = "up" /\ ~ExplorerChanges => shell'.up = shell.up,
         ExplorerChanges => shell'.up = ~shell.up
  PROVE  TrayTypes' /\ TrayIsBack'
<1>1. ASSUME UNCHANGED shellVars, ~ExplorerChanges, app = "up"
      PROVE  TrayTypes' /\ TrayIsBack'
  BY <1>1 DEF shellVars, TrayTypes, TrayIsBack
<1>2. ASSUME NEW how, how # "up", Ends(how)
      PROVE  TrayTypes' /\ TrayIsBack'
  BY <1>2 DEF Ends, TrayTypes, TrayIsBack
<1>3. CASE ExplorerChanges
  <2>1. /\ tray' = [tray EXCEPT !.shown = FALSE]
        /\ created' = IF shell.up THEN created ELSE created + 1
    BY <1>3 DEF ExplorerChanges
  <2>2. TrayTypes'
    <3>1. created' \in Nat
      BY <2>1 DEF TrayTypes
    <3>2. tray' \in [shown : BOOLEAN, added : BOOLEAN]
      BY <2>1 DEF TrayTypes
    <3>3. QED
      BY <3>1, <3>2 DEF TrayTypes
  <2>3. shell.up => ~shell'.up
    BY <1>3
  <2>4. ~shell.up => created' # 0
    BY <2>1 DEF TrayTypes
  <2>5. QED
    BY <2>2, <2>3, <2>4 DEF TrayIsBack
<1>4. CASE \E b \in Behaviours : DoMinimize(b)
  <2>1. /\ tray' = EnsureTrayIcon(tray) /\ created' = created /\ app = "up" /\ app' = "up"
        /\ main # "minimised"
    BY <1>4 DEF DoMinimize, Clicked
  <2>2. CASE ExplorerChanges
    BY <1>3, <2>2
  <2>3. CASE ~ExplorerChanges
    BY <2>1, <2>3 DEF EnsureTrayIcon, TrayTypes, TrayIsBack
  <2>4. QED
    BY <2>2, <2>3
<1>5. CASE TaskbarCreated
  <2>1. /\ tray' = [shown |-> shell.up, added |-> shell.up] /\ created' \in Nat /\ app' = "up"
    BY <1>5 DEF TaskbarCreated, EnsureTrayIcon, TrayTypes
  <2>2. CASE ExplorerChanges
    BY <1>3, <2>2
  <2>3. CASE ~ExplorerChanges
    BY <2>1, <2>3 DEF TrayTypes, TrayIsBack
  <2>4. QED
    BY <2>2, <2>3
<1>6. CASE /\ ~ExplorerChanges /\ ~TaskbarCreated /\ ~\E b \in Behaviours : DoMinimize(b)
  <2>1. app = "up" /\ (UNCHANGED shellVars \/ \E how \in {"gone", "faulted"} : Ends(how))
    <3>1. CASE \/ MetricsClickLogging \/ ToggleMetricLoggingFromMenu
               \/ LocalJobStart \/ LocalJobStop \/ SearchLan \/ Recreate \/ Restore
               \/ HudCommand \/ RestoreAndHide \/ \E p \in Positions : SetHudPosition(p)
      BY <3>1 DEF MetricsClickLogging, ToggleMetricLoggingFromMenu, LocalJobStart, LocalJobStop,
                  SearchLan, Recreate, Restore, HudCommand, RestoreAndHide, SetHudPosition,
                  Clicked, Commanded
    <3>2. CASE \/ \E chosen \in BOOLEAN : MetricsFolder(chosen) \/ MenuFolder(chosen)
               \/ Probed \/ Tick \/ Exit
      BY <3>2 DEF MetricsFolder, MenuFolder, Probed, Tick, Exit, Commanded
    <3>3. CASE \/ BarPump
               \/ /\ app = "up" /\ LayoutChanges
                  /\ UNCHANGED <<main, shellVars, pageVars, loggingVars, app, dialogVars>>
      BY <3>3 DEF BarPump
    <3>4. QED
      BY <1>6, <3>1, <3>2, <3>3 DEF WindowNext
  <2>2. QED
    BY <1>1, <1>2, <1>6, <2>1
<1>7. QED
  BY <1>3, <1>4, <1>5, <1>6

-----------------------------------------------------------------------------
(* The dialogs and the session of the desktop's logging.                   *)

Frames == [kind : {"metrics", "menu", "search"}, of : 0 .. MaxPages]

IsDialog(f) == f.kind # "search"

OneDialog(m) == \A i, j \in DOMAIN m : IsDialog(m[i]) /\ IsDialog(m[j]) => i = j
NoDialog(m)  == \A i \in DOMAIN m : ~IsDialog(m[i])

Stacks == {m \in Seq(Frames) : Len(m) <= MaxModal}

LEMMA Pushed ==
  ASSUME NEW m \in Stacks, NEW f \in Frames, Len(m) < MaxModal, NEW n, n = Append(m, f)
  PROVE  /\ n \in Stacks
         /\ NoDialog(m) => OneDialog(n)
         /\ ~IsDialog(f) => /\ OneDialog(m) => OneDialog(n)
                            /\ NoDialog(m) => NoDialog(n)
<1>1. /\ m \in Seq(Frames) /\ n \in Seq(Frames) /\ Len(n) = Len(m) + 1 /\ Len(m) \in Nat
      /\ n[Len(m) + 1] = f
      /\ \A i \in 1 .. Len(m) : n[i] = m[i]
  BY DEF Stacks
<1>2. DOMAIN m = 1 .. Len(m) /\ DOMAIN n = 1 .. Len(m) + 1
  BY <1>1
<1>3. \A i \in DOMAIN n : (i \in DOMAIN m /\ n[i] = m[i]) \/ (i = Len(m) + 1 /\ n[i] = f)
  BY <1>1, <1>2
<1>4. n \in Stacks
  BY <1>1, WindowAssumption DEF Stacks
<1>5. QED
  BY <1>3, <1>4 DEF NoDialog, OneDialog

LEMMA Popped ==
  ASSUME NEW m \in Stacks, m # <<>>, NEW n, n = SubSeq(m, 1, Len(m) - 1)
  PROVE  /\ n \in Stacks /\ m[Len(m)] \in Frames
         /\ OneDialog(m) => OneDialog(n)
         /\ NoDialog(m) => NoDialog(n)
         /\ OneDialog(m) /\ IsDialog(m[Len(m)]) => NoDialog(n)
<1>1. /\ m \in Seq(Frames) /\ Len(m) \in Nat /\ Len(m) # 0 /\ DOMAIN m = 1 .. Len(m)
  BY DEF Stacks
<1>2. /\ Len(n) = Len(m) - 1 /\ DOMAIN n = 1 .. Len(m) - 1
      /\ \A i \in 1 .. Len(m) - 1 : n[i] = m[i]
      /\ n \in Seq(Frames)
  BY <1>1
<1>3. n \in Stacks /\ m[Len(m)] \in Frames
  BY <1>1, <1>2, WindowAssumption DEF Stacks
<1>4. Len(m) \in DOMAIN m /\ \A i \in DOMAIN n : i \in DOMAIN m /\ n[i] = m[i] /\ i # Len(m)
  BY <1>1, <1>2
<1>5. QED
  BY <1>3, <1>4 DEF NoDialog, OneDialog

Flaggings == [config : BOOLEAN, page : BOOLEAN]

LogTypes ==
  /\ main \in {"shown", "minimised", "hidden"} /\ app \in {"up", "gone", "faulted"}
  /\ logging \in Flaggings
  /\ pages \in 0 .. MaxPages /\ built \in 1 .. MaxPages /\ moves \in 0 .. MaxMoves
  /\ session \in Sessions \cup {NoSession} /\ modal \in Stacks
  /\ running \subseteq Sessions /\ unanswered \subseteq Sessions

\* While the user has one dialog at a time and a page to see, a dialog is only
\* open when no session is held, and a session is only held with the flag set.
DialogInv ==
  app = "up" /\ ~blind =>
    /\ OneDialog(modal)
    /\ ~NoDialog(modal) => session = NoSession
    /\ pages # 0 /\ ~logging.page => session = NoSession

LogInv == LogTypes /\ LoggingFlagsAgree /\ ForgottenIsExcused /\ DialogInv

LEMMA FlagsOf ==
  ASSUME NEW on \in BOOLEAN
  PROVE  /\ Flags(on) \in Flaggings /\ Flags(on).config = on
         /\ Flags(on).page = (on /\ pages # 0)
BY DEF Flags, Flaggings

LEMMA StartedFacts ==
  ASSUME NEW ok \in BOOLEAN, Started(ok), running \subseteq Sessions, unanswered \subseteq Sessions,
         session \in Sessions \cup {NoSession}
  PROVE  /\ running' \subseteq Sessions /\ unanswered' \subseteq Sessions
         /\ session' \in Sessions \cup {NoSession}
         /\ ~ok => session' = session
         /\ session = NoSession /\ running \subseteq unanswered \cup {session}
              => running' \subseteq unanswered' \cup {session'}
BY WindowAssumption DEF Started, sessionVars

LEMMA StoppedFacts ==
  ASSUME Stopped, running \subseteq Sessions, unanswered \subseteq Sessions,
         session \in Sessions \cup {NoSession}
  PROVE  /\ running' \subseteq Sessions /\ unanswered' \subseteq Sessions
         /\ session' = NoSession
         /\ running \subseteq unanswered \cup {session}
              => running' \subseteq unanswered' \cup {session'}
BY DEF Stopped

\* The end of the client keeps the account of its sessions.
LEMMA EndsKeepsLog ==
  ASSUME LogInv, NEW how \in {"gone", "faulted"}, Ends(how), moves' \in 0 .. MaxMoves,
         UNCHANGED loggingVars
  PROVE  LogInv'
<1>1. UNCHANGED <<logging, session, running, unanswered>>
  BY DEF loggingVars, sessionVars
<1>2. /\ app' = how /\ main' = "hidden" /\ pages' = 0 /\ modal' = <<>> /\ built' = built
      /\ blind' = blind
  BY DEF Ends
<1>3. <<>> \in Stacks
  BY WindowAssumption DEF Stacks
<1>4. LogTypes'
  BY <1>1, <1>2, <1>3, WindowAssumption DEF LogInv, LogTypes
<1>5. QED
  BY <1>1, <1>2, <1>4 DEF LogInv, LoggingFlagsAgree, ForgottenIsExcused, DialogInv

\* Members the logging does not depend on.
LEMMA OthersKeepLog ==
  ASSUME LogInv, main' \in {"shown", "minimised", "hidden"}, moves' \in 0 .. MaxMoves, app' = app,
         UNCHANGED pageVars, UNCHANGED loggingVars, UNCHANGED dialogVars
  PROVE  LogInv'
BY DEF LogInv, LogTypes, LoggingFlagsAgree, ForgottenIsExcused, DialogInv, pageVars, loggingVars,
       sessionVars, dialogVars

\* A click that opens a dialog: the user has stopped logging, or has no page.
LEMMA DialogKeepsLog ==
  ASSUME LogInv, app = "up", UNCHANGED <<main, app>>, UNCHANGED pageVars, UNCHANGED loggingVars,
         moves' \in 0 .. MaxMoves, ~(pages # 0 /\ logging.page),
         NEW k \in {"metrics", "menu"}, Push([kind |-> k, of |-> pages])
  PROVE  LogInv'
<1>1. PICK f : f = [kind |-> k, of |-> pages]
  OBVIOUS
<1>2. f \in Frames /\ IsDialog(f) /\ modal \in Stacks
  BY <1>1 DEF Frames, IsDialog, LogInv, LogTypes
<1>3. PICK n : n = Append(modal, f)
  OBVIOUS
<1>4. n \in Stacks /\ (NoDialog(modal) => OneDialog(n))
  BY <1>1, <1>2, <1>3, Pushed DEF Push
<1>5. modal' = n /\ (~blind' => ~blind /\ NoDialog(modal) /\ pages # 0)
  BY <1>1, <1>3 DEF Push, DialogOpen, NoDialog, IsDialog
<1>6. LogTypes' /\ LoggingFlagsAgree'
  BY <1>4, <1>5 DEF LogInv, LogTypes, LoggingFlagsAgree, pageVars, loggingVars, sessionVars
<1>7. ForgottenIsExcused'
  BY <1>5 DEF LogInv, ForgottenIsExcused, loggingVars, sessionVars
<1>8. DialogInv'
  BY <1>4, <1>5 DEF LogInv, DialogInv, pageVars, loggingVars, sessionVars
<1>9. QED
  BY <1>6, <1>7, <1>8 DEF LogInv

\* A stop resets both flags, with whatever dialogs there are.
LEMMA StopKeepsLog ==
  ASSUME LogInv, app = "up", UNCHANGED <<main, app>>, UNCHANGED pageVars, UNCHANGED dialogVars,
         moves' \in 0 .. MaxMoves, Stopped, logging' = Flags(FALSE)
  PROVE  LogInv'
<1>1. /\ running' \subseteq Sessions /\ unanswered' \subseteq Sessions /\ session' = NoSession
      /\ running \subseteq unanswered \cup {session} => running' \subseteq unanswered' \cup {session'}
  BY StoppedFacts DEF LogInv, LogTypes
<1>2. logging' \in Flaggings /\ logging'.config = FALSE /\ logging'.page = FALSE
  BY FlagsOf
<1>3. LogTypes' /\ LoggingFlagsAgree'
  BY <1>1, <1>2 DEF LogInv, LogTypes, LoggingFlagsAgree, pageVars, dialogVars
<1>4. ForgottenIsExcused' /\ DialogInv'
  BY <1>1 DEF LogInv, ForgottenIsExcused, DialogInv, pageVars, dialogVars
<1>5. QED
  BY <1>3, <1>4 DEF LogInv

\* The folder of a dialog: a session is started only when none is held.
LEMMA FolderKeepsLog ==
  ASSUME LogInv, app = "up", UNCHANGED <<main, app, moves>>, UNCHANGED pageVars, Pop, IsDialog(Top),
         \/ \E ok \in BOOLEAN : Started(ok) /\ logging' = Flags(ok)
         \/ logging' = Flags(FALSE) /\ UNCHANGED sessionVars
         \/ UNCHANGED loggingVars
  PROVE  LogInv'
<1>1. PICK n : n = SubSeq(modal, 1, Len(modal) - 1)
  OBVIOUS
<1>2. modal \in Stacks /\ modal # <<>> /\ modal' = n /\ blind' = blind
  BY <1>1 DEF LogInv, LogTypes, Pop, Below
<1>3. n \in Stacks /\ (OneDialog(modal) => NoDialog(n) /\ OneDialog(n))
  BY <1>1, <1>2, Popped DEF Top
<1>4. ~blind => session = NoSession /\ NoDialog(n) /\ OneDialog(n)
  <2>1. modal[Len(modal)] = Top /\ Len(modal) \in DOMAIN modal
    BY <1>2 DEF Top, Stacks
  <2>2. ~NoDialog(modal)
    BY <2>1 DEF NoDialog
  <2>3. QED
    BY <1>3, <2>2 DEF LogInv, DialogInv
<1>5. CASE \E ok \in BOOLEAN : Started(ok) /\ logging' = Flags(ok)
  <2>1. PICK ok \in BOOLEAN : Started(ok) /\ logging' = Flags(ok)
    BY <1>5
  <2>2. /\ running' \subseteq Sessions /\ unanswered' \subseteq Sessions
        /\ session' \in Sessions \cup {NoSession}
        /\ ~ok => session' = session
        /\ session = NoSession /\ running \subseteq unanswered \cup {session}
             => running' \subseteq unanswered' \cup {session'}
    BY <2>1, StartedFacts DEF LogInv, LogTypes
  <2>3. logging' \in Flaggings /\ logging'.config = ok /\ logging'.page = (ok /\ pages # 0)
    BY <2>1, FlagsOf
  <2>4. LogTypes' /\ LoggingFlagsAgree'
    BY <1>2, <1>3, <2>2, <2>3 DEF LogInv, LogTypes, LoggingFlagsAgree, pageVars
  <2>5. ForgottenIsExcused' /\ DialogInv'
    BY <1>2, <1>4, <2>2, <2>3 DEF LogInv, ForgottenIsExcused, DialogInv, pageVars
  <2>6. QED
    BY <2>4, <2>5 DEF LogInv
<1>6. CASE logging' = Flags(FALSE) /\ UNCHANGED sessionVars
  <2>1. logging' \in Flaggings /\ logging'.config = FALSE /\ logging'.page = FALSE
    BY <1>6, FlagsOf
  <2>2. UNCHANGED <<session, running, unanswered>>
    BY <1>6 DEF sessionVars
  <2>3. LogTypes' /\ LoggingFlagsAgree'
    BY <1>2, <1>3, <2>1, <2>2 DEF LogInv, LogTypes, LoggingFlagsAgree, pageVars
  <2>4. ForgottenIsExcused' /\ DialogInv'
    BY <1>2, <1>4, <2>2 DEF LogInv, ForgottenIsExcused, DialogInv, pageVars
  <2>5. QED
    BY <2>3, <2>4 DEF LogInv
<1>7. CASE UNCHANGED loggingVars
  <2>1. UNCHANGED <<logging, session, running, unanswered>>
    BY <1>7 DEF loggingVars, sessionVars
  <2>2. LogTypes' /\ LoggingFlagsAgree'
    BY <1>2, <1>3, <2>1 DEF LogInv, LogTypes, LoggingFlagsAgree, pageVars
  <2>3. ForgottenIsExcused' /\ DialogInv'
    BY <1>2, <1>4, <2>1 DEF LogInv, ForgottenIsExcused, DialogInv, pageVars
  <2>4. QED
    BY <2>2, <2>3 DEF LogInv
<1>8. QED
  BY <1>5, <1>6, <1>7

\* The local job of the fleet page takes the place of the session that is held.
LEMMA LocalJobKeepsLog == ASSUME LogInv, LocalJobStart PROVE LogInv'
<1>1. /\ app = "up" /\ pages # 0 /\ moves' \in 0 .. MaxMoves /\ NoDialog(modal)
      /\ UNCHANGED <<main, pages, built, app, modal, blind>>
  BY HudAssumption DEF LogInv, LogTypes, LocalJobStart, Clicked, UserStep, DialogOpen, NoDialog,
                       IsDialog, pageVars, dialogVars
<1>0. PICK told \in BOOLEAN, ok \in BOOLEAN :
        \E left, lost :
          /\ left = IF told THEN running \ {session} ELSE running
          /\ lost = IF told \/ session = NoSession THEN unanswered ELSE unanswered \cup {session}
          /\ logging' = IF ok THEN Flags(TRUE) ELSE logging
          /\ \/ /\ ~ok /\ session' = NoSession
                /\ running' = left /\ unanswered' = lost
             \/ \E s \in Sessions \ running :
                  /\ running' = left \cup {s}
                  /\ session' = IF ok THEN s ELSE NoSession
                  /\ unanswered' = IF ok THEN lost ELSE lost \cup {s}
  BY DEF LocalJobStart
<1>2. PICK left, lost :
        /\ left = IF told THEN running \ {session} ELSE running
        /\ lost = IF told \/ session = NoSession THEN unanswered ELSE unanswered \cup {session}
        /\ logging' = IF ok THEN Flags(TRUE) ELSE logging
        /\ \/ /\ ~ok /\ session' = NoSession
              /\ running' = left /\ unanswered' = lost
           \/ \E s \in Sessions \ running :
                /\ running' = left \cup {s}
                /\ session' = IF ok THEN s ELSE NoSession
                /\ unanswered' = IF ok THEN lost ELSE lost \cup {s}
  BY <1>0
<1>3. /\ running \subseteq Sessions /\ unanswered \subseteq Sessions
      /\ session \in Sessions \cup {NoSession} /\ logging \in Flaggings
  BY DEF LogInv, LogTypes
<1>4. /\ left \subseteq Sessions /\ lost \subseteq Sessions
      /\ running \subseteq unanswered \cup {session} => left \subseteq lost
  BY <1>2, <1>3, WindowAssumption
<1>5. /\ running' \subseteq Sessions /\ unanswered' \subseteq Sessions
      /\ session' \in Sessions \cup {NoSession}
      /\ ~ok => session' = NoSession
      /\ running \subseteq unanswered \cup {session} => running' \subseteq unanswered' \cup {session'}
  BY <1>2, <1>4
<1>6. /\ logging' \in Flaggings /\ (ok => logging'.config = TRUE /\ logging'.page = TRUE)
      /\ (~ok => logging' = logging)
  BY <1>1, <1>2, <1>3, FlagsOf
<1>7. LogTypes' /\ LoggingFlagsAgree'
  BY <1>1, <1>5, <1>6 DEF LogInv, LogTypes, LoggingFlagsAgree
<1>8. ForgottenIsExcused' /\ DialogInv'
  BY <1>1, <1>5, <1>6 DEF LogInv, ForgottenIsExcused, DialogInv
<1>9. QED
  BY <1>7, <1>8 DEF LogInv

\* The search of the LAN is not a dialog, on the stack or taken from it.
LEMMA SearchKeepsLog ==
  ASSUME LogInv, app = "up", UNCHANGED <<main, app, blind>>, UNCHANGED pageVars, UNCHANGED loggingVars,
         moves' \in 0 .. MaxMoves, modal' \in Stacks,
         OneDialog(modal) => OneDialog(modal'), NoDialog(modal) => NoDialog(modal')
  PROVE  LogInv'
<1>1. UNCHANGED <<pages, built, logging, session, running, unanswered>>
  BY DEF pageVars, loggingVars, sessionVars
<1>2. LogTypes' /\ LoggingFlagsAgree'
  BY <1>1 DEF LogInv, LogTypes, LoggingFlagsAgree
<1>3. ForgottenIsExcused' /\ DialogInv'
  BY <1>1 DEF LogInv, ForgottenIsExcused, DialogInv
<1>4. QED
  BY <1>2, <1>3 DEF LogInv

\* The pages that are built again show the flag of the configuration.
LEMMA RecreateKeepsLog == ASSUME LogInv, Recreate PROVE LogInv'
<1>1. /\ app = "up" /\ pages # 0
      /\ UNCHANGED <<main, app, moves, session, running, unanswered, modal, blind>>
  BY DEF Recreate, sessionVars, dialogVars
<1>2. /\ pages' \in 0 .. MaxPages /\ built' \in 1 .. MaxPages
      /\ logging' \in Flaggings /\ logging'.config = logging.config
      /\ pages' # 0 => logging'.page = logging.config
  <2>1. /\ pages \in 0 .. MaxPages /\ built \in 1 .. MaxPages /\ built < MaxPages /\ built' = built + 1
        /\ logging \in Flaggings
    BY DEF Recreate, LogInv, LogTypes
  <2>2. PICK b \in BOOLEAN : /\ logging' = [logging EXCEPT !.page = b]
                            /\ \/ pages' = built + 1 /\ b = logging.config
                               \/ pages' = 0 /\ b = FALSE
    BY <2>1 DEF Recreate, Flaggings
  <2>3. logging' \in Flaggings /\ logging'.config = logging.config /\ logging'.page = b
    BY <2>1, <2>2 DEF Flaggings
  <2>4. pages' \in 0 .. MaxPages /\ built' \in 1 .. MaxPages
    BY <2>1, <2>2, WindowAssumption
  <2>5. QED
    BY <2>1, <2>2, <2>3, <2>4
<1>3. logging.config = logging.page
  BY <1>1 DEF LogInv, LoggingFlagsAgree
<1>4. LogTypes' /\ LoggingFlagsAgree'
  BY <1>1, <1>2 DEF LogInv, LogTypes, LoggingFlagsAgree
<1>5. ForgottenIsExcused' /\ DialogInv'
  BY <1>1, <1>2, <1>3 DEF LogInv, ForgottenIsExcused, DialogInv
<1>6. QED
  BY <1>4, <1>5 DEF LogInv

\* Destroy stops the session and resets the page's flag.
LEMMA ExitKeepsLog == ASSUME LogInv, Exit PROVE LogInv'
<1>1. PICK how \in {"gone", "faulted"} : Ends(how) /\ Stopped /\ moves' \in 0 .. MaxMoves
  BY HudAssumption DEF Exit, Commanded, UserStep, LogInv, LogTypes
<1>2. /\ running' \subseteq Sessions /\ unanswered' \subseteq Sessions /\ session' = NoSession
      /\ running \subseteq unanswered \cup {session} => running' \subseteq unanswered' \cup {session'}
  BY <1>1, StoppedFacts DEF LogInv, LogTypes
<1>3. /\ app' = how /\ main' = "hidden" /\ pages' = 0 /\ modal' = <<>> /\ built' = built
      /\ blind' = blind
  BY <1>1 DEF Ends
<1>4. <<>> \in Stacks /\ logging' \in Flaggings
  <2>1. logging \in Flaggings /\ logging' = [logging EXCEPT !.page = FALSE]
    BY DEF Exit, LogInv, LogTypes
  <2>2. logging' \in Flaggings
    BY <2>1 DEF Flaggings
  <2>3. QED
    BY <2>2, WindowAssumption DEF Stacks
<1>5. LogTypes'
  BY <1>1, <1>2, <1>3, <1>4, WindowAssumption DEF LogInv, LogTypes
<1>6. QED
  BY <1>2, <1>3, <1>5 DEF LogInv, LoggingFlagsAgree, ForgottenIsExcused, DialogInv

LEMMA LogSteps == ASSUME LogInv, WindowNext PROVE LogInv'
<1> USE HudAssumption
<1> USE DEF LogTypes
<1>1. CASE MetricsClickLogging \/ ToggleMetricLoggingFromMenu
  <2>1. /\ app = "up" /\ moves' \in 0 .. MaxMoves /\ UNCHANGED <<main, app>> /\ UNCHANGED pageVars
        /\ \/ logging' = Flags(FALSE) /\ Stopped /\ UNCHANGED dialogVars
           \/ /\ ~(pages # 0 /\ logging.page) /\ UNCHANGED loggingVars
              /\ \E k \in {"metrics", "menu"} : Push([kind |-> k, of |-> pages])
    <3>1. app = "up" /\ moves' \in 0 .. MaxMoves /\ UNCHANGED <<main, app>> /\ UNCHANGED pageVars
      <4>1. /\ app = "up" /\ moves < MaxMoves /\ moves' = moves + 1
            /\ UNCHANGED <<main, app>> /\ UNCHANGED pageVars
        BY <1>1, Zenon
           DEF MetricsClickLogging, ToggleMetricLoggingFromMenu, Clicked, Commanded, UserStep
      <4>2. QED
        BY <4>1 DEF LogInv
    <3>2. CASE pages # 0 /\ logging.page
      BY <1>1, <3>1, <3>2, Zenon DEF MetricsClickLogging, ToggleMetricLoggingFromMenu
    <3>3. CASE ~(pages # 0 /\ logging.page)
      <4>1. UNCHANGED loggingVars
        BY <1>1, <3>3, Zenon DEF MetricsClickLogging, ToggleMetricLoggingFromMenu
      <4>2. \/ Push([kind |-> "metrics", of |-> pages])
            \/ Push([kind |-> "menu", of |-> pages])
        BY <1>1, <3>3, Zenon DEF MetricsClickLogging, ToggleMetricLoggingFromMenu
      <4>3. QED
        BY <3>1, <3>3, <4>1, <4>2
    <3>4. QED
      BY <3>2, <3>3
  <2>2. QED
    BY <2>1, StopKeepsLog, DialogKeepsLog
<1>2. CASE \E chosen \in BOOLEAN : MetricsFolder(chosen)
  <2>1. PICK chosen \in BOOLEAN : MetricsFolder(chosen)
    BY <1>2
  <2>2. CASE Top.of # pages
    BY <2>1, <2>2, EndsKeepsLog DEF MetricsFolder, LogInv
  <2>3. CASE Top.of = pages
    <3>1. /\ app = "up" /\ UNCHANGED <<main, app, moves>> /\ UNCHANGED pageVars /\ Pop /\ IsDialog(Top)
          /\ \/ \E ok \in BOOLEAN : Started(ok) /\ logging' = Flags(ok)
             \/ logging' = Flags(FALSE) /\ UNCHANGED sessionVars
      BY <2>1, <2>3 DEF MetricsFolder, IsDialog
    <3>2. QED
      BY <3>1, FolderKeepsLog
  <2>4. QED
    BY <2>2, <2>3
<1>3. CASE \E chosen \in BOOLEAN : MenuFolder(chosen)
  <2>1. /\ app = "up" /\ UNCHANGED <<main, app, moves>> /\ UNCHANGED pageVars /\ Pop /\ IsDialog(Top)
        /\ \/ \E ok \in BOOLEAN : Started(ok) /\ logging' = Flags(ok)
           \/ UNCHANGED loggingVars
    BY <1>3 DEF MenuFolder, IsDialog
  <2>2. QED
    BY <2>1, FolderKeepsLog
<1>4. CASE LocalJobStart
  BY <1>4, LocalJobKeepsLog
<1>5. CASE LocalJobStop
  <2>1. /\ app = "up" /\ moves' \in 0 .. MaxMoves /\ UNCHANGED <<main, app>> /\ UNCHANGED pageVars
        /\ logging' = Flags(FALSE) /\ Stopped /\ UNCHANGED dialogVars
    BY <1>5 DEF LocalJobStop, Clicked, UserStep, LogInv
  <2>2. QED
    BY <2>1, StopKeepsLog
<1>6. CASE SearchLan
  <2>1. PICK f, n : f = [kind |-> "search", of |-> pages] /\ n = Append(modal, f)
    OBVIOUS
  <2>2. modal \in Stacks /\ f \in Frames /\ ~IsDialog(f) /\ Len(modal) < MaxModal /\ modal' = n
    BY <1>6, <2>1 DEF SearchLan, LogInv, Frames, IsDialog
  <2>3. n \in Stacks /\ (OneDialog(modal) => OneDialog(n)) /\ (NoDialog(modal) => NoDialog(n))
    BY <2>1, <2>2, Pushed
  <2>4. /\ app = "up" /\ moves' \in 0 .. MaxMoves /\ UNCHANGED <<main, app, blind>>
        /\ UNCHANGED pageVars /\ UNCHANGED loggingVars
    BY <1>6 DEF SearchLan, Clicked, UserStep, LogInv
  <2>5. QED
    BY <2>2, <2>3, <2>4, SearchKeepsLog
<1>7. CASE Probed
  <2>1. CASE Top.of # pages
    BY <1>7, <2>1, EndsKeepsLog DEF Probed, LogInv
  <2>2. CASE Top.of = pages
    <3>1. PICK n : n = SubSeq(modal, 1, Len(modal) - 1)
      OBVIOUS
    <3>2. /\ modal \in Stacks /\ modal # <<>> /\ modal' = n
          /\ app = "up" /\ moves' \in 0 .. MaxMoves /\ UNCHANGED <<main, app, blind>>
          /\ UNCHANGED pageVars /\ UNCHANGED loggingVars
      BY <1>7, <2>2, <3>1 DEF Probed, Pop, Below, LogInv
    <3>3. n \in Stacks /\ (OneDialog(modal) => OneDialog(n)) /\ (NoDialog(modal) => NoDialog(n))
      BY <3>1, <3>2, Popped
    <3>4. QED
      BY <3>2, <3>3, SearchKeepsLog
  <2>3. QED
    BY <2>1, <2>2
<1>8. CASE Recreate
  BY <1>8, RecreateKeepsLog
<1>9. CASE Tick
  BY <1>9, EndsKeepsLog DEF Tick, LogInv
<1>10. CASE \E b \in Behaviours : DoMinimize(b)
  <2>1. /\ main' \in {"shown", "minimised", "hidden"} /\ moves' \in 0 .. MaxMoves /\ app' = app
        /\ UNCHANGED pageVars /\ UNCHANGED loggingVars /\ UNCHANGED dialogVars
    BY <1>10 DEF DoMinimize, Clicked, UserStep, LogInv
  <2>2. QED
    BY <2>1, OthersKeepLog
<1>11. CASE Restore \/ HudCommand \/ RestoreAndHide \/ \E p \in Positions : SetHudPosition(p)
  <2>1. /\ main' \in {"shown", "minimised", "hidden"} /\ moves' \in 0 .. MaxMoves /\ app' = app
        /\ UNCHANGED pageVars /\ UNCHANGED loggingVars /\ UNCHANGED dialogVars
    BY <1>11 DEF Restore, HudCommand, RestoreAndHide, SetHudPosition, Commanded, UserStep, LogInv
  <2>2. QED
    BY <2>1, OthersKeepLog
<1>12. CASE Exit
  BY <1>12, ExitKeepsLog
<1>13. CASE ExplorerChanges \/ TaskbarCreated
  <2>1. /\ main' \in {"shown", "minimised", "hidden"} /\ moves' \in 0 .. MaxMoves /\ app' = app
        /\ UNCHANGED pageVars /\ UNCHANGED loggingVars /\ UNCHANGED dialogVars
    BY <1>13 DEF ExplorerChanges, TaskbarCreated, UserStep, LogInv
  <2>2. QED
    BY <2>1, OthersKeepLog
<1>14. CASE \/ BarPump
            \/ /\ app = "up" /\ LayoutChanges
               /\ UNCHANGED <<main, shellVars, pageVars, loggingVars, app, dialogVars>>
  <2>1. /\ main' \in {"shown", "minimised", "hidden"} /\ moves' \in 0 .. MaxMoves /\ app' = app
        /\ UNCHANGED pageVars /\ UNCHANGED loggingVars /\ UNCHANGED dialogVars
    BY <1>14 DEF BarPump, Pump, AppBarCallback, AppBarReposition, LayoutChanges, LogInv
  <2>2. QED
    BY <2>1, OthersKeepLog
<1>15. QED
  BY <1>1, <1>2, <1>3, <1>4, <1>5, <1>6, <1>7, <1>8, <1>9, <1>10, <1>11, <1>12, <1>13, <1>14
     DEF WindowNext

-----------------------------------------------------------------------------

WindowIInv == BarInv /\ TrayTypes /\ TrayIsBack /\ LogInv

LEMMA WindowInitial == WindowInit => WindowIInv
<1> SUFFICES ASSUME WindowInit PROVE WindowIInv
  OBVIOUS
<1>1. BarInv /\ moves \in 0 .. MaxMoves
  BY BarInitial DEF WindowInit
<1>2. shell.up \in BOOLEAN
  BY <1>1 DEF BarInv, Fits, Shells
<1>3. TrayTypes /\ TrayIsBack
  BY <1>2 DEF WindowInit, TrayTypes, TrayIsBack
<1>4. modal \in Stacks /\ NoDialog(modal) /\ OneDialog(modal)
  BY WindowAssumption DEF WindowInit, Stacks, NoDialog, OneDialog
<1>5. LogTypes
  BY <1>1, <1>4, WindowAssumption DEF WindowInit, LogTypes, Flaggings
<1>6. LoggingFlagsAgree /\ ForgottenIsExcused /\ DialogInv
  BY <1>4 DEF WindowInit, LoggingFlagsAgree, ForgottenIsExcused, DialogInv
<1>7. QED
  BY <1>1, <1>3, <1>5, <1>6 DEF WindowIInv, LogInv

LEMMA WindowSteps == WindowIInv /\ [WindowNext]_windowVars => WindowIInv'
<1> SUFFICES ASSUME WindowIInv, [WindowNext]_windowVars PROVE WindowIInv'
  OBVIOUS
<1>1. CASE WindowNext
  <2>1. BarInv /\ TrayTypes /\ TrayIsBack /\ LogInv
    BY DEF WindowIInv
  <2>2. BarInv' /\ (app' = "up" /\ ~ExplorerChanges => shell'.up = shell.up)
    BY <1>1, <2>1, BarSteps
  <2>3. shell.up \in BOOLEAN /\ (ExplorerChanges => shell'.up = ~shell.up)
    BY <2>1, ShellKeepsBar DEF ExplorerChanges, BarInv, Fits, Shells
  <2>4. TrayTypes' /\ TrayIsBack'
    BY <1>1, <2>1, <2>2, <2>3, TraySteps
  <2>5. LogInv'
    BY <1>1, <2>1, LogSteps
  <2>6. QED
    BY <2>2, <2>4, <2>5 DEF WindowIInv
<1>2. CASE UNCHANGED windowVars
  BY <1>2 DEF windowVars, hudVars, WindowIInv, BarInv, TrayTypes, TrayIsBack, LogInv, LogTypes,
              LoggingFlagsAgree, ForgottenIsExcused, DialogInv
<1>3. QED
  BY <1>1, <1>2

LEMMA WindowInvariant == WindowSpec => []WindowIInv
BY WindowInitial, WindowSteps, PTL DEF WindowSpec

\* The edge of the screen the shell keeps free is the one the bar covers, and
\* none when there is no bar: through every order of the commands that show,
\* hide and move the bar, of the shell's notifications and of Explorer's end
\* (client/ui/compact_overlay.cpp).
THEOREM ReservationIsTheBars == WindowSpec => []WindowInv
<1>1. ASSUME WindowIInv PROVE WindowInv
  <2>1. BarInv /\ TrayTypes /\ LogTypes
    BY <1>1 DEF WindowIInv, LogInv
  <2>2. HudTypeOK
    BY <2>1 DEF BarInv, Fits, Bars, Shells, HudTypeOK, LogTypes
  <2>3. WindowTypeOK
    BY <2>1, <2>2 DEF WindowTypeOK, TrayTypes, LogTypes, Flaggings, Stacks
  <2>4. ReservedIsShown
    BY <2>1 DEF ReservedIsShown, BarInv, Fits
  <2>5. QED
    BY <2>3, <2>4 DEF WindowInv
<1>2. QED
  BY <1>1, WindowInvariant, PTL

\* The flag the next start of the client shows is the one the page shows,
\* whichever of the four handlers wrote it last, and after every rebuild.
THEOREM FlagsAgree == WindowSpec => []LoggingFlagsAgree
<1>1. WindowIInv => LoggingFlagsAgree
  BY DEF WindowIInv, LogInv
<1>2. QED
  BY <1>1, WindowInvariant, PTL

\* The client forgets a session it started only when the service did not answer
\* or the user had two dialogs open, whatever runs inside the message loops of
\* the dialogs and of the search (client/window.cpp).
THEOREM SessionsAreNotForgotten == WindowSpec => []ForgottenIsExcused
<1>1. WindowIInv => ForgottenIsExcused
  BY DEF WindowIInv, LogInv
<1>2. QED
  BY <1>1, WindowInvariant, PTL

\* The icon is there whenever Explorer is and has been answered
\* (client/ui/system_tray.cpp).
THEOREM IconComesBack == WindowSpec => []TrayIsBack
<1>1. WindowIInv => TrayIsBack
  BY DEF WindowIInv
<1>2. QED
  BY <1>1, WindowInvariant, PTL

-----------------------------------------------------------------------------
(* The edits of the dashboard and of the metrics page. Whatever handler ran, *)
(* and wherever a file was torn, the page, the catalog, the bar's ids and    *)
(* the bar agree, and the catalog on disk is the one in memory; while        *)
(* nothing was lost, every file that can be read has all panels, and the     *)
(* page's choice is the user's. Each handler's writes are looked at twice:   *)
(* what is on disk after all of them, and after any number of them.          *)

\* The client's memory has these parts, and its page these.
IsMemory(m) ==
  /\ m = [profile |-> m.profile, path |-> m.path, overrides |-> m.overrides,
          edit |-> m.edit, backup |-> m.backup, catalog |-> m.catalog,
          page |-> m.page, hudIds |-> m.hudIds, overlay |-> m.overlay]
  /\ m.page = [rows |-> m.page.rows, logged |-> m.page.logged, hud |-> m.page.hud]

\* The metrics page, the HUD ids and the bar show what the catalog says.
PageAgrees(m) ==
  /\ m.page.rows = DOMAIN m.catalog
  /\ m.page.logged = LoggedMetricIds(m.catalog)
  /\ m.page.hud \cap m.page.rows = HudMetricIds(m.catalog)
  /\ m.hudIds = HudMetricIds(m.catalog)
  /\ m.overlay = BuildHudMetricsFromIds(m.hudIds)

\* Every row of the catalog has the four fields of MetricCatalogEntry.
CatalogRows(c) ==
  \A p \in DOMAIN c : c[p] = [dashboard |-> c[p].dashboard, viz |-> c[p].viz,
                              hud |-> c[p].hud, logging |-> c[p].logging]

\* The copies of the selection in memory agree.
Agrees(m) == IsMemory(m) /\ CatalogRows(m.catalog) /\ m.path \in Files /\ PageAgrees(m)

\* A profile shows the panels, and as the visualisations, that the catalog says.
SameLayout(file, catalog) ==
  \A p \in DOMAIN file \cap DOMAIN catalog :
    file[p].visible = catalog[p].dashboard /\ file[p].viz = catalog[p].viz

\* The client's files.
DiskNames == Files \cup {"catalog", "config"}

\* While nothing was lost: all panels are everywhere, and the user's choice is
\* on the page.
Whole ==
  /\ DOMAIN mem.profile = Panels /\ DOMAIN mem.catalog = Panels
  /\ \A f \in Files : disk[f] = Torn \/ DOMAIN disk[f] = Panels
  /\ mem.page.logged = choice

\* The inductive invariant: memory, the catalog on disk and the profile in use
\* agree between any two handlers, also after a crash and the restart.
EditIInv ==
  /\ Agrees(mem)
  /\ DOMAIN disk = DiskNames
  /\ disk["catalog"] = mem.catalog
  /\ SameLayout(disk[mem.path], mem.catalog)
  /\ intact => Whole

\* The invariant implies both properties of the runs.
LEMMA EditSuffices == EditIInv => PagesAgree /\ SelectionSurvives
BY DEF EditIInv, Agrees, PageAgrees, SameLayout, Whole, PagesAgree, LayoutIsCommitted, SelectionSurvives

\* A file no write names keeps its content.
LEMMA NotWritten ==
  ASSUME NEW d, NEW f \in DOMAIN d, NEW w, \A i \in DOMAIN w : w[i].file # f
  PROVE  Written(d, w)[f] = d[f]
BY DEF Written

\* The write i is the last one of file f.
LastWrite(w, f, i) ==
  /\ DOMAIN w \subseteq Nat /\ i \in DOMAIN w /\ w[i].file = f
  /\ \A j \in DOMAIN w : w[j].file = f => j <= i

\* The last write of a file decides its content.
LEMMA LastWritten ==
  ASSUME NEW d, NEW f \in DOMAIN d, NEW w, NEW i, LastWrite(w, f, i)
  PROVE  Written(d, w)[f] = w[i].content
<1> DEFINE hits == {j \in DOMAIN w : w[j].file = f}
<1>1. i \in hits /\ hits \subseteq Nat /\ \A j \in hits : i >= j
  BY DEF LastWrite
<1>2. Max(hits) \in hits /\ \A j \in hits : Max(hits) >= j
  BY <1>1 DEF Max
<1>3. Max(hits) = i
  BY <1>1, <1>2
<1>4. QED
  BY <1>1, <1>3 DEF Written

\* What a file can have after some writes.
OldOrWritten(v, d, f, w) ==
  v = d[f] \/ \E i \in DOMAIN w : w[i].file = f /\ v = w[i].content

\* A file has what it had or what one of the writes gave it.
LEMMA SomeWritten ==
  ASSUME NEW d, NEW f \in DOMAIN d, NEW w, NEW n \in Nat, DOMAIN w = 1 .. n
  PROVE  OldOrWritten(Written(d, w)[f], d, f, w)
<1> USE DEF OldOrWritten
<1> DEFINE hits == {j \in DOMAIN w : w[j].file = f}
<1>1. CASE hits = {}
  BY <1>1, NotWritten
<1>2. CASE hits # {}
  <2> DEFINE back == {n - j : j \in hits}
  <2>1. back \subseteq Nat /\ back # {}
    BY <1>2
  <2>2. PICK b \in back : \A c \in back : b <= c
    BY <2>1, Least
  <2>3. PICK i \in hits : b = n - i
    BY <2>2
  <2>4. ASSUME NEW j \in hits PROVE i >= j
    <3>1. n - j \in back /\ n - i \in Nat /\ i \in Nat /\ j \in Nat
      BY <2>3
    <3>2. n - i <= n - j
      BY <2>2, <2>3, <3>1
    <3>3. QED
      BY <3>1, <3>2
  <2>5. Written(d, w)[f] = w[i].content
    BY <2>3, <2>4, LastWritten DEF LastWrite
  <2>6. QED
    BY <2>3, <2>5
<1>3. QED
  BY <1>1, <1>2

\* Writes make no other files.
LEMMA WrittenDomain == ASSUME NEW d, NEW w PROVE DOMAIN Written(d, w) = DOMAIN d
BY DEF Written

\* One file after the other.
LEMMA SavedFacts ==
  ASSUME NEW m
  PROVE  /\ Save(m, "profile") = [file |-> m.path, content |-> m.profile]
         /\ Save(m, "catalog") = [file |-> "catalog", content |-> m.catalog]
         /\ Save(m, "config") = [file |-> "config", content |-> [ids |-> m.hudIds]]
BY DEF Save

\* A catalog made again has the rows and the layout of the profile, and of the
\* metrics it knew what it said.
IsBuilt(c, known, profile) ==
  /\ DOMAIN c = DOMAIN profile /\ CatalogRows(c)
  /\ \A p \in DOMAIN profile :
       /\ c[p].dashboard = profile[p].visible /\ c[p].viz = profile[p].viz
       /\ c[p].logging <=> IF p \in DOMAIN known THEN known[p].logging ELSE profile[p].logged

\* BuildFromDashboard makes such a catalog.
LEMMA BuildFacts ==
  ASSUME NEW known, NEW profile, NEW bar
  PROVE  IsBuilt(BuildFromDashboard(known, profile, bar), known, profile)
<1> DEFINE c == BuildFromDashboard(known, profile, bar)
<1>1. DOMAIN c = DOMAIN profile
  BY DEF BuildFromDashboard
<1>2. ASSUME NEW p \in DOMAIN profile
      PROVE  /\ c[p].dashboard = profile[p].visible /\ c[p].viz = profile[p].viz
             /\ c[p].logging <=> IF p \in DOMAIN known THEN known[p].logging ELSE profile[p].logged
  BY DEF BuildFromDashboard
<1>3. ASSUME NEW p \in DOMAIN c
      PROVE  c[p] = [dashboard |-> c[p].dashboard, viz |-> c[p].viz, hud |-> c[p].hud, logging |-> c[p].logging]
  <2>1. PICK d, v, h, l :
          /\ d = profile[p].visible /\ v = profile[p].viz
          /\ h = IF p \in DOMAIN known THEN known[p].hud ELSE p \in bar
          /\ l = IF p \in DOMAIN known THEN known[p].logging ELSE profile[p].logged
    OBVIOUS
  <2>2. c[p] = [dashboard |-> d, viz |-> v, hud |-> h, logging |-> l]
    BY <1>1, <2>1 DEF BuildFromDashboard
  <2>3. QED
    BY <2>2
<1>4. QED
  BY <1>1, <1>2, <1>3 DEF IsBuilt, CatalogRows

\* ApplyToDashboard gives every panel of the profile what the catalog says of it.
LEMMA ApplyFacts ==
  ASSUME NEW c, NEW profile
  PROVE  /\ DOMAIN ApplyToDashboard(c, profile) = DOMAIN profile
         /\ \A p \in DOMAIN profile \cap DOMAIN c :
              /\ ApplyToDashboard(c, profile)[p].visible = c[p].dashboard
              /\ ApplyToDashboard(c, profile)[p].viz = c[p].viz
              /\ ApplyToDashboard(c, profile)[p].logged = c[p].logging
BY DEF ApplyToDashboard

\* Nothing but the profile and the visualisations chosen.
FlushedFrom(f, m) ==
  /\ IsMemory(f) /\ DOMAIN f.profile = DOMAIN m.profile
  /\ f.path = m.path /\ f.edit = m.edit /\ f.backup = m.backup /\ f.catalog = m.catalog
  /\ f.page = m.page /\ f.hudIds = m.hudIds /\ f.overlay = m.overlay

\* FlushToProfile changes nothing else.
LEMMA FlushFacts ==
  ASSUME NEW m, IsMemory(m) PROVE FlushedFrom(FlushToProfile(m), m)
<1>1. PICK f, profile, none :
        /\ f = FlushToProfile(m) /\ none = <<>>
        /\ profile = [p \in DOMAIN m.profile |->
                        IF p \in DOMAIN m.overrides THEN [m.profile[p] EXCEPT !.viz = m.overrides[p]]
                        ELSE m.profile[p]]
  OBVIOUS
<1>2. f = [m EXCEPT !.profile = profile, !.overrides = none]
  BY <1>1 DEF FlushToProfile
<1>3. f = [profile |-> profile, path |-> m.path, overrides |-> none, edit |-> m.edit,
           backup |-> m.backup, catalog |-> m.catalog, page |-> m.page, hudIds |-> m.hudIds,
           overlay |-> m.overlay]
  BY <1>2 DEF IsMemory
<1>4. IsMemory(f)
  BY <1>3 DEF IsMemory
<1>5. DOMAIN profile = DOMAIN m.profile
  BY <1>1
<1>6. QED
  BY <1>1, <1>3, <1>4, <1>5 DEF FlushedFrom

\* What the pages are copied from, and what they are then.
Syncable(m) ==
  /\ IsMemory(m) /\ CatalogRows(m.catalog) /\ m.path \in Files
  /\ DOMAIN m.profile = DOMAIN m.catalog

Synced(r, m) ==
  /\ Agrees(r) /\ r.path = m.path /\ r.catalog = m.catalog
  /\ DOMAIN r.profile = DOMAIN m.profile

\* After SyncPagesFromMetricCatalog the pages agree with the catalog.
LEMMA SyncFacts ==
  ASSUME NEW m, Syncable(m) PROVE Synced(SyncPagesFromMetricCatalog(m), m)
<1> PICK r : r = SyncPagesFromMetricCatalog(m)
  OBVIOUS
<1> DEFINE profile == ApplyToDashboard(m.catalog, m.profile)
           bar     == HudMetricIds(m.catalog)
           logged  == {p \in DOMAIN profile : profile[p].logged}
<1>1. r = [m EXCEPT !.profile = profile,
                    !.page = [rows |-> DOMAIN profile, logged |-> logged, hud |-> bar],
                    !.hudIds = bar, !.overlay = BuildHudMetricsFromIds(bar)]
  BY DEF SyncPagesFromMetricCatalog
<1>2. logged = LoggedMetricIds(m.catalog) /\ DOMAIN profile = DOMAIN m.profile
  BY ApplyFacts DEF LoggedMetricIds, Syncable
<1>3. bar \cap DOMAIN m.catalog = bar
  BY DEF HudMetricIds
<1> HIDE DEF profile, bar, logged
<1>4. /\ IsMemory(r) /\ r.profile = profile /\ r.path = m.path /\ r.catalog = m.catalog
      /\ r.page = [rows |-> DOMAIN profile, logged |-> logged, hud |-> bar]
      /\ r.hudIds = bar /\ r.overlay = BuildHudMetricsFromIds(bar)
  <2>1. PICK page, shown : /\ page = [rows |-> DOMAIN profile, logged |-> logged, hud |-> bar]
                           /\ shown = BuildHudMetricsFromIds(bar)
    OBVIOUS
  <2>2. r = [profile |-> profile, path |-> m.path, overrides |-> m.overrides, edit |-> m.edit,
             backup |-> m.backup, catalog |-> m.catalog, page |-> page, hudIds |-> bar,
             overlay |-> shown]
    BY <1>1, <2>1 DEF IsMemory, Syncable
  <2>3. page = [rows |-> page.rows, logged |-> page.logged, hud |-> page.hud]
    BY <2>1
  <2>4. IsMemory(r)
    BY <2>2, <2>3 DEF IsMemory
  <2>5. QED
    BY <2>1, <2>2, <2>4
<1>5. PageAgrees(r)
  BY <1>2, <1>3, <1>4 DEF PageAgrees, Syncable, bar
<1>6. QED
  BY <1>2, <1>4, <1>5 DEF Agrees, Syncable, Synced

\* A load: the catalog in memory where the file has none.
InForce(m, past) == IF past = Torn THEN m.catalog ELSE past

IsLoaded(r, m, past) ==
  /\ IsMemory(r) /\ r.path = m.path /\ DOMAIN r.profile = DOMAIN m.profile
  /\ IsBuilt(r.catalog, InForce(m, past), m.profile)

\* LoadMetricCatalog makes the catalog from the one in force and the profile.
LEMMA LoadFacts ==
  ASSUME NEW m, IsMemory(m), NEW past
  PROVE  IsLoaded(LoadMetricCatalog(m, past), m, past)
<1> DEFINE bar == IF m.hudIds = {} THEN DefaultHud ELSE m.hudIds
           c   == BuildFromDashboard(InForce(m, past), m.profile, bar)
<1>1. PICK r : r = LoadMetricCatalog(m, past)
  OBVIOUS
<1>2. r = [m EXCEPT !.catalog = c, !.profile = ApplyToDashboard(c, m.profile),
                    !.hudIds = HudMetricIds(c)]
  BY <1>1 DEF LoadMetricCatalog, InForce
<1>3. IsBuilt(c, InForce(m, past), m.profile)
  BY BuildFacts
<1> HIDE DEF c
<1>4. IsMemory(r) /\ r.path = m.path /\ r.catalog = c /\ r.profile = ApplyToDashboard(c, m.profile)
  BY <1>2 DEF IsMemory
<1>5. QED
  BY <1>1, <1>3, <1>4, ApplyFacts DEF IsLoaded

\* What was loaded and shown.
Shown(r, m, past) ==
  /\ Agrees(r) /\ r.path = m.path /\ DOMAIN r.profile = DOMAIN m.profile
  /\ IsBuilt(r.catalog, InForce(m, past), m.profile)

\* The load and the copy to the pages, as initD2DAndPages and the import do them.
LEMMA ShownFacts ==
  ASSUME NEW m, IsMemory(m), m.path \in Files, NEW past, NEW r,
         r = SyncPagesFromMetricCatalog(LoadMetricCatalog(m, past))
  PROVE  Shown(r, m, past) /\ r.catalog = LoadMetricCatalog(m, past).catalog
<1>1. PICK l : l = LoadMetricCatalog(m, past)
  OBVIOUS
<1>2. IsLoaded(l, m, past) /\ r = SyncPagesFromMetricCatalog(l)
  BY <1>1, LoadFacts
<1>3. Syncable(l)
  BY <1>2 DEF IsLoaded, IsBuilt, Syncable
<1>4. Synced(r, l)
  BY <1>2, <1>3, SyncFacts
<1>5. QED
  BY <1>1, <1>2, <1>4 DEF IsLoaded, Shown, Synced

\* The same panels: what was to be logged is to be logged.
LEMMA KnownKeepLogging ==
  ASSUME NEW c, NEW known, NEW profile, IsBuilt(c, known, profile), DOMAIN profile = DOMAIN known
  PROVE  LoggedMetricIds(c) = LoggedMetricIds(known)
BY DEF IsBuilt, LoggedMetricIds

\* A catalog made from a profile has its layout.
LEMMA BuiltLayout ==
  ASSUME NEW c, NEW known, NEW profile, IsBuilt(c, known, profile)
  PROVE  SameLayout(profile, c)
BY DEF IsBuilt, SameLayout

\* A catalog that differs from c in one of the two selections.
Selects(r, c, logged, bar) ==
  /\ DOMAIN r = DOMAIN c /\ CatalogRows(r)
  /\ \A p \in DOMAIN c : r[p].dashboard = c[p].dashboard /\ r[p].viz = c[p].viz
  /\ LoggedMetricIds(r) = logged /\ HudMetricIds(r) = bar

\* UpdateLoggingSelection changes the logging selection and nothing else.
LEMMA LoggingUpdated ==
  ASSUME NEW c, CatalogRows(c), NEW logged, logged \subseteq DOMAIN c
  PROVE  Selects(UpdateLoggingSelection(c, logged), c, logged, HudMetricIds(c))
<1>1. PICK r : r = UpdateLoggingSelection(c, logged)
  OBVIOUS
<1>2. DOMAIN r = DOMAIN c
  BY <1>1 DEF UpdateLoggingSelection
<1>3. ASSUME NEW p \in DOMAIN c
      PROVE  /\ r[p] = [dashboard |-> c[p].dashboard, viz |-> c[p].viz, hud |-> c[p].hud,
                        logging |-> r[p].logging]
             /\ r[p].logging <=> p \in logged
  <2>1. PICK d, v, h, l, n :
          /\ d = c[p].dashboard /\ v = c[p].viz /\ h = c[p].hud /\ l = c[p].logging
          /\ n = (p \in logged)
    OBVIOUS
  <2>2. c[p] = [dashboard |-> d, viz |-> v, hud |-> h, logging |-> l]
    BY <2>1 DEF CatalogRows
  <2>3. r[p] = [c[p] EXCEPT !.logging = n]
    BY <1>1, <2>1 DEF UpdateLoggingSelection
  <2>4. r[p] = [dashboard |-> d, viz |-> v, hud |-> h, logging |-> n]
    BY <2>2, <2>3
  <2>5. r[p].logging = n
    BY <2>4
  <2>6. r[p].logging <=> p \in logged
    BY <2>1, <2>5, Zenon
  <2>7. QED
    BY <2>1, <2>4, <2>5, <2>6
<1>4. CatalogRows(r)
  BY <1>2, <1>3 DEF CatalogRows
<1>5. LoggedMetricIds(r) = logged /\ HudMetricIds(r) = HudMetricIds(c)
  BY <1>2, <1>3 DEF LoggedMetricIds, HudMetricIds
<1>6. QED
  BY <1>1, <1>2, <1>3, <1>4, <1>5 DEF Selects

\* UpdateHudSelection changes the bar's selection and nothing else.
LEMMA HudUpdated ==
  ASSUME NEW c, CatalogRows(c), NEW bar, bar \subseteq DOMAIN c
  PROVE  Selects(UpdateHudSelection(c, bar), c, LoggedMetricIds(c), bar)
<1>1. PICK r : r = UpdateHudSelection(c, bar)
  OBVIOUS
<1>2. DOMAIN r = DOMAIN c
  BY <1>1 DEF UpdateHudSelection
<1>3. ASSUME NEW p \in DOMAIN c
      PROVE  /\ r[p] = [dashboard |-> c[p].dashboard, viz |-> c[p].viz, hud |-> r[p].hud,
                        logging |-> c[p].logging]
             /\ r[p].hud <=> p \in bar
  <2>1. PICK d, v, h, l, n :
          /\ d = c[p].dashboard /\ v = c[p].viz /\ h = c[p].hud /\ l = c[p].logging
          /\ n = (p \in bar)
    OBVIOUS
  <2>2. c[p] = [dashboard |-> d, viz |-> v, hud |-> h, logging |-> l]
    BY <2>1 DEF CatalogRows
  <2>3. r[p] = [c[p] EXCEPT !.hud = n]
    BY <1>1, <2>1 DEF UpdateHudSelection
  <2>4. r[p] = [dashboard |-> d, viz |-> v, hud |-> n, logging |-> l]
    BY <2>2, <2>3
  <2>5. r[p].hud = n
    BY <2>4
  <2>6. r[p].hud <=> p \in bar
    BY <2>1, <2>5, Zenon
  <2>7. QED
    BY <2>1, <2>4, <2>5, <2>6
<1>4. CatalogRows(r)
  BY <1>2, <1>3 DEF CatalogRows
<1>5. LoggedMetricIds(r) = LoggedMetricIds(c) /\ HudMetricIds(r) = bar
  BY <1>2, <1>3 DEF LoggedMetricIds, HudMetricIds
<1>6. QED
  BY <1>1, <1>2, <1>3, <1>4, <1>5 DEF Selects

\* The page's choice taken into the catalog.
Taken(r, m) ==
  /\ IsMemory(r) /\ r.path = m.path /\ r.page = m.page /\ r.overlay = m.overlay
  /\ DOMAIN r.profile = DOMAIN m.profile /\ SameLayout(r.profile, r.catalog)
  /\ Selects(r.catalog, m.catalog, m.page.logged, m.page.hud \cap m.page.rows)
  /\ r.hudIds = m.page.hud \cap m.page.rows

\* SyncMetricCatalogFromPages takes the page's choice.
LEMMA TakenFacts ==
  ASSUME NEW m, IsMemory(m), CatalogRows(m.catalog), m.page.rows = DOMAIN m.catalog,
         m.page.logged \subseteq m.page.rows
  PROVE  Taken(SyncMetricCatalogFromPages(m), m)
<1>1. PICK r, c, l, bar, profile :
        /\ r = SyncMetricCatalogFromPages(m) /\ bar = m.page.hud \cap m.page.rows
        /\ l = UpdateLoggingSelection(m.catalog, m.page.logged)
        /\ c = UpdateHudSelection(l, bar)
        /\ profile = ApplyToDashboard(c, m.profile)
  OBVIOUS
<1>2. Selects(l, m.catalog, m.page.logged, HudMetricIds(m.catalog))
  BY <1>1, LoggingUpdated
<1>3. CatalogRows(l) /\ bar \subseteq DOMAIN l
  BY <1>1, <1>2 DEF Selects
<1>4. Selects(c, l, LoggedMetricIds(l), bar)
  BY <1>1, <1>3, HudUpdated
<1>5. Selects(c, m.catalog, m.page.logged, bar)
  BY <1>2, <1>4 DEF Selects
<1>6. r = [m EXCEPT !.catalog = c, !.profile = profile, !.hudIds = bar]
  BY <1>1, <1>5 DEF SyncMetricCatalogFromPages, Selects
<1>7. r = [profile |-> profile, path |-> m.path, overrides |-> m.overrides, edit |-> m.edit,
           backup |-> m.backup, catalog |-> c, page |-> m.page, hudIds |-> bar,
           overlay |-> m.overlay]
  BY <1>6 DEF IsMemory
<1>8. IsMemory(r)
  BY <1>7 DEF IsMemory
<1>9. DOMAIN profile = DOMAIN m.profile /\ SameLayout(profile, c)
  BY <1>1, ApplyFacts DEF SameLayout
<1>10. QED
  BY <1>1, <1>5, <1>7, <1>8, <1>9 DEF Taken

\* Any list of writes is one of some kind of writes.
IsList(w) == \E S : w \in Seq(S)

\* The writes w are the saves of the files whats, in their order.
AreSaves(w, m, whats) ==
  /\ IsList(w) /\ DOMAIN w = DOMAIN whats /\ Len(w) = Len(whats)
  /\ \A i \in DOMAIN whats : w[i] = Save(m, whats[i])

\* Saves makes them.
LEMMA SavesFacts ==
  ASSUME NEW m, NEW T, NEW whats \in Seq(T) PROVE AreSaves(Saves(m, whats), m, whats)
<1>1. PICK w : w = Saves(m, whats)
  OBVIOUS
<1>2. /\ w \in Seq({Save(m, x) : x \in T}) /\ DOMAIN w = DOMAIN whats /\ Len(w) = Len(whats)
      /\ \A i \in DOMAIN whats : w[i] = Save(m, whats[i])
  BY <1>1 DEF Saves
<1>3. IsList(w)
  BY <1>2 DEF IsList
<1>4. QED
  BY <1>1, <1>2, <1>3 DEF AreSaves

\* What a handler that ended has left, and while nothing was lost what each of
\* its writes can leave.
Faithful(h) ==
  /\ DOMAIN h.mem.profile = Panels =>
       /\ DOMAIN h.mem.catalog = Panels
       /\ h \in MetricsHandlers \/ h.mem.page.logged = mem.page.logged
  /\ \A i \in DOMAIN h.writes :
       /\ DOMAIN h.mem.profile = Panels
       /\ h.writes[i].file \in Files => DOMAIN h.writes[i].content = Panels
       /\ h.writes[i].file = "catalog" =>
            /\ DOMAIN h.writes[i].content = Panels
            /\ LoggedMetricIds(h.writes[i].content) \in {mem.page.logged, h.mem.page.logged}

\* What each handler has to show: its memory agrees, and so do the catalog and
\* the profile on disk after its writes.
Keeps(h) ==
  /\ Agrees(h.mem)
  /\ IsList(h.writes)
  /\ Written(disk, h.writes)["catalog"] = h.mem.catalog
  /\ SameLayout(Written(disk, h.writes)[h.mem.path], h.mem.catalog)
  /\ intact => Faithful(h)

\* Nothing but the profile, the overrides and the session differ.
SameSelection(m) ==
  /\ IsMemory(m) /\ m.catalog = mem.catalog /\ m.page = mem.page
  /\ m.hudIds = mem.hudIds /\ m.overlay = mem.overlay

\* A handler that changes the dashboard's edit state and writes nothing.
LEMMA UnsavedKeeps ==
  ASSUME EditIInv, NEW m, SameSelection(m), m.path \in Files, SameLayout(disk[m.path], m.catalog)
  PROVE  Keeps(Unsaved(m))
<1>1. PICK h, none : h = Unsaved(m) /\ none = Saves(m, <<>>)
  OBVIOUS
<1>2. h = [mem |-> m, writes |-> none]
  BY <1>1 DEF Unsaved, Handler
<1>3. PICK whats : whats = <<>>
  OBVIOUS
<1>4. IsList(none) /\ DOMAIN none = {}
  <2>1. whats \in Seq({}) /\ DOMAIN whats = {} /\ none = Saves(m, whats)
    BY <1>1, <1>3
  <2>2. AreSaves(none, m, whats)
    BY <2>1, SavesFacts
  <2>3. QED
    BY <2>1, <2>2 DEF AreSaves
<1>5. "catalog" \in DOMAIN disk /\ m.path \in DOMAIN disk
  BY DEF EditIInv, DiskNames
<1>6. Written(disk, none)["catalog"] = disk["catalog"] /\ Written(disk, none)[m.path] = disk[m.path]
  BY <1>4, <1>5, NotWritten
<1>7. Agrees(m)
  BY DEF EditIInv, Agrees, SameSelection, PageAgrees
<1>8. intact => Faithful(h)
  BY <1>2, <1>4 DEF EditIInv, Whole, Faithful, SameSelection
<1>9. QED
  BY <1>1, <1>2, <1>4, <1>6, <1>7, <1>8 DEF Keeps, EditIInv, SameSelection

\* The save after an edit of the dashboard: profile, then catalog.
LEMMA DashboardSavedKeeps ==
  ASSUME EditIInv, NEW m, SameSelection(m), m.path = mem.path,
         intact => DOMAIN m.profile = Panels
  PROVE  Keeps(DashboardSaved(m))
<1>1. PICK h, f, c, made, r, w :
        /\ h = DashboardSaved(m) /\ f = FlushToProfile(m)
        /\ c = BuildFromDashboard(f.catalog, f.profile, HudMetricIds(f.catalog))
        /\ made = [f EXCEPT !.catalog = c]
        /\ r = SyncPagesFromMetricCatalog(made)
        /\ w = <<Save(f, "profile"), Save(made, "catalog")>>
  OBVIOUS
<1>2. FlushedFrom(f, m)
  BY <1>1, FlushFacts DEF SameSelection
<1>3. IsBuilt(c, f.catalog, f.profile)
  BY <1>1, BuildFacts
<1>4. made = [profile |-> f.profile, path |-> f.path, overrides |-> f.overrides, edit |-> f.edit,
               backup |-> f.backup, catalog |-> c, page |-> f.page, hudIds |-> f.hudIds,
               overlay |-> f.overlay]
  BY <1>1, <1>2 DEF FlushedFrom, IsMemory
<1>5. IsMemory(made)
  BY <1>2, <1>4 DEF FlushedFrom, IsMemory
<1>6. /\ Agrees(r) /\ r.path = made.path /\ r.catalog = made.catalog
      /\ DOMAIN r.profile = DOMAIN made.profile
  <2>1. Syncable(made)
    BY <1>2, <1>3, <1>4, <1>5 DEF FlushedFrom, IsBuilt, EditIInv, Agrees, Syncable
  <2>2. Synced(r, made)
    BY <1>1, <2>1, SyncFacts
  <2>3. QED
    BY <2>2 DEF Synced
<1>7. h = [mem |-> r, writes |-> w]
  BY <1>1 DEF DashboardSaved
<1>8. /\ w[1] = [file |-> mem.path, content |-> f.profile]
      /\ w[2] = [file |-> "catalog", content |-> c]
      /\ DOMAIN w = {1, 2} /\ IsList(w)
  <2>1. Save(f, "profile") = [file |-> mem.path, content |-> f.profile]
    BY <1>2, SavedFacts DEF FlushedFrom
  <2>2. Save(made, "catalog") = [file |-> "catalog", content |-> c]
    BY <1>4, SavedFacts
  <2>3. PICK x, y : x = Save(f, "profile") /\ y = Save(made, "catalog")
    OBVIOUS
  <2>4. w = <<x, y>>
    BY <1>1, <2>3
  <2>5. w \in Seq({x, y})
    BY <2>4
  <2>6. w[1] = x /\ w[2] = y /\ DOMAIN w = {1, 2}
    BY <2>4
  <2>7. IsList(w)
    BY <2>5 DEF IsList
  <2>8. QED
    BY <2>1, <2>2, <2>3, <2>6, <2>7
<1>9. mem.path # "catalog" /\ mem.path \in DOMAIN disk /\ "catalog" \in DOMAIN disk
  BY EditAssumption DEF EditIInv, Agrees, DiskNames
<1>10. Written(disk, w)["catalog"] = c
  <2>1. LastWrite(w, "catalog", 2)
    BY <1>8, <1>9 DEF LastWrite
  <2>2. QED
    BY <1>8, <1>9, <2>1, LastWritten
<1>11. Written(disk, w)[mem.path] = f.profile
  <2>1. LastWrite(w, mem.path, 1)
    BY <1>8, <1>9 DEF LastWrite
  <2>2. QED
    BY <1>8, <1>9, <2>1, LastWritten
<1>12. SameLayout(f.profile, c)
  BY <1>3, BuiltLayout
<1>13. intact => Faithful(h)
  <2> HAVE intact
  <2>1. DOMAIN f.profile = Panels /\ DOMAIN c = Panels /\ DOMAIN f.catalog = Panels
    BY <1>2, <1>3 DEF FlushedFrom, IsBuilt, EditIInv, Whole, SameSelection
  <2>2. LoggedMetricIds(c) = LoggedMetricIds(f.catalog)
    BY <1>3, <2>1, KnownKeepLogging
  <2>3. LoggedMetricIds(c) = mem.page.logged /\ r.page.logged = LoggedMetricIds(c)
    BY <1>2, <1>4, <1>6, <2>2 DEF EditIInv, Agrees, PageAgrees, FlushedFrom, SameSelection
  <2>4. QED
    BY <1>4, <1>6, <1>7, <1>8, <1>9, <2>1, <2>3 DEF Faithful, EditIInv, Agrees
<1>14. QED
  BY <1>1, <1>2, <1>4, <1>6, <1>7, <1>8, <1>10, <1>11, <1>12, <1>13 DEF Keeps, FlushedFrom

\* What an edit of the dashboard makes of the memory m.
IsEdit(r, m) ==
  r = [profile |-> r.profile, path |-> m.path, overrides |-> r.overrides, edit |-> r.edit,
       backup |-> r.backup, catalog |-> m.catalog, page |-> m.page, hudIds |-> m.hudIds,
       overlay |-> m.overlay]

\* An edit leaves the selection as it was.
LEMMA EditSelects ==
  ASSUME EditIInv, NEW r, IsEdit(r, mem) PROVE SameSelection(r) /\ r.path = mem.path
<1>1. mem.page = [rows |-> mem.page.rows, logged |-> mem.page.logged, hud |-> mem.page.hud]
  BY DEF EditIInv, Agrees, IsMemory
<1>2. /\ r.path = mem.path /\ r.catalog = mem.catalog /\ r.page = mem.page
      /\ r.hudIds = mem.hudIds /\ r.overlay = mem.overlay
  BY DEF IsEdit
<1>3. IsMemory(r)
  BY <1>1, <1>2 DEF IsEdit, IsMemory
<1>4. QED
  BY <1>2, <1>3 DEF SameSelection

\* An edit, saved at once or with the edit mode's end.
LEMMA EditKeeps ==
  ASSUME EditIInv, NEW r, IsEdit(r, mem)
  PROVE  /\ Keeps(Unsaved(r))
         /\ (intact => DOMAIN r.profile = Panels) => Keeps(DashboardSaved(r)) /\ Keeps(DashboardClicked(r))
<1>1. SameSelection(r) /\ r.path = mem.path
  BY EditSelects
<1>2. r.path \in Files /\ SameLayout(disk[r.path], r.catalog)
  BY <1>1 DEF EditIInv, Agrees, SameSelection
<1>3. Keeps(Unsaved(r))
  BY <1>1, <1>2, UnsavedKeeps
<1>4. ASSUME intact => DOMAIN r.profile = Panels PROVE Keeps(DashboardSaved(r))
  BY <1>1, <1>4, DashboardSavedKeeps
<1>5. QED
  BY <1>3, <1>4 DEF DashboardClicked

\* An edit of the profile and of nothing else.
LEMMA ProfileEdit ==
  ASSUME NEW m, IsMemory(m), NEW profile, NEW r, r = [m EXCEPT !.profile = profile]
  PROVE  IsEdit(r, m) /\ r.profile = profile
<1>1. r = [profile |-> profile, path |-> m.path, overrides |-> m.overrides, edit |-> m.edit,
           backup |-> m.backup, catalog |-> m.catalog, page |-> m.page, hudIds |-> m.hudIds,
           overlay |-> m.overlay]
  BY DEF IsMemory
<1>2. QED
  BY <1>1 DEF IsEdit

\* So is one that forgets the visualisations chosen in the session as well.
LEMMA ProfileReplaced ==
  ASSUME NEW m, IsMemory(m), NEW profile, NEW none, NEW r,
         r = [m EXCEPT !.profile = profile, !.overrides = none]
  PROVE  IsEdit(r, m)
<1>1. r = [profile |-> profile, path |-> m.path, overrides |-> none, edit |-> m.edit,
           backup |-> m.backup, catalog |-> m.catalog, page |-> m.page, hudIds |-> m.hudIds,
           overlay |-> m.overlay]
  BY DEF IsMemory
<1>2. QED
  BY <1>1 DEF IsEdit

\* HidePanel, CycleViz and EditCycleViz are edits.
LEMMA DashboardEdits ==
  ASSUME NEW m, IsMemory(m), NEW p \in DOMAIN m.profile
  PROVE  /\ IsEdit(HidePanel(m, p), m) /\ DOMAIN HidePanel(m, p).profile = DOMAIN m.profile
         /\ IsEdit(CycleViz(m, p), m) /\ DOMAIN CycleViz(m, p).profile = DOMAIN m.profile
         /\ IsEdit(EditCycleViz(m, p), m)
<1>1. IsEdit(HidePanel(m, p), m) /\ DOMAIN HidePanel(m, p).profile = DOMAIN m.profile
  <2>1. PICK r, profile : r = HidePanel(m, p) /\ profile = [m.profile EXCEPT ![p].visible = ~@]
    OBVIOUS
  <2>2. r = [m EXCEPT !.profile = profile] /\ DOMAIN profile = DOMAIN m.profile
    BY <2>1 DEF HidePanel, IsMemory
  <2>3. IsEdit(r, m) /\ r.profile = profile
    BY <2>2, ProfileEdit
  <2>4. QED
    BY <2>1, <2>2, <2>3
<1>2. ASSUME NEW n, IsMemory(n), NEW v
      PROVE  IsEdit(Override(n, p, v), n) /\ Override(n, p, v).profile = n.profile
  <2>1. PICK r, overrides :
          /\ r = Override(n, p, v)
          /\ overrides = [q \in DOMAIN n.overrides \cup {p} |-> IF q = p THEN v ELSE n.overrides[q]]
    OBVIOUS
  <2>2. r = [n EXCEPT !.overrides = overrides]
    BY <2>1 DEF Override
  <2>3. r = [profile |-> n.profile, path |-> n.path, overrides |-> overrides, edit |-> n.edit,
             backup |-> n.backup, catalog |-> n.catalog, page |-> n.page, hudIds |-> n.hudIds,
             overlay |-> n.overlay]
    BY <1>2, <2>2 DEF IsMemory
  <2>4. QED
    BY <2>1, <2>3 DEF IsEdit
<1>3. IsEdit(CycleViz(m, p), m) /\ DOMAIN CycleViz(m, p).profile = DOMAIN m.profile
  BY <1>2 DEF CycleViz
<1>4. IsEdit(EditCycleViz(m, p), m)
  <2>1. PICK v, profile, n : /\ v = Next1(m.profile[p].viz)
                             /\ profile = [m.profile EXCEPT ![p].viz = v]
                             /\ n = [m EXCEPT !.profile[p].viz = v]
    OBVIOUS
  <2>2. n = [m EXCEPT !.profile = profile]
    BY <2>1 DEF IsMemory
  <2>3. IsEdit(n, m)
    BY <2>2, ProfileEdit
  <2>4. IsMemory(n)
    BY <2>3 DEF IsEdit, IsMemory
  <2>5. IsEdit(Override(n, p, v), n)
    BY <1>2, <2>4
  <2>6. IsEdit(Override(n, p, v), m)
    BY <2>3, <2>5 DEF IsEdit
  <2>7. QED
    BY <2>1, <2>6 DEF EditCycleViz
<1>5. QED
  BY <1>1, <1>3, <1>4

\* Every click on the dashboard.
LEMMA DashboardKeeps ==
  ASSUME EditIInv, NEW h \in DashboardHandlers PROVE Keeps(h)
<1>1. IsMemory(mem) /\ (intact => DOMAIN mem.profile = Panels)
  BY DEF EditIInv, Agrees, Whole
<1>2. CASE h = DashboardClicked(ShowAll(mem))
  <2>1. PICK profile, r : /\ profile = [q \in DOMAIN mem.profile |-> [mem.profile[q] EXCEPT !.visible = TRUE]]
                          /\ r = ShowAll(mem)
    OBVIOUS
  <2>2. r = [mem EXCEPT !.profile = profile] /\ DOMAIN profile = DOMAIN mem.profile
    BY <2>1 DEF ShowAll
  <2>3. IsEdit(r, mem) /\ r.profile = profile
    BY <1>1, <2>2, ProfileEdit
  <2>4. QED
    BY <1>1, <1>2, <2>1, <2>2, <2>3, EditKeeps
<1>3. ASSUME NEW p \in DOMAIN mem.profile,
             h \in {DashboardClicked(HidePanel(mem, p)), DashboardClicked(CycleViz(mem, p)),
                    Unsaved(EditCycleViz(mem, p))}
      PROVE  Keeps(h)
  <2>1. /\ IsEdit(HidePanel(mem, p), mem) /\ DOMAIN HidePanel(mem, p).profile = DOMAIN mem.profile
        /\ IsEdit(CycleViz(mem, p), mem) /\ DOMAIN CycleViz(mem, p).profile = DOMAIN mem.profile
        /\ IsEdit(EditCycleViz(mem, p), mem)
    BY <1>1, DashboardEdits
  <2>2. CASE h = DashboardClicked(HidePanel(mem, p))
    BY <1>1, <2>1, <2>2, EditKeeps
  <2>3. CASE h = DashboardClicked(CycleViz(mem, p))
    BY <1>1, <2>1, <2>3, EditKeeps
  <2>4. CASE h = Unsaved(EditCycleViz(mem, p))
    BY <2>1, <2>4, EditKeeps
  <2>5. QED
    BY <1>3, <2>2, <2>3, <2>4
<1>4. CASE h \in {Unsaved(EditReset(mem)), Unsaved(CancelEditSession(mem)), Unsaved(BeginEditSession(mem))}
  <2>1. IsEdit(EditReset(mem), mem) /\ IsEdit(CancelEditSession(mem), mem) /\ IsEdit(BeginEditSession(mem), mem)
    <3>1. PICK default, none, yes, no : default = MakeDefault /\ none = <<>> /\ yes = TRUE /\ no = FALSE
      OBVIOUS
    <3>2. /\ EditReset(mem) = [mem EXCEPT !.profile = default, !.overrides = none]
          /\ BeginEditSession(mem) = [mem EXCEPT !.backup = mem.profile, !.edit = yes]
          /\ CancelEditSession(mem) =
               [mem EXCEPT !.profile = mem.backup, !.overrides = none, !.edit = no, !.backup = none]
      BY <3>1 DEF EditReset, BeginEditSession, CancelEditSession
    <3>3. IsEdit(EditReset(mem), mem)
      BY <1>1, <3>2, ProfileReplaced
    <3>4. IsEdit(BeginEditSession(mem), mem)
      BY <1>1, <3>2 DEF IsMemory, IsEdit
    <3>5. IsEdit(CancelEditSession(mem), mem)
      BY <1>1, <3>2 DEF IsMemory, IsEdit
    <3>6. QED
      BY <3>3, <3>4, <3>5
  <2>2. QED
    BY <1>4, <2>1, EditKeeps
<1>5. CASE h = DashboardSaved(CommitEditSession(mem))
  <2>1. PICK f, r : f = FlushToProfile(mem) /\ r = CommitEditSession(mem)
    OBVIOUS
  <2>2. FlushedFrom(f, mem)
    BY <1>1, <2>1, FlushFacts
  <2>3. r = [f EXCEPT !.edit = FALSE, !.backup = <<>>]
    BY <2>1 DEF CommitEditSession
  <2>4. IsEdit(r, mem) /\ r.profile = f.profile
    BY <2>2, <2>3 DEF FlushedFrom, IsMemory, IsEdit
  <2>5. QED
    BY <1>1, <1>5, <2>1, <2>2, <2>4, EditKeeps DEF FlushedFrom
<1>6. QED
  BY <1>2, <1>3, <1>4, <1>5 DEF DashboardHandlers

\* What the metrics page hands on: its rows are the catalog's, and the bar and
\* the configuration have its choice.
PageChosen(m) ==
  /\ IsMemory(m) /\ CatalogRows(m.catalog)
  /\ m.path = mem.path /\ DOMAIN m.profile = DOMAIN mem.profile /\ DOMAIN m.catalog = DOMAIN mem.catalog
  /\ m.page.rows = DOMAIN m.catalog /\ m.page.logged \subseteq m.page.rows

\* The bar and the configuration already show the page's choice.
ReadyToSave(m) ==
  /\ PageChosen(m) /\ m.hudIds = m.page.hud \cap m.page.rows
  /\ m.overlay = BuildHudMetricsFromIds(m.hudIds)

\* The memory a save leaves.
SavedFrom(r, m) ==
  /\ Agrees(r) /\ r.path = m.path /\ SameLayout(r.profile, r.catalog)
  /\ DOMAIN r.profile = DOMAIN m.profile /\ r.page = m.page
  /\ Selects(r.catalog, m.catalog, m.page.logged, m.page.hud \cap m.page.rows)

\* The memory of MetricsSaved is one in which the copies agree.
LEMMA SavedMemory ==
  ASSUME EditIInv, NEW m, ReadyToSave(m)
  PROVE  SavedFrom(SyncMetricCatalogFromPages(m), m)
<1>1. PICK r : r = SyncMetricCatalogFromPages(m)
  OBVIOUS
<1>2. Taken(r, m)
  BY <1>1, TakenFacts DEF ReadyToSave, PageChosen
<1>3. PageAgrees(r)
  BY <1>2 DEF Taken, Selects, PageAgrees, ReadyToSave, PageChosen
<1>4. Agrees(r)
  BY <1>2, <1>3 DEF Taken, Selects, Agrees, ReadyToSave, PageChosen, EditIInv
<1>5. QED
  BY <1>1, <1>2, <1>4 DEF Taken, Selects, SavedFrom

\* The three files of one save.
ThreeSaves(w, r, n) ==
  /\ w[n + 1] = [file |-> r.path, content |-> r.profile]
  /\ w[n + 2] = [file |-> "catalog", content |-> r.catalog]
  /\ w[n + 3].file = "config"

\* The three writes of a save of the metrics page, in the order of the code.
LEMMA SaveAll ==
  ASSUME NEW r, NEW w, w = Saves(r, <<"profile", "catalog", "config">>)
  PROVE  ThreeSaves(w, r, 0) /\ Len(w) = 3 /\ IsList(w)
<1>1. PICK whats : whats = <<"profile", "catalog", "config">>
  OBVIOUS
<1>2. /\ IsList(whats) /\ DOMAIN whats = {1, 2, 3} /\ Len(whats) = 3
      /\ whats[1] = "profile" /\ whats[2] = "catalog" /\ whats[3] = "config"
  <2>1. PICK x, y, z : x = "profile" /\ y = "catalog" /\ z = "config"
    OBVIOUS
  <2>2. whats = <<x, y, z>>
    BY <1>1, <2>1
  <2>3. whats \in Seq({x, y, z}) /\ DOMAIN whats = {1, 2, 3} /\ Len(whats) = 3
    BY <2>2
  <2>4. IsList(whats)
    BY <2>3 DEF IsList
  <2>5. QED
    BY <2>1, <2>2, <2>3, <2>4
<1>3. AreSaves(w, r, whats)
  BY <1>1, <1>2, SavesFacts DEF IsList
<1>4. w[1] = Save(r, "profile") /\ w[2] = Save(r, "catalog") /\ w[3] = Save(r, "config")
  BY <1>2, <1>3 DEF AreSaves
<1>5. w[1] = [file |-> r.path, content |-> r.profile] /\ w[2] = [file |-> "catalog", content |-> r.catalog]
  BY <1>4, SavedFacts
<1>6. w[3].file = "config"
  <2>1. PICK c : c = [ids |-> r.hudIds]
    OBVIOUS
  <2>2. w[3] = [file |-> "config", content |-> c]
    BY <1>4, <2>1, SavedFacts
  <2>3. QED
    BY <2>2
<1>7. QED
  BY <1>2, <1>3, <1>5, <1>6 DEF AreSaves, ThreeSaves

\* The two writes of NotifyHudChanged.
LEMMA SaveTwo ==
  ASSUME NEW r, NEW w, w = Saves(r, <<"catalog", "config">>)
  PROVE  /\ w[1] = [file |-> "catalog", content |-> r.catalog] /\ w[2].file = "config"
         /\ Len(w) = 2 /\ IsList(w)
<1>1. PICK whats : whats = <<"catalog", "config">>
  OBVIOUS
<1>2. /\ IsList(whats) /\ DOMAIN whats = {1, 2} /\ Len(whats) = 2
      /\ whats[1] = "catalog" /\ whats[2] = "config"
  <2>1. PICK x, y : x = "catalog" /\ y = "config"
    OBVIOUS
  <2>2. whats = <<x, y>>
    BY <1>1, <2>1
  <2>3. whats \in Seq({x, y}) /\ DOMAIN whats = {1, 2} /\ Len(whats) = 2
    BY <2>2
  <2>4. IsList(whats)
    BY <2>3 DEF IsList
  <2>5. QED
    BY <2>1, <2>2, <2>3, <2>4
<1>3. AreSaves(w, r, whats)
  BY <1>1, <1>2, SavesFacts DEF IsList
<1>4. w[1] = Save(r, "catalog") /\ w[2] = Save(r, "config")
  BY <1>2, <1>3 DEF AreSaves
<1>5. w[1] = [file |-> "catalog", content |-> r.catalog]
  BY <1>4, SavedFacts
<1>6. w[2].file = "config"
  <2>1. PICK c : c = [ids |-> r.hudIds]
    OBVIOUS
  <2>2. w[2] = [file |-> "config", content |-> c]
    BY <1>4, <2>1, SavedFacts
  <2>3. QED
    BY <2>2
<1>7. QED
  BY <1>2, <1>3, <1>5, <1>6 DEF AreSaves

\* What the files are after a save.
LEMMA FilesAfterSave ==
  ASSUME EditIInv, NEW r, r.path \in Files, NEW w, NEW n \in {0, 2}, IsList(w), Len(w) = n + 3,
         ThreeSaves(w, r, n)
  PROVE  Written(disk, w)["catalog"] = r.catalog /\ Written(disk, w)[r.path] = r.profile
<1>1. /\ r.path \notin {"catalog", "config"} /\ r.path \in DOMAIN disk /\ "catalog" \in DOMAIN disk
      /\ DOMAIN w = 1 .. n + 3
  BY EditAssumption DEF EditIInv, DiskNames, IsList
<1>2. LastWrite(w, "catalog", n + 2)
  BY <1>1 DEF LastWrite, ThreeSaves
<1>3. CASE n = 0
  <2>1. LastWrite(w, r.path, n + 1)
    BY <1>1, <1>3 DEF LastWrite, ThreeSaves
  <2>2. QED
    BY <1>1, <1>2, <2>1, LastWritten DEF ThreeSaves
<1>4. CASE n = 2
  <2>1. LastWrite(w, r.path, n + 1)
    BY <1>1, <1>4 DEF LastWrite, ThreeSaves
  <2>2. QED
    BY <1>1, <1>2, <2>1, LastWritten DEF ThreeSaves
<1>5. QED
  BY <1>3, <1>4

\* A save of the metrics page: profile, catalog, configuration.
LEMMA MetricsSavedKeeps ==
  ASSUME EditIInv, NEW m, ReadyToSave(m), MetricsSaved(m) \in MetricsHandlers
  PROVE  Keeps(MetricsSaved(m))
<1>1. PICK h, r, w : /\ h = MetricsSaved(m) /\ r = SyncMetricCatalogFromPages(m)
                     /\ w = Saves(r, <<"profile", "catalog", "config">>)
  OBVIOUS
<1>2. h = [mem |-> r, writes |-> w]
  BY <1>1 DEF MetricsSaved, Handler
<1>3. SavedFrom(r, m)
  BY <1>1, SavedMemory
<1>4. ThreeSaves(w, r, 0) /\ Len(w) = 3 /\ IsList(w)
  BY <1>1, SaveAll
<1>5. DOMAIN w = {1, 2, 3} /\ r.path \in Files /\ r.path # "catalog"
  BY <1>3, <1>4, EditAssumption DEF IsList, SavedFrom, Agrees
<1>6. Written(disk, w)["catalog"] = r.catalog /\ Written(disk, w)[r.path] = r.profile
  BY <1>4, <1>5, FilesAfterSave
<1>7. intact => Faithful(h)
  <2> HAVE intact
  <2>1. DOMAIN r.profile = Panels /\ DOMAIN r.catalog = Panels
    BY <1>3 DEF SavedFrom, Selects, ReadyToSave, PageChosen, EditIInv, Whole
  <2>2. LoggedMetricIds(r.catalog) = r.page.logged
    BY <1>3 DEF SavedFrom, Agrees, PageAgrees
  <2>3. w[1].file = r.path /\ w[1].content = r.profile /\ w[2].content = r.catalog /\ w[3].file = "config"
    BY <1>4 DEF ThreeSaves
  <2>4. "config" \notin Files
    BY EditAssumption
  <2>5. QED
    BY <1>1, <1>2, <1>5, <2>1, <2>2, <2>3, <2>4 DEF Faithful
<1>8. QED
  BY <1>1, <1>2, <1>3, <1>4, <1>5, <1>6, <1>7 DEF Keeps, SavedFrom

\* NotifyHudChanged: the bar's choice, which is saved before the rest, leaves the
\* logging choice alone.
LEMMA NotifiedFacts ==
  ASSUME NEW m, PageChosen(m), NEW n, n = NotifyHudChanged(m)
  PROVE  ReadyToSave(n) /\ LoggedMetricIds(n.catalog) = LoggedMetricIds(m.catalog)
<1>1. PICK ids, c, shown : /\ ids = m.page.hud \cap m.page.rows /\ c = UpdateHudSelection(m.catalog, ids)
                           /\ shown = BuildHudMetricsFromIds(ids)
  OBVIOUS
<1>2. Selects(c, m.catalog, LoggedMetricIds(m.catalog), ids)
  BY <1>1, HudUpdated DEF PageChosen
<1>3. n = [m EXCEPT !.hudIds = ids, !.catalog = c, !.overlay = shown]
  BY <1>1 DEF NotifyHudChanged, PageChosen, IsMemory
<1>4. n = [profile |-> m.profile, path |-> m.path, overrides |-> m.overrides, edit |-> m.edit,
           backup |-> m.backup, catalog |-> c, page |-> m.page, hudIds |-> ids, overlay |-> shown]
  BY <1>3 DEF PageChosen, IsMemory
<1>5. IsMemory(n)
  BY <1>4 DEF PageChosen, IsMemory
<1>6. PageChosen(n)
  BY <1>2, <1>4, <1>5 DEF PageChosen, Selects
<1>7. QED
  BY <1>1, <1>2, <1>4, <1>6 DEF ReadyToSave, Selects

\* Two lists of writes, one after the other.
FiveWrites(w, a, b) ==
  /\ IsList(w) /\ Len(w) = 5 /\ DOMAIN w = {1, 2, 3, 4, 5}
  /\ w[1] = a[1] /\ w[2] = a[2] /\ w[3] = b[1] /\ w[4] = b[2] /\ w[5] = b[3]

\* The two saves of a click on the bar's column, in one list.
LEMMA TwoLists ==
  ASSUME NEW a, NEW b, IsList(a), IsList(b), Len(a) = 2, Len(b) = 3, NEW w, w = a \o b
  PROVE  FiveWrites(w, a, b)
<1>1. PICK S : a \in Seq(S)
  BY DEF IsList
<1>2. PICK T : b \in Seq(T)
  BY DEF IsList
<1>3. a \in Seq(S \cup T) /\ b \in Seq(S \cup T)
  BY <1>1, <1>2
<1>4. /\ a \o b \in Seq(S \cup T) /\ Len(a \o b) = Len(a) + Len(b)
      /\ \A i \in 1 .. Len(a) + Len(b) : (a \o b)[i] = IF i <= Len(a) THEN a[i] ELSE b[i - Len(a)]
  BY <1>3, ConcatProperties
<1>5. /\ w \in Seq(S \cup T) /\ Len(w) = 5
      /\ \A i \in 1 .. 5 : w[i] = IF i <= 2 THEN a[i] ELSE b[i - 2]
  BY <1>4
<1>6. DOMAIN w = {1, 2, 3, 4, 5} /\ IsList(w)
  BY <1>5 DEF IsList
<1>7. QED
  BY <1>5, <1>6 DEF FiveWrites

\* A click on the bar's column: two writes and then three.
LEMMA HudClickedKeeps ==
  ASSUME EditIInv, NEW m, PageChosen(m), m.catalog = mem.catalog, HudClicked(m) \in MetricsHandlers
  PROVE  Keeps(HudClicked(m))
<1>1. PICK h, n, r, a, b, w :
        /\ h = HudClicked(m) /\ n = NotifyHudChanged(m) /\ r = SyncMetricCatalogFromPages(n)
        /\ a = Saves(n, <<"catalog", "config">>) /\ b = Saves(r, <<"profile", "catalog", "config">>)
        /\ w = a \o b
  OBVIOUS
<1>2. h = [mem |-> r, writes |-> w]
  <2>1. MetricsSaved(n) = [mem |-> r, writes |-> b]
    BY <1>1 DEF MetricsSaved, Handler
  <2>2. h = [MetricsSaved(n) EXCEPT !.writes = w]
    BY <1>1, <2>1 DEF HudClicked
  <2>3. QED
    BY <2>1, <2>2
<1>3. ReadyToSave(n) /\ LoggedMetricIds(n.catalog) = LoggedMetricIds(m.catalog)
  BY <1>1, NotifiedFacts
<1>4. SavedFrom(r, n)
  BY <1>1, <1>3, SavedMemory
<1>5. a[1] = [file |-> "catalog", content |-> n.catalog] /\ a[2].file = "config" /\ Len(a) = 2 /\ IsList(a)
  BY <1>1, SaveTwo
<1>6. ThreeSaves(b, r, 0) /\ Len(b) = 3 /\ IsList(b)
  BY <1>1, SaveAll
<1>7. /\ IsList(w) /\ Len(w) = 5 /\ DOMAIN w = {1, 2, 3, 4, 5}
      /\ w[1] = a[1] /\ w[2] = a[2] /\ w[3] = b[1] /\ w[4] = b[2] /\ w[5] = b[3]
  <2>1. IsList(a) /\ IsList(b) /\ Len(a) = 2 /\ Len(b) = 3 /\ w = a \o b
    BY <1>1, <1>5, <1>6
  <2>2. FiveWrites(w, a, b)
    BY <2>1, TwoLists
  <2>3. QED
    BY <2>2 DEF FiveWrites
<1>8. ThreeSaves(w, r, 2)
  BY <1>6, <1>7 DEF ThreeSaves
<1>9. r.path \in Files /\ r.path # "catalog" /\ "config" \notin Files
  BY <1>4, EditAssumption DEF SavedFrom, Agrees
<1>10. Written(disk, w)["catalog"] = r.catalog /\ Written(disk, w)[r.path] = r.profile
  BY <1>7, <1>8, <1>9, FilesAfterSave
<1>11. intact => Faithful(h)
  <2> HAVE intact
  <2>1. DOMAIN r.profile = Panels /\ DOMAIN r.catalog = Panels /\ DOMAIN n.catalog = Panels
    BY <1>3, <1>4 DEF SavedFrom, Selects, ReadyToSave, PageChosen, EditIInv, Whole
  <2>2. LoggedMetricIds(r.catalog) = r.page.logged /\ LoggedMetricIds(n.catalog) = mem.page.logged
    BY <1>3, <1>4 DEF SavedFrom, EditIInv, Agrees, PageAgrees
  <2>3. /\ w[1].file = "catalog" /\ w[1].content = n.catalog /\ w[2].file = "config"
        /\ w[3].file = r.path /\ w[3].content = r.profile
        /\ w[4].file = "catalog" /\ w[4].content = r.catalog /\ w[5].file = "config"
    BY <1>5, <1>6, <1>7 DEF ThreeSaves
  <2>4. ASSUME NEW i \in {1, 2, 3, 4, 5}
        PROVE  /\ w[i].file \in Files => DOMAIN w[i].content = Panels
               /\ w[i].file = "catalog" =>
                    /\ DOMAIN w[i].content = Panels
                    /\ LoggedMetricIds(w[i].content) \in {mem.page.logged, r.page.logged}
    <3>1. "catalog" \notin Files
      BY EditAssumption
    <3>2. CASE i = 1
      BY <2>1, <2>2, <2>3, <3>1, <3>2
    <3>3. CASE i = 3
      BY <1>9, <2>1, <2>3, <3>3
    <3>4. CASE i = 4
      BY <2>1, <2>2, <2>3, <3>1, <3>4
    <3>5. CASE i \in {2, 5}
      BY <1>9, <2>3, <3>5
    <3>6. QED
      BY <2>4, <3>2, <3>3, <3>4, <3>5
  <2>5. h.mem = r /\ h.writes = w /\ h \in MetricsHandlers
    BY <1>1, <1>2
  <2>6. QED
    BY <1>7, <2>1, <2>4, <2>5 DEF Faithful
<1>12. QED
  BY <1>1, <1>2, <1>4, <1>7, <1>9, <1>10, <1>11 DEF Keeps, SavedFrom

\* A click before it is handled: the page has another choice.
LEMMA PageClick ==
  ASSUME EditIInv, NEW logged \in SUBSET mem.page.rows, NEW bar, NEW m,
         m = [mem EXCEPT !.page = [rows |-> mem.page.rows, logged |-> logged, hud |-> bar]]
  PROVE  /\ PageChosen(m) /\ m.catalog = mem.catalog
         /\ bar = mem.page.hud => ReadyToSave(m)
<1>1. /\ IsMemory(mem) /\ CatalogRows(mem.catalog) /\ mem.page.rows = DOMAIN mem.catalog
      /\ mem.hudIds = mem.page.hud \cap mem.page.rows /\ mem.overlay = BuildHudMetricsFromIds(mem.hudIds)
  BY DEF EditIInv, Agrees, PageAgrees
<1>2. PICK page : page = [rows |-> mem.page.rows, logged |-> logged, hud |-> bar]
  OBVIOUS
<1>3. m = [profile |-> mem.profile, path |-> mem.path, overrides |-> mem.overrides, edit |-> mem.edit,
           backup |-> mem.backup, catalog |-> mem.catalog, page |-> page, hudIds |-> mem.hudIds,
           overlay |-> mem.overlay]
  BY <1>1, <1>2 DEF IsMemory
<1>4. IsMemory(m)
  <2>1. page = [rows |-> page.rows, logged |-> page.logged, hud |-> page.hud]
    BY <1>2
  <2>2. m.page = page
    BY <1>3
  <2>3. m = [profile |-> m.profile, path |-> m.path, overrides |-> m.overrides, edit |-> m.edit,
             backup |-> m.backup, catalog |-> m.catalog, page |-> m.page, hudIds |-> m.hudIds,
             overlay |-> m.overlay]
    BY <1>3
  <2>4. QED
    BY <2>1, <2>2, <2>3 DEF IsMemory
<1>5. PageChosen(m)
  BY <1>1, <1>2, <1>3, <1>4 DEF PageChosen
<1>6. QED
  BY <1>1, <1>2, <1>3, <1>5 DEF ReadyToSave

\* Every click on the metrics page.
LEMMA MetricsKeeps ==
  ASSUME EditIInv, NEW h \in MetricsHandlers PROVE Keeps(h)
<1>1. IsMemory(mem) /\ mem.page.logged \in SUBSET mem.page.rows
  BY DEF EditIInv, Agrees, PageAgrees, LoggedMetricIds
<1>2. ASSUME NEW logged \in LoggedClicks, h = MetricsSaved([mem EXCEPT !.page.logged = logged])
      PROVE  Keeps(h)
  <2>1. PICK m, bar : m = [mem EXCEPT !.page.logged = logged] /\ bar = mem.page.hud
    OBVIOUS
  <2>2. m = [mem EXCEPT !.page = [rows |-> mem.page.rows, logged |-> logged, hud |-> bar]]
    BY <1>1, <2>1 DEF IsMemory
  <2>3. logged \in SUBSET mem.page.rows
    BY <1>1, <1>2 DEF LoggedClicks, Toggled
  <2>4. ReadyToSave(m)
    BY <2>1, <2>2, <2>3, PageClick
  <2>5. QED
    BY <1>2, <2>1, <2>4, MetricsSavedKeeps
<1>3. ASSUME NEW bar \in HudClicks, h = HudClicked([mem EXCEPT !.page.hud = bar])
      PROVE  Keeps(h)
  <2>1. PICK m, logged : m = [mem EXCEPT !.page.hud = bar] /\ logged = mem.page.logged
    OBVIOUS
  <2>2. m = [mem EXCEPT !.page = [rows |-> mem.page.rows, logged |-> logged, hud |-> bar]]
    BY <1>1, <2>1 DEF IsMemory
  <2>3. PageChosen(m) /\ m.catalog = mem.catalog
    BY <1>1, <2>1, <2>2, PageClick
  <2>4. QED
    BY <1>3, <2>1, <2>3, HudClickedKeeps
<1>4. ASSUME h = HudClicked([mem EXCEPT !.page.hud = @ \cup mem.page.rows, !.page.logged = mem.page.rows])
      PROVE  Keeps(h)
  <2>1. PICK m, bar, shown, all, n :
          /\ bar = mem.page.hud \cup mem.page.rows
          /\ shown = [rows |-> mem.page.rows, logged |-> mem.page.logged, hud |-> bar]
          /\ all = [rows |-> mem.page.rows, logged |-> mem.page.rows, hud |-> bar]
          /\ n = [mem EXCEPT !.page.hud = @ \cup mem.page.rows]
          /\ m = [mem EXCEPT !.page.hud = @ \cup mem.page.rows, !.page.logged = mem.page.rows]
    OBVIOUS
  <2>2. PICK page : page = mem.page
    OBVIOUS
  <2>3. page = [rows |-> page.rows, logged |-> page.logged, hud |-> page.hud]
    BY <1>1, <2>2 DEF IsMemory
  <2>4. [page EXCEPT !.hud = bar] = shown /\ [shown EXCEPT !.logged = page.rows] = all
    <3>1. PICK ro, lo, hu : page = [rows |-> ro, logged |-> lo, hud |-> hu]
      BY <2>3
    <3>2. shown = [rows |-> ro, logged |-> lo, hud |-> bar] /\ all = [rows |-> ro, logged |-> ro, hud |-> bar]
      BY <2>1, <2>2, <3>1
    <3>3. [page EXCEPT !.hud = bar] = shown
      BY <3>1, <3>2
    <3>4. page.rows = ro
      BY <3>1
    <3>5. [shown EXCEPT !.logged = ro] = all
      BY <3>2
    <3>6. QED
      BY <3>3, <3>4, <3>5
  <2>5. n = [mem EXCEPT !.page = shown] /\ n.page = shown
    <3>1. n = [mem EXCEPT !.page = [page EXCEPT !.hud = bar]]
      BY <1>1, <2>1, <2>2 DEF IsMemory
    <3>2. QED
      BY <1>1, <2>4, <3>1 DEF IsMemory
  <2>6. m = [n EXCEPT !.page = all]
    <3>1. m = [n EXCEPT !.page.logged = page.rows]
      BY <2>1, <2>2
    <3>2. m = [n EXCEPT !.page = [shown EXCEPT !.logged = page.rows]]
      BY <1>1, <2>5, <3>1 DEF IsMemory
    <3>3. QED
      BY <2>4, <3>2
  <2>7. m = [mem EXCEPT !.page = [rows |-> mem.page.rows, logged |-> mem.page.rows, hud |-> bar]]
    <3>1. m = [mem EXCEPT !.page = all]
      BY <1>1, <2>5, <2>6 DEF IsMemory
    <3>2. QED
      BY <2>1, <3>1
  <2>8. PageChosen(m) /\ m.catalog = mem.catalog
    BY <2>7, PageClick
  <2>9. QED
    BY <1>4, <2>1, <2>8, HudClickedKeeps
<1>5. QED
  BY <1>2, <1>3, <1>4 DEF MetricsHandlers

\* Lists of two writes and of one.
LEMMA TwoWrites ==
  ASSUME NEW x, NEW y, NEW w, w = <<x, y>>
  PROVE  w[1] = x /\ w[2] = y /\ DOMAIN w = {1, 2} /\ IsList(w)
<1>1. w \in Seq({x, y})
  OBVIOUS
<1>2. IsList(w)
  BY <1>1 DEF IsList
<1>3. QED
  BY <1>2

LEMMA OneWrite ==
  ASSUME NEW x, NEW w, w = <<x>>
  PROVE  w[1] = x /\ DOMAIN w = {1} /\ IsList(w)
<1>1. w \in Seq({x})
  OBVIOUS
<1>2. IsList(w)
  BY <1>1 DEF IsList
<1>3. QED
  BY <1>2

\* The dialog writes the other file.
LEMMA ExportKeeps ==
  ASSUME EditIInv, NEW h \in Export PROVE Keeps(h)
<1>1. PICK f, m, x, y, w :
        /\ f = FlushToProfile(mem) /\ m = SyncMetricCatalogFromPages(f)
        /\ x = [file |-> Other, content |-> m.profile] /\ y = [file |-> "catalog", content |-> m.catalog]
        /\ w = <<x, y>>
  OBVIOUS
<1>2. h = [mem |-> m, writes |-> w]
  BY <1>1, SavedFacts DEF Export
<1>3. FlushedFrom(f, mem)
  BY <1>1, FlushFacts DEF EditIInv, Agrees
<1>4. ReadyToSave(f)
  BY <1>3 DEF FlushedFrom, ReadyToSave, PageChosen, EditIInv, Agrees, PageAgrees, LoggedMetricIds
<1>5. SavedFrom(m, f)
  BY <1>1, <1>4, SavedMemory
<1>6. w[1] = x /\ w[2] = y /\ DOMAIN w = {1, 2} /\ IsList(w)
  BY <1>1, TwoWrites
<1>7. /\ m.path \in Files /\ m.path = mem.path /\ m.path # "catalog" /\ Other # "catalog"
      /\ m.path \in DOMAIN disk /\ Other \in DOMAIN disk /\ "catalog" \in DOMAIN disk
  BY <1>3, <1>5, EditAssumption DEF SavedFrom, FlushedFrom, Agrees, EditIInv, DiskNames, Files
<1>8. Written(disk, w)["catalog"] = m.catalog
  <2>1. LastWrite(w, "catalog", 2)
    BY <1>1, <1>6, <1>7 DEF LastWrite
  <2>2. QED
    BY <1>1, <1>6, <1>7, <2>1, LastWritten
<1>9. SameLayout(Written(disk, w)[m.path], m.catalog)
  <2>1. CASE m.path = Other
    <3>1. LastWrite(w, m.path, 1)
      BY <1>1, <1>6, <1>7, <2>1 DEF LastWrite
    <3>2. Written(disk, w)[m.path] = m.profile
      BY <1>1, <1>6, <1>7, <3>1, LastWritten
    <3>3. QED
      BY <1>5, <3>2 DEF SavedFrom
  <2>2. CASE m.path # Other
    <3>1. Written(disk, w)[m.path] = disk[m.path]
      <4>1. \A i \in DOMAIN w : w[i].file # m.path
        BY <1>1, <1>6, <1>7, <2>2
      <4>2. QED
        BY <1>7, <4>1, NotWritten
    <3>2. SameLayout(disk[m.path], f.catalog)
      BY <1>3, <1>7 DEF FlushedFrom, EditIInv
    <3>3. QED
      BY <1>5, <3>1, <3>2 DEF SavedFrom, Selects, SameLayout
  <2>3. QED
    BY <2>1, <2>2
<1>10. intact => Faithful(h)
  <2> HAVE intact
  <2>1. DOMAIN m.profile = Panels /\ DOMAIN m.catalog = Panels
    BY <1>3, <1>5 DEF SavedFrom, Selects, FlushedFrom, EditIInv, Whole
  <2>2. m.page.logged = mem.page.logged /\ LoggedMetricIds(m.catalog) = mem.page.logged
    BY <1>3, <1>5 DEF SavedFrom, Selects, FlushedFrom
  <2>3. h.mem = m /\ h.writes = w
    BY <1>2
  <2>4. /\ w[1].file = Other /\ w[1].content = m.profile
        /\ w[2].file = "catalog" /\ w[2].content = m.catalog
    BY <1>1, <1>6
  <2>5. "catalog" \notin Files
    BY EditAssumption
  <2>6. QED
    BY <1>6, <1>7, <2>1, <2>2, <2>3, <2>4, <2>5 DEF Faithful
<1>11. QED
  BY <1>2, <1>5, <1>6, <1>8, <1>9, <1>10 DEF Keeps, SavedFrom

\* What a client that starts takes from its files: the profile or the default,
\* and the catalog of the file or, without one, that in memory.
HomeProfile(d) == IF d[Home] = Torn THEN MakeDefault ELSE d[Home]
KnownCatalog(d, catalog) == IF d["catalog"] = Torn THEN catalog ELSE d["catalog"]

\* The memory initD2DAndPages makes of the files d.
Opened(r, d, catalog) ==
  /\ Agrees(r) /\ r.path = Home /\ DOMAIN r.profile = DOMAIN HomeProfile(d)
  /\ IsBuilt(r.catalog, KnownCatalog(d, catalog), HomeProfile(d))
  /\ SameLayout(d[Home], r.catalog)

\* initD2DAndPages makes such a memory of any files.
LEMMA OpenFacts ==
  ASSUME NEW d, NEW hudIds, NEW catalog
  PROVE  Opened(InitD2DAndPages(d, hudIds, catalog), d, catalog)
<1>1. PICK r, none, no, page, shown, fresh, past :
        /\ r = InitD2DAndPages(d, hudIds, catalog) /\ none = <<>> /\ no = FALSE /\ shown = {}
        /\ page = [rows |-> {}, logged |-> {}, hud |-> {}] /\ past = d["catalog"]
        /\ fresh = [profile |-> HomeProfile(d), path |-> Home, overrides |-> none, edit |-> no,
                    backup |-> none, catalog |-> catalog, page |-> page, hudIds |-> hudIds,
                    overlay |-> shown]
  OBVIOUS
<1>2. r = SyncPagesFromMetricCatalog(LoadMetricCatalog(fresh, past))
  BY <1>1 DEF InitD2DAndPages, HomeProfile
<1>3. IsMemory(fresh) /\ fresh.path \in Files
  <2>1. page = [rows |-> page.rows, logged |-> page.logged, hud |-> page.hud]
    BY <1>1
  <2>2. QED
    BY <1>1, <2>1 DEF IsMemory, Files
<1>4. Shown(r, fresh, past)
  BY <1>2, <1>3, ShownFacts
<1>5. fresh.path = Home /\ fresh.profile = HomeProfile(d) /\ fresh.catalog = catalog
  BY <1>1
<1>6. InForce(fresh, past) = KnownCatalog(d, catalog)
  BY <1>1, <1>5 DEF InForce, KnownCatalog
<1>7. SameLayout(HomeProfile(d), r.catalog)
  BY <1>4, <1>5, BuiltLayout DEF Shown
<1>8. SameLayout(d[Home], r.catalog)
  <2>1. CASE d[Home] = Torn
    <3>1. DOMAIN d[Home] = {}
      BY <2>1 DEF Torn
    <3>2. QED
      BY <3>1 DEF SameLayout
  <2>2. CASE d[Home] # Torn
    BY <1>7, <2>2 DEF HomeProfile
  <2>3. QED
    BY <2>1, <2>2
<1>9. QED
  BY <1>1, <1>4, <1>5, <1>6, <1>8 DEF Shown, Opened

\* With all panels in both, what was to be logged is to be logged.
LEMMA OpenedKeepsLogging ==
  ASSUME NEW r, NEW d, NEW catalog, Opened(r, d, catalog), DOMAIN r.profile = DOMAIN KnownCatalog(d, catalog)
  PROVE  r.page.logged = LoggedMetricIds(KnownCatalog(d, catalog))
<1>1. LoggedMetricIds(r.catalog) = LoggedMetricIds(KnownCatalog(d, catalog))
  BY KnownKeepLogging DEF Opened
<1>2. QED
  BY <1>1 DEF Opened, Agrees, PageAgrees

\* An import that does not load, and one that does.
LEMMA ImportKeeps ==
  ASSUME EditIInv, NEW h \in Import PROVE Keeps(h)
<1>1. IsMemory(mem) /\ Other \in Files /\ Other \in DOMAIN disk /\ "catalog" \in DOMAIN disk
  BY DEF EditIInv, Agrees, Files, DiskNames
<1>2. CASE disk[Other] = Torn
  <2>1. PICK kept \in SUBSET DOMAIN mem.profile :
          h = Unsaved([mem EXCEPT !.path = Other, !.profile = Restrict(@, kept)])
    BY <1>2 DEF Import, ImportFails
  <2>2. PICK m, profile : /\ m = [mem EXCEPT !.path = Other, !.profile = Restrict(@, kept)]
                          /\ profile = Restrict(mem.profile, kept)
    OBVIOUS
  <2>3. m = [mem EXCEPT !.path = Other, !.profile = profile]
    BY <1>1, <2>2 DEF IsMemory
  <2>4. m = [profile |-> profile, path |-> Other, overrides |-> mem.overrides, edit |-> mem.edit,
             backup |-> mem.backup, catalog |-> mem.catalog, page |-> mem.page,
             hudIds |-> mem.hudIds, overlay |-> mem.overlay]
    BY <1>1, <2>3 DEF IsMemory
  <2>5. SameSelection(m) /\ m.path = Other
    <3>1. mem.page = [rows |-> mem.page.rows, logged |-> mem.page.logged, hud |-> mem.page.hud]
      BY <1>1 DEF IsMemory
    <3>2. m.page = mem.page
      BY <2>4
    <3>3. IsMemory(m)
      BY <2>4, <3>1, <3>2 DEF IsMemory
    <3>4. QED
      BY <2>4, <3>3 DEF SameSelection
  <2>6. SameLayout(disk[m.path], m.catalog)
    <3>1. DOMAIN disk[m.path] = {}
      BY <1>2, <2>5 DEF Torn
    <3>2. QED
      BY <3>1 DEF SameLayout
  <2>7. Keeps(Unsaved(m))
    BY <1>1, <2>5, <2>6, UnsavedKeeps
  <2>8. QED
    BY <2>1, <2>2, <2>7
<1>3. CASE disk[Other] # Torn
  <2>1. PICK m, l, r, x, w, past :
          /\ m = [mem EXCEPT !.path = Other, !.profile = disk[Other]] /\ past = disk["catalog"]
          /\ l = LoadMetricCatalog(m, past) /\ r = SyncPagesFromMetricCatalog(l)
          /\ x = Save(l, "catalog") /\ w = <<x>>
    OBVIOUS
  <2>2. h = [mem |-> r, writes |-> w]
    BY <1>3, <2>1 DEF Import
  <2>3. m = [profile |-> disk[Other], path |-> Other, overrides |-> mem.overrides, edit |-> mem.edit,
             backup |-> mem.backup, catalog |-> mem.catalog, page |-> mem.page,
             hudIds |-> mem.hudIds, overlay |-> mem.overlay]
    BY <1>1, <2>1 DEF IsMemory
  <2>4. IsMemory(m)
    <3>1. m.page = mem.page
      BY <2>3
    <3>2. mem.page = [rows |-> mem.page.rows, logged |-> mem.page.logged, hud |-> mem.page.hud]
      BY <1>1 DEF IsMemory
    <3>3. QED
      BY <2>3, <3>1, <3>2 DEF IsMemory
  <2>5. m.path = Other /\ m.profile = disk[Other] /\ m.catalog = mem.catalog
    BY <2>3
  <2>6. r = SyncPagesFromMetricCatalog(LoadMetricCatalog(m, past))
    BY <2>1
  <2>7. Shown(r, m, past) /\ r.catalog = LoadMetricCatalog(m, past).catalog
    BY <1>1, <2>4, <2>5, <2>6, ShownFacts
  <2>8. x = [file |-> "catalog", content |-> r.catalog]
    BY <2>1, <2>7, SavedFacts
  <2>9. w[1] = x /\ DOMAIN w = {1} /\ IsList(w)
    BY <2>1, OneWrite
  <2>10. Written(disk, w)["catalog"] = r.catalog
    <3>1. LastWrite(w, "catalog", 1)
      BY <2>8, <2>9 DEF LastWrite
    <3>2. QED
      BY <1>1, <2>8, <2>9, <3>1, LastWritten
  <2>11. Written(disk, w)[Other] = disk[Other]
    <3>1. w[1].file = "catalog" /\ Other # "catalog"
      BY <1>1, <2>8, <2>9, EditAssumption
    <3>2. \A i \in DOMAIN w : w[i].file # Other
      BY <2>9, <3>1
    <3>3. QED
      BY <1>1, <3>2, NotWritten
  <2>12. SameLayout(disk[Other], r.catalog)
    BY <2>5, <2>7, BuiltLayout DEF Shown
  <2>13. InForce(m, past) = mem.catalog
    BY <2>1, <2>5 DEF InForce, EditIInv
  <2>14. intact => Faithful(h)
    <3> HAVE intact
    <3>1. DOMAIN r.profile = Panels /\ DOMAIN r.catalog = Panels /\ DOMAIN mem.catalog = Panels
          /\ DOMAIN m.profile = Panels
      BY <1>1, <1>3, <2>5, <2>7 DEF Shown, IsBuilt, EditIInv, Whole
    <3>2. LoggedMetricIds(r.catalog) = LoggedMetricIds(mem.catalog)
      BY <2>7, <2>13, <3>1, KnownKeepLogging DEF Shown
    <3>3. r.page.logged = mem.page.logged /\ LoggedMetricIds(r.catalog) = mem.page.logged
      BY <2>7, <3>2 DEF Shown, Agrees, PageAgrees, EditIInv
    <3>4. h.mem = r /\ h.writes = w /\ w[1].file = "catalog" /\ w[1].content = r.catalog
      BY <2>2, <2>8, <2>9
    <3>5. "catalog" \notin Files
      BY EditAssumption
    <3>6. QED
      BY <2>9, <3>1, <3>3, <3>4, <3>5 DEF Faithful
  <2>15. QED
    BY <2>2, <2>5, <2>7, <2>9, <2>10, <2>11, <2>12, <2>14 DEF Shown, Keeps
<1>4. QED
  BY <1>2, <1>3

\* A lost target: the pages are made again from the files.
LEMMA RebuiltKeeps ==
  ASSUME EditIInv, NEW h \in PagesRebuilt PROVE Keeps(h)
<1>1. PICK r, w, whats : /\ r = InitD2DAndPages(disk, mem.hudIds, mem.catalog)
                         /\ whats = <<"catalog">> /\ w = Saves(r, whats)
  OBVIOUS
<1>2. h = [mem |-> r, writes |-> w]
  BY <1>1 DEF PagesRebuilt, Handler
<1>3. Opened(r, disk, mem.catalog) /\ KnownCatalog(disk, mem.catalog) = mem.catalog
  BY <1>1, OpenFacts DEF KnownCatalog, EditIInv
<1>4. IsList(w) /\ DOMAIN w = {1} /\ w[1] = [file |-> "catalog", content |-> r.catalog]
  <2>1. PICK x : x = "catalog"
    OBVIOUS
  <2>2. whats \in Seq({x}) /\ DOMAIN whats = {1} /\ whats[1] = x
    BY <1>1, <2>1
  <2>3. AreSaves(w, r, whats)
    BY <1>1, <2>2, SavesFacts
  <2>4. IsList(w) /\ DOMAIN w = {1} /\ w[1] = Save(r, "catalog")
    BY <2>1, <2>2, <2>3 DEF AreSaves
  <2>5. QED
    BY <2>4, SavedFacts
<1>5. Home # "catalog" /\ Home \in DOMAIN disk /\ "catalog" \in DOMAIN disk
  BY EditAssumption DEF EditIInv, DiskNames, Files
<1>6. Written(disk, w)["catalog"] = r.catalog
  <2>1. LastWrite(w, "catalog", 1)
    BY <1>4 DEF LastWrite
  <2>2. QED
    BY <1>4, <1>5, <2>1, LastWritten
<1>7. Written(disk, w)[Home] = disk[Home]
  <2>1. w[1].file = "catalog"
    BY <1>4
  <2>2. \A i \in DOMAIN w : w[i].file # Home
    BY <1>4, <1>5, <2>1
  <2>3. QED
    BY <1>5, <2>2, NotWritten
<1>8. intact => Faithful(h)
  <2> HAVE intact
  <2>1. DOMAIN HomeProfile(disk) = Panels /\ DOMAIN mem.catalog = Panels
    BY DEF HomeProfile, EditIInv, Whole, MakeDefault, Files
  <2>2. DOMAIN r.profile = Panels /\ DOMAIN r.catalog = Panels
    BY <1>3, <2>1 DEF Opened, IsBuilt
  <2>3. r.page.logged = LoggedMetricIds(mem.catalog)
    BY <1>3, <2>1, <2>2, OpenedKeepsLogging
  <2>4. r.page.logged = mem.page.logged /\ LoggedMetricIds(r.catalog) = mem.page.logged
    BY <1>3, <2>3 DEF Opened, Agrees, PageAgrees, EditIInv
  <2>5. h.mem = r /\ h.writes = w /\ w[1].file = "catalog" /\ w[1].content = r.catalog
    BY <1>2, <1>4
  <2>6. "catalog" \notin Files
    BY EditAssumption
  <2>7. QED
    BY <1>4, <2>2, <2>4, <2>5, <2>6 DEF Faithful
<1>9. QED
  BY <1>2, <1>3, <1>4, <1>6, <1>7, <1>8 DEF Opened, Keeps

\* The end of the window and the next start.
LEMMA RestartKeeps ==
  ASSUME EditIInv, NEW h \in Restart PROVE Keeps(h)
<1>1. PICK f, two, a, d, r, one, b, w :
        /\ f = FlushToProfile(mem) /\ two = <<"profile", "config">> /\ a = Saves(f, two)
        /\ d = Written(disk, a) /\ r = Create(d)
        /\ one = <<"catalog">> /\ b = Saves(r, one) /\ w = a \o b
  OBVIOUS
<1>2. h = [mem |-> r, writes |-> w]
  BY <1>1 DEF Restart
<1>3. FlushedFrom(f, mem)
  BY <1>1, FlushFacts DEF EditIInv, Agrees
<1>4. IsList(a) /\ Len(a) = 2 /\ a[1] = [file |-> f.path, content |-> f.profile] /\ a[2].file = "config"
  <2>1. PICK x, y : x = "profile" /\ y = "config"
    OBVIOUS
  <2>2. two \in Seq({x, y}) /\ DOMAIN two = {1, 2} /\ Len(two) = 2 /\ two[1] = x /\ two[2] = y
    BY <1>1, <2>1
  <2>3. AreSaves(a, f, two)
    BY <1>1, <2>2, SavesFacts
  <2>4. IsList(a) /\ Len(a) = 2 /\ a[1] = Save(f, "profile") /\ a[2] = Save(f, "config")
    BY <2>1, <2>2, <2>3 DEF AreSaves
  <2>5. PICK c : c = [ids |-> f.hudIds]
    OBVIOUS
  <2>6. a[1] = [file |-> f.path, content |-> f.profile] /\ a[2] = [file |-> "config", content |-> c]
    BY <2>4, <2>5, SavedFacts
  <2>7. a[2].file = "config"
    BY <2>6
  <2>8. QED
    BY <2>4, <2>6, <2>7
<1>5. IsList(b) /\ Len(b) = 1 /\ b[1] = [file |-> "catalog", content |-> r.catalog]
  <2>1. PICK x : x = "catalog"
    OBVIOUS
  <2>2. one \in Seq({x}) /\ DOMAIN one = {1} /\ Len(one) = 1 /\ one[1] = x
    BY <1>1, <2>1
  <2>3. AreSaves(b, r, one)
    BY <1>1, <2>2, SavesFacts
  <2>4. IsList(b) /\ Len(b) = 1 /\ b[1] = Save(r, "catalog")
    BY <2>1, <2>2, <2>3 DEF AreSaves
  <2>5. QED
    BY <2>4, SavedFacts
<1>6. IsList(w) /\ DOMAIN w = {1, 2, 3} /\ w[1] = a[1] /\ w[2] = a[2] /\ w[3] = b[1]
  <2>1. PICK S : a \in Seq(S)
    BY <1>4 DEF IsList
  <2>2. PICK T : b \in Seq(T)
    BY <1>5 DEF IsList
  <2>3. a \in Seq(S \cup T) /\ b \in Seq(S \cup T)
    BY <2>1, <2>2
  <2>4. /\ a \o b \in Seq(S \cup T) /\ Len(a \o b) = Len(a) + Len(b)
        /\ \A i \in 1 .. Len(a) + Len(b) : (a \o b)[i] = IF i <= Len(a) THEN a[i] ELSE b[i - Len(a)]
    BY <2>3, ConcatProperties
  <2>5. /\ w \in Seq(S \cup T) /\ Len(w) = 3
        /\ \A i \in 1 .. 3 : w[i] = IF i <= 2 THEN a[i] ELSE b[i - 2]
    <3>1. Len(a) + Len(b) = 3 /\ Len(a) = 2
      BY <1>4, <1>5
    <3>2. w = a \o b
      BY <1>1
    <3>3. w \in Seq(S \cup T) /\ Len(w) = Len(a) + Len(b)
      BY <2>4, <3>2, Zenon
    <3>4. \A i \in 1 .. Len(a) + Len(b) : w[i] = IF i <= Len(a) THEN a[i] ELSE b[i - Len(a)]
      BY <2>4, <3>2, Zenon
    <3>5. QED
      BY <3>1, <3>3, <3>4
  <2>6. DOMAIN w = {1, 2, 3} /\ IsList(w)
    BY <2>5 DEF IsList
  <2>7. QED
    BY <2>5, <2>6
<1>7. /\ f.path = mem.path /\ mem.path \in Files /\ mem.path # "catalog" /\ mem.path # "config"
      /\ Home # "catalog" /\ Home # "config"
      /\ Home \in DOMAIN disk /\ "catalog" \in DOMAIN disk /\ Home \in Files
  BY <1>3, EditAssumption DEF FlushedFrom, EditIInv, Agrees, DiskNames, Files
<1>8. /\ a[1].file = mem.path /\ a[1].content = f.profile /\ DOMAIN a = {1, 2}
      /\ w[1].file = mem.path /\ w[1].content = f.profile /\ w[2].file = "config"
      /\ w[3].file = "catalog" /\ w[3].content = r.catalog
  <2>1. DOMAIN a = {1, 2}
    BY <1>4 DEF IsList
  <2>2. QED
    BY <1>4, <1>5, <1>6, <1>7, <2>1
<1>9. d["catalog"] = mem.catalog
  <2>1. \A i \in DOMAIN a : a[i].file # "catalog"
    BY <1>4, <1>7, <1>8
  <2>2. QED
    BY <1>1, <1>7, <2>1, NotWritten DEF EditIInv
<1>10. d[Home] = IF mem.path = Home THEN f.profile ELSE disk[Home]
  <2>1. CASE mem.path = Home
    <3>1. LastWrite(a, Home, 1)
      BY <1>4, <1>7, <1>8, <2>1 DEF LastWrite
    <3>2. QED
      BY <1>1, <1>7, <1>8, <2>1, <3>1, LastWritten
  <2>2. CASE mem.path # Home
    <3>1. \A i \in DOMAIN a : a[i].file # Home
      BY <1>4, <1>7, <1>8, <2>2
    <3>2. QED
      BY <1>1, <1>7, <2>2, <3>1, NotWritten
  <2>3. QED
    BY <2>1, <2>2
<1>11. Written(disk, w)[Home] = d[Home]
  <2>1. CASE mem.path = Home
    <3>1. LastWrite(w, Home, 1)
      BY <1>6, <1>7, <1>8, <2>1 DEF LastWrite
    <3>2. Written(disk, w)[Home] = w[1].content
      BY <1>7, <3>1, LastWritten
    <3>3. QED
      BY <1>8, <1>10, <2>1, <3>2
  <2>2. CASE mem.path # Home
    <3>1. \A i \in DOMAIN w : w[i].file # Home
      BY <1>6, <1>7, <1>8, <2>2
    <3>2. Written(disk, w)[Home] = disk[Home]
      BY <1>7, <3>1, NotWritten
    <3>3. QED
      BY <1>10, <2>2, <3>2
  <2>3. QED
    BY <2>1, <2>2
<1>12. Opened(r, d, <<>>) /\ KnownCatalog(d, <<>>) = mem.catalog
  BY <1>1, <1>9, OpenFacts DEF Create, KnownCatalog, Torn
<1>13. Written(disk, w)["catalog"] = r.catalog
  <2>1. LastWrite(w, "catalog", 3)
    BY <1>6, <1>8 DEF LastWrite
  <2>2. QED
    BY <1>7, <1>8, <2>1, LastWritten
<1>14. intact => Faithful(h)
  <2> HAVE intact
  <2>1. DOMAIN HomeProfile(d) = Panels /\ DOMAIN mem.catalog = Panels /\ DOMAIN f.profile = Panels
    BY <1>3, <1>7, <1>10 DEF HomeProfile, EditIInv, Whole, MakeDefault, FlushedFrom
  <2>2. DOMAIN r.profile = Panels /\ DOMAIN r.catalog = Panels
    BY <1>12, <2>1 DEF Opened, IsBuilt
  <2>3. r.page.logged = LoggedMetricIds(mem.catalog)
    BY <1>12, <2>1, <2>2, OpenedKeepsLogging
  <2>4. r.page.logged = mem.page.logged /\ LoggedMetricIds(r.catalog) = mem.page.logged
    BY <1>12, <2>3 DEF Opened, Agrees, PageAgrees, EditIInv
  <2>5. h.mem = r /\ h.writes = w
    BY <1>2
  <2>6. "catalog" \notin Files /\ "config" \notin Files
    BY EditAssumption
  <2>7. QED
    BY <1>6, <1>7, <1>8, <2>1, <2>2, <2>4, <2>5, <2>6 DEF Faithful
<1>15. QED
  BY <1>2, <1>6, <1>11, <1>12, <1>13, <1>14 DEF Opened, Keeps

\* Every handler.
LEMMA HandlersKeep ==
  ASSUME EditIInv, NEW h \in Handlers PROVE Keeps(h)
BY DashboardKeeps, MetricsKeeps, ExportKeeps, ImportKeeps, RebuiltKeeps, RestartKeeps DEF Handlers

\* The process ends while a file is written, and the next one starts.
LEMMA CrashKeeps ==
  ASSUME EditIInv, NEW h \in Handlers, NEW k \in DOMAIN h.writes, Crash(h, k)
  PROVE  EditIInv'
<1>1. PICK w, before, torn, r, one, b :
        /\ w = SubSeq(h.writes, 1, k - 1) /\ before = Written(disk, w)
        /\ torn = [before EXCEPT ![h.writes[k].file] = Torn]
        /\ r = Create(torn) /\ one = <<"catalog">> /\ b = Saves(r, one)
  OBVIOUS
<1>2. Keeps(h)
  BY HandlersKeep
<1>3. /\ mem' = r /\ disk' = Written(torn, b)
      /\ choice' = IF r.page.logged \in {choice, Chosen(h)} THEN r.page.logged ELSE choice
  BY <1>1 DEF Crash, Launched
<1>4. \E n \in Nat : DOMAIN w = 1 .. n /\ \A i \in DOMAIN w : i \in DOMAIN h.writes /\ w[i] = h.writes[i]
  <2>1. PICK S : h.writes \in Seq(S)
    BY <1>2 DEF Keeps, IsList
  <2>2. k \in 1 .. Len(h.writes) /\ Len(h.writes) \in Nat /\ DOMAIN h.writes = 1 .. Len(h.writes)
    BY <2>1
  <2>3. DOMAIN w = 1 .. k - 1 /\ \A i \in 1 .. k - 1 : w[i] = h.writes[i]
    BY <1>1, <2>1, <2>2
  <2>4. QED
    BY <2>2, <2>3
<1>5. DOMAIN torn = DiskNames /\ DOMAIN before = DiskNames /\ DOMAIN disk = DiskNames
  BY <1>1, WrittenDomain DEF EditIInv
<1>6. \A f \in DiskNames : \/ torn[f] \in {Torn, disk[f]}
                           \/ \E i \in DOMAIN h.writes : h.writes[i].file = f /\ torn[f] = h.writes[i].content
  <2> SUFFICES ASSUME NEW f \in DiskNames
               PROVE  \/ torn[f] \in {Torn, disk[f]}
                      \/ \E i \in DOMAIN h.writes : h.writes[i].file = f /\ torn[f] = h.writes[i].content
    OBVIOUS
  <2>1. torn[f] \in {Torn, before[f]}
    BY <1>1, <1>5
  <2>2. before[f] = disk[f] \/ \E i \in DOMAIN w : w[i].file = f /\ before[f] = w[i].content
    <3>1. PICK n \in Nat : DOMAIN w = 1 .. n
      BY <1>4
    <3>2. f \in DOMAIN disk
      BY <1>5
    <3>3. OldOrWritten(Written(disk, w)[f], disk, f, w)
      BY <3>1, <3>2, SomeWritten
    <3>4. QED
      BY <1>1, <3>3 DEF OldOrWritten
  <2>3. QED
    BY <1>4, <2>1, <2>2
<1>7. Opened(r, torn, <<>>) /\ KnownCatalog(torn, <<>>) = torn["catalog"]
  BY <1>1, OpenFacts DEF Create, KnownCatalog, Torn
<1>8. IsList(b) /\ DOMAIN b = {1} /\ b[1] = [file |-> "catalog", content |-> r.catalog]
  <2>1. PICK x : x = "catalog"
    OBVIOUS
  <2>2. one \in Seq({x}) /\ DOMAIN one = {1} /\ one[1] = x
    BY <1>1, <2>1
  <2>3. AreSaves(b, r, one)
    BY <1>1, <2>2, SavesFacts
  <2>4. IsList(b) /\ DOMAIN b = {1} /\ b[1] = Save(r, "catalog")
    BY <2>1, <2>2, <2>3 DEF AreSaves
  <2>5. QED
    BY <2>4, SavedFacts
<1>9. b[1].file = "catalog" /\ b[1].content = r.catalog
  BY <1>8
<1>10. DOMAIN disk' = DiskNames /\ disk'["catalog"] = r.catalog /\ \A f \in Files : disk'[f] = torn[f]
  <2>1. DOMAIN disk' = DiskNames
    BY <1>3, <1>5, WrittenDomain
  <2>2. LastWrite(b, "catalog", 1)
    BY <1>8, <1>9 DEF LastWrite
  <2>3. Written(torn, b)["catalog"] = r.catalog
    <3>1. "catalog" \in DOMAIN torn
      BY <1>5 DEF DiskNames
    <3>2. Written(torn, b)["catalog"] = b[1].content
      BY <2>2, <3>1, LastWritten
    <3>3. QED
      BY <1>9, <3>2
  <2>4. ASSUME NEW f \in Files PROVE Written(torn, b)[f] = torn[f]
    <3>1. \A i \in DOMAIN b : b[i].file # f
      BY <1>8, <1>9, EditAssumption
    <3>2. QED
      BY <1>5, <3>1, NotWritten DEF DiskNames
  <2>5. QED
    BY <1>3, <2>1, <2>3, <2>4
<1>11. Agrees(mem)' /\ SameLayout(disk'[mem'.path], mem'.catalog)
  <2>1. r.path = Home /\ Home \in Files
    BY <1>7 DEF Opened, Files
  <2>2. Agrees(r) /\ SameLayout(torn[Home], r.catalog)
    BY <1>7 DEF Opened
  <2>3. QED
    BY <1>3, <1>10, <2>1, <2>2 DEF Agrees, IsMemory, CatalogRows, PageAgrees, SameLayout, Files, LoggedMetricIds,
       HudMetricIds, BuildHudMetricsFromIds
<1>12. ASSUME intact' PROVE Whole'
  <2>1. /\ intact /\ DOMAIN r.profile = Panels
        /\ h.writes[k].file = "catalog" =>
             /\ torn[Home] # Torn
             /\ {p \in Panels : torn[Home][p].logged} \in {choice, LoggedMetricIds(h.mem.catalog)}
    BY <1>1, <1>12 DEF Crash, Launched
  <2>2. Faithful(h) /\ Whole
    BY <1>2, <2>1 DEF Keeps, EditIInv
  <2>3. DOMAIN h.mem.profile = Panels
    BY <2>2 DEF Faithful
  <2>4. h.mem.page.logged \in {choice, Chosen(h)}
    BY <2>2, <2>3 DEF Faithful, Chosen, Whole
  <2>5. mem.page.logged = choice
    BY <2>2 DEF Whole
  <2>6. DOMAIN r.catalog = Panels
    BY <1>7, <2>1 DEF Opened, IsBuilt
  <2>7. \A f \in Files : torn[f] = Torn \/ DOMAIN torn[f] = Panels
    BY <1>6, <2>2 DEF DiskNames, Faithful, Whole
  <2>8. r.page.logged \in {choice, Chosen(h)}
    <3>1. CASE h.writes[k].file = "catalog"
      <4>1. torn["catalog"] = Torn
        BY <1>1, <1>5, <3>1 DEF DiskNames
      <4>2. HomeProfile(torn) = torn[Home] /\ DOMAIN KnownCatalog(torn, <<>>) = {}
        BY <1>7, <2>1, <3>1, <4>1 DEF HomeProfile, Torn
      <4>3. LoggedMetricIds(r.catalog) = {p \in Panels : torn[Home][p].logged}
        BY <1>7, <2>6, <4>2 DEF Opened, IsBuilt, LoggedMetricIds
      <4>4. r.page.logged = LoggedMetricIds(r.catalog)
        BY <1>7 DEF Opened, Agrees, PageAgrees
      <4>5. LoggedMetricIds(h.mem.catalog) = h.mem.page.logged
        BY <1>2 DEF Keeps, Agrees, PageAgrees
      <4>6. QED
        BY <2>1, <2>4, <3>1, <4>3, <4>4, <4>5
    <3>2. CASE h.writes[k].file # "catalog"
      <4>1. torn["catalog"] = before["catalog"]
        BY <1>1, <1>5, <3>2 DEF DiskNames
      <4>2. \/ torn["catalog"] = disk["catalog"]
            \/ \E i \in DOMAIN h.writes : /\ h.writes[i].file = "catalog"
                                          /\ torn["catalog"] = h.writes[i].content
        <5>1. PICK n \in Nat : DOMAIN w = 1 .. n
          BY <1>4
        <5>2. "catalog" \in DOMAIN disk
          BY <1>5 DEF DiskNames
        <5>3. \/ before["catalog"] = disk["catalog"]
              \/ \E i \in DOMAIN w : w[i].file = "catalog" /\ before["catalog"] = w[i].content
          <6>1. OldOrWritten(Written(disk, w)["catalog"], disk, "catalog", w)
            BY <5>1, <5>2, SomeWritten
          <6>2. QED
            BY <1>1, <6>1 DEF OldOrWritten
        <5>4. QED
          BY <1>4, <4>1, <5>3
      <4>3. /\ DOMAIN torn["catalog"] = Panels
            /\ LoggedMetricIds(torn["catalog"]) \in {choice, h.mem.page.logged}
        <5>1. CASE torn["catalog"] = disk["catalog"]
          BY <2>2, <2>5, <5>1 DEF EditIInv, Whole, Agrees, PageAgrees
        <5>2. CASE \E i \in DOMAIN h.writes : /\ h.writes[i].file = "catalog"
                                              /\ torn["catalog"] = h.writes[i].content
          BY <2>2, <2>5, <5>2 DEF Faithful
        <5>3. QED
          BY <4>2, <5>1, <5>2
      <4>4. r.page.logged = LoggedMetricIds(torn["catalog"])
        BY <1>7, <2>1, <4>3, OpenedKeepsLogging
      <4>5. QED
        BY <2>4, <4>3, <4>4
    <3>3. QED
      BY <3>1, <3>2
  <2>9. r.page.logged = choice'
    BY <1>3, <2>8
  <2>10. QED
    BY <1>3, <1>10, <2>1, <2>6, <2>7, <2>9 DEF Whole, Files
<1>13. QED
  BY <1>3, <1>10, <1>11, <1>12 DEF EditIInv, DiskNames, SameLayout, Files

\* A handler that runs to its end.
LEMMA HandleKeeps ==
  ASSUME EditIInv, NEW h \in Handlers, Handle(h) PROVE EditIInv'
<1>1. PICK m, d : m = h.mem /\ d = Written(disk, h.writes)
  OBVIOUS
<1>2. mem' = m /\ disk' = d /\ choice' = Chosen(h) /\ (intact' => intact /\ DOMAIN m.profile = Panels)
  BY <1>1 DEF Handle
<1>3. /\ Agrees(m) /\ IsList(h.writes) /\ d["catalog"] = m.catalog
      /\ SameLayout(d[m.path], m.catalog) /\ (intact => Faithful(h))
  BY <1>1, HandlersKeep DEF Keeps
<1>4. DOMAIN d = DiskNames
  BY <1>1, WrittenDomain DEF EditIInv
<1>5. Agrees(mem)' /\ SameLayout(disk[mem.path], mem.catalog)'
  BY <1>2, <1>3 DEF Agrees, IsMemory, CatalogRows, PageAgrees, SameLayout, Files, LoggedMetricIds,
     HudMetricIds, BuildHudMetricsFromIds
<1>6. ASSUME intact' PROVE Whole'
  <2>1. intact /\ DOMAIN m.profile = Panels
    BY <1>2, <1>6
  <2>2. Faithful(h) /\ Whole
    BY <1>3, <2>1 DEF EditIInv
  <2>3. DOMAIN m.catalog = Panels /\ (h \in MetricsHandlers \/ m.page.logged = mem.page.logged)
    BY <1>1, <2>1, <2>2 DEF Faithful
  <2>4. m.page.logged = choice'
    BY <1>1, <1>2, <2>2, <2>3 DEF Chosen, Whole
  <2>5. \A f \in Files : d[f] = Torn \/ DOMAIN d[f] = Panels
    <3> SUFFICES ASSUME NEW f \in Files PROVE d[f] = Torn \/ DOMAIN d[f] = Panels
      OBVIOUS
    <3>1. f \in DOMAIN disk
      BY DEF EditIInv, DiskNames
    <3>2. PICK n \in Nat : DOMAIN h.writes = 1 .. n
      BY <1>3 DEF IsList
    <3>3. OldOrWritten(Written(disk, h.writes)[f], disk, f, h.writes)
      BY <3>1, <3>2, SomeWritten
    <3>4. QED
      BY <1>1, <2>2, <3>3 DEF OldOrWritten, Faithful, Whole
  <2>6. QED
    BY <1>2, <2>1, <2>3, <2>4, <2>5 DEF Whole, Files
<1>7. QED
  BY <1>2, <1>3, <1>4, <1>5, <1>6 DEF EditIInv, DiskNames, Files

\* The first start, without any file.
LEMMA EditInitial == ASSUME EditInit PROVE EditIInv
<1>1. PICK d : d = [f \in Files \cup {"catalog", "config"} |-> Torn]
  OBVIOUS
<1>2. Opened(mem, d, <<>>)
  BY <1>1, OpenFacts DEF EditInit, Create
<1>3. /\ DOMAIN disk = DiskNames /\ disk["catalog"] = mem.catalog /\ choice = Panels
      /\ \A f \in Files : disk[f] = Torn /\ d[f] = Torn
      /\ d["catalog"] = Torn
  BY <1>1, EditAssumption DEF EditInit, DiskNames
<1>4. mem.path = Home /\ Home \in Files /\ HomeProfile(d) = MakeDefault /\ DOMAIN KnownCatalog(d, <<>>) = {}
  BY <1>2, <1>3 DEF Opened, HomeProfile, KnownCatalog, Torn, Files
<1>5. SameLayout(disk[mem.path], mem.catalog)
  BY <1>2, <1>3, <1>4 DEF Opened
<1>6. DOMAIN mem.profile = Panels /\ DOMAIN mem.catalog = Panels /\ \A p \in Panels : mem.catalog[p].logging
  BY <1>2, <1>4 DEF Opened, IsBuilt, MakeDefault
<1>7. mem.page.logged = Panels
  BY <1>2, <1>6 DEF Opened, Agrees, PageAgrees, LoggedMetricIds
<1>8. QED
  BY <1>2, <1>3, <1>5, <1>6, <1>7 DEF Opened, EditIInv, Whole

\* Every reachable state of the edits satisfies the invariant.
LEMMA EditInvariant == EditSpec => []EditIInv
<1>1. EditInit => EditIInv
  BY EditInitial
<1>2. EditIInv /\ [EditNext]_editVars => EditIInv'
  <2> SUFFICES ASSUME EditIInv, [EditNext]_editVars PROVE EditIInv'
    OBVIOUS
  <2>1. CASE EditNext
    BY <2>1, HandleKeeps, CrashKeeps DEF EditNext
  <2>2. CASE UNCHANGED editVars
    BY <2>2 DEF editVars, EditIInv, Agrees, IsMemory, CatalogRows, PageAgrees, SameLayout, Whole, Files, DiskNames,
       LoggedMetricIds, HudMetricIds, BuildHudMetricsFromIds
  <2>3. QED
    BY <2>1, <2>2
<1>3. QED
  BY <1>1, <1>2, PTL DEF EditSpec

\* Whatever the user clicks, exports and imports, and wherever a crash tears a
\* file, the metrics page, the catalog in memory, the bar's ids and the
\* committed profile agree (window.cpp, client/config/*, pages/*).
THEOREM PagesStayInStep == EditSpec => []PagesAgree
<1>1. EditIInv => PagesAgree
  BY EditSuffices
<1>2. QED
  BY <1>1, EditInvariant, PTL

\* As long as nothing happened that loses it, the client shows and logs the
\* metrics the user last chose, also after a crash between any two writes.
THEOREM ChoiceIsKept == EditSpec => []SelectionSurvives
<1>1. EditIInv => SelectionSurvives
  BY EditSuffices
<1>2. QED
  BY <1>1, EditInvariant, PTL

=============================================================================
