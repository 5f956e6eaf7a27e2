---------------------------- MODULE ClientWindow ----------------------------
(***************************************************************************)
(* The main window of the client (client/window.cpp) with its tray icon    *)
(* (ui/system_tray.cpp) and its HUD bar (HudBar), the flags and the session*)
(* of metric logging, and the pages, which are deleted and built again     *)
(* whenever Direct2D loses its target.                                     *)
(*                                                                         *)
(* All of it is one thread.  The interleaving comes from message loops     *)
(* inside handlers, that of the folder dialog and that of the search of the*)
(* LAN (client/pages/fleet_page.cpp): timers, the tray and the bar are     *)
(* served while the handler waits on `modal', a stack of the handlers that *)
(* do.  A dialog disables the main window, which then takes no click; the  *)
(* search does not.                                                        *)
(*                                                                         *)
(* running, unanswered and blind are not the client's: the sessions the    *)
(* service runs, those whose start or stop got no answer, and whether a    *)
(* dialog was ever opened inside another or without a page to show it.     *)
(***************************************************************************)
EXTENDS HudBar, Sequences, FiniteSets

CONSTANTS Sessions,     \* ids the service gives out, a bound of the runs
          NoSession,
          MaxPages,     \* bound of the runs: times the pages are built
          MaxModal      \* bound of the runs: dialogs inside one another

ASSUME WindowAssumption ==
  MaxPages \in Nat \ {0} /\ MaxModal \in Nat /\ NoSession \notin Sessions

VARIABLES main,        \* "shown", "minimised" or "hidden"
          tray,        \* [shown, added]: the shell's icon and m_added
          created,     \* TaskbarCreated messages in the queue
          logging,     \* [config, page]: the two logging_enabled flags
          pages,       \* which generation of the pages there is, 0 for none
          built,       \* bound of the runs
          session,     \* m_active_log_session_id
          modal, app,
          running, unanswered, blind

windowVars == <<hudVars, main, tray, created, logging, pages, built, session,
                modal, app, running, unanswered, blind>>

dialogVars  == <<modal, blind>>
sessionVars == <<session, running, unanswered>>
loggingVars == <<logging, sessionVars>>
pageVars    == <<pages, built>>
shellVars   == <<tray, created>>
barVars     == <<hud, shell, layout, notes, posts>>

-----------------------------------------------------------------------------
(* The session of the desktop's own logging. *)

\* StartMetricLoggingSession: the service starts a session and answers, refuses,
\* or starts one whose answer does not arrive. Whatever session was held is
\* overwritten.
Started(ok) ==
  \/ /\ ok
     /\ \E s \in Sessions \ running :
          /\ session' = s /\ running' = running \cup {s}
          /\ UNCHANGED unanswered
  \/ ~ok /\ UNCHANGED sessionVars
  \/ /\ ~ok
     /\ \E s \in Sessions \ running :
          /\ running' = running \cup {s} /\ unanswered' = unanswered \cup {s}
          /\ UNCHANGED session

\* StopMetricLoggingSession forgets the session whatever the service answers.
Stopped ==
  /\ session' = NoSession
  /\ \/ /\ running' = running \ {session} /\ UNCHANGED unanswered
     \/ /\ session # NoSession /\ UNCHANGED running
        /\ unanswered' = unanswered \cup {session}

\* m_metrics_page->SetLoggingEnabled, if there is a page.
Flags(on) == [config |-> on, page |-> on /\ pages # 0]

DialogOpen == \E i \in DOMAIN modal : modal[i].kind # "search"

Push(frame) ==
  /\ Len(modal) < MaxModal
  /\ modal' = Append(modal, frame)
  /\ blind' = (blind \/ DialogOpen \/ pages = 0)
Top == modal[Len(modal)]
Below == SubSeq(modal, 1, Len(modal) - 1)
Pop == modal # <<>> /\ modal' = Below /\ UNCHANGED blind

\* A click on a page needs the main window and no dialog over it.
Clicked == app = "up" /\ main = "shown" /\ ~DialogOpen /\ moves < MaxMoves
\* A command comes from the menu of the icon or of the bar.
Commanded == app = "up" /\ (tray.shown \/ hud.shown) /\ moves < MaxMoves
UserStep == moves' = moves + 1

\* The process ends, by Destroy or by a fault: the system removes its windows
\* with their messages, and the shell the bar and the icon.
Ends(how) ==
  /\ app' = how
  /\ hud' = [UnregisterAppBar(hud) EXCEPT !.shown = FALSE] /\ shell' = Freed(hud)
  /\ notes' = 0 /\ posts' = 0 /\ UNCHANGED layout
  /\ tray' = [shown |-> FALSE, added |-> FALSE] /\ created' = 0
  /\ main' = "hidden" /\ pages' = 0 /\ modal' = <<>>
  /\ UNCHANGED <<built, blind>>

-----------------------------------------------------------------------------
(* Metrics -> Logging: OnMouseDown on the metrics page. *)

MetricsClickLogging ==
  /\ Clicked /\ UserStep /\ pages # 0
  /\ IF logging.page
     THEN logging' = Flags(FALSE) /\ Stopped /\ UNCHANGED dialogVars
     ELSE /\ Push([kind |-> "metrics", of |-> pages])
          /\ UNCHANGED loggingVars
  /\ UNCHANGED <<barVars, main, shellVars, pageVars, app>>

\* The folder dialog of that click returns into the page's OnClick. A page
\* deleted meanwhile is used all the same.
MetricsFolder(chosen) ==
  /\ app = "up" /\ modal # <<>> /\ Top.kind = "metrics"
  /\ UNCHANGED moves
  /\ IF Top.of # pages
     THEN Ends("faulted") /\ UNCHANGED loggingVars
     ELSE LET now == IF chosen THEN ~logging.page ELSE logging.page
          IN  /\ IF now
                 THEN \E ok \in BOOLEAN : Started(ok) /\ logging' = Flags(ok)
                 ELSE logging' = Flags(FALSE) /\ UNCHANGED sessionVars
              /\ Pop /\ UNCHANGED <<barVars, main, shellVars, pageVars, app>>

-----------------------------------------------------------------------------
(* The command of the tray and of the bar. *)

\* Mutant: the menu's stop does not reset the page's flag.
ToggleMetricLoggingFromMenuPage ==
  /\ Commanded /\ UserStep
  /\ IF pages # 0 /\ logging.page
     THEN logging' = [logging EXCEPT !.config = FALSE] /\ Stopped /\ UNCHANGED dialogVars
     ELSE Push([kind |-> "menu", of |-> pages]) /\ UNCHANGED loggingVars
  /\ UNCHANGED <<barVars, main, shellVars, pageVars, app>>

ToggleMetricLoggingFromMenu ==
  /\ Commanded /\ UserStep
  /\ IF pages # 0 /\ logging.page
     THEN logging' = Flags(FALSE) /\ Stopped /\ UNCHANGED dialogVars
     ELSE Push([kind |-> "menu", of |-> pages]) /\ UNCHANGED loggingVars
  /\ UNCHANGED <<barVars, main, shellVars, pageVars, app>>

MenuFolder(chosen) ==
  /\ app = "up" /\ Pop /\ Top.kind = "menu"
  /\ IF chosen
     THEN \E ok \in BOOLEAN : Started(ok) /\ logging' = Flags(ok)
     ELSE UNCHANGED loggingVars
  /\ UNCHANGED <<barVars, moves, main, shellVars, pageVars, app>>

-----------------------------------------------------------------------------
(* The local job of the fleet page. *)

\* Mutant: the session of before is not stopped.
LocalJobStartOver ==
  /\ Clicked /\ UserStep /\ pages # 0
  /\ \E ok \in BOOLEAN :
       /\ Started(ok)
       /\ logging' = IF ok THEN Flags(TRUE) ELSE logging
  /\ UNCHANGED <<barVars, main, shellVars, pageVars, app, dialogVars>>

\* SetOnStartLocalJob: a session that is held is stopped, then one is started;
\* its failure leaves the flags as they were.
LocalJobStart ==
  /\ Clicked /\ UserStep /\ pages # 0
  /\ \E told \in BOOLEAN, ok \in BOOLEAN :
       LET left == IF told THEN running \ {session} ELSE running
           lost == IF told \/ session = NoSession THEN unanswered
                   ELSE unanswered \cup {session}
       IN  /\ logging' = IF ok THEN Flags(TRUE) ELSE logging
           /\ \/ /\ ~ok /\ session' = NoSession
                 /\ running' = left /\ unanswered' = lost
              \/ \E s \in Sessions \ running :
                   /\ running' = left \cup {s}
                   /\ session' = IF ok THEN s ELSE NoSession
                   /\ unanswered' = IF ok THEN lost ELSE lost \cup {s}
  /\ UNCHANGED <<barVars, main, shellVars, pageVars, app, dialogVars>>

LocalJobStop ==
  /\ Clicked /\ UserStep /\ pages # 0
  /\ logging' = Flags(FALSE) /\ Stopped
  /\ UNCHANGED <<barVars, main, shellVars, pageVars, app, dialogVars>>

-----------------------------------------------------------------------------
(* The search of the fleet page. *)

SearchLan ==
  /\ Clicked /\ UserStep /\ pages # 0
  /\ modal' = Append(modal, [kind |-> "search", of |-> pages]) /\ Len(modal) < MaxModal
  /\ UNCHANGED <<barVars, main, shellVars, pageVars, app, blind, loggingVars>>

\* The next probe, after the messages that were waiting: it uses the page of the
\* click, there or not. The last one ends the search.
Probed ==
  /\ app = "up" /\ modal # <<>> /\ Top.kind = "search"
  /\ IF Top.of # pages
     THEN Ends("faulted") /\ UNCHANGED <<moves, loggingVars>>
     ELSE Pop /\ UNCHANGED <<barVars, moves, main, shellVars, pageVars, app, loggingVars>>

-----------------------------------------------------------------------------
(* The timers. *)

\* OnRender: the target is lost; the pages are built again with the flag of the
\* configuration, or not at all when Direct2D fails once more.
Recreate ==
  /\ app = "up" /\ pages # 0 /\ built < MaxPages /\ built' = built + 1
  /\ \/ pages' = built + 1 /\ logging' = [logging EXCEPT !.page = logging.config]
     \/ pages' = 0 /\ logging' = [logging EXCEPT !.page = FALSE]
  /\ UNCHANGED <<barVars, moves, main, shellVars, sessionVars, app, dialogVars>>

\* OnDataTick writes into the settings page, OnApiTick into the API page,
\* whether they are there or not.
Tick ==
  /\ app = "up" /\ pages = 0 /\ Ends("faulted")
  /\ UNCHANGED <<moves, loggingVars>>

-----------------------------------------------------------------------------
(* The window, the bar and the icon. *)

\* EnsureTrayIcon: without a shell there is nothing to add it to.
EnsureTrayIcon(t) == IF t.added THEN t ELSE [shown |-> shell.up, added |-> shell.up]

DoMinimize(behaviour) ==
  /\ Clicked /\ UserStep
  /\ tray' = EnsureTrayIcon(tray)
  /\ main' = IF behaviour = "Normal" THEN "minimised" ELSE "hidden"
  /\ IF behaviour = "HUDMode" THEN Show /\ UNCHANGED layout ELSE UNCHANGED barVars
  /\ UNCHANGED <<created, pageVars, loggingVars, app, dialogVars>>

\* DoRestoreFromTray, and the taskbar's button of a minimised window.
Restore ==
  /\ app = "up" /\ (tray.shown \/ hud.shown \/ main = "minimised")
  /\ moves < MaxMoves /\ UserStep
  /\ main' = "shown"
  /\ UNCHANGED <<barVars, shellVars, pageVars, loggingVars, app, dialogVars>>

\* TRAY_CMD_HUD
HudCommand ==
  /\ Commanded /\ UserStep
  /\ main' = "hidden" /\ Show
  /\ UNCHANGED <<layout, shellVars, pageVars, loggingVars, app, dialogVars>>

\* WM_LBUTTONDOWN on the bar, and TRAY_CMD_MANAGE_FLEET.
RestoreAndHide ==
  /\ Commanded /\ UserStep
  /\ main' = "shown" /\ Hide
  /\ UNCHANGED <<layout, shellVars, pageVars, loggingVars, app, dialogVars>>

\* SetHudPositionFromMenu, and the save of the settings page.
SetHudPosition(p) ==
  /\ Commanded /\ UserStep
  /\ SetPosition(p)
  /\ UNCHANGED <<layout, main, shellVars, pageVars, loggingVars, app, dialogVars>>

\* TRAY_CMD_EXIT: Destroy, and the dialogs end as if cancelled: the click on
\* the metrics page, like the search, goes on with the page that Destroy deleted.
Exit ==
  /\ Commanded /\ UserStep
  /\ Stopped
  /\ logging' = [logging EXCEPT !.page = FALSE]
  /\ Ends(IF \E i \in DOMAIN modal : modal[i].kind # "menu" THEN "faulted" ELSE "gone")

-----------------------------------------------------------------------------
(* External: Explorer ends and takes the icon along, and tells every window  *)
(* when it is back. *)

ExplorerChanges ==
  /\ app = "up" /\ moves < MaxMoves /\ UserStep
  /\ ShellChanges
  /\ tray' = [tray EXCEPT !.shown = FALSE]
  /\ created' = IF shell.up THEN created ELSE created + 1
  /\ UNCHANGED <<main, pageVars, loggingVars, app, dialogVars>>

\* Mutant: without m_tray.Remove the icon counts as added.
TaskbarCreatedKeeps ==
  /\ app = "up" /\ created > 0 /\ created' = created - 1
  /\ tray' = EnsureTrayIcon(tray)
  /\ UNCHANGED <<barVars, moves, main, pageVars, loggingVars, app, dialogVars>>

\* The TaskbarCreated message.
TaskbarCreated ==
  /\ app = "up" /\ created > 0 /\ created' = created - 1
  /\ tray' = EnsureTrayIcon([shown |-> FALSE, added |-> FALSE])
  /\ UNCHANGED <<barVars, moves, main, pageVars, loggingVars, app, dialogVars>>

-----------------------------------------------------------------------------

\* Create, with the flag the last run of the client saved.
WindowInit ==
  /\ HudInit
  /\ main = "shown"
  /\ tray = [shown |-> shell.up, added |-> shell.up]
  \* a shell that starts with the user's session announces itself later
  /\ created = 0
  /\ \E on \in BOOLEAN : logging = [config |-> on, page |-> on]
  /\ pages = 1 /\ built = 1
  /\ session = NoSession /\ modal = <<>> /\ app = "up"
  /\ running = {} /\ unanswered = {} /\ blind = FALSE

BarPump ==
  /\ app = "up" /\ Pump
  /\ UNCHANGED <<main, shellVars, pageVars, loggingVars, app, dialogVars>>

Behaviours == {"Normal", "HUDMode", "SystemTray"}

WindowNext ==
  \/ MetricsClickLogging \/ ToggleMetricLoggingFromMenu
  \/ \E chosen \in BOOLEAN : MetricsFolder(chosen) \/ MenuFolder(chosen)
  \/ LocalJobStart \/ LocalJobStop \/ SearchLan \/ Probed
  \/ Recreate \/ Tick
  \/ \E b \in Behaviours : DoMinimize(b)
  \/ Restore \/ HudCommand \/ RestoreAndHide
  \/ \E p \in Positions : SetHudPosition(p)
  \/ Exit \/ ExplorerChanges \/ TaskbarCreated
  \/ BarPump
  \/ /\ app = "up" /\ LayoutChanges
     /\ UNCHANGED <<main, shellVars, pageVars, loggingVars, app, dialogVars>>

\* The message loop goes on; the users, the desktop and the dialogs owe nothing.
WindowSpec == WindowInit /\ [][WindowNext]_windowVars /\ WF_windowVars(BarPump)

-----------------------------------------------------------------------------
WindowTypeOK ==
  /\ HudTypeOK
  /\ main \in {"shown", "minimised", "hidden"}
  /\ tray \in [shown : BOOLEAN, added : BOOLEAN] /\ created \in Nat
  /\ logging \in [config : BOOLEAN, page : BOOLEAN]
  /\ pages \in 0 .. MaxPages /\ built \in 1 .. MaxPages
  /\ session \in Sessions \cup {NoSession}
  /\ Len(modal) <= MaxModal
  /\ app \in {"up", "gone", "faulted"}
  /\ running \subseteq Sessions /\ unanswered \subseteq Sessions

\* Four handlers write the two logging flags and a lost target builds the page
\* again: while there is a page, the flag of the configuration, which the next
\* start of the client shows, is the page's, which decides what the menu does.
LoggingFlagsAgree == app = "up" /\ pages # 0 => logging.config = logging.page

\* A session the client started and does not hold any more is one whose start
\* or stop the service left unanswered, or the user had two dialogs open at
\* once (the session of the inner one is overwritten by that of the outer) or
\* chose a folder after the pages were lost for good. This holds beyond the end
\* of the client, when it holds no session.
ForgottenIsExcused == ~blind => running \subseteq unanswered \cup {session}

\* Once Explorer is up and its message handled, the icon is there, however
\* often it was restarted and whatever the client believed of its icon.
TrayIsBack == app = "up" /\ shell.up /\ created = 0 => tray.shown

\* The members of the window, the bar and the icon are what their types say, and
\* the shell keeps free what the bar covers and nothing else.
WindowInv == WindowTypeOK /\ ReservedIsShown

\* README.md:1001: "The appbar reservation is removed when the HUD is hidden or
\* the main window is restored."
RestoreFreesBar == main = "shown" => ~hud.registered
=============================================================================
