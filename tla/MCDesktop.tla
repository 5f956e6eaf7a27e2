------------------------------ MODULE MCDesktop ------------------------------
(***************************************************************************)
(* The desktop for TLC, in five parts that share none of the state         *)
(* modelled: the client's window itself with its bar, icon and logging     *)
(* session, the source its dashboard shows, the edits of the dashboard and *)
(* of the metrics page, and the desktop's API key, which are handlers of   *)
(* one thread, and the launcher's processes. A behaviour is one of them,   *)
(* as part says.                                                           *)
(***************************************************************************)
EXTENDS ClientWindow, DashboardSource, DashboardEdit, DesktopKeys, Launcher

VARIABLE part

rest == <<windowVars, sourceVars, editVars, desktopKeyVars, launcherVars>>

Init ==
  /\ WindowInit /\ SourceInit /\ EditInit /\ DesktopKeysInit /\ LauncherInit
  /\ part \in {"window", "source", "edit", "keys", "launcher"}
  \* one start of the others for each part is enough
  /\ part # "source" => rows = <<>>
  /\ part # "launcher" => rights = "absent"
  /\ part # "window" => /\ shell.up /\ ~logging.config
                        /\ layout = CHOOSE l \in Layouts : TRUE
                        /\ hud.pos = CHOOSE p \in Positions : TRUE

Next ==
  \/ /\ part = "window" /\ WindowNext
     /\ UNCHANGED <<part, sourceVars, editVars, desktopKeyVars, launcherVars>>
  \/ /\ part = "source" /\ SourceNext
     /\ UNCHANGED <<part, windowVars, editVars, desktopKeyVars, launcherVars>>
  \/ /\ part = "edit" /\ EditNext
     /\ UNCHANGED <<part, windowVars, sourceVars, desktopKeyVars, launcherVars>>
  \/ /\ part = "keys" /\ DesktopKeysNext
     /\ UNCHANGED <<part, windowVars, sourceVars, editVars, launcherVars>>
  \/ /\ part = "launcher" /\ LauncherNext
     /\ UNCHANGED <<part, windowVars, sourceVars, editVars, desktopKeyVars>>

\* The window's message loop goes on, as in WindowSpec.
Spec ==
  /\ Init /\ [][Next]_<<part, rest>>
  /\ WF_rest(/\ part = "window" /\ BarPump
             /\ UNCHANGED <<part, sourceVars, editVars, desktopKeyVars, launcherVars>>)
=============================================================================
