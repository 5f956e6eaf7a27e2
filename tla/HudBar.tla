------------------------------- MODULE HudBar -------------------------------
(***************************************************************************)
(* The HUD bar (client/ui/compact_overlay.cpp) and the part of the Windows *)
(* shell it talks to.  While it is shown the bar is an appbar: the shell   *)
(* keeps its edge of the screen free and notifies it when the taskbar or   *)
(* another appbar moves.  A notification posts one message to the bar's    *)
(* own queue, whose handler places the bar again.                          *)
(*                                                                         *)
(* A rectangle is what it is computed from: the edge, the layout of the    *)
(* taskbar and the other appbars, and how often the bar's own reservation  *)
(* was counted in. `refused' is not the program's: it records that the     *)
(* shell has once refused to register the bar.                             *)
(***************************************************************************)
EXTENDS Naturals

CONSTANTS Positions,   \* HudPosition
          Layouts,     \* where the taskbar and the other appbars are
          NoRect,
          MaxNotes,    \* bound of the runs: notifications not yet delivered
          MaxMoves     \* bound of the runs: steps of the user and the desktop

ASSUME HudAssumption == MaxNotes \in Nat /\ MaxMoves \in Nat

VARIABLES hud,       \* the members of CompactOverlay
          shell,     \* Explorer: up, knows the bar, the rectangle reserved for it
          layout,
          notes,     \* WM_APPBAR_CALLBACK messages on their way
          posts,     \* WM_APPBAR_REPOSITION messages in the queue
          moves      \* bound of the runs

hudVars == <<hud, shell, layout, notes, posts, moves>>

Rects == [edge : Positions, layout : Layouts, own : 0 .. 1]

\* The screen and the taskbar only: not the work area, which the bar shrinks.
ComputeBarRect(h) == [edge |-> h.pos, layout |-> layout, own |-> 0]

\* RegisterAppBar: ABM_NEW may fail, and does without a shell.
RegisterAppBar(h) ==
  {[h EXCEPT !.registered = ok] :
     ok \in IF h.registered THEN {TRUE} ELSE IF shell.up THEN BOOLEAN ELSE {FALSE}}

UnregisterAppBar(h) ==
  IF h.registered
  THEN [h EXCEPT !.registered = FALSE, !.pending = FALSE, !.last = NoRect]
  ELSE h

\* ABM_REMOVE, when the bar is registered.
Freed(h) ==
  IF h.registered THEN [shell EXCEPT !.knows = FALSE, !.reserved = NoRect] ELSE shell

\* ABM_SETPOS makes the shell notify the appbars; it may name this one too.
Notified(n) == {n} \cup {k \in {n + 1} : k <= MaxNotes}

\* ApplyAppBarPosition from a bar as h and a shell as kept. A shell that has
\* been restarted does not know a bar that still counts itself registered.
ApplyAppBarPosition(h, kept) ==
  \E r \in RegisterAppBar(h) :
    LET bar   == ComputeBarRect(h)
        knows == kept.knows \/ (r.registered /\ ~h.registered)
        sets  == r.registered /\ bar # r.last
    IN /\ hud' = [r EXCEPT !.bar = bar, !.last = bar, !.shown = TRUE]
       /\ shell' = [kept EXCEPT !.knows = knows, !.refused = @ \/ ~r.registered,
                                !.reserved = IF sets /\ knows THEN bar ELSE @]
       /\ notes' \in IF sets /\ knows THEN Notified(notes) ELSE {notes}

HudInit ==
  /\ layout \in Layouts
  /\ \E p \in Positions :
       hud = [pos |-> p, shown |-> FALSE, registered |-> FALSE, pending |-> FALSE,
              last |-> NoRect, bar |-> [edge |-> p, layout |-> layout, own |-> 0]]
  /\ \E up \in BOOLEAN : shell = [up |-> up, knows |-> FALSE, reserved |-> NoRect,
                                  refused |-> FALSE]
  /\ notes = 0 /\ posts = 0 /\ moves = 0

-----------------------------------------------------------------------------
(* The operations the window calls. *)

Show == ApplyAppBarPosition(hud, shell) /\ UNCHANGED posts

\* Mutant: hiding the window is all there is to do.
HideOnly ==
  /\ hud' = [hud EXCEPT !.shown = FALSE]
  /\ UNCHANGED <<shell, notes, posts>>

Hide ==
  /\ hud' = [UnregisterAppBar(hud) EXCEPT !.shown = FALSE]
  /\ shell' = Freed(hud)
  /\ UNCHANGED <<notes, posts>>

SetPosition(p) ==
  /\ UNCHANGED posts
  /\ IF hud.shown /\ hud.pos # p
     THEN ApplyAppBarPosition([UnregisterAppBar(hud) EXCEPT !.pos = p], Freed(hud))
     ELSE hud' = [hud EXCEPT !.pos = p] /\ UNCHANGED <<shell, notes>>

-----------------------------------------------------------------------------
(* The messages of the bar's window. *)

AppBarCallback ==
  /\ notes > 0 /\ notes' = notes - 1
  /\ IF hud.shown /\ ~hud.pending
     THEN hud' = [hud EXCEPT !.pending = TRUE] /\ posts' = posts + 1
     ELSE UNCHANGED <<hud, posts>>
  /\ UNCHANGED <<shell, layout, moves>>

\* Mutant: the flag that holds further notifications back is never reset.
AppBarRepositionPending ==
  /\ posts > 0 /\ posts' = posts - 1
  /\ IF hud.shown
     THEN ApplyAppBarPosition(hud, shell)
     ELSE UNCHANGED <<hud, shell, notes>>
  /\ UNCHANGED <<layout, moves>>

AppBarReposition ==
  /\ posts > 0 /\ posts' = posts - 1
  /\ IF hud.shown
     THEN ApplyAppBarPosition([hud EXCEPT !.pending = FALSE], shell)
     ELSE UNCHANGED <<hud, shell, notes>>
  /\ UNCHANGED <<layout, moves>>

\* External: the taskbar or another appbar moves; the shell notifies the
\* registered appbars.
LayoutChanges ==
  /\ moves < MaxMoves /\ moves' = moves + 1
  /\ layout' \in Layouts \ {layout}
  /\ notes < MaxNotes
  /\ notes' = IF shell.knows THEN notes + 1 ELSE notes
  /\ UNCHANGED <<hud, shell, posts>>

\* External: Explorer ends, with its list of appbars, or is started again.
ShellChanges ==
  /\ shell' = [shell EXCEPT !.up = ~@, !.knows = FALSE, !.reserved = NoRect]
  /\ UNCHANGED <<hud, layout, notes, posts>>

Pump == AppBarCallback \/ AppBarReposition

-----------------------------------------------------------------------------

HudTypeOK ==
  /\ hud \in [pos : Positions, shown : BOOLEAN, registered : BOOLEAN, pending : BOOLEAN,
              last : Rects \cup {NoRect}, bar : Rects]
  /\ shell \in [up : BOOLEAN, knows : BOOLEAN, refused : BOOLEAN,
               reserved : Rects \cup {NoRect}]
  /\ layout \in Layouts
  /\ notes \in 0 .. MaxNotes /\ posts \in Nat /\ moves \in 0 .. MaxMoves

\* What the shell keeps free is where the bar is shown, and nothing is kept
\* for a bar that is not (UnregisterAppBar in Hide and SetPosition).
ReservedIsShown ==
  shell.reserved # NoRect => hud.shown /\ hud.registered /\ shell.reserved = hud.bar

\* Once the user and the desktop rest the messages end: placing the bar does not
\* make the shell move it again (the comparison with m_last_appbar_rect).
BarSettles == <>[](notes = 0 /\ posts = 0)

\* The messages end, and a bar the shell knows is then where the desktop as it
\* is puts it: no notification is swallowed for good by
\* m_appbar_reposition_pending, and no placement starts from what the bar itself
\* reserves. Once the shell has refused the bar it may be: a bar hidden
\* unregistered keeps the flag it had.
BarFollows ==
  /\ BarSettles
  /\ <>[](hud.shown /\ shell.knows /\ ~shell.refused
            => hud.bar = [edge |-> hud.pos, layout |-> layout, own |-> 0])
=============================================================================
