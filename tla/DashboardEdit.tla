---------------------------- MODULE DashboardEdit ----------------------------
(***************************************************************************)
(* What the user chooses to see and to log, which the client keeps four    *)
(* times: the panels of the dashboard's profile, the metric catalog, the   *)
(* metrics page and the HUD ids of the configuration (client/config/*,     *)
(* pages/dashboard_page.cpp, pages/metrics_page.cpp and their handlers in  *)
(* window.cpp). Every handler changes some, copies them into the others    *)
(* and writes the profile, the catalog and the configuration one after the *)
(* other, each in place, so that the end of the process leaves the file    *)
(* being written torn.                                                     *)
(*                                                                         *)
(* choice and intact are not the client's: the metrics the user last chose *)
(* to log, and whether nothing happened that loses them (see below).       *)
(***************************************************************************)
EXTENDS Naturals, Sequences, FiniteSets, SequencesExt

CONSTANTS Panels,       \* metric ids
          Vizzes,       \* the visualisations of a panel, 0 .. n-1
          DefaultHud,   \* MakeDefaultHudMetrics
          Home,         \* Default.json
          Other,        \* a file chosen in the import and export dialogs
          MaxSteps,     \* bound of the runs
          MaxCrashes    \* bound of the runs

\* The files a profile is kept in.
Files == {Home, Other}

ASSUME EditAssumption ==
  /\ DefaultHud \subseteq Panels /\ Home # Other
  /\ Files \cap {"catalog", "config"} = {}
  /\ MaxSteps \in Nat /\ MaxCrashes \in Nat

VARIABLES mem,        \* the client's memory
          disk,       \* its files; Torn when it does not parse
          choice, intact,
          steps, crashes

editVars == <<mem, disk, choice, intact, steps, crashes>>

Torn == <<>>       \* no file, or one that ends in its middle

\* DashboardProfile::MakeDefault
MakeDefault == [p \in Panels |-> [visible |-> TRUE, viz |-> 0, logged |-> TRUE]]

-----------------------------------------------------------------------------
(* The metric catalog model. *)

LoggedMetricIds(catalog) == {p \in DOMAIN catalog : catalog[p].logging}
HudMetricIds(catalog)    == {p \in DOMAIN catalog : catalog[p].hud}

\* Mutant: what the catalog already says of a metric is not kept.
BuildFromDashboardAnew(catalog, profile, hud) ==
  [p \in DOMAIN profile |->
     [dashboard |-> profile[p].visible, viz |-> profile[p].viz,
      hud |-> p \in hud, logging |-> profile[p].logged]]

BuildFromDashboard(catalog, profile, hud) ==
  [p \in DOMAIN profile |->
     LET known == p \in DOMAIN catalog
     IN  [dashboard |-> profile[p].visible, viz |-> profile[p].viz,
          hud     |-> IF known THEN catalog[p].hud ELSE p \in hud,
          logging |-> IF known THEN catalog[p].logging ELSE profile[p].logged]]

ApplyToDashboard(catalog, profile) ==
  [p \in DOMAIN profile |->
     IF p \in DOMAIN catalog
     THEN [visible |-> catalog[p].dashboard, viz |-> catalog[p].viz,
           logged |-> catalog[p].logging]
     ELSE profile[p]]

UpdateLoggingSelection(catalog, ids) ==
  [p \in DOMAIN catalog |-> [catalog[p] EXCEPT !.logging = p \in ids]]
UpdateHudSelection(catalog, ids) ==
  [p \in DOMAIN catalog |-> [catalog[p] EXCEPT !.hud = p \in ids]]

\* BuildHudMetricsFromIds
BuildHudMetricsFromIds(ids) == IF ids = {} THEN DefaultHud ELSE ids

-----------------------------------------------------------------------------
(* The copies from one to the other. *)

\* FlushToProfile, the visualisations chosen since the last one.
FlushToProfile(m) ==
  [m EXCEPT !.profile = [p \in DOMAIN m.profile |->
                           IF p \in DOMAIN m.overrides
                           THEN [m.profile[p] EXCEPT !.viz = m.overrides[p]]
                           ELSE m.profile[p]],
            !.overrides = <<>>]

SyncPagesFromMetricCatalog(m) ==
  LET profile == ApplyToDashboard(m.catalog, m.profile)
      hud     == HudMetricIds(m.catalog)
  IN  [m EXCEPT !.profile = profile,
                !.page = [rows   |-> DOMAIN profile,
                          logged |-> {p \in DOMAIN profile : profile[p].logged},
                          hud    |-> hud],
                !.hudIds = hud,
                !.overlay = BuildHudMetricsFromIds(hud)]

\* Mutant: the edits of an unfinished session stay in the profile.
SyncMetricCatalogFromPagesOnly(m) ==
  LET catalog == UpdateHudSelection(
                   UpdateLoggingSelection(m.catalog, m.page.logged),
                   m.page.hud \cap m.page.rows)
  IN  [m EXCEPT !.catalog = catalog, !.hudIds = HudMetricIds(catalog)]

SyncMetricCatalogFromPages(m) ==
  LET catalog == UpdateHudSelection(
                   UpdateLoggingSelection(m.catalog, m.page.logged),
                   m.page.hud \cap m.page.rows)
  IN  [m EXCEPT !.catalog = catalog,
                !.profile = ApplyToDashboard(catalog, m.profile),
                !.hudIds = HudMetricIds(catalog)]

\* LoadMetricCatalog: a catalog that does not load leaves the one in memory.
LoadMetricCatalog(m, saved) ==
  LET hud     == IF m.hudIds = {} THEN DefaultHud ELSE m.hudIds
      loaded  == IF saved = Torn THEN m.catalog ELSE saved
      catalog == BuildFromDashboard(loaded, m.profile, hud)
  IN  [m EXCEPT !.catalog = catalog,
                !.profile = ApplyToDashboard(catalog, m.profile),
                !.hudIds = HudMetricIds(catalog)]

-----------------------------------------------------------------------------
(* A handler, as what it leaves in memory and the files it writes, in order. *)

Save(m, what) ==
  CASE what = "profile" -> [file |-> m.path, content |-> m.profile]
    [] what = "catalog" -> [file |-> "catalog", content |-> m.catalog]
    [] what = "config"  -> [file |-> "config", content |-> [ids |-> m.hudIds]]

Saves(m, whats) == [i \in DOMAIN whats |-> Save(m, whats[i])]

\* Each file is written anew, so that it holds what it was written last.
Written(d, writes) ==
  [f \in DOMAIN d |->
     LET at == {i \in DOMAIN writes : writes[i].file = f}
     IN  IF at = {} THEN d[f] ELSE writes[Max(at)].content]

\* AppConfig::Load: without a whole file no ids, which means the defaults.
ConfigIds(d) == IF d["config"] = Torn THEN {} ELSE d["config"].ids

\* InitD2DAndPages, from a configuration and a catalog in memory.
InitD2DAndPages(d, hudIds, catalog) ==
  LET profile == IF d[Home] = Torn THEN MakeDefault ELSE d[Home]
      fresh   == [profile |-> profile, path |-> Home, overrides |-> <<>>,
                  edit |-> FALSE, backup |-> <<>>, catalog |-> catalog,
                  page |-> [rows |-> {}, logged |-> {}, hud |-> {}],
                  hudIds |-> hudIds, overlay |-> {}]
  IN  SyncPagesFromMetricCatalog(LoadMetricCatalog(fresh, d["catalog"]))

\* Create: the configuration is loaded, the catalog in memory is empty.
Create(d) == InitD2DAndPages(d, ConfigIds(d), <<>>)

\* The client starts and writes the catalog at once.
Launched(d) ==
  LET m == Create(d) IN [mem |-> m, disk |-> Written(d, Saves(m, <<"catalog">>))]

Handler(m, whats) == [mem |-> m, writes |-> Saves(m, whats)]

-----------------------------------------------------------------------------
(* Clicks on the dashboard. *)

\* The end of OnMouseDown when no session is open before and after, or one was
\* committed: the profile is saved before the catalog is copied into it.
DashboardSaved(m) ==
  LET f     == FlushToProfile(m)
      built == [f EXCEPT !.catalog = BuildFromDashboard(@, f.profile, HudMetricIds(@))]
  IN  [mem    |-> SyncPagesFromMetricCatalog(built),
       writes |-> <<Save(f, "profile"), Save(built, "catalog")>>]

Unsaved(m) == Handler(m, <<>>)
DashboardClicked(m) == IF m.edit THEN Unsaved(m) ELSE DashboardSaved(m)

HidePanel(m, p) == [m EXCEPT !.profile[p].visible = ~@]
ShowAll(m) ==
  [m EXCEPT !.profile = [p \in DOMAIN m.profile |-> [m.profile[p] EXCEPT !.visible = TRUE]]]
Next1(v) == (v + 1) % Cardinality(Vizzes)
Override(m, p, v) ==
  [m EXCEPT !.overrides = [q \in DOMAIN m.overrides \cup {p} |->
                             IF q = p THEN v ELSE m.overrides[q]]]
CycleViz(m, p) ==
  LET current == IF p \in DOMAIN m.overrides THEN m.overrides[p] ELSE m.profile[p].viz
  IN  Override(m, p, Next1(current))
EditCycleViz(m, p) ==
  LET v == Next1(m.profile[p].viz) IN Override([m EXCEPT !.profile[p].viz = v], p, v)
EditReset(m) == [m EXCEPT !.profile = MakeDefault, !.overrides = <<>>]

BeginEditSession(m) == [m EXCEPT !.backup = m.profile, !.edit = TRUE]
CommitEditSession(m) == [FlushToProfile(m) EXCEPT !.edit = FALSE, !.backup = <<>>]
CancelEditSession(m) ==
  [m EXCEPT !.profile = m.backup, !.overrides = <<>>, !.edit = FALSE, !.backup = <<>>]

DashboardHandlers ==
  {DashboardClicked(ShowAll(mem))}
  \cup {DashboardClicked(HidePanel(mem, p)) : p \in {q \in DOMAIN mem.profile :
                                       mem.edit \/ mem.profile[q].visible}}
  \cup {DashboardClicked(CycleViz(mem, p)) : p \in DOMAIN mem.profile}
  \cup (IF mem.edit
        THEN {Unsaved(EditCycleViz(mem, p)) : p \in DOMAIN mem.profile}
               \cup {Unsaved(EditReset(mem)), Unsaved(CancelEditSession(mem)),
                     DashboardSaved(CommitEditSession(mem))}
        ELSE {Unsaved(BeginEditSession(mem))})

-----------------------------------------------------------------------------
(* Clicks on the metrics page: NotifyHudChanged saves the catalog and the    *)
(* configuration first, then OnMouseDown copies and saves everything.        *)

Toggled(s, p) == IF p \in s THEN s \ {p} ELSE s \cup {p}

\* The rows' own boxes, "Display All" and "Default Display".
LoggedClicks == {Toggled(mem.page.logged, p) : p \in mem.page.rows}
HudClicks    == {Toggled(mem.page.hud, p) : p \in mem.page.rows} \cup {{}}

MetricsSaved(m) == Handler(SyncMetricCatalogFromPages(m), <<"profile", "catalog", "config">>)

NotifyHudChanged(m) ==
  LET ids == m.page.hud \cap m.page.rows
  IN  [m EXCEPT !.hudIds = ids, !.catalog = UpdateHudSelection(@, ids),
                !.overlay = BuildHudMetricsFromIds(ids)]

HudClicked(m) ==
  LET notified == NotifyHudChanged(m)
      saved    == MetricsSaved(notified)
  IN  [saved EXCEPT !.writes = Saves(notified, <<"catalog", "config">>) \o @]

MetricsHandlers ==
  {MetricsSaved([mem EXCEPT !.page.logged = ids]) : ids \in LoggedClicks}
  \cup {HudClicked([mem EXCEPT !.page.hud = ids]) : ids \in HudClicks}
  \cup {HudClicked([mem EXCEPT !.page.hud = @ \cup mem.page.rows,
                               !.page.logged = mem.page.rows])}

-----------------------------------------------------------------------------
(* The dialogs, a lost Direct2D target, the end of the window. *)

\* SaveProfile, into the file chosen.
Export ==
  LET m == SyncMetricCatalogFromPages(FlushToProfile(mem))
  IN  {[mem |-> m, writes |-> <<[file |-> Other, content |-> m.profile],
                                Save(m, "catalog")>>]}

\* LoadProfile: the path is the file's even when it does not load, and a file
\* malformed in its middle leaves the panels before that place.
ImportFails ==
  {Unsaved([mem EXCEPT !.path = Other, !.profile = Restrict(@, kept)]) :
     kept \in SUBSET DOMAIN mem.profile}

Import ==
  IF disk[Other] = Torn THEN ImportFails
  ELSE LET m == [mem EXCEPT !.path = Other, !.profile = disk[Other]]
           l == LoadMetricCatalog(m, disk["catalog"])
       IN  {[mem    |-> SyncPagesFromMetricCatalog(l),
             writes |-> <<Save(l, "catalog")>>]}

\* OnRender: everything on the pages is built again from the files.
PagesRebuilt ==
  LET m == InitD2DAndPages(disk, mem.hudIds, mem.catalog)
  IN  {Handler(m, <<"catalog">>)}

\* Destroy, and the next start of the client. An open session ends without its
\* commit or its cancel.
Restart ==
  LET m == FlushToProfile(mem)
      d == Written(disk, Saves(m, <<"profile", "config">>))
  IN  {[mem |-> Create(d), writes |-> Saves(m, <<"profile", "config">>)
                                        \o Saves(Create(d), <<"catalog">>)]}

Handlers ==
  DashboardHandlers \cup MetricsHandlers \cup Export \cup Import \cup PagesRebuilt \cup Restart

-----------------------------------------------------------------------------
(* The steps. *)

\* The user's choice is what the metrics page shows after a click on it; the
\* other handlers make no choice. A file that held fewer panels loses it.
Chosen(h) == IF h \in MetricsHandlers THEN h.mem.page.logged ELSE choice

Handle(h) ==
  /\ mem' = h.mem
  /\ disk' = Written(disk, h.writes)
  /\ choice' = Chosen(h)
  /\ intact' = (intact /\ DOMAIN h.mem.profile = Panels)
  /\ UNCHANGED crashes

\* The process ends while the k-th file is written. The profile a catalog is
\* rebuilt from is excused when its flags were not the catalog's.
Crash(h, k) ==
  LET before == Written(disk, SubSeq(h.writes, 1, k - 1))
      torn   == [before EXCEPT ![h.writes[k].file] = Torn]
      after  == Launched(torn)
      logged == after.mem.page.logged
      told   == LoggedMetricIds(h.mem.catalog)
      stale  == /\ h.writes[k].file = "catalog"
                /\ \/ torn[Home] = Torn
                   \/ {p \in Panels : torn[Home][p].logged} \notin {choice, told}
  IN  /\ crashes < MaxCrashes /\ crashes' = crashes + 1
      /\ mem' = after.mem
      /\ disk' = after.disk
      /\ choice' = IF logged \in {choice, Chosen(h)} THEN logged ELSE choice
      /\ intact' = (intact /\ DOMAIN after.mem.profile = Panels /\ ~stale)

EditInit ==
  /\ mem = Create([f \in Files \cup {"catalog", "config"} |-> Torn])
  /\ disk = [f \in Files \cup {"catalog", "config"} |->
               IF f = "catalog" THEN mem.catalog ELSE Torn]
  /\ choice = Panels /\ intact = TRUE
  /\ steps = 0 /\ crashes = 0

EditNext ==
  /\ steps < MaxSteps /\ steps' = steps + 1
  /\ \/ \E h \in Handlers : Handle(h)
     \/ \E h \in Handlers : \E k \in DOMAIN h.writes : Crash(h, k)

EditSpec == EditInit /\ [][EditNext]_editVars

-----------------------------------------------------------------------------
\* What a file of the profile says of the layout is what the catalog says: the
\* edits of a session reach it only with the commit, or with the exit, whatever
\* is clicked on the other pages in between.
LayoutIsCommitted ==
  \A p \in DOMAIN disk[mem.path] \cap DOMAIN mem.catalog :
    /\ disk[mem.path][p].visible = mem.catalog[p].dashboard
    /\ disk[mem.path][p].viz = mem.catalog[p].viz

\* Between two handlers the metrics page, the catalog, the configuration and
\* the bar say the same of every metric that has a row, and the catalog and the
\* profile's file of the layout.
PagesAgree ==
  /\ mem.page.logged = LoggedMetricIds(mem.catalog)
  /\ mem.page.hud \cap mem.page.rows = HudMetricIds(mem.catalog)
  /\ mem.hudIds = HudMetricIds(mem.catalog)
  /\ mem.overlay = BuildHudMetricsFromIds(mem.hudIds)
  /\ LayoutIsCommitted

\* The metrics the user chose to log survive the edits of the dashboard, a
\* reset or a cancelled session, an import, a lost target, a restart and a
\* crash in the middle of any file: of the profile and the catalog one is whole.
SelectionSurvives == intact => mem.page.logged = choice
=============================================================================
