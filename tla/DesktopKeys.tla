----------------------------- MODULE DesktopKeys -----------------------------
(***************************************************************************)
(* The key the desktop client itself uses: config.api_key, its copy in     *)
(* client.json, the API page that creates, deletes and rotates keys        *)
(* (client/pages/api_page.cpp, the callbacks of client/window.cpp) and the *)
(* field of the settings page (client/pages/settings_page.cpp). All of it  *)
(* is the window's thread, which waits for each answer.                    *)
(*                                                                         *)
(* The service is its routes (service/ipc/http_server.cpp) over what       *)
(* became of each key, its store being ApiKeyStore. A request may not      *)
(* arrive, be carried out without an answer, or be answered. Keys end by   *)
(* themselves, too: at their date, at a restart, by another client.        *)
(* exchanged is not the client's: the keys the settings page ever put into *)
(* the configuration, or out of it.                                        *)
(***************************************************************************)
EXTENDS Integers, FiniteSets

CONSTANTS NoKey,       \* no key, in a setting or in the page's field
          Undrawn,     \* the settings page has not been drawn yet
          MaxDrawn,    \* bound of the runs: keys
          MaxActs      \* bound of the runs: what users and other clients do

ASSUME DesktopKeysAssumption ==
  /\ MaxDrawn \in Nat /\ MaxActs \in Nat
  /\ NoKey \notin Nat /\ Undrawn \notin Nat /\ Undrawn # NoKey

VARIABLES
  fate,              \* per key: "unborn", "live", "expired" (listed, but not
                     \* accepted), "ended", or "retired": the desktop asked
                     \* for its end, and knows of it
  saved, stored,     \* config.api_key, and the one of client.json
  field,             \* m_edit_api_key
  cache, fed, rects, \* m_key_cache; was the page given it? m_row_rects
  dialog, banner,    \* m_dialog_open, m_last_new_key
  acts, exchanged

savedVars      == <<saved, stored>>
listVars       == <<cache, fed, rects>>
pageKeyVars    == <<dialog, banner>>
desktopKeyVars == <<fate, saved, stored, field, cache, fed, rects, dialog, banner,
                    acts, exchanged>>

Drawn == 1 .. MaxDrawn
Listed(f) == {k \in Drawn : f[k] \in {"live", "expired"}}

DesktopKeysInit ==
  /\ fate = [k \in Drawn |-> "unborn"]
  /\ saved = NoKey /\ stored = NoKey /\ field = Undrawn
  /\ cache = {} /\ fed = FALSE /\ rects = {}
  /\ dialog = FALSE /\ banner = NoKey
  /\ acts = 0 /\ exchanged = {}

Act == acts < MaxActs /\ acts' = acts + 1

-----------------------------------------------------------------------------
(* The service. *)

\* CheckAuth: a header is sent if there is a key to send (ApiHeaders).
CheckAuth(key) == key # NoKey /\ fate[key] = "live"

\* The next key. Anybody on the machine may create one, whatever key is sent.
Fresh(k) == fate[k] = "unborn" /\ \A j \in Drawn : j < k => fate[j] # "unborn"
Born(k)  == [fate EXCEPT ![k] = "live"]

\* A delete of k or its rotation into n (NoKey for a delete).
Removed(k, n, how) ==
  [j \in Drawn |-> IF j = k THEN how ELSE IF j = n THEN "live" ELSE fate[j]]

-----------------------------------------------------------------------------
(* The desktop. *)

Adopt(key) == saved' = key /\ stored' = key

(* OnApiTick, when the keys are f and the desktop's is key: a list that    *)
(* does not arrive, or is refused, leaves the one there was. It is given   *)
(* to the page either way.                                                 *)
OnApiTick(f, key) ==
  /\ \/ key # NoKey /\ f[key] = "live" /\ cache' = Listed(f)
     \/ UNCHANGED cache
  /\ fed' = TRUE /\ UNCHANGED rects

ApiTick ==
  /\ OnApiTick(fate, saved)
  /\ UNCHANGED <<fate, savedVars, field, pageKeyVars, acts, exchanged>>

\* DrawTable: what can be clicked are the rows drawn last.
DrawTable ==
  /\ rects' = IF fed THEN cache ELSE {}
  /\ UNCHANGED <<fate, savedVars, field, cache, fed, pageKeyVars, acts, exchanged>>

NewKeyButton ==
  /\ Act /\ dialog' = TRUE
  /\ UNCHANGED <<fate, savedVars, field, listVars, banner, exchanged>>

\* Cancel, Escape, or a click beside the dialog.
CancelDialog ==
  /\ dialog /\ dialog' = FALSE
  /\ UNCHANGED <<fate, savedVars, field, listVars, banner, acts, exchanged>>

\* The create callback: the new key becomes the desktop's if it has none.
CreateKey ==
  /\ dialog /\ dialog' = FALSE
  /\ \/ UNCHANGED <<fate, savedVars, listVars>> /\ banner' = NoKey
     \/ \E k \in Drawn : /\ Fresh(k) /\ fate' = Born(k) /\ banner' = NoKey
                         /\ UNCHANGED <<savedVars, listVars>>
     \/ \E k \in Drawn : /\ Fresh(k) /\ fate' = Born(k) /\ banner' = k
                         /\ IF saved = NoKey THEN Adopt(k) ELSE UNCHANGED savedVars
                         /\ OnApiTick(fate', saved')
  /\ UNCHANGED <<field, acts, exchanged>>

(* The delete callback: the desktop's key is cleared if the cache has its  *)
(* prefix under the id deleted. Refused (401), not found (404) and not     *)
(* answered are one.                                                       *)
DeleteKey(k) ==
  /\ Act /\ k \in rects /\ ~dialog
  /\ \/ UNCHANGED <<fate, savedVars, listVars>>
     \/ /\ CheckAuth(saved) /\ k \in Listed(fate)
        /\ fate' = Removed(k, NoKey, "ended")
        /\ UNCHANGED <<savedVars, listVars>>
     \/ /\ CheckAuth(saved) /\ k \in Listed(fate)
        /\ fate' = Removed(k, NoKey, "retired")
        /\ IF k \in cache /\ saved = k THEN Adopt(NoKey) ELSE UNCHANGED savedVars
        /\ OnApiTick(fate', saved')
  /\ UNCHANGED <<field, pageKeyVars, exchanged>>

\* Mutant: the replacement is adopted as a created key is, if there is none.
RotateKeyIfNone(k) ==
  /\ Act /\ k \in rects /\ ~dialog
  /\ \/ UNCHANGED <<fate, savedVars, listVars, banner>>
     \/ \E n \in Drawn :
          /\ CheckAuth(saved) /\ k \in Listed(fate) /\ Fresh(n)
          /\ fate' = Removed(k, n, "retired") /\ banner' = n
          /\ IF saved = NoKey THEN Adopt(n) ELSE UNCHANGED savedVars
          /\ OnApiTick(fate', saved')
  /\ UNCHANGED <<field, dialog, exchanged>>

\* The rotate callback: the replacement of whichever key becomes the desktop's.
RotateKey(k) ==
  /\ Act /\ k \in rects /\ ~dialog
  /\ \/ UNCHANGED <<fate, savedVars, listVars, banner>>
     \/ \E n \in Drawn :
          /\ CheckAuth(saved) /\ k \in Listed(fate) /\ Fresh(n)
          /\ fate' = Removed(k, n, "ended")
          /\ UNCHANGED <<savedVars, listVars, banner>>
     \/ \E n \in Drawn :
          /\ CheckAuth(saved) /\ k \in Listed(fate) /\ Fresh(n)
          /\ fate' = Removed(k, n, "retired")
          /\ Adopt(n) /\ banner' = n /\ OnApiTick(fate', n)
  /\ UNCHANGED <<field, dialog, exchanged>>

\* StartMetricLoggingSession without a key first creates one; the list is not
\* fetched.
BootstrapKey ==
  /\ Act /\ saved = NoKey
  /\ \E k \in Drawn : /\ Fresh(k) /\ fate' = Born(k)
                      /\ Adopt(k) \/ UNCHANGED savedVars
  /\ UNCHANGED <<field, listVars, pageKeyVars, exchanged>>

-----------------------------------------------------------------------------
(* The settings page. *)

\* Draw: the fields are copies of the configuration, made once per page, and
\* again after the field of the URL was emptied.
DrawFields ==
  /\ field = Undrawn /\ field' = saved
  /\ UNCHANGED <<fate, savedVars, listVars, pageKeyVars, acts, exchanged>>

EmptyUrl ==
  /\ Act /\ field # Undrawn /\ field' = Undrawn
  /\ UNCHANGED <<fate, savedVars, listVars, pageKeyVars, exchanged>>

TypeKey(k) ==
  /\ Act /\ field # Undrawn /\ field' = k
  /\ k # NoKey => fate[k] # "unborn"
  /\ UNCHANGED <<fate, savedVars, listVars, pageKeyVars, exchanged>>

\* CommitEdits: an empty field changes nothing. Save writes the configuration
\* to the file, Return in a field does not.
CommitEdits(save) ==
  /\ Act /\ field # Undrawn
  /\ saved' = IF field = NoKey THEN saved ELSE field
  /\ stored' = IF save THEN saved' ELSE stored
  /\ exchanged' = IF saved' = saved THEN exchanged
                  ELSE exchanged \cup ({saved, saved'} \ {NoKey})
  /\ UNCHANGED <<fate, field, listVars, pageKeyVars>>

-----------------------------------------------------------------------------
(* The window, and the others. *)

\* Every other setting is saved together with the key.
SaveConfig ==
  /\ stored' = saved
  /\ UNCHANGED <<fate, saved, field, listVars, pageKeyVars, acts, exchanged>>

\* The pages are deleted and built again when Direct2D loses its target.
RebuildPages ==
  /\ Act /\ field' = Undrawn /\ fed' = FALSE /\ rects' = {}
  /\ dialog' = FALSE /\ banner' = NoKey
  /\ UNCHANGED <<fate, savedVars, cache, exchanged>>

\* The client ends without saving, possibly inside SaveConfig, which leaves a
\* file that cannot be parsed, and is started again.
RestartDesktop ==
  /\ Act
  /\ Adopt(stored) \/ Adopt(NoKey)
  /\ field' = Undrawn /\ cache' = {} /\ fed' = FALSE /\ rects' = {}
  /\ dialog' = FALSE /\ banner' = NoKey
  /\ UNCHANGED <<fate, exchanged>>

\* External: another client's key, or the end of one.
Elsewhere ==
  /\ Act
  /\ \E k \in Drawn : \/ Fresh(k) /\ fate' = Born(k)
                      \/ \E how \in {"expired", "ended"} :
                           k \in Listed(fate) /\ fate' = [fate EXCEPT ![k] = how]
  /\ UNCHANGED <<savedVars, field, listVars, pageKeyVars, exchanged>>

DesktopKeysNext ==
  \/ ApiTick \/ DrawTable \/ NewKeyButton \/ CancelDialog \/ CreateKey \/ BootstrapKey
  \/ \E k \in Drawn : DeleteKey(k) \/ RotateKey(k)
  \/ DrawFields \/ EmptyUrl \/ SaveConfig
  \/ \E k \in Drawn \cup {NoKey} : TypeKey(k)
  \/ \E save \in BOOLEAN : CommitEdits(save)
  \/ RebuildPages \/ RestartDesktop \/ Elsewhere

DesktopKeysSpec == DesktopKeysInit /\ [][DesktopKeysNext]_desktopKeyVars

-----------------------------------------------------------------------------
(* The desktop never goes on with a key that it has itself deleted or      *)
(* rotated and was told so, through lists that are out of date, lost       *)
(* answers, rebuilt pages and restarts, unless the settings page put that  *)
(* key back or took it out.                                                *)
RetiredIsForgotten ==
  saved # NoKey /\ fate[saved] = "retired" => saved \in exchanged

(* README.md:641: "API keys are created and managed through the GUI's API  *)
(* page": a creation the page shows leaves the desktop with a key the      *)
(* service accepts, so that the page can list, delete and rotate.          *)
CreationLetsIn ==
  [][banner' # NoKey /\ banner' # banner => saved' # NoKey /\ fate'[saved'] = "live"]_desktopKeyVars
=============================================================================
