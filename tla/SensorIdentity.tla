---------------------------- MODULE SensorIdentity ----------------------------
(***************************************************************************)
(* Who a sensor is and which fleet host it belongs to: enrollment.json,    *)
(* EnterpriseConfigInit at every start of the service, the enrolment route *)
(* on the threads of the HTTP server, and the heartbeats to the host.      *)
(* s_cfg is one unguarded object: its fields are assigned one after the    *)
(* other while the other threads read it.                                  *)
(*                                                                         *)
(* The last four variables are not the service's: the URLs that were ever  *)
(* configured, which host's operator accepted which identity, the          *)
(* identities whose enrolment was confirmed, and whether the file was ever *)
(* lost, torn or not written.                                              *)
(***************************************************************************)
EXTENDS Naturals, FiniteSets

CONSTANTS Hosts,        \* fleet hosts, named by their URL
          NoHost,
          Garbled,      \* a string read while it is assigned
          EnrolThreads, \* HTTP threads
          MaxIds,       \* bound of the runs: identities ever generated
          MaxStarts,    \* bound of the runs: starts of the service
          MaxEnrols     \* bound of the runs: enrolment requests

ASSUME IdentityAssumption ==
  /\ NoHost \notin Hosts /\ Garbled \notin Hosts \cup {NoHost}
  /\ MaxIds \in Nat /\ MaxStarts \in Nat /\ MaxEnrols \in Nat

VARIABLES phase,      \* of the service: "down", "starting", "up"
          starts,
          cfg,        \* s_cfg
          env,        \* mode and host URL of the environment and the registry
          enrollment, \* enrollment.json
          ids,        \* identities generated so far
          enrol,      \* per HTTP thread: where RecordLabEnrollment is
          enrols,
          sent,       \* the last heartbeat: to whom, of which identity
          configured, consent, answered, lost

identityVars == <<phase, starts, cfg, env, enrollment, ids, enrol, enrols, sent,
                  configured, consent, answered, lost>>

ghostVars == <<configured, consent, answered, lost>>
boundVars == <<starts, enrols>>

Modes == {"FullHost", "FleetHost", "SensorClient"}
Stored(c) == [whole |-> TRUE, id |-> c.id, url |-> c.url, state |-> c.state,
              host |-> c.host]
TornFile == [whole |-> FALSE, id |-> 0, url |-> NoHost, state |-> "not_enrolled",
             host |-> NoHost]
EnrolIdle == [at |-> "idle", host |-> NoHost, scheme |-> FALSE, json |-> TornFile]
Busy == {h \in EnrolThreads : enrol[h].at # "idle"}

IdentityInit ==
  /\ phase = "down" /\ starts = 0
  /\ cfg = [id |-> 0, mode |-> "FullHost", url |-> NoHost, state |-> "not_enrolled",
            host |-> NoHost]
  /\ env = [mode |-> "FullHost", url |-> NoHost]
  /\ enrollment = TornFile /\ ids = 0
  /\ enrol = [h \in EnrolThreads |-> EnrolIdle] /\ enrols = 0
  /\ sent = [to |-> NoHost, id |-> 0]
  /\ configured = {NoHost} /\ consent = {} /\ answered = {} /\ lost = FALSE

-----------------------------------------------------------------------------
\* What EnterpriseConfigInit makes of the environment and the file: a file that
\* does not parse gives a new identity, a configured URL wins over the file's.
Loaded(e) ==
  LET f == enrollment
  IN  [id    |-> IF f.whole THEN f.id ELSE ids + 1,
       mode  |-> e.mode,
       url   |-> IF e.url # NoHost THEN e.url ELSE f.url,
       state |-> f.state, host |-> f.host]

\* SaveConfig opens the file, which truncates it, or cannot open it.
OpenEnrollment(opened) == enrollment' = IF opened THEN TornFile ELSE enrollment

EnterpriseConfigInit ==
  /\ phase = "down" /\ starts < MaxStarts /\ starts' = starts + 1
  /\ enrollment.whole \/ ids < MaxIds
  /\ env' \in [mode : Modes, url : Hosts \cup {NoHost}]
  /\ configured' = configured \cup {env'.url}
  /\ cfg' = Loaded(env')
  /\ ids' = IF enrollment.whole THEN ids ELSE ids + 1
  /\ lost' = (lost \/ (ids > 0 /\ ~enrollment.whole))
  /\ \E opened \in BOOLEAN :
       /\ OpenEnrollment(opened)
       /\ phase' = IF opened THEN "starting" ELSE "up"
  /\ UNCHANGED <<enrol, enrols, sent, consent, answered>>

InitWritten ==
  /\ phase = "starting" /\ phase' = "up"
  /\ enrollment' = Stored(cfg)
  /\ UNCHANGED <<boundVars, cfg, env, ids, enrol, sent, ghostVars>>

\* External: the service is stopped or its process dies, anywhere.
ServiceEnds ==
  /\ phase # "down" /\ phase' = "down"
  /\ enrol' = [h \in EnrolThreads |-> EnrolIdle]
  /\ UNCHANGED <<boundVars, cfg, env, enrollment, ids, sent, ghostVars>>

-----------------------------------------------------------------------------
(* POST /api/v1/enrollment/request *)

At(h, step) == phase = "up" /\ enrol[h].at = step
GoOn(h, step) == enrol' = [enrol EXCEPT ![h].at = step]

\* Mutant: the fingerprint in the request is not compared.
EnrolmentRequestAny(h, host, id, accept) ==
  /\ At(h, "idle") /\ enrols < MaxEnrols /\ enrols' = enrols + 1
  /\ consent' = IF accept THEN consent \cup {<<host, id>>} ELSE consent
  /\ accept /\ enrol' = [enrol EXCEPT ![h] = [EnrolIdle EXCEPT !.at = "state", !.host = host]]
  /\ UNCHANGED <<phase, starts, cfg, env, enrollment, ids, sent, configured, answered, lost>>

\* An operator accepts the identity the host has read from the readiness route,
\* now or before the service was restarted.
EnrolmentRequest(h, host, id, accept) ==
  /\ At(h, "idle") /\ enrols < MaxEnrols /\ enrols' = enrols + 1
  /\ consent' = IF accept THEN consent \cup {<<host, id>>} ELSE consent
  /\ IF accept /\ id = cfg.id
     THEN \E scheme \in BOOLEAN :
            enrol' = [enrol EXCEPT ![h] = [EnrolIdle EXCEPT !.at = "state", !.host = host,
                                                            !.scheme = scheme]]
     ELSE UNCHANGED enrol
  /\ UNCHANGED <<phase, starts, cfg, env, enrollment, ids, sent, configured, answered, lost>>

\* RecordLabEnrollment, assignment by assignment.
AssignState(h) ==
  /\ At(h, "state") /\ GoOn(h, "host")
  /\ cfg' = [cfg EXCEPT !.state = "enrolled_lab"]
  /\ UNCHANGED <<phase, boundVars, env, enrollment, ids, sent, ghostVars>>

AssignHost(h) ==
  /\ At(h, "host") /\ GoOn(h, "url")
  /\ cfg' = [cfg EXCEPT !.host = enrol[h].host]
  /\ UNCHANGED <<phase, boundVars, env, enrollment, ids, sent, ghostVars>>

\* Only an address with a scheme becomes the host URL. The JSON is complete
\* before the file is opened.
AssignUrl(h) ==
  /\ At(h, "url")
  /\ cfg' = IF enrol[h].scheme THEN [cfg EXCEPT !.url = enrol[h].host] ELSE cfg
  /\ enrol' = [enrol EXCEPT ![h].at = "open", ![h].json = Stored(cfg')]
  /\ UNCHANGED <<phase, boundVars, env, enrollment, ids, sent, ghostVars>>

\* Mutant: the enrolment is kept in memory only.
OpenToEnrolNot(h) ==
  /\ At(h, "open") /\ GoOn(h, "answer")
  /\ UNCHANGED <<phase, boundVars, cfg, env, enrollment, ids, sent, ghostVars>>

OpenToEnrol(h) ==
  /\ At(h, "open")
  /\ \E opened \in BOOLEAN :
       /\ OpenEnrollment(opened)
       /\ GoOn(h, IF opened THEN "write" ELSE "answer")
       /\ lost' = (lost \/ ~opened)
  /\ UNCHANGED <<phase, boundVars, cfg, env, ids, sent, configured, consent, answered>>

\* Two threads that write at once leave the one's text, or the shorter over the
\* longer one.
WriteEnrolment(h) ==
  /\ At(h, "write") /\ GoOn(h, "answer")
  /\ enrollment' \in {enrol[h].json} \cup IF Busy = {h} THEN {} ELSE {TornFile}
  /\ UNCHANGED <<phase, boundVars, cfg, env, ids, sent, ghostVars>>

Answer(h) ==
  /\ At(h, "answer") /\ enrol' = [enrol EXCEPT ![h] = EnrolIdle]
  /\ answered' = answered \cup {cfg.id}
  /\ UNCHANGED <<phase, boundVars, cfg, env, enrollment, ids, sent, configured, consent, lost>>

-----------------------------------------------------------------------------
\* FleetHeartbeatRun, once.
FleetHeartbeat ==
  /\ phase = "up" /\ cfg.mode # "FleetHost" /\ cfg.url # NoHost
  /\ \E to \in {cfg.url} \cup
         IF \E h \in EnrolThreads : enrol[h].at = "url" /\ enrol[h].scheme
         THEN {Garbled} ELSE {} :
       sent' = [to |-> to, id |-> cfg.id]
  /\ UNCHANGED <<phase, boundVars, cfg, env, enrollment, ids, enrol, ghostVars>>

IdentityNext ==
  \/ EnterpriseConfigInit \/ InitWritten \/ ServiceEnds
  \/ \E h \in EnrolThreads :
       \/ \E host \in Hosts, id \in 1 .. ids, accept \in BOOLEAN :
            EnrolmentRequest(h, host, id, accept)
       \/ AssignState(h) \/ AssignHost(h) \/ AssignUrl(h)
       \/ OpenToEnrol(h) \/ WriteEnrolment(h) \/ Answer(h)
  \/ FleetHeartbeat

IdentitySpec == IdentityInit /\ [][IdentityNext]_identityVars

-----------------------------------------------------------------------------
Granted(host, id) == <<host, id>> \in consent

\* LabEnrollmentAllowed serves a fleet host because of cfg.enrollment_state: the
\* operator of some host has accepted this very identity, whatever restarts,
\* torn files and other requests came between, and the host on record is one
\* of those. A heartbeat tells of an identity only to a URL that was configured,
\* now or at an earlier start, or to a host whose operator accepted that
\* identity (and out of a string that is being assigned to anyone).
EnrolledIsGranted ==
  /\ \A c \in {cfg, enrollment} :
       /\ c.state = "enrolled_lab" => \E host \in Hosts : Granted(host, c.id)
       /\ c.host # NoHost => Granted(c.host, c.id)
  /\ sent.to \in configured \cup {Garbled} \/ Granted(sent.to, sent.id)

\* An enrolment that was confirmed to the host outlives the service, with the
\* identity it was made for, unless the file was torn or not written.
EnrolmentIsKept ==
  phase = "up" /\ answered # {} /\ ~lost
    => cfg.state = "enrolled_lab" /\ answered = {cfg.id}

\* README.md:194: "Enrolled sensors store the Fleet Host URL and call back with
\* POST /api/v1/fleet/heartbeat".
EnrolledCallsBack ==
  phase = "up" /\ cfg.state = "enrolled_lab" /\ Busy = {} => cfg.url = cfg.host
=============================================================================
