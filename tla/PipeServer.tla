----------------------------- MODULE PipeServer -----------------------------
(***************************************************************************)
(* The named pipe (service/ipc/pipe_server.cpp): one thread offers a pipe  *)
(* instance at a time and waits for somebody to connect to it or for the   *)
(* stop event; every connection gets a thread of its own, which pushes     *)
(* frames until the client is gone or the stop event is set.  Clients come *)
(* and go at any moment, also between the creation of an instance and the  *)
(* call of ConnectNamedPipe.  ServiceLifecycle starts and stops it.        *)
(***************************************************************************)
EXTENDS Naturals, FiniteSets

CONSTANTS Conns,      \* connections, one for every time somebody connects
          EventFails  \* may CreateEvent fail in PipeServerInit?

ASSUME PipeAssumption == EventFails \in BOOLEAN

VARIABLES
  stop,       \* the flag all threads look at
  stopEvent,  \* s_stop_event: "null", "unset" or "set"
  pipePc,     \* the thread of PipeServerRun
  offered,    \* the connection on the instance it offers: a set, empty or one
  signalled,  \* ov.hEvent
  client,     \* what the client's end of each connection is
  handler,    \* the thread of each connection
  frames      \* the connections that have got a frame

pipeVars == <<stop, stopEvent, pipePc, offered, signalled, client, handler, frames>>

PipeInit ==
  /\ stop = FALSE
  /\ stopEvent = "null"
  /\ pipePc = "none" /\ offered = {} /\ signalled = FALSE
  /\ client = [c \in Conns |-> "away"]
  /\ handler = [c \in Conns |-> "none"]
  /\ frames = {}

\* The manual-reset event exists and is set.
Stopped == stopEvent = "set"
EventAfterSet == IF stopEvent = "null" THEN "null" ELSE "set"

-----------------------------------------------------------------------------
\* Clients.

\* There is an instance that listens: created, and nobody on it.
Listening == pipePc \in {"created", "waiting"} /\ offered = {}

(* CreateFile on the pipe.  Only a connection made while ConnectNamedPipe  *)
(* waits sets the event; after an early one it fails with                  *)
(* ERROR_PIPE_CONNECTED and leaves the event alone.                        *)
Connect(c) ==
  /\ client[c] = "away" /\ Listening
  /\ client' = [client EXCEPT ![c] = "open"]
  /\ offered' = {c}
  /\ signalled' = (pipePc = "waiting")
  /\ UNCHANGED <<stop, stopEvent, pipePc, handler, frames>>

Leave(c) ==
  /\ client[c] = "open"
  /\ client' = [client EXCEPT ![c] = "left"]
  /\ UNCHANGED <<stop, stopEvent, pipePc, offered, signalled, handler, frames>>

-----------------------------------------------------------------------------
\* PipeServerRun.

(* PipeServerInit, by the main program before the threads exist; if it     *)
(* fails the server is started all the same.                               *)
PipeServerInit ==
  /\ pipePc = "none" /\ stopEvent = "null"
  /\ stopEvent' \in {"unset"} \cup IF EventFails THEN {"null"} ELSE {}
  /\ UNCHANGED <<stop, offered, signalled, client, handler, frames>>

\* The loop's test, and CreateNamedPipe.
CreateInstance ==
  /\ pipePc = "loop"
  /\ pipePc' = IF stop THEN "ending" ELSE "created"
  /\ UNCHANGED <<stop, stopEvent, offered, signalled, client, handler, frames>>

CreateInstanceFails ==
  /\ pipePc = "loop" /\ ~stop
  /\ UNCHANGED pipeVars

\* ConnectNamedPipe.
ConnectNamedPipe ==
  /\ pipePc = "created"
  /\ pipePc' = "waiting"
  /\ UNCHANGED <<stop, stopEvent, offered, signalled, client, handler, frames>>

\* WaitForMultipleObjects returns the first object: a thread for the client.
Accept ==
  /\ pipePc = "waiting" /\ signalled /\ stopEvent # "null"
  /\ handler' = [c \in Conns |-> IF c \in offered THEN "started" ELSE handler[c]]
  /\ pipePc' = "loop" /\ offered' = {} /\ signalled' = FALSE
  /\ UNCHANGED <<stop, stopEvent, client, frames>>

\* Mutant: the handle of the instance not closed.
GiveUpKeepsPipe ==
  /\ pipePc = "waiting" /\ (stopEvent = "null" \/ (Stopped /\ ~signalled))
  /\ pipePc' = "ending" /\ offered' = {} /\ signalled' = FALSE
  /\ UNCHANGED <<stop, stopEvent, client, handler, frames>>

(* It returns the stop event, or fails because that does not exist.  The   *)
(* instance is closed, and with it the connection of an early client.      *)
GiveUp ==
  /\ pipePc = "waiting" /\ (stopEvent = "null" \/ (Stopped /\ ~signalled))
  /\ pipePc' = "ending" /\ offered' = {} /\ signalled' = FALSE
  /\ client' = [c \in Conns |->
                  IF c \in offered /\ client[c] = "open" THEN "dropped" ELSE client[c]]
  /\ UNCHANGED <<stop, stopEvent, handler, frames>>

\* Mutant: the stop event left alone.
EndLoopSilent ==
  /\ pipePc = "ending"
  /\ pipePc' = "joining"
  /\ UNCHANGED <<stop, stopEvent, offered, signalled, client, handler, frames>>

\* SetEvent after the loop.
EndLoop ==
  /\ pipePc = "ending"
  /\ pipePc' = "joining"
  /\ stopEvent' = EventAfterSet
  /\ UNCHANGED <<stop, offered, signalled, client, handler, frames>>

Join ==
  /\ pipePc = "joining"
  /\ \A c \in Conns : handler[c] \in {"none", "ended"}
  /\ pipePc' = "ended"
  /\ UNCHANGED <<stop, stopEvent, offered, signalled, client, handler, frames>>

-----------------------------------------------------------------------------
\* HandleClient.

(* One round of the loop: a frame, or none if the read was torn.  With a   *)
(* client that does not read, WriteFile waits.                             *)
Push(c) ==
  /\ handler[c] = "started" /\ ~Stopped /\ client[c] = "open"
  /\ frames' \in {frames, frames \cup {c}}
  /\ UNCHANGED <<stop, stopEvent, pipePc, offered, signalled, client, handler>>

\* The event is set, or WriteFile fails: the pipe is disconnected and closed.
EndHandler(c) ==
  /\ handler[c] = "started" /\ (Stopped \/ client[c] # "open")
  /\ handler' = [handler EXCEPT ![c] = "ended"]
  /\ client' = [client EXCEPT ![c] = IF @ = "open" THEN "dropped" ELSE @]
  /\ UNCHANGED <<stop, stopEvent, pipePc, offered, signalled, frames>>

-----------------------------------------------------------------------------
PipeThread == \/ CreateInstance \/ CreateInstanceFails \/ ConnectNamedPipe
              \/ Accept \/ GiveUp \/ EndLoop \/ Join
Handler(c) == Push(c) \/ EndHandler(c)
Client(c)  == Connect(c) \/ Leave(c)

PipeFairness ==
  /\ SF_pipeVars(CreateInstance)
  /\ WF_pipeVars(ConnectNamedPipe \/ Accept \/ GiveUp \/ EndLoop \/ Join)
  /\ \A c \in Conns : /\ WF_pipeVars(EndHandler(c))
                      /\ SF_pipeVars(Push(c) /\ frames' # frames)
=============================================================================
