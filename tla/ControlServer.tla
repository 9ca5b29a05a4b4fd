---------------------------- MODULE ControlServer ----------------------------
(***************************************************************************)
(* The control socket (control.py): the accept loop with its bounded slots,*)
(* one handler thread for each connection, the clients that call it and    *)
(* give up, and the daemon that restarts, crashes and comes back.          *)
(*                                                                         *)
(* A call is one use of control.request: one connection with one request.  *)
(* Time is left out: a timeout may strike whenever its party waits.        *)
(***************************************************************************)
EXTENDS Integers, FiniteSets

CONSTANTS
    Calls,
    Slots,      \* MAX_CONNECTIONS
    Chunks,     \* the pieces of a request line, at most MAX_REQUEST_BYTES
    Faults      \* bound on crashes, and on threads and servers that do not start

ASSUME CallAssumption == IsFiniteSet(Calls)
ASSUME BoundAssumption ==
    Slots \in Nat \ {0} /\ Chunks \in Nat \ {0} /\ Faults \in Nat

VARIABLES
    daemon,     \* "up", "deaf" (up without its server), "stopping" (stop_event
                \* is set) or "down"
    listening,  \* the accept loop runs
    path,       \* SOCKET_PATH exists
    free,       \* _slots
    timer,      \* a restart was asked for and its timer runs
    req,        \* a call's request
    call,       \* a call as its client sees it
    sent,       \* the pieces of its line the client has sent
    conn,       \* a call as the server sees it
    did,        \* history: its command changed the daemon's state
    faults      \* faults so far

server == <<daemon, listening, path, timer, faults>>
client == <<req, call, sent>>
vars == <<server, free, client, conn, did>>

\* A request by what handle and dispatch make of it: a line that is no JSON or
\* too long, JSON that is no object, an unknown command or parameter, one that
\* the group may give, one that only root may, and a restart.
Request == {r \in [kind : {"bad", "list", "unknown", "session", "persist", "restart"},
                   root : BOOLEAN] : r.root => r.kind = "persist"}

Held == {"reading", "working", "acting", "done", "failed", "closing"}

TypeOK ==
    /\ daemon \in {"up", "deaf", "stopping", "down"}
    /\ listening \in BOOLEAN
    /\ path \in BOOLEAN
    /\ free \in 0..Slots
    /\ timer \in BOOLEAN
    /\ req \in [Calls -> Request]
    /\ call \in [Calls -> {"new", "open", "ok", "error", "lost"}]
    /\ sent \in [Calls -> 0..Chunks]
    /\ conn \in [Calls -> Held \cup {"none", "queued", "over"}]
    /\ did \in [Calls -> BOOLEAN]
    /\ faults \in 0..Faults

Init ==
    /\ daemon = "down"
    /\ listening = FALSE
    /\ path = FALSE
    /\ free = Slots
    /\ timer = FALSE
    /\ req \in [Calls -> Request]
    /\ call = [c \in Calls |-> "new"]
    /\ sent = [c \in Calls |-> 0]
    /\ conn = [c \in Calls |-> "none"]
    /\ did = [c \in Calls |-> FALSE]
    /\ faults = 0

----------------------------------------------------------------------------
(* The client: control.request.                                            *)

Connect(c) ==
    /\ call[c] = "new"
    /\ path /\ listening
    /\ call' = [call EXCEPT ![c] = "open"]
    /\ conn' = [conn EXCEPT ![c] = "queued"]
    /\ UNCHANGED <<server, free, req, sent, did>>

\* No socket, or one that nobody listens on.
CannotConnect(c) ==
    /\ call[c] = "new"
    /\ ~path \/ ~listening
    /\ call' = [call EXCEPT ![c] = "lost"]
    /\ UNCHANGED <<server, free, req, sent, conn, did>>

Send(c) ==
    /\ call[c] = "open" /\ sent[c] < Chunks
    /\ sent' = [sent EXCEPT ![c] = @ + 1]
    /\ UNCHANGED <<server, free, req, call, conn, did>>

\* CONNECT_TIMEOUT, or the end of the client.
GiveUp(c) ==
    /\ call[c] = "open"
    /\ call' = [call EXCEPT ![c] = "lost"]
    /\ UNCHANGED <<server, free, req, sent, conn, did>>

\* "daemon closed the connection without replying"
SeeClosed(c) ==
    /\ call[c] = "open"
    /\ conn[c] \in {"closing", "over"}
    /\ call' = [call EXCEPT ![c] = "lost"]
    /\ UNCHANGED <<server, free, req, sent, conn, did>>

----------------------------------------------------------------------------
(* The accept loop: _Server.process_request.                               *)

Accept(c) ==
    /\ listening /\ conn[c] = "queued"
    /\ free > 0
    /\ free' = free - 1
    /\ conn' = [conn EXCEPT ![c] = "reading"]
    /\ UNCHANGED <<server, client, did>>

Drop(c) ==
    /\ listening /\ conn[c] = "queued"
    /\ free = 0
    /\ conn' = [conn EXCEPT ![c] = "over"]
    /\ UNCHANGED <<server, free, client, did>>

\* Mutant: the slot of a thread that never ran is not given back.
ThreadFailsHolding(c) ==
    /\ listening /\ conn[c] = "queued"
    /\ free > 0 /\ faults < Faults
    /\ faults' = faults + 1
    /\ free' = free - 1
    /\ conn' = [conn EXCEPT ![c] = "over"]
    /\ UNCHANGED <<daemon, listening, path, timer, client, did>>

\* The thread does not start: the slot just taken is given back.
ThreadFails(c) ==
    /\ listening /\ conn[c] = "queued"
    /\ free > 0 /\ faults < Faults
    /\ faults' = faults + 1
    /\ conn' = [conn EXCEPT ![c] = "over"]
    /\ UNCHANGED <<daemon, listening, path, timer, free, client, did>>

----------------------------------------------------------------------------
(* A handler thread: _Handler.handle and Daemon.dispatch.                  *)

Goes(c, from, to) ==
    /\ conn[c] = from
    /\ conn' = [conn EXCEPT ![c] = to]

\* Mutant: no timeout on the connection.
ReadWaits(c) ==
    /\ Goes(c, "reading", "closing")
    /\ sent[c] = 0 /\ call[c] # "open"
    /\ UNCHANGED <<server, free, client, did>>

\* Nothing came, or not all of the line, for REQUEST_TIMEOUT since the last
\* piece; or the client hung up before it sent anything.
ReadFails(c) ==
    /\ Goes(c, "reading", "closing")
    /\ \/ sent[c] < Chunks /\ call[c] = "open"
       \/ sent[c] = 0 /\ call[c] # "open"
    /\ UNCHANGED <<server, free, client, did>>

\* A line that ends where the client hung up is taken for a line, and is no JSON.
Read(c) ==
    /\ \/ /\ sent[c] \in 1..(Chunks - 1) /\ call[c] # "open"
          /\ Goes(c, "reading", "failed")
       \/ /\ sent[c] = Chunks
          /\ Goes(c, "reading", CASE req[c].kind = "bad" -> "failed"
                                  [] req[c].kind = "list" -> "closing"
                                  [] OTHER -> "working")
    /\ UNCHANGED <<server, free, client, did>>

Authorized(r) == r.kind = "persist" => r.root

\* _authorize refuses, the command or its parameter is none, or its config
\* could not be loaded or saved.
Refuse(c) ==
    /\ Goes(c, "working", "failed")
    /\ req[c].kind \in {"unknown", "persist"} \/ ~Authorized(req[c])
    /\ UNCHANGED <<server, free, client, did>>

\* Mutant: the reply is written, and the pass left to the main loop.
ActLater(c) ==
    /\ Goes(c, "working", "done")
    /\ req[c].kind # "unknown" /\ Authorized(req[c])
    /\ UNCHANGED <<server, free, client, did>>

\* Mutant: the timer of a restart is not started.
ActUntimed(c) ==
    /\ Goes(c, "working", "acting")
    /\ req[c].kind # "unknown" /\ Authorized(req[c])
    /\ did' = [did EXCEPT ![c] = TRUE]
    /\ UNCHANGED <<server, free, client>>

\* The grant, the saved config, or the timer of the restart.
Act(c) ==
    /\ Goes(c, "working", "acting")
    /\ req[c].kind # "unknown" /\ Authorized(req[c])
    /\ did' = [did EXCEPT ![c] = TRUE]
    /\ timer' = (timer \/ req[c].kind = "restart")
    /\ UNCHANGED <<daemon, listening, path, faults, free, client>>

\* The pass of the command, which may raise; a restart has none.
Pass(c) ==
    /\ \/ Goes(c, "acting", "done")
       \/ req[c].kind # "restart" /\ Goes(c, "acting", "failed")
    /\ UNCHANGED <<server, free, client, did>>

\* A client that is gone does not hear it.
Reply(c) ==
    /\ conn[c] \in {"done", "failed"}
    /\ conn' = [conn EXCEPT ![c] = "closing"]
    /\ call' = [call EXCEPT ![c] = IF @ # "open" THEN @
                                   ELSE IF conn[c] = "done" THEN "ok" ELSE "error"]
    /\ UNCHANGED <<server, free, req, sent, did>>

\* The connection is shut, and then the slot released.
Release(c) ==
    /\ Goes(c, "closing", "over")
    /\ free' = free + 1
    /\ UNCHANGED <<server, client, did>>

----------------------------------------------------------------------------
(* The daemon around the server.                                           *)

\* Mutant: a socket that is left over is in bind's way.
StartOver ==
    /\ daemon = "down"
    /\ daemon' = "up"
    /\ listening' = ~path
    /\ path' = TRUE
    /\ free' = Slots
    /\ UNCHANGED <<timer, faults, client, conn, did>>

\* systemd starts the daemon, whose server removes a socket that is left over,
\* binds its own and listens.
Start ==
    /\ daemon = "down"
    /\ daemon' = "up"
    /\ listening' = TRUE
    /\ path' = TRUE
    /\ free' = Slots
    /\ UNCHANGED <<timer, faults, client, conn, did>>

\* The server does not start, whatever is left at its path: a socket that could
\* not be removed, none, or one that was bound and not served.  The daemon goes on
\* without it and does not try again.
StartDeaf ==
    /\ daemon = "down" /\ faults < Faults
    /\ faults' = faults + 1
    /\ daemon' = "deaf"
    /\ path' \in BOOLEAN
    /\ free' = Slots
    /\ UNCHANGED <<listening, timer, client, conn, did>>

\* 0.3 s after a restart was asked for.
TimerFires ==
    /\ timer
    /\ timer' = FALSE
    /\ daemon' = "stopping"
    /\ UNCHANGED <<listening, path, faults, free, client, conn, did>>

\* What waits in the backlog of a socket is reset when it is closed.
Reset == [c \in Calls |-> IF conn[c] = "queued" THEN "over" ELSE conn[c]]

\* The main loop has seen stop_event: ControlServer.stop.
StopServer ==
    /\ daemon = "stopping" /\ listening
    /\ listening' = FALSE
    /\ conn' = Reset
    /\ UNCHANGED <<daemon, path, timer, faults, free, client, did>>

\* The end of a process is the end of its handler threads and its timer.
Ends ==
    /\ daemon' = "down"
    /\ listening' = FALSE
    /\ timer' = FALSE
    /\ conn' = [c \in Calls |-> IF conn[c] = "none" THEN "none" ELSE "over"]
    /\ UNCHANGED <<free, client, did>>

\* The socket is removed, and the process exits.
Exit ==
    /\ daemon = "stopping" /\ ~listening
    /\ path' = FALSE
    /\ Ends
    /\ UNCHANGED faults

Crash ==
    /\ daemon # "down" /\ faults < Faults
    /\ faults' = faults + 1
    /\ UNCHANGED path
    /\ Ends

ClientStep(c) ==
    Connect(c) \/ CannotConnect(c) \/ Send(c) \/ GiveUp(c) \/ SeeClosed(c)
LoopStep(c) == Accept(c) \/ Drop(c) \/ ThreadFails(c)
ReadStep(c) == ReadFails(c) \/ Read(c)
WorkStep(c) == Refuse(c) \/ Act(c) \/ Pass(c) \/ Reply(c) \/ Release(c)
DaemonStep == Start \/ TimerFires \/ StopServer \/ Exit

Next ==
    \/ \E c \in Calls : ClientStep(c) \/ LoopStep(c) \/ ReadStep(c) \/ WorkStep(c)
    \/ DaemonStep
    \/ StartDeaf \/ Crash

\* Threads are scheduled, reads time out, passes end, timers fire, and systemd
\* starts the daemon again.  A client may stay silent for as long as it likes.
Fairness ==
    /\ \A c \in Calls : /\ WF_vars(LoopStep(c))
                        /\ WF_vars(ReadStep(c))
                        /\ WF_vars(WorkStep(c))
    /\ WF_vars(DaemonStep)

Spec == Init /\ [][Next]_vars
FairSpec == Spec /\ Fairness
----------------------------------------------------------------------------
\* Each connection that was accepted and is not over holds one slot, and no
\* other does (_slots, process_request, process_request_thread).
SlotsBalance ==
    daemon # "down" =>
       free = Slots - Cardinality({c \in Calls : conn[c] \in Held})

\* What a client was told was done, was done (handle, dispatch).
OkMeansDone == \A c \in Calls : call[c] = "ok" => did[c]

\* A connection gives its slot back, whatever its client does not send
\* (REQUEST_TIMEOUT).
SlotComesBack == \A c \in Calls : conn[c] \in Held ~> conn[c] = "over"

\* A restart that was acknowledged comes: "Reply first, then exit. systemd
\* (Restart=always) starts us again."
RestartComes ==
    \A c \in Calls : conn[c] = "done" /\ req[c].kind = "restart" ~> daemon = "down"

\* A daemon that went down is served again, unless its server cannot start for
\* another reason than a socket left behind by the last one: "A stale socket from
\* an unclean shutdown would block the bind" (ControlServer.start).
ComesBack == daemon = "down" ~> (path /\ listening) \/ daemon = "deaf"

\* "The daemon could not be reached, or refused the request." (ControlError)
ErrorMeansNotDone == \A c \in Calls : call[c] \in {"error", "lost"} => ~did[c]

\* "one request and one response per line" (control.py)
LineIsAnswered ==
    [][\A c \in Calls :
          sent[c] = Chunks /\ conn[c] \in {"reading", "working", "acting"}
             => conn'[c] # "closing"]_vars
============================================================================
