---------------------------- MODULE SharedSocket ----------------------------
(***************************************************************************)
(* The WebSocket that the data and the execution client share: the Python  *)
(* dispatcher with its refcount (factories.py), the connect and disconnect *)
(* calls of the Rust client (client.rs), and the feed handler task each    *)
(* connection gets (handler.rs).                                           *)
(*                                                                         *)
(* A socket is one WebSocketClient of nautilus_network together with the   *)
(* channels and the handler task that connect() makes for it. The two      *)
(* lifecycle coroutines run on the asyncio loop, connect() and disconnect()*)
(* on tokio threads; each disjunct of Next runs from one await to the next.*)
(***************************************************************************)
EXTENDS Integers, Sequences, FiniteSets

CONSTANTS
  Clients,        \* the data and the execution client
  MaxSockets,     \* bound: connections ever opened
  MaxDrops        \* bound: drops of an open connection

ASSUME SocketAssumption ==
  /\ IsFiniteSet(Clients)
  /\ MaxSockets \in Nat \ {0}
  /\ MaxDrops \in Nat

Sockets == 1 .. MaxSockets
NoSocket == 0
Disconnect == 0       \* a command; the command s \in Sockets is SetClient(s)

Phases == {"out", "opening", "handshake", "channels", "sending", "taking", "waiting",
           "in", "failed", "closing", "signalled", "stopping", "gone"}

VARIABLES
  phase,     \* how far _connect and _disconnect of each client have come
  making,    \* the socket the connect() call of each client is setting up
  handlers,  \* _WsDispatcher._handlers
  refcount,  \* _WsDispatcher._refcount
  mode,      \* ConnectionMode of each socket
  current,   \* the socket whose mode connection_mode holds
  cmdTx,     \* the socket whose command channel cmd_tx sends to
  rx,        \* receiver of each socket: in out_rx, read by a callback loop, or dropped
  signal,    \* the stop signal, one for all handlers
  task,      \* each handler task: not spawned, at the top of its loop, in select!, ended
  owned,     \* the WebSocketClient each handler task owns
  cmds,      \* commands queued for each handler task
  drops,     \* drops so far
  overlapped \* history: did two connect() calls overlap?

callVars   == <<phase, making, handlers, refcount>>
socketVars == <<mode, current, cmdTx, rx, signal, task, owned, cmds, drops,
                overlapped>>
vars == <<callVars, socketVars>>

TypeOK ==
  /\ phase \in [Clients -> Phases]
  /\ making \in [Clients -> 0 .. MaxSockets]
  /\ handlers \in SUBSET Clients
  /\ refcount \in 0 .. Cardinality(Clients)
  /\ mode \in [Sockets -> {"unused", "active", "reconnect", "closed"}]
  /\ current \in 0 .. MaxSockets
  /\ cmdTx \in 0 .. MaxSockets
  /\ rx \in [Sockets -> {"none", "stored", "read", "dropped"}]
  /\ signal \in BOOLEAN
  /\ task \in [Sockets -> {"none", "top", "select", "ended"}]
  /\ owned \in [Sockets -> 0 .. MaxSockets]
  /\ cmds \in [Sockets -> Seq(0 .. MaxSockets)]
  /\ drops \in 0 .. MaxDrops
  /\ overlapped \in BOOLEAN

\* Mutant: the mode read is the placeholder of the constructor.
IsConnected_Placeholder == FALSE

IsConnected == current # NoSocket /\ mode[current] = "active"

To(c, p) == phase' = [phase EXCEPT ![c] = p]

InConnect(c) == phase[c] \in {"handshake", "channels", "sending", "taking"}
Opening(c)   == phase[c] = "opening" \/ InConnect(c)

-----------------------------------------------------------------------------
(* _connect of a client: register, ensure_connected, wait_until_active. *)

\* The asyncio loop runs from register to the first await without a break.
Connect(c) ==
  /\ phase[c] = "out"
  /\ \A d \in Clients : phase[d] \notin {"closing", "signalled", "stopping"}
  /\ handlers' = handlers \cup {c}
  /\ refcount' = refcount + 1
  /\ To(c, IF IsConnected THEN "waiting" ELSE "opening")
  /\ UNCHANGED <<making, socketVars>>

\* connect() begins: again a no-op if the connection is active by now.
OpenBegin(c) ==
  /\ phase[c] = "opening"
  /\ \/ /\ IsConnected
        /\ To(c, "taking")
        /\ UNCHANGED <<signal, overlapped>>
     \/ /\ ~IsConnected
        /\ To(c, "handshake")
        /\ signal' = FALSE
        /\ overlapped' = (overlapped \/ \E d \in Clients : InConnect(d))
  /\ UNCHANGED <<making, handlers, refcount, mode, current, cmdTx, rx, task, owned, cmds, drops>>

\* The receiver in out_rx, if any, is dropped for the new one.
StoreRx(s) == rx' = [t \in Sockets |-> IF t = s THEN "stored"
                                       ELSE IF rx[t] = "stored" THEN "dropped" ELSE rx[t]]

\* The handshake succeeds and its mode and output channel are stored, or it fails.
OpenHandshake(c) ==
  /\ phase[c] = "handshake"
  /\ \/ \E s \in Sockets :
          /\ mode[s] = "unused" /\ \A t \in Sockets : t < s => mode[t] # "unused"
          /\ mode' = [mode EXCEPT ![s] = "active"]
          /\ current' = s
          /\ StoreRx(s)
          /\ making' = [making EXCEPT ![c] = s]
          /\ To(c, "channels")
     \/ /\ To(c, "failed")
        /\ UNCHANGED <<making, mode, current, rx>>
  /\ UNCHANGED <<handlers, refcount, cmdTx, signal, task, owned, cmds, drops, overlapped>>

OpenChannels(c) ==
  /\ phase[c] = "channels"
  /\ cmdTx' = making[c]
  /\ To(c, "sending")
  /\ UNCHANGED <<making, handlers, refcount, mode, current, rx, signal, task, owned, cmds, drops, overlapped>>

Send(s, cmd) == cmds' = [cmds EXCEPT ![s] = Append(@, cmd)]

\* Dropping a WebSocketClient closes its connection or leaves it to run on
\* (nautilus_network, external).
DropClient(s) ==
  \/ UNCHANGED mode
  \/ s # NoSocket /\ mode' = [mode EXCEPT ![s] = "closed"]

\* SetClient goes to whatever cmd_tx holds now; then the handler is spawned. If
\* that handler has ended, the send fails, and connect() with it: what it made
\* is dropped, and no handler is spawned.
OpenSpawn(c) ==
  /\ phase[c] = "sending"
  /\ \/ /\ task[cmdTx] # "ended"
        /\ Send(cmdTx, making[c])
        /\ task' = [task EXCEPT ![making[c]] = "top"]
        /\ To(c, "taking")
        /\ UNCHANGED <<making, mode>>
     \/ /\ task[cmdTx] = "ended"
        /\ task' = [task EXCEPT ![making[c]] = "ended"]
        /\ DropClient(making[c])
        /\ making' = [making EXCEPT ![c] = NoSocket]
        /\ To(c, "failed")
        /\ UNCHANGED cmds
  /\ UNCHANGED <<handlers, refcount, current, cmdTx, rx, signal, owned, drops, overlapped>>

\* py_connect: the receiver found in out_rx, if any, goes to a callback loop.
TakeRx(c) ==
  /\ phase[c] = "taking"
  /\ rx' = [s \in Sockets |-> IF rx[s] = "stored" THEN "read" ELSE rx[s]]
  /\ making' = [making EXCEPT ![c] = NoSocket]
  /\ To(c, "waiting")
  /\ UNCHANGED <<handlers, refcount, mode, current, cmdTx, signal, task, owned, cmds, drops, overlapped>>

\* Mutant: a client whose wait times out connects again without releasing.
WaitActive_Retries(c) ==
  /\ phase[c] = "waiting"
  /\ To(c, IF IsConnected THEN "in" ELSE "out")
  /\ UNCHANGED <<making, handlers, refcount, socketVars>>

\* wait_until_active polls for ten seconds.
WaitActive(c) ==
  /\ phase[c] = "waiting"
  /\ To(c, IF IsConnected THEN "in" ELSE "failed")
  /\ UNCHANGED <<making, handlers, refcount, socketVars>>

-----------------------------------------------------------------------------
(* _disconnect of a client: unregister, release. *)

\* Mutant: every client that leaves closes the socket.
LastOut_Always == TRUE

LastOut == refcount' = 0

Release(c) ==
  /\ phase[c] \in {"in", "failed"}
  /\ \A d \in Clients : phase[d] \in {"in", "failed", "gone"}
  /\ handlers' = handlers \ {c}
  /\ refcount' = IF refcount > 0 THEN refcount - 1 ELSE 0
  /\ To(c, IF LastOut /\ IsConnected THEN "closing" ELSE "gone")
  /\ UNCHANGED <<making, socketVars>>

\* Mutant: the signal alone stops the handler.
StopCommand_SignalOnly == UNCHANGED cmds

StopCommand == IF cmdTx # NoSocket THEN Send(cmdTx, Disconnect) ELSE UNCHANGED cmds

\* disconnect(): the signal first; the lock on cmd_tx is awaited.
StopSignal(c) ==
  /\ phase[c] = "closing"
  /\ signal' = TRUE
  /\ To(c, "signalled")
  /\ UNCHANGED <<making, handlers, refcount, mode, current, cmdTx, rx, task, owned, cmds, drops, overlapped>>

\* Then the command, and up to two seconds for the handler to end.
StopSend(c) ==
  /\ phase[c] = "signalled"
  /\ StopCommand
  /\ To(c, "stopping")
  /\ UNCHANGED <<making, handlers, refcount, mode, current, cmdTx, rx, signal, task, owned, drops, overlapped>>

\* The task has ended or the wait has timed out.
StopDone(c) ==
  /\ phase[c] = "stopping"
  /\ rx' = [s \in Sockets |-> IF rx[s] = "stored" THEN "dropped" ELSE rx[s]]
  /\ To(c, "gone")
  /\ UNCHANGED <<making, handlers, refcount, mode, current, cmdTx, signal, task, owned, cmds, drops, overlapped>>

-----------------------------------------------------------------------------
(* The feed handler task, FeedHandler::next in its loop. *)

Ends(s) == task' = [task EXCEPT ![s] = "ended"] /\ owned' = [owned EXCEPT ![s] = NoSocket]

\* The signal is looked at once per round, before select!.
LoopTop(s) ==
  /\ task[s] = "top"
  /\ \/ signal /\ Ends(s) /\ DropClient(owned[s])
     \/ ~signal /\ task' = [task EXCEPT ![s] = "select"] /\ UNCHANGED <<mode, owned>>
  /\ UNCHANGED <<callVars, current, cmdTx, rx, signal, cmds, drops, overlapped>>

OnCommand(s) ==
  /\ task[s] = "select"
  /\ cmds[s] # <<>>
  /\ cmds' = [cmds EXCEPT ![s] = Tail(@)]
  /\ LET cmd == Head(cmds[s])
     IN \/ /\ cmd # Disconnect
           /\ task' = [task EXCEPT ![s] = "top"]
           /\ owned' = [owned EXCEPT ![s] = cmd]
           /\ DropClient(owned[s])
        \/ /\ cmd = Disconnect
           /\ Ends(s)
           /\ mode' = [t \in Sockets |-> IF t = owned[s] THEN "closed" ELSE mode[t]]
  /\ UNCHANGED <<callVars, current, cmdTx, rx, signal, drops, overlapped>>

\* A frame of the gateway: forwarded if anybody holds the receiver.
OnFrame(s) ==
  /\ task[s] = "select"
  /\ mode[s] = "active"
  /\ \/ /\ rx[s] \in {"stored", "read"}
        /\ task' = [task EXCEPT ![s] = "top"]
        /\ UNCHANGED <<mode, owned>>
     \/ /\ rx[s] = "dropped"
        /\ Ends(s)
        /\ DropClient(owned[s])
  /\ UNCHANGED <<callVars, current, cmdTx, rx, signal, cmds, drops, overlapped>>

\* The connection is closed for good: the raw channel ends. nautilus_network
\* forwards no Close frame, so none ends the handler before (handler.rs 163-166).
OnClosed(s) ==
  /\ task[s] = "select"
  /\ mode[s] = "closed"
  /\ Ends(s)
  /\ DropClient(owned[s])
  /\ UNCHANGED <<callVars, current, cmdTx, rx, signal, cmds, drops, overlapped>>

Handler(s) == LoopTop(s) \/ OnCommand(s) \/ OnFrame(s) \/ OnClosed(s)

\* The connection drops, and nautilus_network reconnects it (external).
DropConnection(s) ==
  /\ mode[s] = "active"
  /\ drops < MaxDrops
  /\ drops' = drops + 1
  /\ mode' = [mode EXCEPT ![s] = "reconnect"]
  /\ UNCHANGED <<callVars, current, cmdTx, rx, signal, task, owned, cmds, overlapped>>

Recover(s) ==
  /\ mode[s] = "reconnect"
  /\ mode' = [mode EXCEPT ![s] = "active"]
  /\ UNCHANGED <<callVars, current, cmdTx, rx, signal, task, owned, cmds, drops, overlapped>>

-----------------------------------------------------------------------------
Init ==
  /\ phase = [c \in Clients |-> "out"]
  /\ making = [c \in Clients |-> NoSocket]
  /\ handlers = {} /\ refcount = 0
  /\ mode = [s \in Sockets |-> "unused"]
  /\ current = NoSocket /\ cmdTx = NoSocket
  /\ rx = [s \in Sockets |-> "none"]
  /\ signal = FALSE
  /\ task = [s \in Sockets |-> "none"]
  /\ owned = [s \in Sockets |-> NoSocket]
  /\ cmds = [s \in Sockets |-> <<>>]
  /\ drops = 0
  /\ overlapped = FALSE

Opens(c) == OpenBegin(c) \/ OpenHandshake(c) \/ OpenChannels(c) \/ OpenSpawn(c) \/ TakeRx(c)
            \/ WaitActive(c)
Stops(c) == StopSignal(c) \/ StopSend(c) \/ StopDone(c)

Next ==
  \/ \E c \in Clients : Connect(c) \/ Opens(c) \/ Release(c) \/ Stops(c)
  \/ \E s \in Sockets : Handler(s) \/ DropConnection(s) \/ Recover(s)

Spec == Init /\ [][Next]_vars

\* Tokio runs its tasks; a connection that drops is reconnected without limit.
FairSpec ==
  /\ Spec
  /\ \A c \in Clients : WF_vars(Opens(c)) /\ WF_vars(Stops(c))
  /\ \A s \in Sockets : WF_vars(LoopTop(s) \/ OnCommand(s) \/ OnClosed(s)) /\ WF_vars(Recover(s))

-----------------------------------------------------------------------------
(* Properties. *)

\* Messages of s reach the dispatcher: its connection is up or coming back, its
\* handler runs, and a callback loop reads what the handler sends.
Feeds(s) == mode[s] \in {"active", "reconnect"} /\ task[s] \in {"top", "select"} /\ rx[s] = "read"

\* "Idempotent: SinopacWebSocketClient.connect() early-returns when active, so
\* the first client to connect wins and later callers are no-ops": the gateway
\* broadcasts each event to every connection, so a second one that feeds the
\* dispatcher doubles every message.
OneStream == \A s, t \in Sockets : Feeds(s) /\ Feeds(t) => s = t

\* That much is true if no two connect() calls overlap and nothing drops.
SoleStream == overlapped \/ drops > 0 \/ OneStream

\* A connected client hears the gateway: neither the other client's connect()
\* nor its leaving closes the socket it uses (_WsDispatcher.release), unless two
\* connect() calls overlapped.
NeverSevered ==
  \A c \in Clients :
    phase[c] = "in" =>
      \/ overlapped
      \/ \E s \in Sockets : Feeds(s)
      \/ \E d \in Clients : Opening(d)

\* The stop reaches the handler of the current connection. disconnect() raises
\* the signal, awaits the lock and only then sends Disconnect (client.rs
\* 199-202), and the handler looks at the signal before select! only: one that
\* waits there past the signal has the command in its queue, or the command is
\* about to be sent and cmd_tx leads to it, unless two connect() calls overlapped.
Waking(s) ==
  \/ \E i \in DOMAIN cmds[s] : cmds[s][i] = Disconnect
  \/ cmdTx = s /\ \E c \in Clients : phase[c] = "signalled"

StopReaches ==
  signal /\ ~overlapped /\ current # NoSocket /\ task[current] = "select" => Waking(current)

\* Once disconnect() runs, the handler it was called for ends and nothing feeds
\* the dispatcher any more, whatever drops meanwhile, unless a second socket
\* was ever opened (its handler is not the one the command reaches).
Silenced ==
  (\E c \in Clients : phase[c] = "closing") ~>
    \/ \A s \in Sockets : ~Feeds(s)
    \/ \E s \in Sockets : s > 1 /\ mode[s] # "unused"
=============================================================================
