------------------------- MODULE SharedSocket_proofs -------------------------
(***************************************************************************)
(* The shared socket for any number of clients, sockets and drops: one     *)
(* stream feeds the dispatcher (SoleStream), no client is cut off by       *)
(* another one (NeverSevered) and a stop reaches its handler (StopReaches).*)
(* All need to know who is setting a socket up and that only the last      *)
(* client out can stop a handler; the second, what a socket looks like     *)
(* from its handshake until then; the third, where commands go.            *)
(***************************************************************************)
EXTENDS SharedSocket, FiniteSetTheorems, SequenceTheorems, TLAPS

\* The refcount is the number of the clients that have registered.
Registered(c) == phase[c] \notin {"out", "closing", "signalled", "stopping", "gone"}

CountInv ==
  /\ handlers = {c \in Clients : Registered(c)}
  /\ refcount = Cardinality(handlers)

\* Only when every client has left is a handler told to stop.
Left(c) == phase[c] \in {"closing", "signalled", "stopping", "gone"}
Over    == \A c \in Clients : Left(c)

Stopping == {"closing", "signalled", "stopping"}

OverInv ==
  /\ signal => Over
  /\ \A s \in Sockets : \A i \in 1 .. Len(cmds[s]) : cmds[s][i] = Disconnect => Over
  /\ \A c \in Clients : phase[c] \in Stopping => Over

\* At most one client is setting up a socket, unless two connect() calls overlap.
Maker(c)    == phase[c] = "handshake" \/ making[c] # NoSocket
Makes(c, s) == phase[c] \in {"channels", "sending"} /\ making[c] = s

MakeInv ==
  /\ \A c \in Clients : phase[c] \in {"channels", "sending"} => making[c] # NoSocket
  /\ \A c \in Clients : making[c] # NoSocket => phase[c] \in {"channels", "sending", "taking"}
  /\ ~overlapped => \A c, d \in Clients : Maker(c) /\ Maker(d) => c = d

\* While nothing has dropped, only the current socket is active, and none is
\* while a client shakes hands.
SoleInv ==
  ~overlapped /\ drops = 0 =>
    /\ \A s \in Sockets : mode[s] # "reconnect" /\ (mode[s] = "active" => s = current)
    /\ \A c \in Clients : phase[c] = "handshake" => ~IsConnected

\* A socket that has shaken hands is served: its client is about to spawn the
\* handler, or the handler runs and has at most its own SetClient to read.
Used(s) == mode[s] # "unused"

Served(s) ==
  /\ mode[s] # "closed" /\ task[s] # "ended" /\ rx[s] # "dropped"
  /\ task[s] # "none" => Used(s)
  /\ Used(s) => rx[s] # "none"
  /\ rx[s] = "stored" => \E c \in Clients : making[c] = s
  /\ task[s] = "none" => cmds[s] = <<>> /\ owned[s] = NoSocket
  /\ Used(s) /\ task[s] = "none" => \E c \in Clients : Makes(c, s)
  /\ \A c \in Clients : Makes(c, s) => Used(s) /\ task[s] = "none"
  /\ \/ cmds[s] = <<>>
     \/ cmds[s] = <<s>> /\ owned[s] = NoSocket

LiveInv ==
  ~overlapped /\ ~Over =>
    /\ \A s \in Sockets : Served(s)
    /\ \A c \in Clients : phase[c] = "sending" => cmdTx = making[c]
    /\ \A c \in Clients : phase[c] = "in" => \E s \in Sockets : Used(s)

SocketInv == TypeOK /\ CountInv /\ OverInv /\ MakeInv /\ SoleInv /\ LiveInv

LEMMA SocketInit == Init => SocketInv
<1>. SUFFICES ASSUME Init PROVE SocketInv
  OBVIOUS
<1>1. Cardinality({}) = 0 /\ Cardinality(Clients) \in Nat
  BY SocketAssumption, FS_EmptySet, FS_CardinalityType
<1>2. TypeOK
  <2>1. refcount \in 0 .. Cardinality(Clients) /\ drops \in 0 .. MaxDrops
    BY <1>1, SocketAssumption DEF Init
  <2>2. cmds \in [Sockets -> Seq(0 .. MaxSockets)]
    BY DEF Init
  <2>3. NoSocket \in 0 .. MaxSockets
    BY SocketAssumption DEF NoSocket
  <2>. QED  BY <2>1, <2>2, <2>3 DEF Init, TypeOK, Phases
<1>3. CountInv
  BY <1>1 DEF Init, CountInv, Registered
<1>4. OverInv
  BY DEF Init, OverInv, Sockets, Stopping
<1>5. MakeInv /\ SoleInv
  BY SocketAssumption DEF Init, MakeInv, SoleInv, Maker, Sockets, NoSocket, IsConnected
<1>6. LiveInv
  BY SocketAssumption DEF Init, LiveInv, Served, Used, Makes, Sockets, NoSocket
<1>. QED  BY <1>2, <1>3, <1>4, <1>5, <1>6 DEF SocketInv

-----------------------------------------------------------------------------
(* The phases and the count *)

\* What every step does to the phases.
LEMMA PhaseSteps ==
  ASSUME TypeOK, [Next]_vars
  PROVE  \/ UNCHANGED callVars
         \/ \E c \in Clients :
              /\ phase' = [phase EXCEPT ![c] = phase'[c]]
              /\ \/ Connect(c)
                 \/ Opens(c) /\ UNCHANGED <<handlers, refcount>>
                 \/ Release(c)
                 \/ Stops(c) /\ UNCHANGED <<making, handlers, refcount>>
<1>1. ASSUME NEW c \in Clients, Connect(c) \/ Opens(c) \/ Release(c) \/ Stops(c)
      PROVE  phase' = [phase EXCEPT ![c] = phase'[c]]
  <2>1. PICK p : phase' = [phase EXCEPT ![c] = p]
    BY <1>1 DEF Connect, Opens, Release, Stops, OpenBegin, OpenHandshake, OpenChannels,
       OpenSpawn, TakeRx, WaitActive, StopSignal, StopSend, StopDone, To
  <2>. QED  BY <2>1 DEF TypeOK
<1>2. ASSUME NEW c \in Clients, Opens(c)
      PROVE  UNCHANGED <<handlers, refcount>>
  BY <1>2 DEF Opens, OpenBegin, OpenHandshake, OpenChannels, OpenSpawn, TakeRx, WaitActive
<1>3. ASSUME NEW c \in Clients, Stops(c)
      PROVE  UNCHANGED <<making, handlers, refcount>>
  BY <1>3 DEF Stops, StopSignal, StopSend, StopDone
<1>4. ASSUME NEW s \in Sockets, Handler(s) \/ DropConnection(s) \/ Recover(s)
      PROVE  UNCHANGED callVars
  BY <1>4 DEF Handler, LoopTop, OnCommand, OnFrame, OnClosed, DropConnection, Recover
<1>. QED  BY <1>1, <1>2, <1>3, <1>4 DEF Next, vars

LEMMA CountStep ==
  ASSUME TypeOK, CountInv, OverInv, [Next]_vars
  PROVE  /\ CountInv'
         /\ handlers' \in SUBSET Clients /\ refcount' \in 0 .. Cardinality(Clients)
<1>0. IsFiniteSet(handlers) /\ Cardinality(Clients) \in Nat
  BY SocketAssumption, FS_Subset, FS_CardinalityType DEF TypeOK
<1>1. CASE UNCHANGED callVars
  BY <1>1 DEF CountInv, Registered, callVars, TypeOK
<1>2. ASSUME NEW c \in Clients, phase' = [phase EXCEPT ![c] = phase'[c]],
             handlers' = handlers, refcount' = refcount, Registered(c) <=> Registered(c)'
      PROVE  CountInv'
  BY <1>2 DEF CountInv, Registered, TypeOK
<1>3. ASSUME NEW c \in Clients, phase' = [phase EXCEPT ![c] = phase'[c]], Connect(c)
      PROVE  CountInv'
  <2>1. ~Registered(c) /\ Registered(c)'
    BY <1>3 DEF Connect, To, Registered, TypeOK
  <2>2. handlers' = handlers \cup {c} /\ refcount' = refcount + 1 /\ c \notin handlers
    BY <1>3, <2>1 DEF Connect, CountInv
  <2>3. Cardinality(handlers') = Cardinality(handlers) + 1
    BY <1>0, <2>2, FS_AddElement
  <2>4. handlers' = {d \in Clients : Registered(d)'}
    BY <1>3, <2>1, <2>2 DEF CountInv, Registered, TypeOK
  <2>. QED  BY <2>2, <2>3, <2>4 DEF CountInv
<1>4. ASSUME NEW c \in Clients, phase' = [phase EXCEPT ![c] = phase'[c]], Release(c)
      PROVE  CountInv'
  <2>1. Registered(c) /\ ~Registered(c)'
    BY <1>4 DEF Release, To, Registered, TypeOK
  <2>2. c \in handlers /\ handlers' = handlers \ {c}
    BY <1>4, <2>1 DEF Release, CountInv
  <2>3. Cardinality(handlers') = Cardinality(handlers) - 1 /\ Cardinality(handlers') \in Nat
    BY <1>0, <2>2, FS_RemoveElement, FS_CardinalityType
  <2>4. Cardinality(handlers) \in Nat
    BY <1>0, FS_CardinalityType
  <2>5. refcount' = refcount - 1
    BY <1>4, <2>3, <2>4 DEF Release, CountInv
  <2>6. handlers' = {d \in Clients : Registered(d)'}
    BY <1>4, <2>1, <2>2 DEF CountInv, Registered, TypeOK
  <2>. QED  BY <2>3, <2>5, <2>6 DEF CountInv
<1>5. ASSUME NEW c \in Clients, Opens(c)
      PROVE  Registered(c) <=> Registered(c)'
  BY <1>5 DEF Opens, OpenBegin, OpenHandshake, OpenChannels, OpenSpawn, TakeRx, WaitActive,
     To, Registered, TypeOK
<1>6. ASSUME NEW c \in Clients, Stops(c)
      PROVE  Registered(c) <=> Registered(c)'
  BY <1>6 DEF Stops, StopSignal, StopSend, StopDone, To, Registered, TypeOK
<1>7. CountInv'
  BY <1>1, <1>2, <1>3, <1>4, <1>5, <1>6, PhaseSteps
<1>8. handlers' \in SUBSET Clients /\ refcount' = Cardinality(handlers')
  BY <1>7 DEF CountInv
<1>9. Cardinality(handlers') <= Cardinality(Clients) /\ Cardinality(handlers') \in Nat
  BY <1>8, SocketAssumption, FS_Subset, FS_CardinalityType
<1>. QED  BY <1>0, <1>7, <1>8, <1>9

\* Who leaves last finds every other client gone, and nobody comes back.
LEMMA OverStep ==
  ASSUME TypeOK, CountInv, OverInv, [Next]_vars
  PROVE  /\ Over => Over'
         /\ \A c \in Clients : phase'[c] \in Stopping => Over'
<1>1. CASE UNCHANGED callVars
  BY <1>1 DEF OverInv, Over, Left, callVars
<1>2. ASSUME NEW c \in Clients, phase' = [phase EXCEPT ![c] = phase'[c]], Connect(c) \/ Opens(c)
      PROVE  ~Left(c) /\ ~Left(c)'
  BY <1>2 DEF Connect, Opens, OpenBegin, OpenHandshake, OpenChannels, OpenSpawn, TakeRx,
     WaitActive, To, Left, TypeOK
<1>3. ASSUME NEW c \in Clients, phase' = [phase EXCEPT ![c] = phase'[c]], Stops(c)
      PROVE  Left(c)' /\ phase[c] \in Stopping
  BY <1>3 DEF Stops, StopSignal, StopSend, StopDone, To, Left, TypeOK, Stopping
<1>4. ASSUME NEW c \in Clients, phase' = [phase EXCEPT ![c] = phase'[c]], Release(c),
             phase'[c] = "closing"
      PROVE  Over'
  <2>1. refcount' = 0
    BY <1>4 DEF Release, To, LastOut, TypeOK
  <2>2. handlers' = {}
    <3>1. CountInv' /\ handlers' \in SUBSET Clients
      BY CountStep
    <3>2. IsFiniteSet(handlers')
      BY <3>1, SocketAssumption, FS_Subset
    <3>. QED  BY <2>1, <3>1, <3>2, FS_EmptySet DEF CountInv
  <2>3. \A d \in Clients : ~Registered(d)' /\ (d # c => phase'[d] \in {"in", "failed", "gone"})
    <3>1. CountInv'
      BY CountStep
    <3>2. \A d \in Clients : phase[d] \in {"in", "failed", "gone"}
      BY <1>4 DEF Release
    <3>. QED  BY <1>4, <2>2, <3>1, <3>2 DEF CountInv, TypeOK
  <2>. QED  BY <1>4, <2>3 DEF Over, Left, Registered
<1>5. ASSUME NEW c \in Clients, Release(c)
      PROVE  ~Over /\ \A d \in Clients : phase[d] \notin Stopping
  BY <1>5 DEF Release, Over, Left, Stopping
<1>6. ASSUME NEW c \in Clients, phase' = [phase EXCEPT ![c] = phase'[c]], Release(c),
             phase'[c] # "closing"
      PROVE  \A d \in Clients : phase'[d] \notin Stopping
  <2>1. phase'[c] = "gone"
    BY <1>6 DEF Release, To, TypeOK
  <2>. QED  BY <1>5, <1>6, <2>1 DEF TypeOK, Stopping
<1>7. ASSUME NEW c \in Clients, phase' = [phase EXCEPT ![c] = phase'[c]], Connect(c) \/ Opens(c)
      PROVE  ~Over /\ \A d \in Clients : phase'[d] \notin Stopping
  <2>1. ~Over
    BY <1>2, <1>7 DEF Over
  <2>. QED  BY <1>2, <1>7, <2>1 DEF OverInv, Left, TypeOK, Stopping
<1>8. ASSUME NEW c \in Clients, phase' = [phase EXCEPT ![c] = phase'[c]], Stops(c)
      PROVE  Over'
  <2>1. Over
    BY <1>3, <1>8 DEF OverInv
  <2>. QED  BY <1>3, <1>8, <2>1 DEF Over, Left, TypeOK
<1>. QED  BY <1>1, <1>4, <1>5, <1>6, <1>7, <1>8, PhaseSteps

-----------------------------------------------------------------------------
(* Types, commands and makers *)

LEMMA Queues ==
  ASSUME NEW q \in Seq(0 .. MaxSockets), NEW x \in 0 .. MaxSockets
  PROVE  /\ Append(q, x) \in Seq(0 .. MaxSockets) /\ Len(Append(q, x)) = Len(q) + 1
         /\ \A i \in 1 .. Len(q) + 1 : Append(q, x)[i] = IF i = Len(q) + 1 THEN x ELSE q[i]
         /\ q # <<>> => /\ Head(q) \in 0 .. MaxSockets /\ Tail(q) \in Seq(0 .. MaxSockets)
                        /\ \A i \in 1 .. Len(Tail(q)) :
                             i + 1 \in 1 .. Len(q) /\ Tail(q)[i] = q[i + 1]
<1>1. Append(q, x) \in Seq(0 .. MaxSockets) /\ Len(Append(q, x)) = Len(q) + 1
  OBVIOUS
<1>2. \A i \in 1 .. Len(q) + 1 : Append(q, x)[i] = IF i = Len(q) + 1 THEN x ELSE q[i]
  OBVIOUS
<1>3. ASSUME q # <<>>
      PROVE  Head(q) \in 0 .. MaxSockets /\ Tail(q) \in Seq(0 .. MaxSockets)
  BY <1>3, HeadTailProperties
<1>4. ASSUME q # <<>>, NEW i \in 1 .. Len(Tail(q))
      PROVE  i + 1 \in 1 .. Len(q) /\ Tail(q)[i] = q[i + 1]
  BY <1>4, HeadTailProperties
<1>. QED  BY <1>1, <1>2, <1>3, <1>4

\* A command sent to one queue, or to none.
LEMMA Sending ==
  ASSUME TypeOK, NEW x \in 0 .. MaxSockets, NEW t \in 0 .. MaxSockets, Send(t, x)
  PROVE  /\ cmds' \in [Sockets -> Seq(0 .. MaxSockets)]
         /\ \A s \in Sockets : cmds'[s] = IF s = t THEN Append(cmds[s], x) ELSE cmds[s]
<1>1. \A s \in Sockets : Append(cmds[s], x) \in Seq(0 .. MaxSockets)
  BY Queues DEF TypeOK
<1>. QED  BY <1>1 DEF Send, TypeOK

LEMMA TypeStep ==
  ASSUME TypeOK, CountInv, OverInv, [Next]_vars
  PROVE  TypeOK'
<1>1. handlers' \in SUBSET Clients /\ refcount' \in 0 .. Cardinality(Clients)
  BY CountStep
<1>2. NoSocket \in 0 .. MaxSockets /\ Sockets \subseteq 0 .. MaxSockets /\ Disconnect \in 0 .. MaxSockets
  BY SocketAssumption DEF NoSocket, Sockets, Disconnect
<1>3. ASSUME NEW c \in Clients, Connect(c)
      PROVE  TypeOK'
  BY <1>1, <1>3 DEF Connect, To, TypeOK, Phases, socketVars
<1>4. ASSUME NEW c \in Clients, Opens(c)
      PROVE  TypeOK'
  <2>1. CASE OpenBegin(c)
    BY <1>1, <2>1 DEF OpenBegin, To, TypeOK, Phases
  <2>2. CASE OpenHandshake(c)
    <3>1. rx' \in [Sockets -> {"none", "stored", "read", "dropped"}]
      BY <2>2 DEF OpenHandshake, StoreRx, TypeOK
    <3>2. /\ making' \in [Clients -> 0 .. MaxSockets] /\ current' \in 0 .. MaxSockets
          /\ mode' \in [Sockets -> {"unused", "active", "reconnect", "closed"}]
      BY <1>2, <2>2 DEF OpenHandshake, TypeOK
    <3>3. phase' \in [Clients -> Phases]
      <4>1. To(c, "channels") \/ To(c, "failed")
        BY <2>2 DEF OpenHandshake
      <4>. QED  BY <4>1 DEF To, TypeOK, Phases
    <3>. QED  BY <1>1, <2>2, <3>1, <3>2, <3>3 DEF OpenHandshake, TypeOK
  <2>3. CASE OpenChannels(c)
    BY <1>1, <2>3 DEF OpenChannels, To, TypeOK, Phases
  <2>4. CASE OpenSpawn(c)
    <3>1. cmds' \in [Sockets -> Seq(0 .. MaxSockets)]
      BY <2>4, Sending DEF OpenSpawn, TypeOK
    <3>2. /\ making' \in [Clients -> 0 .. MaxSockets]
          /\ mode' \in [Sockets -> {"unused", "active", "reconnect", "closed"}]
          /\ task' \in [Sockets -> {"none", "top", "select", "ended"}]
      BY <1>2, <2>4 DEF OpenSpawn, DropClient, TypeOK
    <3>3. phase' \in [Clients -> Phases]
      <4>1. To(c, "taking") \/ To(c, "failed")
        BY <2>4 DEF OpenSpawn
      <4>. QED  BY <4>1 DEF To, TypeOK, Phases
    <3>. QED  BY <1>1, <2>4, <3>1, <3>2, <3>3 DEF OpenSpawn, TypeOK
  <2>5. CASE TakeRx(c)
    BY <1>1, <1>2, <2>5 DEF TakeRx, To, TypeOK, Phases
  <2>6. CASE WaitActive(c)
    BY <1>1, <2>6 DEF WaitActive, To, TypeOK, Phases, socketVars
  <2>. QED  BY <1>4, <2>1, <2>2, <2>3, <2>4, <2>5, <2>6 DEF Opens
<1>5. ASSUME NEW c \in Clients, Release(c)
      PROVE  TypeOK'
  BY <1>1, <1>5 DEF Release, To, TypeOK, Phases, socketVars
<1>6. ASSUME NEW c \in Clients, StopSend(c)
      PROVE  TypeOK'
  <2>1. cmds' \in [Sockets -> Seq(0 .. MaxSockets)]
    BY <1>2, <1>6, Sending DEF StopSend, StopCommand, TypeOK
  <2>. QED  BY <1>1, <1>6, <2>1 DEF StopSend, To, TypeOK, Phases
<1>7. ASSUME NEW c \in Clients, StopSignal(c) \/ StopDone(c)
      PROVE  TypeOK'
  <2>1. CASE StopSignal(c)
    BY <1>1, <2>1 DEF StopSignal, To, TypeOK, Phases
  <2>2. CASE StopDone(c)
    BY <1>1, <2>2 DEF StopDone, To, TypeOK, Phases
  <2>. QED  BY <1>7, <2>1, <2>2
<1>8. ASSUME NEW s \in Sockets, Handler(s)
      PROVE  TypeOK'
  <2>1. CASE OnCommand(s)
    <3>1. /\ cmds' \in [Sockets -> Seq(0 .. MaxSockets)]
          /\ Head(cmds[s]) \in 0 .. MaxSockets
      <4>1. cmds[s] \in Seq(0 .. MaxSockets) /\ cmds[s] # <<>>
        BY <2>1 DEF OnCommand, TypeOK
      <4>2. Tail(cmds[s]) \in Seq(0 .. MaxSockets) /\ Head(cmds[s]) \in 0 .. MaxSockets
        BY <1>2, <4>1, Queues
      <4>. QED  BY <2>1, <4>2 DEF OnCommand, TypeOK
    <3>2. /\ owned' \in [Sockets -> 0 .. MaxSockets]
          /\ task' \in [Sockets -> {"none", "top", "select", "ended"}]
      <4>1. \E x \in 0 .. MaxSockets, loop \in {"top", "ended"} :
              owned' = [owned EXCEPT ![s] = x] /\ task' = [task EXCEPT ![s] = loop]
        BY <1>2, <2>1, <3>1 DEF OnCommand, Ends
      <4>. QED  BY <4>1 DEF TypeOK
    <3>3. mode' \in [Sockets -> {"unused", "active", "reconnect", "closed"}]
      BY <2>1 DEF OnCommand, DropClient, TypeOK
    <3>. QED  BY <1>1, <2>1, <3>1, <3>2, <3>3 DEF OnCommand, TypeOK, callVars
  <2>2. CASE LoopTop(s)
    <3>1. task' \in [Sockets -> {"none", "top", "select", "ended"}]
      BY <2>2 DEF LoopTop, Ends, TypeOK
    <3>2. owned' \in [Sockets -> 0 .. MaxSockets]
      BY <1>2, <2>2 DEF LoopTop, Ends, TypeOK
    <3>3. mode' \in [Sockets -> {"unused", "active", "reconnect", "closed"}]
      BY <2>2 DEF LoopTop, DropClient, TypeOK
    <3>. QED  BY <1>1, <2>2, <3>1, <3>2, <3>3 DEF LoopTop, TypeOK, callVars
  <2>3. CASE OnFrame(s)
    <3>1. task' \in [Sockets -> {"none", "top", "select", "ended"}]
      BY <2>3 DEF OnFrame, Ends, TypeOK
    <3>2. owned' \in [Sockets -> 0 .. MaxSockets]
      BY <1>2, <2>3 DEF OnFrame, Ends, TypeOK
    <3>3. mode' \in [Sockets -> {"unused", "active", "reconnect", "closed"}]
      BY <2>3 DEF OnFrame, DropClient, TypeOK
    <3>. QED  BY <1>1, <2>3, <3>1, <3>2, <3>3 DEF OnFrame, TypeOK, callVars
  <2>4. CASE OnClosed(s)
    <3>1. task' \in [Sockets -> {"none", "top", "select", "ended"}]
      BY <2>4 DEF OnClosed, Ends, TypeOK
    <3>2. owned' \in [Sockets -> 0 .. MaxSockets]
      BY <1>2, <2>4 DEF OnClosed, Ends, TypeOK
    <3>3. mode' \in [Sockets -> {"unused", "active", "reconnect", "closed"}]
      BY <2>4 DEF OnClosed, DropClient, TypeOK
    <3>. QED  BY <1>1, <2>4, <3>1, <3>2, <3>3 DEF OnClosed, TypeOK, callVars
  <2>. QED  BY <1>8, <2>1, <2>2, <2>3, <2>4 DEF Handler
<1>9. ASSUME NEW s \in Sockets, DropConnection(s) \/ Recover(s)
      PROVE  TypeOK'
  <2>1. drops' \in 0 .. MaxDrops
    BY <1>9, SocketAssumption DEF DropConnection, Recover, TypeOK
  <2>. QED  BY <1>9, <2>1 DEF DropConnection, Recover, TypeOK, callVars
<1>10. CASE UNCHANGED vars
  BY <1>10 DEF TypeOK, vars, callVars, socketVars
<1>. QED  BY <1>3, <1>4, <1>5, <1>6, <1>7, <1>8, <1>9, <1>10 DEF Next, Stops

\* The signal is raised, and Disconnect sent, by a client that leaves last.
LEMMA SignalStep ==
  ASSUME TypeOK, CountInv, OverInv, MakeInv, [Next]_vars
  PROVE  OverInv'
<1>1. /\ Over => Over'
      /\ \A c \in Clients : phase'[c] \in Stopping => Over'
  BY OverStep
<1>2. ASSUME signal' => signal \/ Over',
             NEW t \in 0 .. MaxSockets, NEW cmd \in 0 .. MaxSockets,
             \A s \in Sockets : cmds'[s] = IF s = t THEN Append(cmds[s], cmd) ELSE cmds[s],
             cmd = Disconnect => Over'
      PROVE  OverInv'
  <2>1. ASSUME NEW s \in Sockets, NEW i \in 1 .. Len(cmds'[s]), cmds'[s][i] = Disconnect
        PROVE  Over'
    <3>1. cmds[s] \in Seq(0 .. MaxSockets)
      BY DEF TypeOK
    <3>2. CASE s = t
      <4>1. /\ i \in 1 .. Len(cmds[s]) + 1
            /\ cmds'[s][i] = IF i = Len(cmds[s]) + 1 THEN cmd ELSE cmds[s][i]
        <5>1. cmds'[s] = Append(cmds[s], cmd)
          BY <1>2, <3>2
        <5>. QED  BY <2>1, <3>1, <5>1, Queues
      <4>2. CASE i = Len(cmds[s]) + 1
        BY <1>2, <2>1, <4>1, <4>2
      <4>3. CASE i # Len(cmds[s]) + 1
        <5>1. i \in 1 .. Len(cmds[s])
          BY <3>1, <4>1, <4>3
        <5>. QED  BY <1>1, <2>1, <4>1, <4>3, <5>1 DEF OverInv
      <4>. QED  BY <4>2, <4>3
    <3>3. CASE s # t
      BY <1>1, <1>2, <2>1, <3>3 DEF OverInv
    <3>. QED  BY <3>2, <3>3
  <2>. QED  BY <1>1, <1>2, <2>1 DEF OverInv
<1>3. ASSUME signal' => signal, UNCHANGED cmds
      PROVE  OverInv'
  BY <1>1, <1>3 DEF OverInv
<1>4. ASSUME NEW c \in Clients, OpenSpawn(c)
      PROVE  OverInv'
  <2>1. making[c] # Disconnect
    BY <1>4 DEF OpenSpawn, MakeInv, Disconnect, NoSocket
  <2>2. making[c] \in 0 .. MaxSockets /\ cmdTx \in 0 .. MaxSockets
    BY DEF TypeOK
  <2>3. signal' = signal
    BY <1>4 DEF OpenSpawn
  <2>4. CASE Send(cmdTx, making[c])
    <3>1. \A s \in Sockets : cmds'[s] = IF s = cmdTx THEN Append(cmds[s], making[c]) ELSE cmds[s]
      BY <2>2, <2>4, Sending
    <3>. QED  BY <1>2, <2>1, <2>2, <2>3, <3>1
  <2>5. CASE UNCHANGED cmds
    BY <1>3, <2>3, <2>5
  <2>. QED  BY <1>4, <2>4, <2>5 DEF OpenSpawn
<1>5. ASSUME NEW c \in Clients, StopSend(c)
      PROVE  OverInv'
  <2>1. Over /\ Over'
    BY <1>1, <1>5 DEF StopSend, OverInv, Stopping
  <2>2. CASE cmdTx # NoSocket
    <3>1. Disconnect \in 0 .. MaxSockets /\ cmdTx \in 0 .. MaxSockets
      BY SocketAssumption DEF Disconnect, TypeOK
    <3>2. \A s \in Sockets : cmds'[s] = IF s = cmdTx THEN Append(cmds[s], Disconnect) ELSE cmds[s]
      BY <1>5, <2>2, <3>1, Sending DEF StopSend, StopCommand
    <3>. QED  BY <1>2, <2>1, <3>1, <3>2
  <2>3. CASE cmdTx = NoSocket
    BY <1>1, <1>5, <2>1, <2>3 DEF StopSend, StopCommand, OverInv
  <2>. QED  BY <2>2, <2>3
<1>6. ASSUME NEW s \in Sockets, OnCommand(s)
      PROVE  OverInv'
  <2>1. cmds[s] \in Seq(0 .. MaxSockets) /\ cmds[s] # <<>> /\ signal' = signal
    BY <1>6 DEF OnCommand, TypeOK
  <2>2. ASSUME NEW t \in Sockets, NEW i \in 1 .. Len(cmds'[t]), cmds'[t][i] = Disconnect
        PROVE  Over'
    <3>1. CASE t = s
      <4>1. cmds'[t] = Tail(cmds[s])
        BY <1>6, <3>1 DEF OnCommand, TypeOK
      <4>2. i + 1 \in 1 .. Len(cmds[s]) /\ cmds[s][i + 1] = cmds'[t][i]
        BY <2>1, <2>2, <4>1, SocketAssumption, Queues
      <4>. QED  BY <1>1, <2>2, <3>1, <4>2 DEF OverInv
    <3>2. CASE t # s
      BY <1>1, <1>6, <2>2, <3>2 DEF OnCommand, OverInv, TypeOK
    <3>. QED  BY <3>1, <3>2
  <2>. QED  BY <1>1, <2>1, <2>2 DEF OverInv
<1>7. ASSUME NEW c \in Clients, Connect(c) \/ Release(c) \/ WaitActive(c) \/ OpenBegin(c)
                                \/ OpenHandshake(c) \/ OpenChannels(c) \/ TakeRx(c) \/ StopDone(c)
      PROVE  OverInv'
  BY <1>3, <1>7 DEF Connect, Release, WaitActive, OpenBegin, OpenHandshake, OpenChannels, TakeRx,
     StopDone, socketVars
<1>8. ASSUME NEW s \in Sockets, LoopTop(s) \/ OnFrame(s) \/ OnClosed(s) \/ DropConnection(s) \/ Recover(s)
      PROVE  OverInv'
  BY <1>3, <1>8 DEF LoopTop, OnFrame, OnClosed, DropConnection, Recover
<1>9. ASSUME NEW c \in Clients, StopSignal(c)
      PROVE  OverInv'
  BY <1>1, <1>9 DEF StopSignal, OverInv, Stopping
<1>10. CASE UNCHANGED vars
  BY <1>3, <1>10 DEF vars, socketVars
<1>. QED  BY <1>4, <1>5, <1>6, <1>7, <1>8, <1>9, <1>10 DEF Next, Opens, Stops, Handler

LEMMA MakeStep ==
  ASSUME TypeOK, MakeInv, [Next]_vars
  PROVE  MakeInv'
\* One client moves; it may become a maker only if no other is one.
<1>1. ASSUME NEW c \in Clients,
             \A d \in Clients : d # c => phase'[d] = phase[d] /\ making'[d] = making[d],
             phase'[c] \in {"channels", "sending"} => making'[c] # NoSocket,
             making'[c] # NoSocket => phase'[c] \in {"channels", "sending", "taking"},
             overlapped => overlapped',
             ~overlapped' /\ Maker(c)' => Maker(c) \/ \A d \in Clients : d # c => ~Maker(d)
      PROVE  MakeInv'
  <2>1. \A d \in Clients : d # c => (Maker(d)' <=> Maker(d))
    BY <1>1 DEF Maker
  <2>2. ASSUME ~overlapped', NEW d \in Clients, NEW e \in Clients, Maker(d)', Maker(e)'
        PROVE  d = e
    BY <1>1, <2>1, <2>2 DEF MakeInv
  <2>. QED  BY <1>1, <2>2 DEF MakeInv
<1>2. CASE UNCHANGED <<phase, making, overlapped>>
  BY <1>2 DEF MakeInv, Maker
<1>3. ASSUME NEW c \in Clients, Connect(c) \/ Release(c) \/ WaitActive(c) \/ StopSignal(c) \/ StopSend(c) \/ StopDone(c)
      PROVE  MakeInv'
  <2>1. \A d \in Clients : d # c => phase'[d] = phase[d]
    BY <1>3 DEF Connect, Release, WaitActive, StopSignal, StopSend, StopDone, To, TypeOK
  <2>2. UNCHANGED <<making, overlapped>>
    BY <1>3 DEF Connect, Release, WaitActive, StopSignal, StopSend, StopDone, socketVars
  <2>3. making[c] = NoSocket
    BY <1>3 DEF Connect, Release, WaitActive, StopSignal, StopSend, StopDone, MakeInv
  <2>4. phase'[c] \notin {"handshake", "channels", "sending"}
    BY <1>3 DEF Connect, Release, WaitActive, StopSignal, StopSend, StopDone, To, TypeOK
  <2>. QED  BY <1>1, <2>1, <2>2, <2>3, <2>4 DEF Maker
<1>4. ASSUME NEW c \in Clients, OpenBegin(c)
      PROVE  MakeInv'
  <2>1. /\ \A d \in Clients : d # c => phase'[d] = phase[d]
        /\ making' = making /\ making[c] = NoSocket
        /\ phase'[c] \in {"taking", "handshake"}
        /\ overlapped => overlapped'
    BY <1>4 DEF OpenBegin, To, TypeOK, MakeInv
  <2>2. ASSUME ~overlapped', phase'[c] = "handshake", NEW d \in Clients, d # c
        PROVE  ~Maker(d)
    <3>1. ~InConnect(d)
      BY <1>4, <2>2 DEF OpenBegin, To, TypeOK
    <3>. QED  BY <3>1 DEF InConnect, Maker, MakeInv
  <2>3. Maker(c)' => phase'[c] = "handshake"
    BY <2>1 DEF Maker
  <2>. QED  BY <1>1, <2>1, <2>2, <2>3
<1>5. ASSUME NEW c \in Clients, OpenHandshake(c)
      PROVE  MakeInv'
  <2>1. /\ \A d \in Clients : d # c => phase'[d] = phase[d] /\ making'[d] = making[d]
        /\ overlapped' = overlapped /\ Maker(c)
    BY <1>5 DEF OpenHandshake, To, TypeOK, Maker
  <2>2. CASE phase'[c] = "channels" /\ making'[c] \in Sockets
    BY <1>1, <2>1, <2>2 DEF Sockets, NoSocket
  <2>3. CASE phase'[c] = "failed" /\ making' = making
    <3>1. making[c] = NoSocket
      BY <1>5 DEF OpenHandshake, MakeInv
    <3>. QED  BY <1>1, <2>1, <2>3, <3>1
  <2>4. \/ phase'[c] = "channels" /\ making'[c] \in Sockets
        \/ phase'[c] = "failed" /\ making' = making
    BY <1>5 DEF OpenHandshake, To, TypeOK
  <2>. QED  BY <2>2, <2>3, <2>4
<1>6. ASSUME NEW c \in Clients, OpenChannels(c) \/ OpenSpawn(c)
      PROVE  MakeInv'
  <2>1. /\ \A d \in Clients : d # c => phase'[d] = phase[d] /\ making'[d] = making[d]
        /\ overlapped' = overlapped
        /\ phase[c] \in {"channels", "sending"}
        /\ \/ phase'[c] \in {"sending", "taking"} /\ making'[c] = making[c]
           \/ phase'[c] = "failed" /\ making'[c] = NoSocket
    BY <1>6 DEF OpenChannels, OpenSpawn, To, TypeOK
  <2>2. making[c] # NoSocket
    BY <2>1 DEF MakeInv
  <2>. QED  BY <1>1, <2>1, <2>2 DEF Maker
<1>7. ASSUME NEW c \in Clients, TakeRx(c)
      PROVE  MakeInv'
  <2>1. /\ \A d \in Clients : d # c => phase'[d] = phase[d] /\ making'[d] = making[d]
        /\ overlapped' = overlapped /\ making'[c] = NoSocket /\ phase'[c] = "waiting"
    BY <1>7 DEF TakeRx, To, TypeOK
  <2>. QED  BY <1>1, <2>1 DEF Maker
<1>8. ASSUME NEW s \in Sockets, Handler(s) \/ DropConnection(s) \/ Recover(s)
      PROVE  MakeInv'
  BY <1>2, <1>8 DEF Handler, LoopTop, OnCommand, OnFrame, OnClosed, DropConnection, Recover, callVars
<1>9. CASE UNCHANGED vars
  BY <1>2, <1>9 DEF vars, callVars, socketVars
<1>. QED  BY <1>3, <1>4, <1>5, <1>6, <1>7, <1>8, <1>9 DEF Next, Opens, Stops

-----------------------------------------------------------------------------
(* One stream *)

LEMMA SoleStep ==
  ASSUME TypeOK, MakeInv, SoleInv, [Next]_vars
  PROVE  SoleInv'
<1>. SUFFICES ASSUME ~overlapped', drops' = 0 PROVE SoleInv'
  BY DEF SoleInv
<1>1. ~overlapped /\ drops = 0
  <2>1. CASE UNCHANGED <<overlapped, drops>>
    BY <2>1
  <2>2. ASSUME NEW c \in Clients, OpenBegin(c)
        PROVE  ~overlapped /\ drops = 0
    BY <2>2 DEF OpenBegin, TypeOK
  <2>3. ASSUME NEW s \in Sockets, DropConnection(s)
        PROVE  FALSE
    BY <2>3, SocketAssumption DEF DropConnection, TypeOK
  <2>. QED  BY <2>1, <2>2, <2>3 DEF Next, Opens, Stops, Handler, Connect, OpenHandshake,
     OpenChannels, OpenSpawn, TakeRx, WaitActive, Release, StopSignal, StopSend, StopDone, LoopTop, OnCommand,
     OnFrame, OnClosed, Recover, vars, socketVars
<1>2. /\ \A s \in Sockets : mode[s] # "reconnect" /\ (mode[s] = "active" => s = current)
      /\ \A c \in Clients : phase[c] = "handshake" => ~IsConnected
  BY <1>1 DEF SoleInv
<1>3. ASSUME UNCHANGED <<mode, current>>,
             \A c \in Clients : phase'[c] = "handshake" => phase[c] = "handshake"
      PROVE  SoleInv'
  BY <1>2, <1>3 DEF SoleInv, IsConnected
\* A handler that ends may take connections down with it.
<1>4. ASSUME UNCHANGED current,
             \A c \in Clients : phase'[c] = "handshake" => phase[c] = "handshake",
             \A s \in Sockets : mode'[s] \in {mode[s], "closed"}
      PROVE  SoleInv'
  <2>1. IsConnected' => IsConnected
    BY <1>4 DEF IsConnected, TypeOK, Sockets, NoSocket
  <2>. QED  BY <1>2, <1>4, <2>1 DEF SoleInv
<1>5. ASSUME NEW c \in Clients, OpenBegin(c)
      PROVE  SoleInv'
  <2>1. /\ UNCHANGED <<mode, current>>
        /\ \A d \in Clients : phase'[d] = "handshake" => phase[d] = "handshake" \/ ~IsConnected
    BY <1>5 DEF OpenBegin, To, TypeOK
  <2>. QED  BY <1>2, <2>1 DEF SoleInv, IsConnected
<1>6. ASSUME NEW c \in Clients, OpenHandshake(c)
      PROVE  SoleInv'
  <2>1. \A d \in Clients : phase[d] = "handshake" => d = c
    BY <1>1, <1>6 DEF OpenHandshake, MakeInv, Maker
  <2>2. \A d \in Clients : phase'[d] # "handshake"
    BY <1>6, <2>1 DEF OpenHandshake, To, TypeOK
  <2>3. CASE UNCHANGED <<mode, current>>
    BY <1>3, <2>2, <2>3
  <2>4. ASSUME NEW s \in Sockets, mode' = [mode EXCEPT ![s] = "active"], current' = s
        PROVE  SoleInv'
    <3>1. \A t \in Sockets : mode[t] # "active"
      <4>1. ~IsConnected
        BY <1>2, <1>6 DEF OpenHandshake
      <4>. QED  BY <1>2, <4>1 DEF IsConnected, Sockets, NoSocket
    <3>. QED  BY <1>2, <2>2, <2>4, <3>1 DEF SoleInv, TypeOK
  <2>. QED  BY <1>6, <2>3, <2>4 DEF OpenHandshake
<1>7. ASSUME NEW c \in Clients, Connect(c) \/ OpenChannels(c) \/ OpenSpawn(c) \/ TakeRx(c)
                                \/ WaitActive(c) \/ Release(c) \/ Stops(c)
      PROVE  SoleInv'
  <2>1. current' = current /\ \A s \in Sockets : mode'[s] \in {mode[s], "closed"}
    BY <1>7 DEF Connect, OpenChannels, OpenSpawn, DropClient, TakeRx, WaitActive, Release, Stops,
       StopSignal, StopSend, StopDone, socketVars, TypeOK
  <2>2. \A d \in Clients : phase'[d] = "handshake" => phase[d] = "handshake"
    BY <1>7 DEF Connect, OpenChannels, OpenSpawn, TakeRx, WaitActive, Release, Stops, StopSignal,
       StopSend, StopDone, To, TypeOK
  <2>. QED  BY <1>4, <2>1, <2>2
<1>8. ASSUME NEW s \in Sockets, Handler(s)
      PROVE  SoleInv'
  <2>1. UNCHANGED <<phase, current>>
    BY <1>8 DEF Handler, LoopTop, OnCommand, OnFrame, OnClosed, callVars
  <2>2. \A t \in Sockets : mode'[t] \in {mode[t], "closed"}
    BY <1>8 DEF Handler, LoopTop, OnCommand, OnFrame, OnClosed, DropClient, TypeOK
  <2>. QED  BY <1>4, <2>1, <2>2
<1>9. ASSUME NEW s \in Sockets, Recover(s)
      PROVE  FALSE
  BY <1>2, <1>9 DEF Recover
<1>10. ASSUME NEW s \in Sockets, DropConnection(s)
       PROVE  FALSE
  BY <1>1, <1>10, SocketAssumption DEF DropConnection
<1>11. CASE UNCHANGED vars
  BY <1>3, <1>11 DEF vars, callVars, socketVars
<1>. QED  BY <1>5, <1>6, <1>7, <1>8, <1>9, <1>10, <1>11 DEF Next, Opens

-----------------------------------------------------------------------------
(* Nobody is cut off *)

LEMMA LiveStep ==
  ASSUME TypeOK, CountInv, OverInv, MakeInv, LiveInv, [Next]_vars
  PROVE  LiveInv'
<1>. SUFFICES ASSUME ~overlapped', ~Over' PROVE LiveInv'
  BY DEF LiveInv
<1>1. ~overlapped
  <2>1. ASSUME NEW c \in Clients, OpenBegin(c)
        PROVE  ~overlapped
    BY <2>1 DEF OpenBegin, TypeOK
  <2>. QED  BY <2>1 DEF Next, Opens, Stops, Handler, Connect, OpenHandshake, OpenChannels,
     OpenSpawn, TakeRx, WaitActive, Release, StopSignal, StopSend, StopDone, LoopTop, OnCommand, OnFrame,
     OnClosed, Recover, DropConnection, vars, socketVars
<1>2. ~Over /\ ~signal /\ \A c \in Clients : phase[c] \notin Stopping
  BY OverStep DEF OverInv
<1>3. /\ \A s \in Sockets : Served(s)
      /\ \A c \in Clients : phase[c] = "sending" => cmdTx = making[c]
      /\ \A c \in Clients : phase[c] = "in" => \E s \in Sockets : Used(s)
  BY <1>1, <1>2 DEF LiveInv
<1>4. \A c, d \in Clients : Maker(c) /\ Maker(d) => c = d
  BY <1>1 DEF MakeInv
\* The sockets stay as they are and nobody starts or stops making one.
<1>5. ASSUME UNCHANGED <<making, mode, cmdTx, rx, task, owned, cmds>>,
             \A c \in Clients : \/ phase'[c] = phase[c]
                              \/ /\ {phase[c], phase'[c]} \cap {"channels", "sending"} = {}
                                 /\ phase'[c] = "in" => \E s \in Sockets : Used(s)
      PROVE  LiveInv'
  <2>1. \A c \in Clients, s \in Sockets : Makes(c, s)' <=> Makes(c, s)
    BY <1>5 DEF Makes
  <2>2. \A s \in Sockets : Served(s)'
    BY <1>3, <1>5, <2>1 DEF Served, Used
  <2>3. \A c \in Clients : phase'[c] = "sending" => cmdTx' = making'[c]
    BY <1>3, <1>5
  <2>4. \A c \in Clients : phase'[c] = "in" => \E s \in Sockets : Used(s)'
    BY <1>3, <1>5 DEF Used
  <2>. QED  BY <2>2, <2>3, <2>4 DEF LiveInv
<1>6. ASSUME NEW c \in Clients, Connect(c) \/ Release(c) \/ OpenBegin(c) \/ WaitActive(c)
      PROVE  LiveInv'
  <2>1. UNCHANGED <<making, mode, cmdTx, rx, task, owned, cmds>>
    BY <1>6 DEF Connect, Release, OpenBegin, WaitActive, socketVars
  <2>2. /\ \A d \in Clients : d # c => phase'[d] = phase[d]
        /\ {phase[c], phase'[c]} \cap {"channels", "sending"} = {}
    BY <1>6 DEF Connect, Release, OpenBegin, WaitActive, To, TypeOK
  <2>3. ASSUME phase'[c] = "in"
        PROVE  \E s \in Sockets : Used(s)
    <3>1. IsConnected
      BY <1>6, <2>3 DEF Connect, Release, OpenBegin, WaitActive, To, TypeOK
    <3>2. current \in Sockets
      BY <3>1 DEF IsConnected, TypeOK, Sockets, NoSocket
    <3>. QED  BY <3>1, <3>2 DEF IsConnected, Used
  <2>. QED  BY <1>5, <2>1, <2>2, <2>3
<1>7. ASSUME NEW c \in Clients, OpenHandshake(c)
      PROVE  LiveInv'
  <2>1. making[c] = NoSocket /\ phase[c] = "handshake" /\ Maker(c)
    BY <1>7 DEF OpenHandshake, MakeInv, Maker
  <2>2. CASE To(c, "failed") /\ UNCHANGED <<making, mode, current, rx>>
    BY <1>5, <1>7, <2>1, <2>2 DEF OpenHandshake, To, TypeOK
  <2>3. ASSUME NEW s \in Sockets, mode[s] = "unused", mode' = [mode EXCEPT ![s] = "active"],
               StoreRx(s), making' = [making EXCEPT ![c] = s], To(c, "channels")
        PROVE  LiveInv'
    <3>1. \A d \in Clients : d # c => making[d] = NoSocket /\ phase[d] \notin {"channels", "sending"}
      BY <1>4, <2>1 DEF Maker, MakeInv
    <3>2. \A t \in Sockets : rx[t] # "stored"
      BY <1>3, <2>1, <3>1 DEF Served, Sockets, NoSocket
    <3>3. /\ \A t \in Sockets : rx'[t] = IF t = s THEN "stored" ELSE rx[t]
          /\ \A t \in Sockets : mode'[t] = IF t = s THEN "active" ELSE mode[t]
          /\ UNCHANGED <<cmdTx, task, owned, cmds>>
      BY <1>7, <2>3, <3>2 DEF OpenHandshake, StoreRx, TypeOK
    <3>4. /\ \A d \in Clients : phase'[d] = IF d = c THEN "channels" ELSE phase[d]
          /\ \A d \in Clients : making'[d] = IF d = c THEN s ELSE making[d]
      BY <2>3 DEF To, TypeOK
    <3>5. Makes(c, s)' /\ \A d \in Clients, t \in Sockets : Makes(d, t)' => d = c /\ t = s
      BY <3>1, <3>4 DEF Makes
    <3>6. \A d \in Clients, t \in Sockets : ~Makes(d, t)
      BY <2>1, <3>1 DEF Makes
    <3>7. task[s] = "none"
      BY <1>3, <2>3 DEF Served, Used
    <3>8. Served(s)'
      BY <1>3, <3>3, <3>4, <3>5, <3>7 DEF Served, Used
    <3>9. ASSUME NEW t \in Sockets, t # s
          PROVE  Served(t)'
      <4>1. Served(t) /\ rx[t] # "stored" /\ rx'[t] = rx[t] /\ mode'[t] = mode[t]
        BY <1>3, <3>2, <3>3, <3>9
      <4>2. \A d \in Clients : ~Makes(d, t) /\ ~Makes(d, t)'
        BY <3>5, <3>6, <3>9
      <4>. QED  BY <3>3, <4>1, <4>2 DEF Served, Used
    <3>10. \A d \in Clients : phase'[d] # "sending" /\ (phase'[d] = "in" => Used(s)')
      BY <3>1, <3>3, <3>4 DEF Used
    <3>. QED  BY <3>8, <3>9, <3>10 DEF LiveInv
  <2>. QED  BY <1>7, <2>2, <2>3 DEF OpenHandshake
<1>8. ASSUME NEW c \in Clients, OpenChannels(c)
      PROVE  LiveInv'
  <2>1. /\ \A d \in Clients : phase'[d] = IF d = c THEN "sending" ELSE phase[d]
        /\ phase[c] = "channels" /\ cmdTx' = making[c]
        /\ UNCHANGED <<making, mode, rx, task, owned, cmds>>
    BY <1>8 DEF OpenChannels, To, TypeOK
  <2>2. \A d \in Clients, s \in Sockets : Makes(d, s)' <=> Makes(d, s)
    BY <2>1 DEF Makes
  <2>3. \A s \in Sockets : Served(s)'
    BY <1>3, <2>1, <2>2 DEF Served, Used
  <2>4. \A d \in Clients : phase'[d] = "sending" => d = c
    BY <1>4, <2>1 DEF MakeInv, Maker
  <2>5. \A d \in Clients : phase'[d] = "in" => \E s \in Sockets : Used(s)'
    BY <1>3, <2>1 DEF Used
  <2>. QED  BY <2>1, <2>3, <2>4, <2>5 DEF LiveInv
<1>9. ASSUME NEW c \in Clients, OpenSpawn(c)
      PROVE  LiveInv'
  <2>1. PICK s \in Sockets : s = making[c]
    <3>1. making[c] # NoSocket /\ making[c] \in 0 .. MaxSockets
      BY <1>9 DEF OpenSpawn, MakeInv, TypeOK
    <3>. QED  BY <3>1 DEF Sockets, NoSocket
  <2>2. phase[c] = "sending" /\ cmdTx = s /\ Makes(c, s)
    BY <1>3, <1>9, <2>1 DEF OpenSpawn, Makes
  <2>3. Used(s) /\ task[s] = "none" /\ cmds[s] = <<>> /\ owned[s] = NoSocket /\ Served(s)
    BY <1>3, <2>2 DEF Served
  <2>0. To(c, "taking") /\ task' = [task EXCEPT ![s] = "top"] /\ Send(s, s) /\ UNCHANGED <<making, mode>>
    BY <1>9, <2>1, <2>2, <2>3 DEF OpenSpawn
  <2>4. /\ \A d \in Clients : phase'[d] = IF d = c THEN "taking" ELSE phase[d]
        /\ \A t \in Sockets : task'[t] = IF t = s THEN "top" ELSE task[t]
        /\ \A t \in Sockets : t # s => cmds'[t] = cmds[t]
        /\ UNCHANGED <<making, mode, cmdTx, rx, owned>>
    BY <1>9, <2>0 DEF OpenSpawn, To, Send, TypeOK
  <2>5. cmds'[s] = <<s>>
    <3>1. cmds'[s] = Append(cmds[s], s)
      BY <2>0 DEF Send, TypeOK
    <3>. QED  BY <2>3, <3>1
  <2>6. \A d \in Clients : d # c => making[d] = NoSocket /\ phase[d] \notin {"channels", "sending"}
    BY <1>4, <2>2 DEF Maker, Makes, MakeInv, Sockets, NoSocket
  <2>7. \A d \in Clients, t \in Sockets : ~Makes(d, t)'
    BY <2>4, <2>6 DEF Makes
  <2>8. \A t \in Sockets : Used(t)' <=> Used(t)
    BY <2>4 DEF Used
  <2>9. Served(s)'
    <3>1. task'[s] = "top" /\ owned'[s] = NoSocket /\ Used(s)'
      BY <2>3, <2>4, <2>8
    <3>2. ~\E d \in Clients : Makes(d, s)'
      BY <2>7
    <3>3. UNCHANGED rx /\ UNCHANGED mode
      BY <2>4
    <3>. QED  BY <2>2, <2>3, <2>4, <2>5, <3>1, <3>2, <3>3 DEF Served
  <2>10. ASSUME NEW t \in Sockets, t # s
         PROVE  Served(t)'
    <3>1. Served(t) /\ \A d \in Clients : ~Makes(d, t)
      BY <1>3, <2>1, <2>6, <2>10 DEF Makes
    <3>2. task'[t] = task[t] /\ cmds'[t] = cmds[t] /\ UNCHANGED <<making, mode, rx, owned>>
      BY <2>4, <2>10
    <3>3. (Used(t)' <=> Used(t)) /\ \A d \in Clients : ~Makes(d, t)'
      BY <2>7, <2>8
    <3>. QED  BY <3>1, <3>2, <3>3 DEF Served
  <2>11. \A t \in Sockets : Served(t)'
    BY <2>9, <2>10
  <2>12. \A d \in Clients : phase'[d] # "sending"
    BY <2>4, <2>6
  <2>13. \E t \in Sockets : Used(t)'
    BY <2>3, <2>8
  <2>. QED  BY <2>11, <2>12, <2>13 DEF LiveInv
<1>10. ASSUME NEW c \in Clients, TakeRx(c)
       PROVE  LiveInv'
  <2>1. /\ \A d \in Clients : phase'[d] = IF d = c THEN "waiting" ELSE phase[d]
        /\ \A d \in Clients : making'[d] = IF d = c THEN NoSocket ELSE making[d]
        /\ \A s \in Sockets : rx'[s] = IF rx[s] = "stored" THEN "read" ELSE rx[s]
        /\ UNCHANGED <<mode, cmdTx, task, owned, cmds>> /\ phase[c] = "taking"
    BY <1>10 DEF TakeRx, To, TypeOK
  <2>2. \A d \in Clients, s \in Sockets : Makes(d, s)' <=> Makes(d, s)
    BY <2>1 DEF Makes
  <2>3. \A s \in Sockets : Served(s)'
    BY <1>3, <2>1, <2>2 DEF Served, Used
  <2>4. \A d \in Clients : phase'[d] = "sending" => cmdTx' = making'[d]
    BY <1>3, <2>1
  <2>5. \A d \in Clients : phase'[d] = "in" => \E s \in Sockets : Used(s)'
    BY <1>3, <2>1 DEF Used
  <2>. QED  BY <2>3, <2>4, <2>5 DEF LiveInv
\* One handler task runs on, and its connection stays open.
<1>11. ASSUME NEW s \in Sockets, UNCHANGED <<phase, making, cmdTx, rx>>,
              \A t \in Sockets : t # s => task'[t] = task[t] /\ owned'[t] = owned[t]
                                      /\ cmds'[t] = cmds[t] /\ mode'[t] = mode[t],
              \/ task'[s] = task[s]
              \/ task[s] # "none" /\ task'[s] \in {"top", "select"},
              \/ mode'[s] = mode[s]
              \/ Used(s) /\ mode'[s] \in {"active", "reconnect"},
              \/ cmds'[s] = cmds[s] /\ owned'[s] = owned[s]
              \/ task[s] # "none" /\ cmds'[s] = <<>>
       PROVE  LiveInv'
  <2>1. \A c \in Clients, t \in Sockets : Makes(c, t)' <=> Makes(c, t)
    BY <1>11 DEF Makes
  <2>2. \A t \in Sockets : Used(t)' <=> Used(t)
    BY <1>11 DEF Used
  <2>3. ASSUME NEW t \in Sockets, t # s
        PROVE  Served(t)'
    <3>1. Served(t)
      BY <1>3
    <3>2. task'[t] = task[t] /\ owned'[t] = owned[t] /\ cmds'[t] = cmds[t] /\ mode'[t] = mode[t]
      BY <1>11, <2>3
    <3>. QED  BY <1>11, <2>1, <2>2, <3>1, <3>2 DEF Served
  <2>4. Served(s)'
    <3>1. Served(s)
      BY <1>3
    <3>. QED  BY <1>11, <2>1, <2>2, <3>1 DEF Served
  <2>. QED  BY <1>3, <1>11, <2>2, <2>3, <2>4 DEF LiveInv
<1>12. ASSUME NEW s \in Sockets, Handler(s)
       PROVE  LiveInv'
  <2>1. Served(s)
    BY <1>3
  <2>2. CASE LoopTop(s)
    <3>1. UNCHANGED <<phase, making, cmdTx, rx, mode, owned, cmds>>
      BY <1>2, <2>2 DEF LoopTop, callVars
    <3>2. task[s] = "top" /\ \A t \in Sockets : task'[t] = IF t = s THEN "select" ELSE task[t]
      BY <1>2, <2>2 DEF LoopTop, TypeOK
    <3>. QED  BY <1>11, <3>1, <3>2
  <2>3. CASE OnCommand(s)
    <3>1. cmds[s] = <<s>> /\ owned[s] = NoSocket
      BY <2>1, <2>3 DEF OnCommand, Served
    <3>2. Head(cmds[s]) = s /\ Tail(cmds[s]) = <<>> /\ s # Disconnect
      BY <3>1 DEF Sockets, Disconnect
    <3>3. /\ cmds' = [cmds EXCEPT ![s] = <<>>] /\ task' = [task EXCEPT ![s] = "top"]
          /\ owned' = [owned EXCEPT ![s] = s] /\ mode' = mode
      BY <2>3, <3>1, <3>2 DEF OnCommand, DropClient
    <3>4. UNCHANGED <<phase, making, cmdTx, rx>> /\ task[s] = "select"
      BY <2>3 DEF OnCommand, callVars
    <3>5. task'[s] = "top" /\ cmds'[s] = <<>> /\ task[s] # "none" /\ mode'[s] = mode[s]
      BY <3>3, <3>4 DEF TypeOK
    <3>6. \A t \in Sockets : t # s => task'[t] = task[t] /\ owned'[t] = owned[t]
                                      /\ cmds'[t] = cmds[t] /\ mode'[t] = mode[t]
      BY <3>3 DEF TypeOK
    <3>. QED  BY <1>11, <3>4, <3>5, <3>6
  <2>4. CASE OnFrame(s)
    BY <1>11, <2>1, <2>4 DEF OnFrame, Served, TypeOK, callVars
  <2>5. CASE OnClosed(s)
    BY <2>1, <2>5 DEF OnClosed, Served
  <2>. QED  BY <1>12, <2>2, <2>3, <2>4, <2>5 DEF Handler
<1>13. ASSUME NEW s \in Sockets, DropConnection(s) \/ Recover(s)
       PROVE  LiveInv'
  <2>1. UNCHANGED <<phase, making, cmdTx, rx, task, owned, cmds>>
    BY <1>13 DEF DropConnection, Recover, callVars
  <2>2. Used(s) /\ mode'[s] \in {"active", "reconnect"}
    BY <1>13 DEF DropConnection, Recover, TypeOK, Used
  <2>3. \A t \in Sockets : t # s => mode'[t] = mode[t]
    BY <1>13 DEF DropConnection, Recover, TypeOK
  <2>. QED  BY <1>11, <2>1, <2>2, <2>3
<1>14. ASSUME NEW c \in Clients, Stops(c)
       PROVE  FALSE
  BY <1>2, <1>14 DEF Stops, StopSignal, StopSend, StopDone, Stopping
<1>15. CASE UNCHANGED vars
  BY <1>5, <1>15 DEF vars, callVars, socketVars
<1>. QED
  BY <1>6, <1>7, <1>8, <1>9, <1>10, <1>12, <1>13, <1>14, <1>15 DEF Next, Opens

LEMMA SocketInvariant == Spec => []SocketInv
<1>1. SocketInv /\ [Next]_vars => SocketInv'
  BY TypeStep, CountStep, SignalStep, MakeStep, SoleStep, LiveStep DEF SocketInv
<1>. QED  BY <1>1, SocketInit, PTL DEF Spec

-----------------------------------------------------------------------------
(* The theorems *)

(* The state of the dispatcher and its sockets is typed; in particular the    *)
(* refcount neither goes negative nor exceeds the number of clients.          *)
THEOREM TypeCorrect == Spec => []TypeOK
  BY SocketInvariant, PTL DEF SocketInv

(* One stream feeds the dispatcher, for any number of clients, as long as no  *)
(* two connect() calls overlap and nothing drops.                             *)
THEOREM SoleCorrect == Spec => []SoleStream
<1>1. SocketInv => SoleStream
  BY DEF SocketInv, SoleInv, SoleStream, OneStream, Feeds, TypeOK
<1>. QED  BY <1>1, SocketInvariant, PTL

(* A connected client is fed by a socket, or one is just being opened: neither *)
(* another client's connect() nor its leaving cuts it off, whatever drops.    *)
THEOREM SeveredCorrect == Spec => []NeverSevered
<1>1. SocketInv => NeverSevered
  <2>. SUFFICES ASSUME SocketInv, NEW c \in Clients, phase[c] = "in", ~overlapped,
                       \A d \in Clients : ~Opening(d)
                PROVE  \E s \in Sockets : Feeds(s)
    BY DEF NeverSevered
  <2>1. TypeOK /\ MakeInv /\ LiveInv /\ ~Over
    BY DEF SocketInv, Over, Left
  <2>2. PICK s \in Sockets : Used(s)
    BY <2>1 DEF LiveInv
  <2>3. \A d \in Clients : making[d] = NoSocket
    BY <2>1 DEF MakeInv, Opening, InConnect
  <2>4. Served(s) /\ \A d \in Clients : ~Makes(d, s) /\ making[d] # s
    BY <2>1, <2>3 DEF LiveInv, Makes, Sockets, NoSocket
  <2>5. /\ mode[s] \in {"unused", "active", "reconnect", "closed"}
        /\ rx[s] \in {"none", "stored", "read", "dropped"}
        /\ task[s] \in {"none", "top", "select", "ended"}
    BY <2>1 DEF TypeOK
  <2>6. Feeds(s)
    BY <2>2, <2>4, <2>5 DEF Served, Used, Feeds
  <2>. QED  BY <2>6
<1>. QED  BY <1>1, SocketInvariant, PTL

-----------------------------------------------------------------------------
(* The stop reaches its handler *)

\* Commands go to the handler of the current connection, or will once the client
\* that has shaken hands goes on; only that client has a socket in the making.
ReachInv ==
  ~overlapped =>
    /\ \A c \in Clients : making[c] # NoSocket => making[c] = current
    /\ current = cmdTx \/ \E c \in Clients : phase[c] = "channels"

\* Overlapping is never forgotten.
LEMMA StaysOverlapped ==
  ASSUME TypeOK, [Next]_vars, ~overlapped'
  PROVE  ~overlapped
<1>1. ASSUME NEW c \in Clients, OpenBegin(c)
      PROVE  ~overlapped
  BY <1>1 DEF OpenBegin, TypeOK
<1>. QED  BY <1>1 DEF Next, Opens, Stops, Handler, Connect, OpenHandshake, OpenChannels,
     OpenSpawn, TakeRx, WaitActive, Release, StopSignal, StopSend, StopDone, LoopTop, OnCommand, OnFrame,
     OnClosed, Recover, DropConnection, vars, socketVars

LEMMA ReachStep ==
  ASSUME TypeOK, MakeInv, ReachInv, [Next]_vars
  PROVE  ReachInv'
<1>. SUFFICES ASSUME ~overlapped' PROVE ReachInv'
  BY DEF ReachInv
<1>1. /\ \A c \in Clients : making[c] # NoSocket => making[c] = current
      /\ current = cmdTx \/ \E c \in Clients : phase[c] = "channels"
      /\ \A c, d \in Clients : Maker(c) /\ Maker(d) => c = d
  BY StaysOverlapped DEF ReachInv, MakeInv
<1>2. ASSUME UNCHANGED <<making, current, cmdTx>>,
             \A c \in Clients : phase[c] = "channels" => phase'[c] = "channels"
      PROVE  ReachInv'
  BY <1>1, <1>2 DEF ReachInv
<1>3. ASSUME NEW c \in Clients, Connect(c) \/ Release(c) \/ Stops(c)
      PROVE  ReachInv'
  <2>1. UNCHANGED <<making, current, cmdTx>> /\ phase[c] # "channels"
    BY <1>3 DEF Connect, Release, Stops, StopSignal, StopSend, StopDone, socketVars
  <2>2. \A d \in Clients : d # c => phase'[d] = phase[d]
    BY <1>3 DEF Connect, Release, Stops, StopSignal, StopSend, StopDone, To, TypeOK
  <2>. QED  BY <1>2, <2>1, <2>2
<1>4. ASSUME NEW c \in Clients, OpenBegin(c) \/ OpenSpawn(c) \/ WaitActive(c)
      PROVE  ReachInv'
  <2>1. UNCHANGED <<current, cmdTx>> /\ phase[c] # "channels"
    BY <1>4 DEF OpenBegin, OpenSpawn, WaitActive, socketVars
  <2>2. \A d \in Clients : d # c => phase'[d] = phase[d]
    BY <1>4 DEF OpenBegin, OpenSpawn, WaitActive, To, TypeOK
  <2>3. \A d \in Clients : making'[d] \in {making[d], NoSocket}
    BY <1>4 DEF OpenBegin, OpenSpawn, WaitActive, TypeOK
  <2>. QED  BY <1>1, <2>1, <2>2, <2>3 DEF ReachInv
<1>5. ASSUME NEW c \in Clients, OpenHandshake(c)
      PROVE  ReachInv'
  <2>1. CASE To(c, "failed") /\ UNCHANGED <<making, mode, current, rx>>
    BY <1>2, <1>5, <2>1 DEF OpenHandshake, To, TypeOK
  <2>2. ASSUME NEW s \in Sockets, current' = s, making' = [making EXCEPT ![c] = s],
               To(c, "channels")
        PROVE  ReachInv'
    <3>1. \A d \in Clients : d # c => making[d] = NoSocket
      BY <1>1, <1>5 DEF OpenHandshake, Maker
    <3>2. \A d \in Clients : making'[d] = IF d = c THEN s ELSE making[d]
      BY <2>2 DEF TypeOK
    <3>3. phase'[c] = "channels"
      BY <2>2 DEF To, TypeOK
    <3>. QED  BY <2>2, <3>1, <3>2, <3>3 DEF ReachInv
  <2>. QED  BY <1>5, <2>1, <2>2 DEF OpenHandshake
<1>6. ASSUME NEW c \in Clients, OpenChannels(c)
      PROVE  ReachInv'
  <2>1. making[c] = current
    BY <1>1, <1>6 DEF OpenChannels, MakeInv
  <2>. QED  BY <1>1, <1>6, <2>1 DEF OpenChannels, ReachInv
<1>7. ASSUME NEW c \in Clients, TakeRx(c)
      PROVE  ReachInv'
  <2>1. /\ UNCHANGED <<current, cmdTx>> /\ phase[c] # "channels"
        /\ \A d \in Clients : making'[d] = IF d = c THEN NoSocket ELSE making[d]
        /\ \A d \in Clients : d # c => phase'[d] = phase[d]
    BY <1>7 DEF TakeRx, To, TypeOK
  <2>. QED  BY <1>1, <2>1 DEF ReachInv
<1>8. ASSUME NEW s \in Sockets, Handler(s) \/ DropConnection(s) \/ Recover(s)
      PROVE  ReachInv'
  BY <1>2, <1>8 DEF Handler, LoopTop, OnCommand, OnFrame, OnClosed, DropConnection, Recover,
     callVars
<1>9. CASE UNCHANGED vars
  BY <1>2, <1>9 DEF vars, callVars, socketVars
<1>. QED
  BY <1>3, <1>4, <1>5, <1>6, <1>7, <1>8, <1>9 DEF Next, Opens

\* Once the signal is set nobody connects any more, the client that set it sends
\* Disconnect to the current connection, no handler passes the top of its loop,
\* and one that takes a command leaves select!.
LEMMA StopStep ==
  ASSUME TypeOK, CountInv, OverInv, ReachInv, StopReaches, [Next]_vars
  PROVE  StopReaches'
<1>. SUFFICES ASSUME signal', ~overlapped', current' # NoSocket, task'[current'] = "select"
              PROVE  Waking(current)'
  BY DEF StopReaches
<1>0. ~overlapped
  BY StaysOverlapped
\* What wakes the handler stays: its queue keeps what it has, and no one else sends.
<1>1. ASSUME UNCHANGED <<signal, current, cmdTx>>,
             \/ UNCHANGED <<task, cmds>>
             \/ /\ current \in Sockets
                /\ task'[current] = task[current]
                /\ cmds'[current] = cmds[current],
             \A c \in Clients : phase[c] = "signalled" => phase'[c] = "signalled"
      PROVE  Waking(current)'
  <2>1. task'[current] = task[current] /\ cmds'[current] = cmds[current]
    BY <1>1
  <2>2. Waking(current)
    BY <1>0, <1>1, <2>1 DEF StopReaches
  <2>. QED  BY <1>1, <2>1, <2>2 DEF Waking
<1>2. ASSUME NEW c \in Clients, Connect(c) \/ Opens(c)
      PROVE  FALSE
  <2>1. ~Left(c)
    BY <1>2 DEF Connect, Opens, OpenBegin, OpenHandshake, OpenChannels, OpenSpawn, TakeRx,
       WaitActive, Left
  <2>2. ~signal
    BY <2>1 DEF OverInv, Over
  <2>3. UNCHANGED signal \/ ~signal'
    BY <1>2 DEF Connect, Opens, OpenBegin, OpenHandshake, OpenChannels, OpenSpawn, TakeRx,
       WaitActive, socketVars
  <2>. QED  BY <2>2, <2>3
<1>3. ASSUME NEW c \in Clients, StopSignal(c)
      PROVE  Waking(current)'
  <2>1. Over
    BY <1>3 DEF StopSignal, OverInv, Stopping
  <2>2. current = cmdTx
    BY <1>0, <2>1 DEF ReachInv, Over, Left
  <2>3. phase'[c] = "signalled" /\ UNCHANGED <<current, cmdTx>>
    BY <1>3 DEF StopSignal, To, TypeOK
  <2>. QED  BY <2>2, <2>3 DEF Waking
<1>4. ASSUME NEW c \in Clients, StopSend(c)
      PROVE  Waking(current)'
  <2>1. Over
    BY <1>4 DEF StopSend, OverInv, Stopping
  <2>2. current = cmdTx
    BY <1>0, <2>1 DEF ReachInv, Over, Left
  <2>3. current' = current /\ current \in Sockets /\ Send(current, Disconnect)
    BY <1>4, <2>2 DEF StopSend, StopCommand, TypeOK, Sockets, NoSocket
  <2>4. cmds[current] \in Seq(0 .. MaxSockets) /\ Disconnect \in 0 .. MaxSockets
    BY <2>3, SocketAssumption DEF TypeOK, Disconnect
  <2>5. cmds'[current] = Append(cmds[current], Disconnect)
    BY <2>3, <2>4, Sending DEF TypeOK
  <2>6. /\ Len(cmds[current]) + 1 \in DOMAIN cmds'[current]
        /\ cmds'[current][Len(cmds[current]) + 1] = Disconnect
    BY <2>4, <2>5
  <2>. QED  BY <2>3, <2>6 DEF Waking
<1>5. ASSUME NEW c \in Clients, Release(c) \/ StopDone(c)
      PROVE  Waking(current)'
  <2>1. UNCHANGED <<signal, current, cmdTx, task, cmds>> /\ phase[c] # "signalled"
    BY <1>5 DEF Release, StopDone, socketVars
  <2>2. \A d \in Clients : d # c => phase'[d] = phase[d]
    BY <1>5 DEF Release, StopDone, To, TypeOK
  <2>. QED  BY <1>1, <2>1, <2>2
<1>6. ASSUME NEW s \in Sockets, DropConnection(s) \/ Recover(s)
      PROVE  Waking(current)'
  BY <1>1, <1>6 DEF DropConnection, Recover, callVars
<1>7. ASSUME NEW s \in Sockets, Handler(s)
      PROVE  Waking(current)'
  <2>0. UNCHANGED <<signal, current, cmdTx, phase>>
    BY <1>7 DEF Handler, LoopTop, OnCommand, OnFrame, OnClosed, callVars
  <2>1. signal /\ current' = current /\ current \in Sockets
    BY <2>0 DEF TypeOK, Sockets, NoSocket
  <2>2. task'[s] \in {"top", "ended"}
    BY <1>7, <2>1 DEF Handler, LoopTop, OnCommand, OnFrame, OnClosed, Ends, TypeOK
  <2>3. s # current
    BY <2>1, <2>2
  <2>4. task'[current] = task[current] /\ cmds'[current] = cmds[current]
    BY <1>7, <2>1, <2>3 DEF Handler, LoopTop, OnCommand, OnFrame, OnClosed, Ends, TypeOK
  <2>. QED  BY <1>1, <2>0, <2>1, <2>4
<1>8. CASE UNCHANGED vars
  BY <1>1, <1>8 DEF vars, callVars, socketVars
<1>. QED
  BY <1>2, <1>3, <1>4, <1>5, <1>6, <1>7, <1>8 DEF Next, Stops

(* The stop reaches the handler of the current connection for any number of   *)
(* clients, sockets and drops, unless two connect() calls overlapped: cmd_tx  *)
(* leads to the current connection once nobody is connecting, the last client *)
(* out finds nobody connecting, its Disconnect follows its signal to that     *)
(* channel, and no handler starts to wait past the signal or takes another    *)
(* command without looking at it (client.rs 155-202, handler.rs 76-84).       *)
THEOREM StopCorrect == Spec => []StopReaches
<1>1. Init => ReachInv /\ StopReaches
  BY DEF Init, ReachInv, StopReaches
<1>2. SocketInv /\ ReachInv /\ StopReaches /\ [Next]_vars => ReachInv' /\ StopReaches'
  BY ReachStep, StopStep DEF SocketInv
<1>. QED  BY <1>1, <1>2, SocketInvariant, PTL DEF Spec
=============================================================================
