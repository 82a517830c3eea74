-------------------------- MODULE AdiruMonitorProofs --------------------------
(***************************************************************************)
(* Proofs about the deployed system: the monitors are clients the server's *)
(* own specification allows for, so what BroadcastServerProofs proves of   *)
(* the server holds with them; and a monitor that runs never leaves the    *)
(* server a dead connection.                                               *)
(***************************************************************************)
EXTENDS AdiruMonitor, BroadcastServerProofs

-----------------------------------------------------------------------------
(* The monitors use the server as its clients may *)

LEMMA SysStepIsStep == ASSUME TypeOK, [SysNext]_sysVars PROVE [Next]_vars
<1>1. CASE Adiru
  BY <1>1 DEF Adiru, Next
<1>2. ASSUME NEW m \in Monitors, MainThread(m)
      PROVE  [Next]_vars
  <2>1. CASE ConnectAdiru(m)
    BY <2>1 DEF ConnectAdiru, Next, ClientStep
  <2>2. CASE SetConnected(m) \/ RecvLost(m) \/ ClearConnected(m)
    BY <2>2 DEF SetConnected, RecvLost, ClearConnected
  <2>3. CASE RecvFrame(m)
    <3>1. sock[m] \in Conns /\ Recv(sock[m])
      BY <2>3 DEF RecvFrame, Recv, TypeOK
    <3> QED
      BY <3>1 DEF Next, ClientStep
  <2>4. CASE Reopen(m)
    <3>1. sock[m] \in Conns /\ Close(sock[m])
      BY <2>4 DEF Reopen, Close, TypeOK
    <3> QED
      BY <3>1 DEF Next, ClientStep
  <2> QED
    BY <1>2, <2>1, <2>2, <2>3, <2>4 DEF MainThread
<1>3. ASSUME NEW m \in Monitors, Draw(m)
      PROVE  [Next]_vars
  BY <1>3 DEF Draw
<1>4. ASSUME NEW m \in Monitors, Quit(m)
      PROVE  [Next]_vars
  <2>1. CASE sock[m] = NoConn
    BY <1>4, <2>1 DEF Quit
  <2>2. CASE sock[m] # NoConn
    <3>1. sock[m] \in Conns /\ Close(sock[m])
      BY <1>4, <2>2 DEF Quit, Close, TypeOK
    <3> QED
      BY <3>1 DEF Next, ClientStep
  <2> QED
    BY <2>1, <2>2
<1>5. CASE UNCHANGED sysVars
  BY <1>5 DEF sysVars
<1> QED
  BY <1>1, <1>2, <1>3, <1>4, <1>5 DEF SysNext

\* Every behaviour of the deployed system is one of the server among clients.
THEOREM UsesServer == SysSpec => Spec
<1>1. SysInit => Init /\ TypeOK
  BY TypeInit DEF SysInit
<1>2. TypeOK /\ [SysNext]_sysVars => [Next]_vars /\ TypeOK'
  BY SysStepIsStep, TypeStep
<1> QED
  BY <1>1, <1>2, PTL DEF SysSpec, Spec

\* The monitors are kept in lock step, no frame is lost between the ADIRU and
\* a monitor, and the ADIRU's event loop never acts on a stale event.
THEOREM DeployedServerCorrect ==
  SysSpec => []IInv /\ []LockStep /\ []StreamIntact /\ []EventsStayTrue /\ StreamSpec
<1>1. IInv => LockStep /\ StreamIntact /\ EventsStayTrue
  BY DEF IInv
<1> QED
  BY <1>1, UsesServer, Invariant, Refinement, PTL

-----------------------------------------------------------------------------
(* A running monitor leaves the server no dead connection *)

\* Once a monitor's recv() has failed, the server holds no end of its connection.
LostAtEof ==
  \A m \in Monitors : mpc[m] \in {"lost", "close"} =>
     ~InQueue(sock[m]) /\ ~Accepted(sock[m])

LinkInv == SysTypeOK /\ OwnConnection /\ LostAtEof

LEMMA LinkInit == SysInit => LinkInv
<1> SUFFICES ASSUME SysInit PROVE LinkInv
  OBVIOUS
<1>1. SysTypeOK
  BY DEF SysInit, SysTypeOK
<1>2. OwnConnection /\ LostAtEof
  BY DEF SysInit, Init, OwnConnection, LostAtEof
<1> QED
  BY <1>1, <1>2 DEF LinkInv

\* The ADIRU's steps take no client end away and give no connection back that
\* the server holds no end of.
LEMMA AdiruKeeps ==
  ASSUME IInv, init \/ ServerStep \/ Kill
  PROVE  /\ open' = open
         /\ \A c \in Conns : InQueue(c)' \/ Accepted(c)' => InQueue(c) \/ Accepted(c)
<1> SUFFICES /\ open' = open
             /\ \A c \in Conns :
                  (\E i \in DOMAIN backlog' : backlog'[i] = c) \/ (\E g \in Fds : sockOf'[g] = c)
                    => InQueue(c) \/ Accepted(c)
  BY DEF InQueue, Accepted
<1> USE DEF IInv
<1>1. CASE HandleAccept
  <2>1. /\ Head(backlog) = backlog[1] /\ 1 \in DOMAIN backlog
        /\ DOMAIN Tail(backlog) = 1 .. Len(backlog) - 1 /\ Len(backlog) \in Nat
        /\ DOMAIN backlog = 1 .. Len(backlog)
        /\ \A i \in 1 .. Len(backlog) - 1 : Tail(backlog)[i] = backlog[i + 1]
    BY <1>1, TailFacts DEF HandleAccept, TypeOK
  <2>2. PICK new \in FreeFds : sockOf' = [sockOf EXCEPT ![new] = Head(backlog)]
    BY <1>1 DEF HandleAccept
  <2>3. open' = open /\ backlog' = Tail(backlog)
    BY <1>1 DEF HandleAccept
  <2>4. ASSUME NEW c \in Conns, NEW i \in DOMAIN backlog', backlog'[i] = c
        PROVE  InQueue(c)
    <3>1. i + 1 \in DOMAIN backlog /\ backlog[i + 1] = c
      BY <2>1, <2>3, <2>4
    <3> QED
      BY <3>1 DEF InQueue
  <2>5. ASSUME NEW c \in Conns, NEW g \in Fds, sockOf'[g] = c
        PROVE  InQueue(c) \/ Accepted(c)
    BY <2>1, <2>2, <2>5 DEF InQueue, Accepted, TypeOK
  <2> QED
    BY <2>3, <2>4, <2>5
<1>2. ASSUME NEW fd \in Fds, HandleHangup(fd)
      PROVE  /\ open' = open /\ backlog' = backlog
             /\ \A g \in Fds : sockOf'[g] \in {NoConn, sockOf[g]}
  BY <1>2 DEF HandleHangup, TypeOK
<1>3. CASE Down
  <2>1. open' = open /\ DOMAIN backlog' = {} /\ \A g \in Fds : sockOf'[g] = NoConn
    BY <1>3, EmptySeq, LenProperties DEF Down
  <2> QED
    BY <2>1, ServerAssumption
<1>4. ASSUME UNCHANGED <<open, backlog, sockOf>>
      PROVE  /\ open' = open
             /\ \A c \in Conns :
                  (\E i \in DOMAIN backlog' : backlog'[i] = c) \/ (\E g \in Fds : sockOf'[g] = c)
                    => InQueue(c) \/ Accepted(c)
  BY <1>4 DEF InQueue, Accepted
<1>5. CASE \E fd \in Fds : HandleHangup(fd)
  BY <1>2, <1>5, ServerAssumption DEF InQueue, Accepted
<1> QED
  BY <1>1, <1>3, <1>4, <1>5
  DEF ServerStep, init, Sample, Poll, HandleAcceptFail, StartBroadcast, Send,
      SendBroken, BroadcastDone, Kill, kernel

\* What a monitor's connect() changes at the server's end.
LEMMA ConnectKeeps ==
  ASSUME IInv, NEW c \in Conns, Connect(c)
  PROVE  /\ c \notin open /\ open' = open \cup {c} /\ sockOf' = sockOf
         /\ \A d \in Conns : (\E i \in DOMAIN backlog' : backlog'[i] = d)
                               => InQueue(d) \/ d = c
<1>1. /\ backlog \in Seq(Conns) /\ c \notin open /\ open' = open \cup {c}
      /\ sockOf' = sockOf /\ backlog' = Append(backlog, c)
  BY DEF Connect, Unused, IInv, TypeOK
<1>2. /\ DOMAIN backlog' = 1 .. Len(backlog) + 1 /\ Len(backlog) \in Nat
      /\ DOMAIN backlog = 1 .. Len(backlog)
      /\ \A i \in 1 .. Len(backlog) : backlog'[i] = backlog[i]
      /\ backlog'[Len(backlog) + 1] = c
  BY <1>1, AppendFacts
<1> QED
  BY <1>1, <1>2 DEF InQueue

LEMMA LinkStep == ASSUME IInv, IInv', LinkInv, [SysNext]_sysVars PROVE LinkInv'
<1> USE DEF LinkInv
<1>1. CASE Adiru
  <2>1. /\ UNCHANGED monitors /\ open' = open
        /\ \A c \in Conns : InQueue(c)' \/ Accepted(c)' => InQueue(c) \/ Accepted(c)
    BY <1>1, AdiruKeeps DEF Adiru
  <2>2. SysTypeOK' /\ OwnConnection'
    BY <2>1 DEF SysTypeOK, OwnConnection, monitors
  <2>3. ASSUME NEW m \in Monitors, mpc'[m] \in {"lost", "close"}
        PROVE  ~InQueue(sock[m])' /\ ~Accepted(sock[m])'
    <3>1. /\ mpc[m] = mpc'[m] /\ sock'[m] = sock[m] /\ sock[m] \in Conns
          /\ ~InQueue(sock[m]) /\ ~Accepted(sock[m])
      BY <2>1, <2>3 DEF monitors, LostAtEof, OwnConnection, SysTypeOK
    <3>2. ~(\E i \in DOMAIN backlog' : backlog'[i] = sock[m])
          /\ ~(\E g \in Fds : sockOf'[g] = sock[m])
      BY <2>1, <3>1 DEF InQueue, Accepted
    <3> QED
      BY <3>1, <3>2 DEF InQueue, Accepted
  <2> QED
    BY <2>2, <2>3 DEF LostAtEof
<1>2. ASSUME NEW m \in Monitors, ConnectAdiru(m)
      PROVE  LinkInv'
  <2>1. PICK c \in Conns : Connect(c) /\ sock' = [sock EXCEPT ![m] = c]
    BY <1>2 DEF ConnectAdiru
  <2>2. /\ mpc[m] = "connect" /\ mpc' = [mpc EXCEPT ![m] = "connected"]
        /\ UNCHANGED <<adiru_connected, online>>
    BY <1>2 DEF ConnectAdiru, Goto
  <2>3. /\ c \notin open /\ open' = open \cup {c} /\ sockOf' = sockOf
        /\ \A d \in Conns : (\E i \in DOMAIN backlog' : backlog'[i] = d)
                              => InQueue(d) \/ d = c
    BY <2>1, ConnectKeeps
  <2>4. \A n \in Monitors : sock[n] # c
    BY <2>3, ServerAssumption DEF OwnConnection
  <2>5. SysTypeOK'
    BY <2>1, <2>2 DEF SysTypeOK
  <2>6. OwnConnection'
    <3>1. sock[m] = NoConn /\ sock'[m] = c /\ c # NoConn
          /\ \A n \in Monitors \ {m} : sock'[n] = sock[n] /\ mpc'[n] = mpc[n]
      BY <2>1, <2>2, ServerAssumption DEF OwnConnection, SysTypeOK
    <3>2. open' = {sock'[n] : n \in Monitors} \ {NoConn}
      BY <2>3, <3>1 DEF OwnConnection
    <3>3. mpc'[m] = "connected"
      BY <2>2 DEF SysTypeOK
    <3> QED
      BY <2>4, <3>1, <3>2, <3>3 DEF OwnConnection
  <2>7. ASSUME NEW n \in Monitors, mpc'[n] \in {"lost", "close"}
        PROVE  ~InQueue(sock[n])' /\ ~Accepted(sock[n])'
    <3>1. n # m /\ sock'[n] = sock[n] /\ mpc'[n] = mpc[n]
      BY <2>1, <2>2, <2>7 DEF SysTypeOK
    <3>2. sock[n] \in Conns /\ sock[n] # c /\ ~InQueue(sock[n]) /\ ~Accepted(sock[n])
      BY <2>4, <2>7, <3>1 DEF LostAtEof, OwnConnection, SysTypeOK
    <3> QED
      BY <2>3, <3>1, <3>2 DEF InQueue, Accepted
  <2> QED
    BY <2>5, <2>6, <2>7 DEF LostAtEof
<1>3. ASSUME NEW m \in Monitors, SetConnected(m) \/ ClearConnected(m) \/ Draw(m)
      PROVE  LinkInv'
  <2>1. /\ UNCHANGED <<backlog, sockOf, open, sock>>
        /\ \A n \in Monitors : mpc'[n] \in {"lost", "close"} => mpc[n] \in {"lost", "close"}
        /\ \A n \in Monitors : mpc'[n] \notin {"connect", "quit"}
                                 <=> mpc[n] \notin {"connect", "quit"}
    BY <1>3 DEF SetConnected, ClearConnected, Draw, Goto, vars, kernel, SysTypeOK
  <2>2. SysTypeOK'
    BY <1>3 DEF SetConnected, ClearConnected, Draw, Goto, SysTypeOK
  <2> QED
    BY <2>1, <2>2 DEF OwnConnection, LostAtEof, InQueue, Accepted
<1>4. ASSUME NEW m \in Monitors, RecvFrame(m)
      PROVE  LinkInv'
  <2>1. UNCHANGED <<backlog, sockOf, open, monitors>>
    BY <1>4 DEF RecvFrame, Recv, monitors
  <2> QED
    BY <2>1 DEF monitors, SysTypeOK, OwnConnection, LostAtEof, InQueue, Accepted
<1>5. ASSUME NEW m \in Monitors, RecvLost(m)
      PROVE  LinkInv'
  <2>1. /\ UNCHANGED <<backlog, sockOf, open, sock, adiru_connected, online>>
        /\ mpc[m] = "recv" /\ mpc' = [mpc EXCEPT ![m] = "lost"]
        /\ ~InQueue(sock[m]) /\ ~Accepted(sock[m])
    BY <1>5 DEF RecvLost, Goto, AtEof, vars, kernel
  <2>2. SysTypeOK' /\ OwnConnection'
    BY <2>1 DEF SysTypeOK, OwnConnection
  <2>3. LostAtEof'
    BY <2>1 DEF SysTypeOK, LostAtEof, InQueue, Accepted
  <2> QED
    BY <2>2, <2>3
<1>6. ASSUME NEW m \in Monitors, NEW label \in {"connect", "quit"}, sock[m] # NoConn,
             Close(sock[m]), sock' = [sock EXCEPT ![m] = NoConn],
             mpc' = [mpc EXCEPT ![m] = label], UNCHANGED <<adiru_connected, online>>
      PROVE  LinkInv'
  <2>1. UNCHANGED <<backlog, sockOf>> /\ open' = open \ {sock[m]}
    BY <1>6 DEF Close
  <2>2. /\ sock'[m] = NoConn /\ mpc'[m] = label
        /\ \A n \in Monitors \ {m} : sock'[n] = sock[n] /\ mpc'[n] = mpc[n]
    BY <1>6 DEF SysTypeOK
  <2>3. SysTypeOK'
    BY <1>6 DEF SysTypeOK
  <2>4. OwnConnection'
    BY <1>6, <2>1, <2>2 DEF OwnConnection
  <2>5. LostAtEof'
    BY <2>1, <2>2 DEF LostAtEof, InQueue, Accepted
  <2> QED
    BY <2>3, <2>4, <2>5
<1>7. ASSUME NEW m \in Monitors, Reopen(m)
      PROVE  LinkInv'
  BY <1>6, <1>7 DEF Reopen, Goto, OwnConnection
<1>8. ASSUME NEW m \in Monitors, Quit(m)
      PROVE  LinkInv'
  <2>1. CASE sock[m] # NoConn
    BY <1>6, <1>8, <2>1 DEF Quit, Goto
  <2>2. CASE sock[m] = NoConn
    <3>1. /\ UNCHANGED <<backlog, sockOf, open, adiru_connected, online>>
          /\ mpc' = [mpc EXCEPT ![m] = "quit"] /\ sock' = [sock EXCEPT ![m] = NoConn]
      BY <1>8, <2>2 DEF Quit, Goto, vars, kernel
    <3>2. sock' = sock
      BY <2>2, <3>1 DEF SysTypeOK
    <3> QED
      BY <2>2, <3>1, <3>2 DEF SysTypeOK, OwnConnection, LostAtEof, InQueue, Accepted
  <2> QED
    BY <2>1, <2>2
<1>9. CASE UNCHANGED sysVars
  BY <1>9 DEF sysVars, vars, kernel, monitors, SysTypeOK, OwnConnection, LostAtEof,
              InQueue, Accepted
<1> QED
  BY <1>1, <1>2, <1>3, <1>4, <1>5, <1>7, <1>8, <1>9 DEF SysNext, MainThread

QuitMonitors == {m \in Monitors : ~Running(m)}

\* Only a monitor that quits can add a connection to the dead ones.
LEMMA DeadStep ==
  ASSUME IInv, LinkInv, [SysNext]_sysVars
  PROVE  \/ DeadConns' \subseteq DeadConns /\ QuitMonitors' = QuitMonitors
         \/ \E m \in Monitors :
              /\ m \notin QuitMonitors
              /\ QuitMonitors' = QuitMonitors \cup {m}
              /\ DeadConns' \subseteq DeadConns \cup {sock[m]}
<1> USE DEF LinkInv
<1>1. CASE Adiru
  <2>1. QuitMonitors' = QuitMonitors
    BY <1>1 DEF Adiru, monitors, QuitMonitors, Running
  <2>2. DeadConns' \subseteq DeadConns
    BY <1>1, AdiruKeeps DEF Adiru, DeadConns
  <2> QED
    BY <2>1, <2>2
<1>2. ASSUME NEW m \in Monitors, ConnectAdiru(m)
      PROVE  DeadConns' \subseteq DeadConns /\ QuitMonitors' = QuitMonitors
  <2>1. PICK c \in Conns : Connect(c)
    BY <1>2 DEF ConnectAdiru
  <2>2. DeadConns' \subseteq DeadConns
    BY <2>1, ConnectKeeps DEF DeadConns, InQueue, Accepted
  <2> QED
    BY <1>2, <2>2 DEF ConnectAdiru, Goto, QuitMonitors, Running, SysTypeOK
<1>3. ASSUME NEW m \in Monitors,
             SetConnected(m) \/ RecvFrame(m) \/ RecvLost(m) \/ ClearConnected(m) \/ Draw(m)
      PROVE  DeadConns' \subseteq DeadConns /\ QuitMonitors' = QuitMonitors
  <2>1. UNCHANGED <<open, backlog, sockOf>>
    BY <1>3 DEF SetConnected, RecvFrame, Recv, RecvLost, ClearConnected, Draw,
                vars, kernel
  <2>2. QuitMonitors' = QuitMonitors
    BY <1>3 DEF SetConnected, RecvFrame, RecvLost, ClearConnected, Draw, Goto,
                QuitMonitors, Running, SysTypeOK
  <2> QED
    BY <2>1, <2>2 DEF DeadConns, InQueue, Accepted
<1>4. ASSUME NEW m \in Monitors, Reopen(m)
      PROVE  DeadConns' \subseteq DeadConns /\ QuitMonitors' = QuitMonitors
  <2>1. /\ open' = open \ {sock[m]} /\ UNCHANGED <<backlog, sockOf>>
        /\ ~InQueue(sock[m]) /\ ~Accepted(sock[m])
    BY <1>4 DEF Reopen, Close, LostAtEof
  <2>2. DeadConns' \subseteq DeadConns
    BY <2>1 DEF DeadConns, InQueue, Accepted
  <2> QED
    BY <1>4, <2>2 DEF Reopen, Goto, QuitMonitors, Running, SysTypeOK
<1>5. ASSUME NEW m \in Monitors, Quit(m)
      PROVE  /\ m \notin QuitMonitors
             /\ QuitMonitors' = QuitMonitors \cup {m}
             /\ DeadConns' \subseteq DeadConns \cup {sock[m]}
  <2>1. m \notin QuitMonitors /\ QuitMonitors' = QuitMonitors \cup {m}
    BY <1>5 DEF Quit, Goto, QuitMonitors, Running, SysTypeOK
  <2>2. CASE sock[m] = NoConn
    BY <1>5, <2>1, <2>2 DEF Quit, vars, kernel, DeadConns, InQueue, Accepted
  <2>3. CASE sock[m] # NoConn
    <3>1. open' = open \ {sock[m]} /\ UNCHANGED <<backlog, sockOf>> /\ sock[m] \in Conns
      BY <1>5, <2>3 DEF Quit, Close, SysTypeOK
    <3>2. DeadConns' \subseteq DeadConns \cup {sock[m]}
      BY <3>1 DEF DeadConns, InQueue, Accepted
    <3> QED
      BY <2>1, <3>1, <3>2
  <2> QED
    BY <2>2, <2>3
<1>6. CASE UNCHANGED sysVars
  BY <1>6 DEF sysVars, vars, kernel, monitors, DeadConns, InQueue, Accepted,
              QuitMonitors, Running
<1> QED
  BY <1>1, <1>2, <1>3, <1>4, <1>5, <1>6 DEF SysNext, MainThread

\* Adding at most one element to a finite set adds at most one to its size.
LEMMA OneMore ==
  ASSUME NEW S, NEW T, NEW x, IsFiniteSet(S), T \subseteq S \cup {x}
  PROVE  /\ IsFiniteSet(T) /\ Cardinality(T) \in Nat /\ Cardinality(S) \in Nat
         /\ Cardinality(T) <= Cardinality(S) + 1
         /\ T \subseteq S => Cardinality(T) <= Cardinality(S)
<1>1. IsFiniteSet(S \cup {x}) /\ Cardinality(S) \in Nat
      /\ Cardinality(S \cup {x}) <= Cardinality(S) + 1
  <2>1. /\ IsFiniteSet(S \cup {x})
        /\ Cardinality(S \cup {x}) = IF x \in S THEN Cardinality(S)
                                                 ELSE Cardinality(S) + 1
    BY FS_AddElement
  <2>2. Cardinality(S) \in Nat
    BY FS_CardinalityType
  <2> QED
    BY <2>1, <2>2
<1>2. /\ IsFiniteSet(T) /\ Cardinality(T) \in Nat
      /\ Cardinality(T) <= Cardinality(S \cup {x})
      /\ Cardinality(S \cup {x}) \in Nat
  BY <1>1, FS_Subset, FS_CardinalityType
<1>3. T \subseteq S => Cardinality(T) <= Cardinality(S)
  BY FS_Subset
<1> QED
  BY <1>1, <1>2, <1>3

LEMMA DeadCountStep ==
  ASSUME IInv, LinkInv, DeadConnectionsComeFromQuits, [SysNext]_sysVars
  PROVE  DeadConnectionsComeFromQuits'
<1>1. IsFiniteSet(DeadConns) /\ IsFiniteSet(QuitMonitors)
  BY FS_Subset, ServerAssumption, MonitorAssumption DEF DeadConns, QuitMonitors
<1>2. /\ Cardinality(DeadConns) \in Nat /\ Cardinality(QuitMonitors) \in Nat
      /\ Cardinality(DeadConns) <= Cardinality(QuitMonitors)
  BY <1>1, FS_CardinalityType DEF DeadConnectionsComeFromQuits, QuitMonitors
<1>3. CASE DeadConns' \subseteq DeadConns /\ QuitMonitors' = QuitMonitors
  <2>1. Cardinality(DeadConns') \in Nat /\ Cardinality(DeadConns') <= Cardinality(DeadConns)
    BY <1>1, <1>3, OneMore
  <2> QED
    BY <1>2, <1>3, <2>1 DEF DeadConnectionsComeFromQuits, QuitMonitors
<1>4. ASSUME NEW m \in Monitors, m \notin QuitMonitors,
             QuitMonitors' = QuitMonitors \cup {m},
             DeadConns' \subseteq DeadConns \cup {sock[m]}
      PROVE  DeadConnectionsComeFromQuits'
  <2>1. /\ Cardinality(DeadConns') \in Nat
        /\ Cardinality(DeadConns') <= Cardinality(DeadConns) + 1
    BY <1>1, <1>4, OneMore
  <2>2. Cardinality(QuitMonitors') = Cardinality(QuitMonitors) + 1
    BY <1>1, <1>4, FS_AddElement
  <2> QED
    BY <1>2, <2>1, <2>2 DEF DeadConnectionsComeFromQuits, QuitMonitors
<1> QED
  BY <1>3, <1>4, DeadStep

\* The monitor's main loop never leaves the server a connection that is dead
\* while the monitor lives: only quitting does, one connection each.
THEOREM DeadConnections ==
  SysSpec => []OwnConnection /\ []DeadConnectionsComeFromQuits
<1>1. SysInit => LinkInv /\ DeadConnectionsComeFromQuits
  <2>1. SysInit => DeadConns = {} /\ QuitMonitors = {}
    BY EmptySeq, LenProperties, ServerAssumption
    DEF SysInit, Init, DeadConns, InQueue, Accepted, QuitMonitors, Running
  <2> QED
    BY <2>1, LinkInit, FS_EmptySet DEF DeadConnectionsComeFromQuits, QuitMonitors
<1>2. /\ IInv /\ IInv' /\ LinkInv /\ DeadConnectionsComeFromQuits
      /\ [SysNext]_sysVars
      => LinkInv' /\ DeadConnectionsComeFromQuits'
  BY LinkStep, DeadCountStep
<1>3. LinkInv => OwnConnection
  BY DEF LinkInv
<1> QED
  BY <1>1, <1>2, <1>3, UsesServer, Invariant, PTL DEF SysSpec

\* Each monitor holds a connection of its own, at every step of it and of the
\* ADIRU.
THEOREM OwnConnectionCorrect == SysSpec => []OwnConnection
BY DeadConnections, PTL
=============================================================================
