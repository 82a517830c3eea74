----------------------------- MODULE AdiruMonitor -----------------------------
(***************************************************************************)
(* The telemetry link as it is deployed: one ADIRU and the terminal        *)
(* monitors (src/main/monitor.cpp) that are its clients.  A monitor has a  *)
(* main thread, which connects, receives into data[] and reconnects when   *)
(* the link is lost, and a print thread that draws data[] and the status   *)
(* flag adiru_connected, with no synchronisation between the two.          *)
(***************************************************************************)
EXTENDS BroadcastServer

CONSTANTS
  Monitors,   \* monitor processes
  MayQuit     \* those that the operator may interrupt (SIGINT)

ASSUME MonitorAssumption == IsFiniteSet(Monitors) /\ MayQuit \subseteq Monitors

VARIABLES
  mpc,              \* where a monitor's main thread is
  sock,             \* its socket, by the connection it carries
  adiru_connected,  \* its status flag
  online            \* whether its screen shows ONLINE

monitors == <<mpc, sock, adiru_connected, online>>
sysVars == <<vars, monitors>>

Running(m) == mpc[m] # "quit"

-----------------------------------------------------------------------------
SysInit == /\ Init
           /\ mpc = [m \in Monitors |-> "connect"]
           /\ sock = [m \in Monitors |-> NoConn]
           /\ adiru_connected = [m \in Monitors |-> FALSE]
           /\ online = [m \in Monitors |-> FALSE]

Goto(m, label) == mpc' = [mpc EXCEPT ![m] = label]

(* The main thread *)

\* connect_adiru(): connect() succeeds; until then it is tried again every
\* 100 ms on the same socket.
ConnectAdiru(m) == /\ mpc[m] = "connect"
                   /\ \E c \in Conns : Connect(c) /\ sock' = [sock EXCEPT ![m] = c]
                   /\ Goto(m, "connected")
                   /\ UNCHANGED <<adiru_connected, online>>

\* connect_adiru(): the flag is set and main() goes on to receive.
SetConnected(m) == /\ mpc[m] = "connected"
                   /\ adiru_connected' = [adiru_connected EXCEPT ![m] = TRUE]
                   /\ Goto(m, "recv")
                   /\ UNCHANGED <<vars, sock, online>>

\* main(): recv() returns a frame into data[]: got[sock[m]] is what is there.
RecvFrame(m) == /\ mpc[m] = "recv"
                /\ Recv(sock[m])
                /\ UNCHANGED <<mpc, sock, adiru_connected, online>>

\* Mutant: a recv() that finds nothing yet counts as a lost connection.
RecvLostTooSoon(m) == /\ mpc[m] = "recv"
                      /\ buf[sock[m]] = <<>>
                      /\ Goto(m, "lost")
                      /\ UNCHANGED <<vars, sock, adiru_connected, online>>

\* Mutant: the result of recv() is not looked at.
RecvLostIgnored(m) == FALSE

\* main(): recv() returns 0 or an error, which is logged.
RecvLost(m) == /\ mpc[m] = "recv"
               /\ AtEof(sock[m])
               /\ Goto(m, "lost")
               /\ UNCHANGED <<vars, sock, adiru_connected, online>>

\* Mutant: the flag is not cleared.
ClearConnectedNot(m) == /\ mpc[m] = "lost"
                        /\ Goto(m, "close")
                        /\ UNCHANGED <<vars, sock, adiru_connected, online>>

\* main(): the flag is cleared.
ClearConnected(m) == /\ mpc[m] = "lost"
                     /\ adiru_connected' = [adiru_connected EXCEPT ![m] = FALSE]
                     /\ Goto(m, "close")
                     /\ UNCHANGED <<vars, sock, online>>

\* Mutant: the old socket is not closed.
ReopenNoClose(m) == /\ mpc[m] = "close"
                    /\ sock' = [sock EXCEPT ![m] = NoConn]
                    /\ Goto(m, "connect")
                    /\ UNCHANGED <<vars, adiru_connected, online>>

\* Mutant: main() goes on to receive without connecting.
ReopenNoConnect(m) == /\ mpc[m] = "close"
                      /\ Goto(m, "recv")
                      /\ UNCHANGED <<vars, sock, adiru_connected, online>>

\* main(): the socket is closed, a new one made, and connect_adiru() called.
Reopen(m) == /\ mpc[m] = "close"
             /\ Close(sock[m])
             /\ sock' = [sock EXCEPT ![m] = NoConn]
             /\ Goto(m, "connect")
             /\ UNCHANGED <<adiru_connected, online>>

(* The print thread *)

\* tick(): the status is drawn from the flag.  The numbers drawn from data[] and
\* the log are left out.
Draw(m) == /\ Running(m)
           /\ online' = [online EXCEPT ![m] = adiru_connected[m]]
           /\ UNCHANGED <<vars, mpc, sock, adiru_connected>>

\* on_interrupt(): the process exits wherever its threads are, and the kernel
\* closes its socket.
Quit(m) == /\ m \in MayQuit
           /\ Running(m)
           /\ Goto(m, "quit")
           /\ IF sock[m] = NoConn THEN UNCHANGED vars ELSE Close(sock[m])
           /\ sock' = [sock EXCEPT ![m] = NoConn]
           /\ UNCHANGED <<adiru_connected, online>>

-----------------------------------------------------------------------------
MainThread(m) == \/ ConnectAdiru(m) \/ SetConnected(m) \/ RecvFrame(m)
                 \/ RecvLost(m) \/ ClearConnected(m) \/ Reopen(m)

Adiru == (init \/ ServerStep \/ Kill) /\ UNCHANGED monitors

SysNext == Adiru \/ \E m \in Monitors : MainThread(m) \/ Draw(m) \/ Quit(m)

SysSpec == SysInit /\ [][SysNext]_sysVars

(* The threads are scheduled, and nothing more: a monitor whose connect()    *)
(* fails tries it again, so it only waits for the server to listen and to    *)
(* have room in its accept queue.                                            *)
SysFairness ==
  /\ WF_sysVars(ServerStep /\ UNCHANGED monitors)
  /\ \A m \in Monitors : /\ WF_sysVars(MainThread(m))
                         /\ WF_sysVars(Draw(m))

LiveSysSpec == SysSpec /\ SysFairness

-----------------------------------------------------------------------------
(* Properties *)

SysTypeOK ==
  /\ mpc \in [Monitors -> {"connect", "connected", "recv", "lost", "close", "quit"}]
  /\ sock \in [Monitors -> Conns \cup {NoConn}]
  /\ adiru_connected \in [Monitors -> BOOLEAN]
  /\ online \in [Monitors -> BOOLEAN]

\* Monitors never share a connection, and every open one belongs to the
\* running monitor that holds it.
OwnConnection ==
  /\ \A m, n \in Monitors : sock[m] = sock[n] /\ sock[m] # NoConn => m = n
  /\ open = {sock[m] : m \in Monitors} \ {NoConn}
  /\ \A m \in Monitors : sock[m] # NoConn <=> mpc[m] \notin {"connect", "quit"}

\* Connections the server still holds an end of while their client is gone.
DeadConns == {c \in Conns \ open : InQueue(c) \/ Accepted(c)}

\* A monitor that is left running never costs the ADIRU its life: it closes a
\* connection only when the server's end is gone.  So the server never has more
\* dead connections, accepted or not, than monitors have quit.
DeadConnectionsComeFromQuits ==
  Cardinality(DeadConns) <= Cardinality({m \in Monitors : ~Running(m)})

\* If the ADIRU stays down, the screens of the monitors left running come to
\* show OFFLINE and stay so.
LossIsShown ==
  <>[](pc = "down") =>
    \A m \in Monitors : <>[](Running(m) => ~online[m])

\* If the ADIRU stays up, however often it died before, the monitors left
\* running find it again: their screens come to show ONLINE and stay so.
MonitorsReconnect ==
  <>[](pc # "down") =>
    \A m \in Monitors : <>[](Running(m) => online[m])

\* ... and they receive all it broadcasts: no frame fails to come round again.
DataKeepsComing ==
  <>[](pc # "down") =>
    \A m \in Monitors, f \in Frames : 
      []<>(Running(m) => sock[m] # NoConn /\ got[sock[m]] = f)
=============================================================================
