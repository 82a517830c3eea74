--------------------------- MODULE BroadcastServer ---------------------------
(***************************************************************************)
(* The ADIRU's broadcast server (src/util/server.cpp) as its main loop     *)
(* (src/main/adiru-nosocket.cpp) drives it, the clients on the other end,  *)
(* and the part of the kernel between them: the socket's name in the file  *)
(* system, the accept queue, the descriptor table, the epoll set and one   *)
(* buffer of frames per connection.                                        *)
(*                                                                         *)
(* The server is one thread; a tick is                                     *)
(*    sleep -> (sample) poll -> (epoll_wait) events -> send -> sleep       *)
(* and between any two of its system calls clients connect, read and hang  *)
(* up, and the process may be killed.                                      *)
(***************************************************************************)
EXTENDS Naturals, Sequences, FiniteSets

CONSTANTS
  Conns,      \* connections; one that both ends have closed is used again
  NoConn,     \* what a closed descriptor refers to
  MaxFds,     \* descriptors the process may have open for clients
  MaxEvents,  \* the size of the array handed to epoll_wait (10)
  Backlog,    \* connections the accept queue holds
  SndBuf,     \* frames a connection's send buffer holds
  MaxFrame    \* bound: frames are named 1 .. MaxFrame, cyclically

ASSUME ServerAssumption ==
  /\ NoConn \notin Conns
  /\ IsFiniteSet(Conns)
  /\ MaxFds \in Nat \ {0}
  /\ MaxEvents \in Nat \ {0}
  /\ Backlog \in Nat \ {0}
  /\ SndBuf \in Nat \ {0}
  /\ MaxFrame \in Nat
  /\ MaxFrame > SndBuf + 1

VARIABLES
  (* kernel *)
  path,       \* /tmp/adiru.sock: "absent", "stale" (nobody listens), "bound"
  backlog,    \* connections waiting for accept
  open,       \* connections whose client end is open
  buf,        \* frames sent and not yet received, per connection
  sockOf,     \* the process's descriptor table
  interest,   \* descriptors registered with epoll
  (* server *)
  pc,         \* where the main loop is
  listeners,  \* broadcast_server::listeners
  events,     \* what epoll_wait returned and the loop has not yet handled
  unsent,     \* listeners broadcast() has not yet sent this frame
  frame,      \* the frame in data[]
  (* history *)
  last,       \* the last frame sent on a connection
  got,        \* the last frame the client received
  seen,       \* connections found hung up by the last epoll_wait
  full        \* more descriptors were ready than that epoll_wait could return

kernel  == <<path, backlog, open, buf, sockOf, interest>>
server  == <<pc, listeners, events, unsent, frame>>
history == <<last, got, seen, full>>
vars == <<kernel, server, history>>

ServerFd == 0
Fds == 1 .. MaxFds
Frames == 1 .. MaxFrame
Idle == MaxFrame
Succ(f) == IF f = MaxFrame THEN 1 ELSE f + 1
Pred(f) == IF f = 1 THEN MaxFrame ELSE f - 1

-----------------------------------------------------------------------------
(* The kernel's side *)

InQueue(c) == \E i \in DOMAIN backlog : backlog[i] = c
Accepted(c) == \E fd \in Fds : sockOf[fd] = c

\* Nobody holds either end: the connection's name can be used for a new one.
Unused(c) == c \notin open /\ ~InQueue(c) /\ ~Accepted(c)

HungUp(fd) == sockOf[fd] \in Conns \ open

\* What a level-triggered epoll_wait has to report: EPOLLIN on the listening
\* socket, EPOLLHUP and EPOLLRDHUP on a client's.
Ready == {fd \in interest : IF fd = ServerFd THEN backlog # <<>> ELSE HungUp(fd)}

FreeFds == {fd \in Fds : sockOf[fd] = NoConn}

\* The process is gone and the kernel closes what it had open.
Down == /\ pc' = "down"
        /\ listeners' = {} /\ events' = {} /\ unsent' = {}
        /\ backlog' = <<>>
        /\ sockOf' = [fd \in Fds |-> NoConn]
        /\ interest' = {}
        /\ seen' = {} /\ full' = FALSE
        /\ UNCHANGED <<open, buf, frame, last, got>>

-----------------------------------------------------------------------------
(* The server's process *)

Init == /\ path = "absent"
        /\ backlog = <<>>
        /\ open = {}
        /\ buf = [c \in Conns |-> <<>>]
        /\ sockOf = [fd \in Fds |-> NoConn]
        /\ interest = {}
        /\ pc = "down"
        /\ listeners = {} /\ events = {} /\ unsent = {}
        /\ frame = 1
        /\ last = [c \in Conns |-> Idle]
        /\ got = [c \in Conns |-> Idle]
        /\ seen = {} /\ full = FALSE

\* Mutant: the path is not unlinked first.
UnlinkedNothing(p) == p

\* access() and unlink(): whatever is at the path goes.
Unlinked(p) == "absent"

\* bind() succeeds only on a path that does not exist.
Bind(p) == IF p = "absent" THEN "bound" ELSE p

\* Mutant: the listening socket is not registered with epoll.
initWithoutEpoll == /\ pc = "down"
                    /\ path' = Bind(Unlinked(path))
                    /\ pc' = "sleep"
                    /\ UNCHANGED <<backlog, open, buf, sockOf, interest, listeners,
                                   events, unsent, frame, history>>

\* init(): with the path bound, listen, and register the listening socket
\* with epoll; with anything else there the process ends again.
init == /\ pc = "down"
        /\ path' = Bind(Unlinked(path))
        /\ IF path' = "bound"
             THEN pc' = "sleep" /\ interest' = {ServerFd}
             ELSE UNCHANGED <<pc, interest>>
        /\ UNCHANGED <<backlog, open, buf, sockOf, listeners, events, unsent,
                       frame, history>>

\* tick() up to server.tick(): the timer is due and data[] is written anew.
Sample == /\ pc = "sleep"
          /\ frame' = Succ(frame)
          /\ pc' = "poll"
          /\ UNCHANGED <<kernel, listeners, events, unsent, history>>

\* Mutant: the loop goes over the whole array, not the n_events entries filled.
PollWholeArray == /\ pc = "poll"
                  /\ \E E \in SUBSET interest : Ready \subseteq E /\ events' = E
                  /\ seen' = {sockOf[fd] : fd \in Ready \ {ServerFd}}
                  /\ full' = (Cardinality(Ready) > MaxEvents)
                  /\ pc' = "events"
                  /\ UNCHANGED <<kernel, listeners, unsent, frame, last, got>>

\* handle_events(): epoll_wait with no timeout returns at most MaxEvents of
\* the ready descriptors.
Poll == /\ pc = "poll"
        /\ \E E \in SUBSET Ready :
              /\ Cardinality(E) =
                   IF Cardinality(Ready) < MaxEvents THEN Cardinality(Ready)
                                                     ELSE MaxEvents
              /\ events' = E
        /\ seen' = {sockOf[fd] : fd \in Ready \ {ServerFd}}
        /\ full' = (Cardinality(Ready) > MaxEvents)
        /\ pc' = "events"
        /\ UNCHANGED <<kernel, listeners, unsent, frame, last, got>>

\* Mutant: the listening socket, not the client's, joins the listeners.
HandleAcceptWrongFd ==
  /\ pc = "events"
  /\ ServerFd \in events
  /\ backlog # <<>>
  /\ \E fd \in FreeFds : /\ sockOf' = [sockOf EXCEPT ![fd] = Head(backlog)]
                         /\ interest' = interest \cup {fd}
  /\ listeners' = listeners \cup {ServerFd}
  /\ backlog' = Tail(backlog)
  /\ events' = events \ {ServerFd}
  /\ UNCHANGED <<path, open, buf, pc, unsent, frame, last, got, seen, full>>

\* handle_events(): one event of the listening socket accepts one connection,
\* on the lowest free descriptor, and registers it as a listener.
HandleAccept ==
  /\ pc = "events"
  /\ ServerFd \in events
  /\ backlog # <<>>
  /\ \E fd \in FreeFds :
       /\ \A g \in FreeFds : fd <= g
       /\ sockOf' = [sockOf EXCEPT ![fd] = Head(backlog)]
       /\ listeners' = listeners \cup {fd}
       /\ interest' = interest \cup {fd}
  /\ backlog' = Tail(backlog)
  /\ events' = events \ {ServerFd}
  /\ IF Head(backlog) \in open
       THEN /\ last' = [last EXCEPT ![Head(backlog)] = Pred(frame)]
            /\ got' = [got EXCEPT ![Head(backlog)] = Pred(frame)]
       ELSE UNCHANGED <<last, got>>
  /\ UNCHANGED <<path, open, buf, pc, unsent, frame, seen, full>>

\* What exit() leaves at the path.  clean_up() unlinks it if the destructor of
\* the server runs; it does not when the GPS thread is running, whose
\* destructor comes first and terminates the process.
AfterExit == {"absent", "stale"}

\* handle_events(): accept fails for want of a descriptor, and exit() is called.
HandleAcceptFail ==
  /\ pc = "events"
  /\ ServerFd \in events
  /\ FreeFds = {}
  /\ path' \in AfterExit
  /\ Down

\* Mutant: a listener that hung up is closed and stays in the set.
HandleHangupNoErase(fd) ==
  /\ pc = "events"
  /\ fd \in events \ {ServerFd}
  /\ interest' = interest \ {fd}
  /\ sockOf' = [sockOf EXCEPT ![fd] = NoConn]
  /\ events' = events \ {fd}
  /\ UNCHANGED <<path, backlog, open, buf, pc, listeners, unsent, frame, history>>

\* Mutant: the descriptor of a client that hung up is never closed.
HandleHangupNoClose(fd) ==
  /\ pc = "events"
  /\ fd \in events \ {ServerFd}
  /\ listeners' = listeners \ {fd}
  /\ interest' = interest \ {fd}
  /\ events' = events \ {fd}
  /\ UNCHANGED <<path, backlog, open, buf, sockOf, pc, unsent, frame, history>>

\* handle_events(): any other event drops the listener and closes it.
HandleHangup(fd) ==
  /\ pc = "events"
  /\ fd \in events \ {ServerFd}
  /\ listeners' = listeners \ {fd}
  /\ interest' = interest \ {fd}
  /\ sockOf' = [sockOf EXCEPT ![fd] = NoConn]
  /\ events' = events \ {fd}
  /\ UNCHANGED <<path, backlog, open, buf, pc, unsent, frame, history>>

\* Mutant: the loop over the events ends one short.
StartBroadcastEarly == /\ pc = "events"
                       /\ Cardinality(events) <= 1
                       /\ events' = {}
                       /\ unsent' = listeners
                       /\ pc' = "send"
                       /\ UNCHANGED <<kernel, listeners, frame, history>>

\* tick(): handle_events() returns and broadcast() starts on the listeners.
StartBroadcast == /\ pc = "events"
                  /\ events = {}
                  /\ unsent' = listeners
                  /\ pc' = "send"
                  /\ UNCHANGED <<kernel, listeners, events, frame, history>>

\* Mutant: send() does not block and what does not fit is dropped.
SendOrDrop(fd) == LET c == sockOf[fd] IN
  /\ pc = "send"
  /\ fd \in unsent
  /\ c \in open
  /\ IF Len(buf[c]) < SndBuf
       THEN /\ buf' = [buf EXCEPT ![c] = Append(@, frame)]
            /\ last' = [last EXCEPT ![c] = frame]
       ELSE UNCHANGED <<buf, last>>
  /\ unsent' = unsent \ {fd}
  /\ UNCHANGED <<path, backlog, open, sockOf, interest, pc, listeners, events,
                 frame, got, seen, full>>

\* broadcast(): send() to a client with room for the frame.  It blocks, and
\* the loop with it, while the buffer of a connected client is full.
Send(fd) == LET c == sockOf[fd] IN
  /\ pc = "send"
  /\ fd \in unsent
  /\ c \in open
  /\ Len(buf[c]) < SndBuf
  /\ buf' = [buf EXCEPT ![c] = Append(@, frame)]
  /\ last' = [last EXCEPT ![c] = frame]
  /\ unsent' = unsent \ {fd}
  /\ UNCHANGED <<path, backlog, open, sockOf, interest, pc, listeners, events,
                 frame, got, seen, full>>

\* Mutant: send() to a client that has hung up is tried for ever.
SendBrokenRetries(fd) == FALSE

\* broadcast(): send() to a client that has hung up fails (on this kind of
\* socket with EPIPE or ECONNRESET, without a signal), and exit() is called.
SendBroken(fd) == /\ pc = "send"
                  /\ fd \in unsent
                  /\ HungUp(fd)
                  /\ path' \in AfterExit
                  /\ Down

\* Mutant: the loop over the listeners may be left early.
BroadcastBreaks == /\ pc = "send"
                   /\ pc' = "sleep"
                   /\ unsent' = {}
                   /\ seen' = {} /\ full' = FALSE
                   /\ UNCHANGED <<kernel, listeners, events, frame, last, got>>

\* broadcast() returns, and the timer sleeps until the next tick.
BroadcastDone == /\ pc = "send"
                 /\ unsent = {}
                 /\ pc' = "sleep"
                 /\ seen' = {} /\ full' = FALSE
                 /\ UNCHANGED <<kernel, listeners, events, unsent, frame, last, got>>

\* The process is killed (SIGINT, SIGTERM, SIGKILL): no destructor runs.
Kill == /\ pc # "down"
        /\ path' = "stale"
        /\ Down

-----------------------------------------------------------------------------
(* The clients *)

\* connect() finds somebody listening and room in the accept queue.
Connect(c) == /\ path = "bound"
              /\ Len(backlog) < Backlog
              /\ Unused(c)
              /\ open' = open \cup {c}
              /\ backlog' = Append(backlog, c)
              /\ seen' = seen \ {c}
              /\ UNCHANGED <<path, buf, sockOf, interest, server, last, got, full>>

\* recv() returns the oldest frame.
Recv(c) == /\ c \in open
           /\ buf[c] # <<>>
           /\ got' = [got EXCEPT ![c] = Head(buf[c])]
           /\ buf' = [buf EXCEPT ![c] = Tail(@)]
           /\ UNCHANGED <<path, backlog, open, sockOf, interest, server, last,
                          seen, full>>

\* Whether recv() would return 0 or an error: the server's end is closed and
\* every frame has been received.
AtEof(c) == c \in open /\ buf[c] = <<>> /\ ~InQueue(c) /\ ~Accepted(c)

\* close(): what was not received is discarded.
Close(c) == /\ c \in open
            /\ open' = open \ {c}
            /\ buf' = [buf EXCEPT ![c] = <<>>]
            /\ last' = [last EXCEPT ![c] = Idle]
            /\ got' = [got EXCEPT ![c] = Idle]
            /\ UNCHANGED <<path, backlog, sockOf, interest, server, seen, full>>

-----------------------------------------------------------------------------
ServerStep == \/ Sample \/ Poll \/ HandleAccept \/ HandleAcceptFail
              \/ \E fd \in Fds : HandleHangup(fd) \/ Send(fd) \/ SendBroken(fd)
              \/ StartBroadcast \/ BroadcastDone

ClientStep == \E c \in Conns : Connect(c) \/ Recv(c) \/ Close(c)

Next == init \/ ServerStep \/ Kill \/ ClientStep

Spec == Init /\ [][Next]_vars

(* The server's thread is scheduled: the timer fires and every system call  *)
(* that does not block returns.  Nothing makes anybody start the server,    *)
(* connect or hang up.                                                      *)
ServerFairness == WF_vars(ServerStep)

-----------------------------------------------------------------------------
(* Properties *)

TypeOK == /\ path \in {"absent", "stale", "bound"}
          /\ backlog \in Seq(Conns)
          /\ open \subseteq Conns
          /\ buf \in [Conns -> Seq(Frames)]
          /\ sockOf \in [Fds -> Conns \cup {NoConn}]
          /\ interest \subseteq Fds \cup {ServerFd}
          /\ pc \in {"down", "sleep", "poll", "events", "send"}
          /\ listeners \subseteq Fds
          /\ events \subseteq Fds \cup {ServerFd}
          /\ unsent \subseteq Fds
          /\ frame \in Frames
          /\ last \in [Conns -> Frames]
          /\ got \in [Conns -> Frames]
          /\ seen \subseteq Conns
          /\ full \in BOOLEAN

\* The three records the server keeps of its clients agree at every step: the
\* descriptors it holds are the listeners it sends to, and each is registered
\* with epoll, so none leaks and none is served without being watched.
DescriptorsAgree ==
  /\ listeners = {fd \in Fds : sockOf[fd] # NoConn}
  /\ interest = IF pc = "down" THEN {} ELSE listeners \cup {ServerFd}

\* The path leads to the server exactly while it runs, and whatever the last
\* process left there (after a clean exit, an exit that skipped clean_up(), or a
\* kill) the next one can bind it.
RestartSucceeds == IF pc = "down" THEN path # "bound" /\ Bind(Unlinked(path)) = "bound"
                                  ELSE path = "bound"

\* An event is still true when the loop comes to it, whatever was handled
\* before it in the same batch and whatever the clients did meanwhile: accept()
\* finds a connection (it would block the loop otherwise), and the descriptor
\* that is closed is a registered one whose client has hung up, never one that
\* accept() has since reused.
EventsStayTrue ==
  \A fd \in events : IF fd = ServerFd THEN backlog # <<>>
                                      ELSE fd \in interest /\ HungUp(fd)

Served == {fd \in listeners : sockOf[fd] \in open}

\* All clients are served in lock step: between ticks every one of them has
\* been sent the same frame, and during a broadcast those that have not been
\* sent this frame were sent the one before it.
LockStep ==
  \A fd \in Served :
    last[sockOf[fd]] = IF pc \in {"poll", "events"} \/ fd \in unsent
                         THEN Pred(frame) ELSE frame

\* What a client has received and what is under way to it is one run of
\* consecutive frames that ends with the last one sent.
StreamIntact ==
  \A c \in open :
    /\ buf[c] = <<>> => got[c] = last[c]
    /\ buf[c] # <<>> => Head(buf[c]) = Succ(got[c]) /\ buf[c][Len(buf[c])] = last[c]
    /\ \A i \in 1 .. Len(buf[c]) - 1 : buf[c][i + 1] = Succ(buf[c][i])

\* A hang-up that epoll_wait had the room to report never costs the server its
\* life: broadcast() is never about to send to a client that had hung up when
\* the loop polled, unless more descriptors were ready than the array holds.
SeenHangupNotServed ==
  pc = "send" /\ ~full => \A fd \in unsent : sockOf[fd] \notin seen

\* Every tick that starts comes to an end, provided the clients read.
TickCompletes == pc = "poll" ~> pc \in {"sleep", "down"}

\* The server does not keep the descriptor of a client that has hung up.
HangupReleased == \A fd \in Fds : HungUp(fd) ~> ~HungUp(fd)

\* A connection does not wait in the accept queue forever, however many other
\* events each tick brings.
QueueDrains == \A c \in Conns : InQueue(c) ~> ~InQueue(c)

\* A client that is being served when a frame is broadcast receives that frame,
\* or else its stream ends.
FrameArrives ==
  \A c \in Conns, f \in Frames :
    (pc = "send" /\ frame = f /\ c \in {sockOf[fd] : fd \in Served})
      ~> (got[c] = f \/ c \notin open)

-----------------------------------------------------------------------------
(* Refinement: the clients served are those with both ends open. *)
Stream == INSTANCE TelemetryStream
            WITH now <- frame, sent <- last, got <- got,
                 served <- {sockOf[fd] : fd \in Served}

\* The server implements the stream of frames it promises.
StreamSpec == Stream!Spec
=============================================================================
