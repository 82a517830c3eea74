----------------------- MODULE BroadcastServerProofs -----------------------
(***************************************************************************)
(* Proofs about BroadcastServer, for every number of connections,          *)
(* descriptors and events and every size of queue and buffer.              *)
(***************************************************************************)
EXTENDS BroadcastServer, SequenceTheorems, FiniteSetTheorems, TLAPS

\* A connection has at most one end at the server: it is in the accept queue
\* once, or behind one descriptor, never both.
OneServerEnd ==
  /\ \A fd, g \in listeners : sockOf[fd] = sockOf[g] => fd = g
  /\ \A i, j \in DOMAIN backlog : backlog[i] = backlog[j] => i = j
  /\ \A fd \in listeners : ~InQueue(sockOf[fd])

\* The path leads to a listening socket exactly while the process lives.
PathLeadsToServer == path = "bound" <=> pc # "down"

\* What the loop keeps between its phases: events and unsent are used in their
\* own phase only, and a process that is down holds nothing.
Phases == /\ pc # "events" => events = {}
          /\ pc # "send" => unsent = {}
          /\ unsent \subseteq listeners
          /\ pc = "down" => listeners = {} /\ backlog = <<>>

\* A connection with a closed client end carries nothing, and one that is in
\* the accept queue has carried nothing yet.
Quiet == \A c \in Conns :
           /\ c \notin open => buf[c] = <<>> /\ last[c] = Idle /\ got[c] = Idle
           /\ InQueue(c) => buf[c] = <<>> /\ last[c] = Idle /\ got[c] = Idle

\* Only dead connections are in seen; while the batch is handled those that
\* fitted into it are still waiting in it, unless they have been released.
SeenAccounted ==
  /\ \A c \in seen : c \notin open /\ ~InQueue(c)
  /\ pc \in {"events", "send"} /\ ~full =>
       \A fd \in listeners : sockOf[fd] \in seen => fd \in events

\* A connection holds as many frames as its receiver is behind, and never more
\* than fit into the buffer.
Counted == \A c \in Conns : /\ Len(buf[c]) = Stream!Behind(last[c], got[c])
                            /\ Len(buf[c]) <= SndBuf

\* The inductive invariant.
IInv == /\ TypeOK
        /\ Phases
        /\ DescriptorsAgree
        /\ OneServerEnd
        /\ PathLeadsToServer
        /\ EventsStayTrue
        /\ Quiet
        /\ LockStep
        /\ StreamIntact
        /\ SeenAccounted

-----------------------------------------------------------------------------
(* Lemmas about frames and sequences *)

\* Succ and Pred move round the cycle of frames in opposite directions.
LEMMA FrameCycle ==
  ASSUME NEW f \in Frames
  PROVE  /\ Succ(f) \in Frames /\ Pred(f) \in Frames
         /\ Succ(Pred(f)) = f /\ Pred(Succ(f)) = f
         /\ Idle \in Frames
  BY ServerAssumption DEF Frames, Succ, Pred, Idle

\* Appending to a sequence keeps what is there and its order.
LEMMA AppendFacts ==
  ASSUME NEW S, NEW q \in Seq(S), NEW x \in S
  PROVE  /\ Append(q, x) \in Seq(S)
         /\ Append(q, x) # <<>>
         /\ Len(q) \in Nat
         /\ Len(Append(q, x)) = Len(q) + 1
         /\ Append(q, x)[Len(Append(q, x))] = x
         /\ DOMAIN Append(q, x) = 1 .. Len(q) + 1
         /\ DOMAIN q = 1 .. Len(q)
         /\ \A i \in 1 .. Len(q) : Append(q, x)[i] = q[i]
         /\ Append(q, x)[Len(q) + 1] = x
         /\ q = <<>> => Head(Append(q, x)) = x
         /\ q # <<>> => Head(Append(q, x)) = Head(q)
<1>1. Append(q, x) \in Seq(S) /\ Len(q) \in Nat
  BY AppendProperties, LenProperties
<1> QED
  BY <1>1, AppendProperties, LenProperties, EmptySeq

\* Taking the head of a sequence leaves the rest in order.
LEMMA TailFacts ==
  ASSUME NEW S, NEW q \in Seq(S), q # <<>>
  PROVE  /\ Head(q) \in S /\ Head(q) = q[1]
         /\ Tail(q) \in Seq(S)
         /\ Len(q) \in Nat \ {0}
         /\ Len(Tail(q)) = Len(q) - 1
         /\ DOMAIN q = 1 .. Len(q)
         /\ DOMAIN Tail(q) = 1 .. Len(q) - 1
         /\ \A i \in 1 .. Len(q) - 1 : Tail(q)[i] = q[i + 1]
         /\ Tail(q) = <<>> <=> Len(q) = 1
         /\ Tail(q) # <<>> => Head(Tail(q)) = q[2]
<1>1. /\ Tail(q) \in Seq(S) /\ Len(q) \in Nat \ {0} /\ Head(q) \in S
      /\ Len(Tail(q)) = Len(q) - 1
  BY HeadTailProperties, LenProperties, EmptySeq
<1>2. DOMAIN q = 1 .. Len(q) /\ DOMAIN Tail(q) = 1 .. Len(q) - 1
  BY <1>1, LenProperties
<1>3. Tail(q) = <<>> <=> Len(q) = 1
  <2>1. Len(<<>>) = 0
    BY EmptySeq
  <2>2. \A t \in Seq(S) : t # <<>> => Len(t) # 0
    BY EmptySeq
  <2>3. Tail(q) = <<>> => Len(Tail(q)) = 0
    BY <2>1, Zenon
  <2>4. Len(Tail(q)) = 0 => Tail(q) = <<>>
    BY <1>1, <2>2, Zenon
  <2>5. Len(q) = 1 <=> Len(Tail(q)) = 0
    BY <1>1
  <2> QED
    BY <2>3, <2>4, <2>5, Zenon
<1> QED
  BY <1>1, <1>2, <1>3, HeadTailProperties

\* The listening socket's descriptor is none of the clients'.
LEMMA ServerFdApart == ServerFd \notin Fds
  BY ServerAssumption DEF ServerFd, Fds

-----------------------------------------------------------------------------
(* Type correctness *)

\* Every step of the server, of the clients and of the kernel between them
\* keeps every variable in its type.
LEMMA TypeStep == TypeOK /\ [Next]_vars => TypeOK'
<1> SUFFICES ASSUME TypeOK, [Next]_vars
             PROVE  TypeOK'
  OBVIOUS
<1> USE DEF TypeOK
<1>1. CASE init
  BY <1>1 DEF init, Bind, Unlinked, history
<1>2. CASE Sample
  BY <1>2, FrameCycle DEF Sample, kernel, history
<1>3. CASE Poll
  <2>1. Ready \subseteq Fds \cup {ServerFd}
    BY DEF Ready
  <2>2. {sockOf[fd] : fd \in Ready \ {ServerFd}} \subseteq Conns
    BY <2>1 DEF Ready, HungUp
  <2> QED
    BY <1>3, <2>1, <2>2 DEF Poll, kernel
<1>4. CASE HandleAccept
  <2>1. backlog # <<>>
    BY <1>4 DEF HandleAccept
  <2>2. Head(backlog) \in Conns /\ Tail(backlog) \in Seq(Conns)
    BY <2>1, TailFacts
  <2>3. backlog' \in Seq(Conns)
    BY <1>4, <2>2 DEF HandleAccept
  <2>4. sockOf' \in [Fds -> Conns \cup {NoConn}] /\ listeners' \subseteq Fds
        /\ interest' \subseteq Fds \cup {ServerFd}
    BY <1>4, <2>2 DEF HandleAccept, FreeFds
  <2>5. last' \in [Conns -> Frames] /\ got' \in [Conns -> Frames]
    BY <1>4, <2>2, FrameCycle DEF HandleAccept
  <2> QED
    BY <1>4, <2>3, <2>4, <2>5 DEF HandleAccept
<1>5. CASE HandleAcceptFail
  BY <1>5, EmptySeq DEF HandleAcceptFail, Down, AfterExit
<1>6. ASSUME NEW fd \in Fds, HandleHangup(fd)
      PROVE  TypeOK'
  BY <1>6 DEF HandleHangup, history
<1>7. ASSUME NEW fd \in Fds, Send(fd)
      PROVE  TypeOK'
  <2> DEFINE c == sockOf[fd]
  <2>1. c \in Conns
    BY <1>7 DEF Send
  <2>2. Append(buf[c], frame) \in Seq(Frames)
    BY <2>1, AppendFacts
  <2>3. buf' \in [Conns -> Seq(Frames)] /\ last' \in [Conns -> Frames]
    BY <1>7, <2>1, <2>2 DEF Send
  <2> QED
    BY <1>7, <2>3 DEF Send
<1>8. ASSUME NEW fd \in Fds, SendBroken(fd)
      PROVE  TypeOK'
  BY <1>8, EmptySeq DEF SendBroken, Down, AfterExit
<1>9. CASE StartBroadcast
  BY <1>9 DEF StartBroadcast, kernel, history
<1>10. CASE BroadcastDone
  BY <1>10 DEF BroadcastDone, kernel, history
<1>11. CASE Kill
  BY <1>11, EmptySeq DEF Kill, Down
<1>12. ASSUME NEW c \in Conns, Connect(c)
       PROVE  TypeOK'
  <2>1. Append(backlog, c) \in Seq(Conns)
    BY AppendFacts
  <2> QED
    BY <1>12, <2>1 DEF Connect, server
<1>13. ASSUME NEW c \in Conns, Recv(c)
       PROVE  TypeOK'
  <2>1. Head(buf[c]) \in Frames /\ Tail(buf[c]) \in Seq(Frames)
    BY <1>13, TailFacts DEF Recv
  <2> QED
    BY <1>13, <2>1 DEF Recv, server
<1>14. ASSUME NEW c \in Conns, Close(c)
       PROVE  TypeOK'
  BY <1>14, FrameCycle, EmptySeq DEF Close, server
<1>15. CASE UNCHANGED vars
  BY <1>15 DEF vars, kernel, server, history
<1> QED
  BY <1>1, <1>2, <1>3, <1>4, <1>5, <1>6, <1>7, <1>8, <1>9, <1>10, <1>11,
     <1>12, <1>13, <1>14, <1>15 DEF Next, ServerStep, ClientStep

LEMMA TypeInit == Init => TypeOK
<1>1. 1 \in Frames /\ Idle \in Frames
  BY ServerAssumption DEF Frames, Idle
<1>2. <<>> \in Seq(Conns) /\ <<>> \in Seq(Frames)
  BY EmptySeq
<1> QED
  BY <1>1, <1>2 DEF Init, TypeOK

\* TypeOK holds in every state the system reaches.
THEOREM TypeCorrect == Spec => []TypeOK
  BY TypeInit, TypeStep, PTL DEF Spec

-----------------------------------------------------------------------------
(* The inductive invariant *)

LEMMA IInvInit == Init => IInv
<1> SUFFICES ASSUME Init PROVE IInv
  OBVIOUS
<1>1. TypeOK
  BY TypeInit
<1>2. Phases /\ DescriptorsAgree /\ PathLeadsToServer /\ EventsStayTrue
  BY DEF Init, Phases, DescriptorsAgree, PathLeadsToServer, EventsStayTrue
<1>3. DOMAIN backlog = {}
  BY EmptySeq, LenProperties DEF Init
<1>4. OneServerEnd /\ Quiet /\ SeenAccounted
  BY <1>3 DEF Init, OneServerEnd, InQueue, Quiet, SeenAccounted
<1>5. LockStep /\ StreamIntact
  BY DEF Init, LockStep, Served, StreamIntact
<1> QED
  BY <1>1, <1>2, <1>4, <1>5 DEF IInv

\* A process that ends leaves nothing behind but the path.
LEMMA DownStep ==
  ASSUME IInv, TypeOK', Down, path' # "bound"
  PROVE  IInv'
<1> USE DEF IInv
<1>1. Phases' /\ DescriptorsAgree' /\ PathLeadsToServer' /\ EventsStayTrue'
  BY DEF Down, Phases, DescriptorsAgree, PathLeadsToServer, EventsStayTrue
<1>2. (DOMAIN backlog)' = {}
  BY EmptySeq, LenProperties DEF Down
<1>3. OneServerEnd' /\ Quiet' /\ SeenAccounted'
  BY <1>2 DEF Down, OneServerEnd, InQueue, Quiet, SeenAccounted
<1>4. LockStep'
  BY DEF Down, LockStep, Served
<1>5. StreamIntact'
  BY DEF Down, StreamIntact
<1> QED
  BY <1>1, <1>3, <1>4, <1>5

\* A server that starts finds nothing and holds the listening socket.
LEMMA InitStep ==
  ASSUME IInv, TypeOK', init
  PROVE  IInv'
<1> USE DEF IInv
<1>1. /\ pc = "down" /\ path' = "bound" /\ pc' = "sleep" /\ interest' = {ServerFd}
      /\ UNCHANGED <<backlog, open, buf, sockOf, listeners, events, unsent,
                     frame, history>>
  BY DEF init, Bind, Unlinked, PathLeadsToServer, TypeOK
<1>2. Phases' /\ DescriptorsAgree' /\ PathLeadsToServer' /\ EventsStayTrue'
  BY <1>1 DEF Phases, DescriptorsAgree, PathLeadsToServer, EventsStayTrue
<1>3. OneServerEnd' /\ Quiet' /\ SeenAccounted'
  BY <1>1 DEF OneServerEnd, InQueue, Quiet, SeenAccounted, history, Phases
<1>4. LockStep' /\ StreamIntact'
  BY <1>1 DEF LockStep, Served, StreamIntact, history, Phases
<1> QED
  BY <1>2, <1>3, <1>4

\* The steps of the loop that move it from phase to phase and touch no socket.
LEMMA SampleStep ==
  ASSUME IInv, TypeOK', Sample
  PROVE  IInv'
<1> USE DEF IInv, Sample, kernel, history
<1>1. Phases' /\ DescriptorsAgree' /\ PathLeadsToServer' /\ EventsStayTrue'
  BY DEF Phases, DescriptorsAgree, PathLeadsToServer, EventsStayTrue, HungUp
<1>2. OneServerEnd' /\ Quiet' /\ SeenAccounted'
  BY DEF OneServerEnd, InQueue, Quiet, SeenAccounted
<1>3. LockStep'
  BY FrameCycle DEF LockStep, Served, Phases, TypeOK
<1>4. StreamIntact'
  BY DEF StreamIntact
<1> QED
  BY <1>1, <1>2, <1>3, <1>4

LEMMA PollStep ==
  ASSUME IInv, TypeOK', Poll
  PROVE  IInv'
<1> USE DEF IInv
<1> USE DEF Poll, kernel
<1>1. events' \subseteq Ready
  OBVIOUS
<1>2. Phases' /\ DescriptorsAgree' /\ PathLeadsToServer'
  BY DEF Phases, DescriptorsAgree, PathLeadsToServer
<1>3. EventsStayTrue'
  BY <1>1 DEF EventsStayTrue, Ready, HungUp
<1>4. OneServerEnd' /\ Quiet'
  BY DEF OneServerEnd, InQueue, Quiet
<1>5. LockStep' /\ StreamIntact'
  BY DEF LockStep, Served, StreamIntact, Phases
<1>6. ASSUME ~full'
      PROVE  events' = Ready
  <2>1. IsFiniteSet(Ready) /\ Cardinality(Ready) \in Nat
    <3>1. 1 \in Int /\ MaxFds \in Int
      BY ServerAssumption
    <3>2. IsFiniteSet(1 .. MaxFds)
      BY <3>1, FS_Interval
    <3>3. IsFiniteSet({ServerFd})
      BY FS_Singleton
    <3>4. IsFiniteSet(Fds \cup {ServerFd})
      BY <3>2, <3>3, FS_Union DEF Fds
    <3>5. Ready \subseteq Fds \cup {ServerFd}
      BY DEF Ready, TypeOK
    <3> QED
      BY <3>4, <3>5, FS_Subset, FS_CardinalityType
  <2>2. Cardinality(events') = Cardinality(Ready)
    <3>1. ~(Cardinality(Ready) > MaxEvents)
      BY <1>6
    <3>2. Cardinality(events') = IF Cardinality(Ready) < MaxEvents
                                   THEN Cardinality(Ready) ELSE MaxEvents
      OBVIOUS
    <3> QED
      BY <2>1, <3>1, <3>2, ServerAssumption
  <2> QED
    BY <1>1, <2>1, <2>2, FS_Subset
<1>7. SeenAccounted'
  <2>1. ASSUME NEW c \in seen'
        PROVE  c \notin open' /\ ~InQueue(c)'
    <3>1. PICK fd \in Ready \ {ServerFd} : c = sockOf[fd]
      BY <2>1
    <3>2. fd \in listeners /\ c \notin open
      BY <3>1 DEF Ready, HungUp, DescriptorsAgree
    <3> QED
      BY <3>1, <3>2 DEF OneServerEnd, InQueue
  <2>2. ASSUME ~full', NEW fd \in listeners', (sockOf[fd] \in seen)'
        PROVE  fd \in events'
    <3>1. PICK g \in Ready \ {ServerFd} : sockOf[fd] = sockOf[g]
      BY <2>2
    <3>2. g \in listeners /\ fd \in listeners
      BY <2>2, <3>1 DEF Ready, HungUp, DescriptorsAgree
    <3>3. fd = g
      BY <3>1, <3>2 DEF OneServerEnd
    <3> QED
      BY <1>6, <2>2, <3>1, <3>3
  <2> QED
    BY <2>1, <2>2 DEF SeenAccounted
<1> QED
  BY <1>2, <1>3, <1>4, <1>5, <1>7

\* accept: the connection moves from the queue to a descriptor nobody uses.
LEMMA AcceptStep ==
  ASSUME IInv, TypeOK', HandleAccept
  PROVE  IInv'
<1> DEFINE c == Head(backlog)
<1> USE DEF IInv
<1>1. /\ c \in Conns /\ Tail(backlog) \in Seq(Conns)
      /\ DOMAIN backlog = 1 .. Len(backlog) /\ Len(backlog) \in Nat \ {0}
      /\ DOMAIN Tail(backlog) = 1 .. Len(backlog) - 1
      /\ c = backlog[1]
      /\ \A i \in 1 .. Len(backlog) - 1 : Tail(backlog)[i] = backlog[i + 1]
  BY TailFacts DEF HandleAccept, TypeOK
<1>2. InQueue(c)
  BY <1>1 DEF InQueue
<1>3. \A d \in Conns : InQueue(d)' <=> InQueue(d) /\ d # c
  <2>1. ASSUME NEW d \in Conns, InQueue(d)'
        PROVE  InQueue(d) /\ d # c
    <3>1. PICK i \in 1 .. Len(backlog) - 1 : Tail(backlog)[i] = d
      BY <1>1, <2>1 DEF InQueue, HandleAccept
    <3>2. i + 1 \in DOMAIN backlog /\ backlog[i + 1] = d /\ i + 1 # 1
          /\ 1 \in DOMAIN backlog
      BY <1>1, <3>1
    <3> QED
      BY <1>1, <3>2 DEF InQueue, OneServerEnd
  <2>2. ASSUME NEW d \in Conns, InQueue(d), d # c
        PROVE  InQueue(d)'
    <3>1. PICK i \in 1 .. Len(backlog) : backlog[i] = d
      BY <1>1, <2>2 DEF InQueue
    <3>2. i # 1 /\ i - 1 \in 1 .. Len(backlog) - 1 /\ (i - 1) + 1 = i
      BY <1>1, <2>2, <3>1
    <3>3. Tail(backlog)[i - 1] = d
      BY <1>1, <3>1, <3>2
    <3> QED
      BY <1>1, <3>2, <3>3 DEF InQueue, HandleAccept
  <2> QED
    BY <2>1, <2>2
<1>4. PICK new \in FreeFds :
        /\ sockOf' = [sockOf EXCEPT ![new] = c]
        /\ listeners' = listeners \cup {new}
        /\ interest' = interest \cup {new}
  BY DEF HandleAccept
<1>5. /\ new \in Fds /\ sockOf[new] = NoConn /\ new \notin listeners
      /\ sockOf'[new] = c
      /\ \A fd \in Fds \ {new} : sockOf'[fd] = sockOf[fd]
  BY <1>4 DEF FreeFds, DescriptorsAgree, TypeOK
<1>6. /\ pc = "events" /\ pc' = "events" /\ events' = events \ {ServerFd}
      /\ backlog' = Tail(backlog)
      /\ UNCHANGED <<path, open, buf, unsent, frame, seen, full>>
  BY DEF HandleAccept
<1>7. \A fd \in listeners : fd \in Fds /\ fd # new /\ sockOf[fd] # c
  BY <1>2, <1>5 DEF DescriptorsAgree, OneServerEnd, TypeOK
<1>8. Phases' /\ PathLeadsToServer'
  BY <1>4, <1>6 DEF Phases, PathLeadsToServer
<1>9. DescriptorsAgree'
  BY <1>1, <1>4, <1>5, <1>6, ServerAssumption DEF DescriptorsAgree
<1>10. OneServerEnd'
  <2>1. \A fd, g \in listeners' : sockOf'[fd] = sockOf'[g] => fd = g
    BY <1>4, <1>5, <1>7 DEF OneServerEnd
  <2>2. ASSUME NEW i \in 1 .. Len(backlog) - 1, NEW j \in 1 .. Len(backlog) - 1,
               Tail(backlog)[i] = Tail(backlog)[j]
        PROVE  i = j
    <3>1. backlog[i + 1] = backlog[j + 1] /\ i + 1 \in DOMAIN backlog
          /\ j + 1 \in DOMAIN backlog
      BY <1>1, <2>2
    <3>2. i + 1 = j + 1
      BY <3>1 DEF OneServerEnd
    <3> QED
      BY <1>1, <3>2
  <2>3. \A fd \in listeners' : ~InQueue(sockOf[fd])'
    <3>1. ~(\E i \in DOMAIN backlog' : backlog'[i] = c)
      BY <1>1, <1>3 DEF InQueue
    <3>2. ASSUME NEW fd \in listeners
          PROVE  ~InQueue(sockOf[fd])'
      <4>1. sockOf'[fd] = sockOf[fd] /\ ~InQueue(sockOf[fd]) /\ sockOf[fd] \in Conns
        BY <1>5, <1>7 DEF OneServerEnd, DescriptorsAgree, TypeOK
      <4>2. ~InQueue(sockOf[fd]) => ~(\E i \in DOMAIN backlog' : backlog'[i] = sockOf[fd])
        BY <1>3, <4>1 DEF InQueue
      <4> QED
        BY <4>1, <4>2 DEF InQueue
    <3> QED
      BY <1>4, <1>5, <3>1, <3>2 DEF InQueue
  <2> QED
    BY <1>1, <1>6, <2>1, <2>2, <2>3 DEF OneServerEnd
<1>11. EventsStayTrue'
  <2> SUFFICES ASSUME NEW fd \in events \ {ServerFd}
               PROVE  fd \in interest' /\ HungUp(fd)'
    BY <1>6 DEF EventsStayTrue
  <2>1. fd \in interest /\ HungUp(fd) /\ fd \in Fds
    BY DEF EventsStayTrue, TypeOK
  <2>2. fd # new
    BY <1>5, <2>1, ServerAssumption DEF HungUp
  <2> QED
    BY <1>4, <1>5, <1>6, <2>1, <2>2 DEF HungUp
<1>12. Quiet'
  <2>1. \A d \in Conns : d \notin open \/ d # c =>
                          last'[d] = last[d] /\ got'[d] = got[d]
    BY <1>1 DEF HandleAccept, TypeOK
  <2> QED
    BY <1>3, <1>6, <2>1 DEF Quiet
<1>13. LockStep'
  <2> SUFFICES ASSUME NEW fd \in Served'
               PROVE  last'[sockOf'[fd]] = Pred(frame)
    BY <1>6 DEF LockStep
  <2>1. CASE fd = new
    <3>1. c \in open
      BY <1>5, <1>6, <2>1 DEF Served
    <3> QED
      BY <1>1, <1>5, <2>1, <3>1 DEF HandleAccept, TypeOK
  <2>2. CASE fd # new
    <3>1. fd \in Served /\ sockOf'[fd] = sockOf[fd] /\ sockOf[fd] # c
      BY <1>4, <1>5, <1>6, <1>7, <2>2 DEF Served
    <3>2. last'[sockOf[fd]] = last[sockOf[fd]]
      BY <3>1 DEF HandleAccept, TypeOK, Served
    <3> QED
      BY <1>6, <3>1, <3>2 DEF LockStep
  <2> QED
    BY <2>1, <2>2
<1>14. StreamIntact'
  <2> SUFFICES ASSUME NEW d \in open
               PROVE  /\ buf[d] = <<>> => got'[d] = last'[d]
                      /\ buf[d] # <<>> => Head(buf[d]) = Succ(got'[d])
                                          /\ buf[d][Len(buf[d])] = last'[d]
                      /\ \A i \in 1 .. Len(buf[d]) - 1 : buf[d][i + 1] = Succ(buf[d][i])
    BY <1>6 DEF StreamIntact
  <2>1. CASE d = c
    <3>1. buf[d] = <<>>
      BY <1>1, <1>2, <2>1 DEF Quiet
    <3>2. got'[d] = last'[d]
      BY <1>1, <2>1 DEF HandleAccept, TypeOK
    <3> QED
      BY <3>1, <3>2 DEF StreamIntact
  <2>2. CASE d # c
    <3>1. got'[d] = got[d] /\ last'[d] = last[d]
      BY <2>2 DEF HandleAccept, TypeOK
    <3> QED
      BY <3>1 DEF StreamIntact
  <2> QED
    BY <2>1, <2>2
<1>15. SeenAccounted'
  <2>1. c \notin seen
    BY <1>2 DEF SeenAccounted
  <2>2. \A d \in seen' : d \notin open' /\ ~InQueue(d)'
    BY <1>3, <1>6 DEF SeenAccounted, TypeOK
  <2>3. ASSUME ~full, NEW fd \in listeners', sockOf'[fd] \in seen
        PROVE  fd \in events'
    <3>1. fd # new
      BY <1>5, <2>1, <2>3
    <3>2. fd \in listeners /\ sockOf'[fd] = sockOf[fd] /\ fd \in Fds
      BY <1>4, <1>7, <1>5, <3>1
    <3> QED
      BY <1>6, <2>3, <3>2, ServerFdApart DEF SeenAccounted
  <2> QED
    BY <1>6, <2>2, <2>3 DEF SeenAccounted
<1> QED
  BY <1>8, <1>9, <1>10, <1>11, <1>12, <1>13, <1>14, <1>15

\* A hang-up handled: only the descriptor of a dead connection goes.
LEMMA HangupStep ==
  ASSUME IInv, TypeOK', NEW fd \in Fds, HandleHangup(fd)
  PROVE  IInv'
<1> USE DEF IInv
<1>1. /\ pc = "events" /\ pc' = "events" /\ fd \in events \ {ServerFd}
      /\ listeners' = listeners \ {fd} /\ interest' = interest \ {fd}
      /\ events' = events \ {fd}
      /\ UNCHANGED <<path, backlog, open, buf, unsent, frame, last, got, seen, full>>
  BY DEF HandleHangup, history
<1>2. /\ sockOf'[fd] = NoConn
      /\ \A g \in Fds \ {fd} : sockOf'[g] = sockOf[g]
  BY DEF HandleHangup, TypeOK
<1>3. fd \in listeners /\ listeners \subseteq Fds
  BY <1>1, ServerFdApart DEF EventsStayTrue, DescriptorsAgree, TypeOK
<1>4. \A g \in listeners' : g \in listeners /\ g # fd /\ sockOf'[g] = sockOf[g]
  BY <1>1, <1>2, <1>3
<1>5. Phases' /\ PathLeadsToServer'
  BY <1>1 DEF Phases, PathLeadsToServer
<1>6. DescriptorsAgree'
  BY <1>1, <1>2, <1>3, ServerFdApart DEF DescriptorsAgree
<1>7. OneServerEnd'
  <2>1. \A g, h \in listeners' : sockOf'[g] = sockOf'[h] => g = h
    BY <1>4 DEF OneServerEnd
  <2> QED
    BY <1>1, <1>4, <2>1 DEF OneServerEnd, InQueue
<1>8. EventsStayTrue'
  <2> SUFFICES ASSUME NEW g \in events \ {fd}
               PROVE  IF g = ServerFd THEN backlog # <<>>
                                      ELSE g \in interest' /\ HungUp(g)'
    BY <1>1 DEF EventsStayTrue
  <2>1. g \in Fds \cup {ServerFd}
    BY DEF TypeOK
  <2>2. IF g = ServerFd THEN backlog # <<>> ELSE g \in interest /\ HungUp(g)
    BY DEF EventsStayTrue
  <2> QED
    BY <1>1, <1>2, <2>1, <2>2 DEF HungUp
<1>9. Quiet' /\ StreamIntact'
  BY <1>1 DEF Quiet, StreamIntact, InQueue
<1>10. LockStep'
  BY <1>1, <1>4 DEF LockStep, Served
<1>11. SeenAccounted'
  BY <1>1, <1>4 DEF SeenAccounted, InQueue
<1> QED
  BY <1>5, <1>6, <1>7, <1>8, <1>9, <1>10, <1>11

LEMMA StartBroadcastStep ==
  ASSUME IInv, TypeOK', StartBroadcast
  PROVE  IInv'
<1> USE DEF IInv, StartBroadcast, kernel, history
<1>1. Phases' /\ DescriptorsAgree' /\ PathLeadsToServer' /\ EventsStayTrue'
  BY DEF Phases, DescriptorsAgree, PathLeadsToServer, EventsStayTrue
<1>2. OneServerEnd' /\ Quiet' /\ SeenAccounted'
  BY DEF OneServerEnd, InQueue, Quiet, SeenAccounted
<1>3. LockStep' /\ StreamIntact'
  BY DEF LockStep, Served, StreamIntact
<1> QED
  BY <1>1, <1>2, <1>3

\* One client is sent the frame: it is the successor of the one it was sent
\* before, and no other client's stream is touched.
LEMMA SendStep ==
  ASSUME IInv, TypeOK', NEW fd \in Fds, Send(fd)
  PROVE  IInv'
<1> DEFINE c == sockOf[fd]
           q == Append(buf[c], frame)
<1> USE DEF IInv
<1>1. /\ pc = "send" /\ pc' = "send" /\ fd \in unsent /\ c \in open
      /\ unsent' = unsent \ {fd}
      /\ UNCHANGED <<path, backlog, open, sockOf, interest, listeners, events,
                     frame, got, seen, full>>
  BY DEF Send
<1>2. /\ c \in Conns /\ fd \in listeners /\ frame \in Frames
      /\ buf'[c] = q /\ last'[c] = frame
      /\ \A d \in Conns \ {c} : buf'[d] = buf[d] /\ last'[d] = last[d]
  BY DEF Send, TypeOK, Phases
<1>3. Phases' /\ DescriptorsAgree' /\ PathLeadsToServer' /\ EventsStayTrue'
  BY <1>1 DEF Phases, DescriptorsAgree, PathLeadsToServer, EventsStayTrue, HungUp
<1>4. OneServerEnd' /\ SeenAccounted'
  BY <1>1 DEF OneServerEnd, InQueue, SeenAccounted
<1>5. Quiet'
  BY <1>1, <1>2 DEF Quiet, OneServerEnd, InQueue
<1>6. LockStep'
  <2> SUFFICES ASSUME NEW g \in Served
               PROVE  last'[sockOf[g]] = IF g \in unsent' THEN Pred(frame) ELSE frame
    BY <1>1 DEF LockStep, Served
  <2>1. CASE g = fd
    BY <1>1, <1>2, <2>1
  <2>2. CASE g # fd
    <3>1. sockOf[g] # c /\ sockOf[g] \in Conns
      BY <1>2, <2>2 DEF Served, OneServerEnd, TypeOK
    <3> QED
      BY <1>1, <1>2, <2>2, <3>1 DEF LockStep
  <2> QED
    BY <2>1, <2>2
<1>7. StreamIntact'
  <2>1. \A d \in open \ {c} : buf'[d] = buf[d] /\ last'[d] = last[d] /\ got'[d] = got[d]
    BY <1>1, <1>2 DEF TypeOK
  <2>2. Succ(last[c]) = frame
    <3>1. last[c] = Pred(frame)
      BY <1>1, <1>2 DEF LockStep, Served
    <3> QED
      BY <1>2, <3>1, FrameCycle
  <2>3. /\ q # <<>> /\ q[Len(q)] = frame
        /\ Len(buf[c]) \in Nat /\ Len(q) = Len(buf[c]) + 1
        /\ q[Len(buf[c]) + 1] = frame
        /\ \A i \in 1 .. Len(buf[c]) : q[i] = buf[c][i]
        /\ buf[c] = <<>> => Head(q) = frame
        /\ buf[c] # <<>> => Head(q) = Head(buf[c])
    <3>1. buf[c] \in Seq(Frames)
      BY <1>2 DEF TypeOK
    <3> HIDE DEF c
    <3> QED
      BY <1>2, <3>1, AppendFacts
  <2>4. Head(q) = Succ(got[c])
    BY <1>1, <2>2, <2>3 DEF StreamIntact
  <2>5. ASSUME NEW i \in 1 .. Len(q) - 1
        PROVE  q[i + 1] = Succ(q[i])
    <3>1. CASE i = Len(buf[c])
      <4>1. buf[c] # <<>>
        BY <2>3, <2>5, <3>1, EmptySeq
      <4>2. q[i] = last[c]
        BY <1>1, <2>3, <2>5, <3>1, <4>1 DEF StreamIntact
      <4> QED
        BY <2>2, <2>3, <3>1, <4>2
    <3>2. CASE i # Len(buf[c])
      <4>1. i \in 1 .. Len(buf[c]) - 1 /\ i \in 1 .. Len(buf[c])
            /\ i + 1 \in 1 .. Len(buf[c])
        BY <2>3, <2>5, <3>2
      <4>2. buf[c][i + 1] = Succ(buf[c][i])
        BY <1>1, <4>1 DEF StreamIntact
      <4> QED
        BY <2>3, <4>1, <4>2
    <3> QED
      BY <3>1, <3>2
  <2>6. ASSUME NEW d \in open
        PROVE  /\ buf'[d] = <<>> => got'[d] = last'[d]
               /\ buf'[d] # <<>> => Head(buf'[d]) = Succ(got'[d])
                                    /\ buf'[d][Len(buf'[d])] = last'[d]
               /\ \A i \in 1 .. Len(buf'[d]) - 1 : buf'[d][i + 1] = Succ(buf'[d][i])
    <3>1. CASE d = c
      <4> HIDE DEF q
      <4> QED
        BY <1>1, <1>2, <2>3, <2>4, <2>5, <3>1
    <3>2. CASE d # c
      BY <2>1, <2>6, <3>2 DEF StreamIntact
    <3> QED
      BY <3>1, <3>2
  <2> QED
    BY <1>1, <2>6 DEF StreamIntact
<1> QED
  BY <1>3, <1>4, <1>5, <1>6, <1>7

LEMMA BroadcastDoneStep ==
  ASSUME IInv, TypeOK', BroadcastDone
  PROVE  IInv'
<1> USE DEF IInv, BroadcastDone, kernel, history
<1>1. Phases' /\ DescriptorsAgree' /\ PathLeadsToServer' /\ EventsStayTrue'
  BY DEF Phases, DescriptorsAgree, PathLeadsToServer, EventsStayTrue, HungUp
<1>2. OneServerEnd' /\ Quiet' /\ SeenAccounted'
  BY DEF OneServerEnd, InQueue, Quiet, SeenAccounted
<1>3. LockStep' /\ StreamIntact'
  BY DEF LockStep, Served, StreamIntact
<1> QED
  BY <1>1, <1>2, <1>3

\* A client connects on a connection that neither end holds any more.
LEMMA ConnectStep ==
  ASSUME IInv, TypeOK', NEW c \in Conns, Connect(c)
  PROVE  IInv'
<1> USE DEF IInv
<1>1. /\ path = "bound" /\ open' = open \cup {c} /\ backlog' = Append(backlog, c)
      /\ seen' = seen \ {c}
      /\ UNCHANGED <<path, buf, sockOf, interest, pc, listeners, events, unsent,
                     frame, last, got, full>>
      /\ c \notin open /\ ~InQueue(c) /\ \A fd \in Fds : sockOf[fd] # c
  BY DEF Connect, server, Unused, Accepted
<1>2. /\ backlog' # <<>> /\ Len(backlog) \in Nat
      /\ DOMAIN backlog' = 1 .. Len(backlog) + 1
      /\ DOMAIN backlog = 1 .. Len(backlog)
      /\ \A i \in 1 .. Len(backlog) : backlog'[i] = backlog[i]
      /\ backlog'[Len(backlog) + 1] = c
  BY <1>1, AppendFacts DEF TypeOK
<1>3. \A d \in Conns : InQueue(d)' <=> InQueue(d) \/ d = c
  BY <1>2 DEF InQueue
<1>4. \A fd \in listeners : fd \in Fds /\ sockOf[fd] \in Conns \ {c}
  BY <1>1 DEF TypeOK, DescriptorsAgree
<1>5. Phases' /\ DescriptorsAgree' /\ PathLeadsToServer'
  BY <1>1 DEF Phases, DescriptorsAgree, PathLeadsToServer
<1>6. OneServerEnd'
  <2>1. \A i, j \in DOMAIN backlog' : backlog'[i] = backlog'[j] => i = j
    BY <1>1, <1>2 DEF OneServerEnd, InQueue
  <2>2. \A fd \in listeners : ~(\E i \in DOMAIN backlog' : backlog'[i] = sockOf[fd])
    BY <1>3, <1>4 DEF OneServerEnd, InQueue
  <2> QED
    BY <1>1, <2>1, <2>2 DEF OneServerEnd, InQueue
<1>7. EventsStayTrue'
  BY <1>1, <1>2 DEF EventsStayTrue, HungUp, TypeOK
<1>8. Quiet'
  BY <1>1, <1>3 DEF Quiet
<1>9. LockStep'
  BY <1>1, <1>4 DEF LockStep, Served
<1>10. StreamIntact'
  <2>1. buf[c] = <<>> /\ got[c] = last[c] /\ Len(buf[c]) = 0
    BY <1>1, EmptySeq DEF Quiet
  <2>2. \A i \in 1 .. Len(buf[c]) - 1 : buf[c][i + 1] = Succ(buf[c][i])
    BY <2>1
  <2> QED
    BY <1>1, <2>1, <2>2 DEF StreamIntact
<1>11. SeenAccounted'
  BY <1>1, <1>3 DEF SeenAccounted, TypeOK
<1> QED
  BY <1>5, <1>6, <1>7, <1>8, <1>9, <1>10, <1>11

\* A client receives the oldest frame under way to it.
LEMMA RecvStep ==
  ASSUME IInv, TypeOK', NEW c \in Conns, Recv(c)
  PROVE  IInv'
<1> DEFINE q == Tail(buf[c])
<1> USE DEF IInv
<1>1. /\ c \in open /\ buf[c] # <<>>
      /\ UNCHANGED <<path, backlog, open, sockOf, interest, pc, listeners, events,
                     unsent, frame, last, seen, full>>
  BY DEF Recv, server
<1>2. /\ got'[c] = Head(buf[c]) /\ buf'[c] = q
      /\ \A d \in Conns \ {c} : buf'[d] = buf[d] /\ got'[d] = got[d]
  BY DEF Recv, TypeOK
<1>3. Phases' /\ DescriptorsAgree' /\ PathLeadsToServer' /\ EventsStayTrue'
  BY <1>1 DEF Phases, DescriptorsAgree, PathLeadsToServer, EventsStayTrue, HungUp
<1>4. OneServerEnd' /\ SeenAccounted' /\ LockStep'
  BY <1>1 DEF OneServerEnd, InQueue, SeenAccounted, LockStep, Served
<1>5. Quiet'
  BY <1>1, <1>2 DEF Quiet, InQueue
<1>6. StreamIntact'
  <2>1. /\ Head(buf[c]) = buf[c][1] /\ Len(buf[c]) \in Nat \ {0}
        /\ Len(q) = Len(buf[c]) - 1
        /\ \A i \in 1 .. Len(buf[c]) - 1 : q[i] = buf[c][i + 1]
        /\ q = <<>> <=> Len(buf[c]) = 1
        /\ q # <<>> => Head(q) = buf[c][2]
    <3>1. buf[c] \in Seq(Frames)
      BY DEF TypeOK
    <3> QED
      BY <1>1, <3>1, TailFacts
  <2>2. /\ buf[c][Len(buf[c])] = last[c]
        /\ \A i \in 1 .. Len(buf[c]) - 1 : buf[c][i + 1] = Succ(buf[c][i])
    BY <1>1 DEF StreamIntact
  <2> HIDE DEF q
  <2>3. q = <<>> => got'[c] = last[c]
    BY <1>2, <2>1, <2>2
  <2>4. q # <<>> => Head(q) = Succ(got'[c]) /\ q[Len(q)] = last[c]
    BY <1>2, <2>1, <2>2
  <2>5. \A i \in 1 .. Len(q) - 1 : q[i + 1] = Succ(q[i])
    BY <2>1, <2>2
  <2>6. ASSUME NEW d \in open
        PROVE  /\ buf'[d] = <<>> => got'[d] = last[d]
               /\ buf'[d] # <<>> => Head(buf'[d]) = Succ(got'[d])
                                    /\ buf'[d][Len(buf'[d])] = last[d]
               /\ \A i \in 1 .. Len(buf'[d]) - 1 : buf'[d][i + 1] = Succ(buf'[d][i])
    <3>1. CASE d = c
      BY <1>2, <2>3, <2>4, <2>5, <3>1
    <3>2. CASE d # c
      <4>1. buf'[d] = buf[d] /\ got'[d] = got[d]
        BY <1>2, <3>2 DEF TypeOK
      <4> QED
        BY <4>1 DEF StreamIntact
    <3> QED
      BY <3>1, <3>2
  <2> QED
    BY <1>1, <2>6 DEF StreamIntact
<1> QED
  BY <1>3, <1>4, <1>5, <1>6

\* A client hangs up; what the server knows of it stays as it is.
LEMMA CloseStep ==
  ASSUME IInv, TypeOK', NEW c \in Conns, Close(c)
  PROVE  IInv'
<1> USE DEF IInv
<1>1. /\ open' = open \ {c}
      /\ UNCHANGED <<path, backlog, sockOf, interest, pc, listeners, events,
                     unsent, frame, seen, full>>
      /\ buf'[c] = <<>> /\ last'[c] = Idle /\ got'[c] = Idle
      /\ \A d \in Conns \ {c} : buf'[d] = buf[d] /\ last'[d] = last[d] /\ got'[d] = got[d]
  BY DEF Close, server, TypeOK
<1>2. Phases' /\ DescriptorsAgree' /\ PathLeadsToServer'
  BY <1>1 DEF Phases, DescriptorsAgree, PathLeadsToServer
<1>3. EventsStayTrue'
  BY <1>1 DEF EventsStayTrue, HungUp
<1>4. OneServerEnd' /\ SeenAccounted'
  BY <1>1 DEF OneServerEnd, InQueue, SeenAccounted
<1>5. Quiet'
  BY <1>1 DEF Quiet, InQueue
<1>6. \A d \in open' : d \in Conns \ {c} /\ d \in open
  BY <1>1 DEF TypeOK
<1>7. LockStep'
  <2> SUFFICES ASSUME NEW fd \in Served'
               PROVE  last'[sockOf[fd]] = IF pc \in {"poll", "events"} \/ fd \in unsent
                                            THEN Pred(frame) ELSE frame
    BY <1>1 DEF LockStep
  <2>1. fd \in Served /\ sockOf[fd] \in Conns \ {c}
    BY <1>1, <1>6 DEF Served
  <2> QED
    BY <1>1, <2>1 DEF LockStep
<1>8. StreamIntact'
  BY <1>1, <1>6 DEF StreamIntact
<1> QED
  BY <1>2, <1>3, <1>4, <1>5, <1>7, <1>8

LEMMA StutterStep ==
  ASSUME IInv, TypeOK', UNCHANGED vars
  PROVE  IInv'
<1> USE DEF IInv, vars, kernel, server, history
<1>1. Phases' /\ DescriptorsAgree' /\ PathLeadsToServer' /\ EventsStayTrue'
  BY DEF Phases, DescriptorsAgree, PathLeadsToServer, EventsStayTrue, HungUp
<1>2. OneServerEnd' /\ Quiet' /\ SeenAccounted'
  BY DEF OneServerEnd, InQueue, Quiet, SeenAccounted
<1>3. LockStep' /\ StreamIntact'
  BY DEF LockStep, Served, StreamIntact
<1> QED
  BY <1>1, <1>2, <1>3

LEMMA IInvStep == IInv /\ [Next]_vars => IInv'
<1> SUFFICES ASSUME IInv, [Next]_vars
             PROVE  IInv'
  OBVIOUS
<1>1. TypeOK'
  BY TypeStep DEF IInv
<1>2. CASE HandleAcceptFail
  BY <1>1, <1>2, DownStep DEF HandleAcceptFail, AfterExit
<1>3. ASSUME NEW fd \in Fds, SendBroken(fd)
      PROVE  IInv'
  BY <1>1, <1>3, DownStep DEF SendBroken, AfterExit
<1>4. CASE Kill
  BY <1>1, <1>4, DownStep DEF Kill
<1> QED
  BY <1>1, <1>2, <1>3, <1>4, InitStep, SampleStep, PollStep, AcceptStep,
     HangupStep, StartBroadcastStep, SendStep, BroadcastDoneStep, ConnectStep,
     RecvStep, CloseStep, StutterStep DEF Next, ServerStep, ClientStep

\* The inductive invariant holds in every state the system reaches.
THEOREM Invariant == Spec => []IInv
  BY IInvInit, IInvStep, PTL DEF Spec

-----------------------------------------------------------------------------
(* The safety properties *)

\* handle_events() never works on an event that is no longer true: accept()
\* does not block and close() never hits the descriptor of a living client.
THEOREM EventsCorrect == Spec => []EventsStayTrue
<1>1. IInv => EventsStayTrue
  BY DEF IInv
<1> QED
  BY <1>1, Invariant, PTL

\* broadcast() keeps all the clients it serves in lock step.
THEOREM LockStepCorrect == Spec => []LockStep
<1>1. IInv => LockStep
  BY DEF IInv
<1> QED
  BY <1>1, Invariant, PTL

\* No client misses a frame, gets one twice or out of order.
THEOREM StreamCorrect == Spec => []StreamIntact
<1>1. IInv => StreamIntact
  BY DEF IInv
<1> QED
  BY <1>1, Invariant, PTL

\* A hang-up reported in time never leads to a send() to a dead client.
THEOREM SeenHangupCorrect == Spec => []SeenHangupNotServed
<1>1. IInv => SeenHangupNotServed
  BY DEF IInv, SeenHangupNotServed, SeenAccounted, Phases
<1> QED
  BY <1>1, Invariant, PTL

\* The descriptor table, the listeners and the epoll set always agree.
THEOREM DescriptorsCorrect == Spec => []DescriptorsAgree
<1>1. IInv => DescriptorsAgree
  BY DEF IInv
<1> QED
  BY <1>1, Invariant, PTL

\* The server can always be started again, however the last process ended.
THEOREM RestartCorrect == Spec => []RestartSucceeds
<1>1. IInv => RestartSucceeds
  BY DEF IInv, PathLeadsToServer, RestartSucceeds, Bind, Unlinked
<1> QED
  BY <1>1, Invariant, PTL

-----------------------------------------------------------------------------
(* Refinement: the server implements TelemetryStream *)

\* How Behind counts: it is zero when nothing is under way, grows by one with
\* each frame sent and shrinks by one with each frame received.
LEMMA BehindFacts ==
  ASSUME NEW s \in Frames, NEW g \in Frames
  PROVE  /\ Stream!Behind(s, g) \in Nat
         /\ Stream!Behind(s, g) = 0 <=> s = g
         /\ Stream!Behind(s, g) < MaxFrame - 1 =>
              Stream!Behind(Succ(s), g) = Stream!Behind(s, g) + 1
         /\ s # g => Stream!Behind(s, Succ(g)) = Stream!Behind(s, g) - 1
  BY ServerAssumption DEF Frames, Succ, Stream!Behind

LEMMA CountedInit == Init => Counted
<1> SUFFICES ASSUME Init, NEW c \in Conns
             PROVE  /\ Len(buf[c]) = Stream!Behind(last[c], got[c])
                    /\ Len(buf[c]) <= SndBuf
  BY DEF Counted
<1>1. Len(buf[c]) = 0 /\ last[c] = Idle /\ got[c] = Idle
  BY EmptySeq DEF Init
<1>2. Stream!Behind(Idle, Idle) = 0
  BY BehindFacts, FrameCycle, ServerAssumption DEF Idle, Frames
<1> QED
  BY <1>1, <1>2, ServerAssumption

\* A step that changes the stream of at most one connection, and leaves there
\* as many frames as its receiver is behind, keeps the count.
LEMMA CountedOne ==
  ASSUME Counted, NEW c \in Conns,
         \A d \in Conns \ {c} : /\ buf'[d] = buf[d] /\ last'[d] = last[d]
                                /\ got'[d] = got[d],
         Len(buf'[c]) = Stream!Behind(last'[c], got'[c]),
         Len(buf'[c]) <= SndBuf
  PROVE  Counted'
<1>1. ASSUME NEW d \in Conns
      PROVE  Len(buf'[d]) = Stream!Behind(last'[d], got'[d]) /\ Len(buf'[d]) <= SndBuf
  BY DEF Counted
<1> QED
  BY <1>1 DEF Counted, Stream!Behind

LEMMA CountedStep == IInv /\ IInv' /\ Counted /\ [Next]_vars => Counted'
<1> SUFFICES ASSUME IInv, IInv', Counted, [Next]_vars
             PROVE  Counted'
  OBVIOUS
<1> USE DEF IInv
<1>1. ASSUME UNCHANGED <<buf, last, got>>
      PROVE  Counted'
  BY <1>1 DEF Counted, Stream!Behind
<1>2. ASSUME NEW c \in Conns, buf'[c] = <<>>, last'[c] = got'[c],
             \A d \in Conns \ {c} : /\ buf'[d] = buf[d] /\ last'[d] = last[d]
                                    /\ got'[d] = got[d]
      PROVE  Counted'
  <2>1. last'[c] \in Frames /\ got'[c] \in Frames
    BY DEF TypeOK
  <2>2. Len(buf'[c]) = 0 /\ Stream!Behind(last'[c], got'[c]) = 0
    BY <1>2, <2>1, BehindFacts, EmptySeq
  <2> QED
    BY <1>2, <2>2, CountedOne, ServerAssumption
<1>3. CASE HandleAccept
  <2>1. Head(backlog) \in Conns /\ InQueue(Head(backlog))
    BY <1>3, TailFacts DEF HandleAccept, TypeOK, InQueue
  <2>2. CASE Head(backlog) \in open
    BY <1>2, <1>3, <2>1, <2>2 DEF HandleAccept, Quiet, TypeOK
  <2>3. CASE Head(backlog) \notin open
    BY <1>1, <1>3, <2>3 DEF HandleAccept
  <2> QED
    BY <2>2, <2>3
<1>4. ASSUME NEW fd \in Fds, Send(fd)
      PROVE  Counted'
  <2> DEFINE c == sockOf[fd]
  <2>1. /\ c \in Conns /\ c \in open /\ fd \in Served /\ fd \in unsent /\ pc = "send"
        /\ Len(buf[c]) < SndBuf
        /\ buf'[c] = Append(buf[c], frame) /\ last'[c] = frame /\ got'[c] = got[c]
        /\ \A d \in Conns \ {c} : /\ buf'[d] = buf[d] /\ last'[d] = last[d]
                                  /\ got'[d] = got[d]
    BY <1>4 DEF Send, TypeOK, Phases, Served
  <2> HIDE DEF c
  <2>2. last[c] = Pred(frame)
    BY <2>1 DEF LockStep, c
  <2>3. /\ frame \in Frames /\ last[c] \in Frames /\ got[c] \in Frames
        /\ buf[c] \in Seq(Frames)
    BY <2>1 DEF TypeOK
  <2>4. Succ(last[c]) = frame
    BY <2>2, <2>3, FrameCycle
  <2>5. Len(buf'[c]) = Len(buf[c]) + 1 /\ Len(buf[c]) \in Nat
    BY <2>1, <2>3, AppendFacts
  <2>6. Len(buf[c]) = Stream!Behind(last[c], got[c])
    BY <2>1 DEF Counted
  <2>7. Stream!Behind(Succ(last[c]), got[c]) = Stream!Behind(last[c], got[c]) + 1
    BY <2>1, <2>3, <2>5, <2>6, BehindFacts, ServerAssumption
  <2>8. Len(buf'[c]) = Stream!Behind(last'[c], got'[c]) /\ Len(buf'[c]) <= SndBuf
    BY <2>1, <2>4, <2>5, <2>6, <2>7, ServerAssumption
  <2> QED
    BY <2>1, <2>8, CountedOne
<1>5. ASSUME NEW c \in Conns, Recv(c)
      PROVE  Counted'
  <2>1. /\ c \in open /\ buf[c] # <<>> /\ last'[c] = last[c] /\ got'[c] = Head(buf[c])
        /\ buf'[c] = Tail(buf[c])
        /\ \A d \in Conns \ {c} : /\ buf'[d] = buf[d] /\ last'[d] = last[d]
                                  /\ got'[d] = got[d]
    BY <1>5 DEF Recv, TypeOK
  <2>2. last[c] \in Frames /\ got[c] \in Frames /\ buf[c] \in Seq(Frames)
    BY DEF TypeOK
  <2>3. got'[c] = Succ(got[c])
    BY <2>1 DEF StreamIntact
  <2>4. Len(buf'[c]) = Len(buf[c]) - 1 /\ Len(buf[c]) \in Nat \ {0}
    BY <2>1, <2>2, TailFacts
  <2>5. Len(buf[c]) = Stream!Behind(last[c], got[c]) /\ Len(buf[c]) <= SndBuf
    BY DEF Counted
  <2>6. Stream!Behind(last[c], Succ(got[c])) = Stream!Behind(last[c], got[c]) - 1
    BY <2>2, <2>4, <2>5, BehindFacts
  <2>7. Len(buf'[c]) = Stream!Behind(last'[c], got'[c]) /\ Len(buf'[c]) <= SndBuf
    BY <2>1, <2>3, <2>4, <2>5, <2>6, ServerAssumption
  <2> QED
    BY <2>1, <2>7, CountedOne
<1>6. ASSUME NEW c \in Conns, Close(c)
      PROVE  Counted'
  BY <1>2, <1>6 DEF Close, TypeOK
<1> QED
  BY <1>1, <1>3, <1>4, <1>5, <1>6
  DEF Next, ServerStep, ClientStep, vars, kernel, server, history, init, Sample,
      Poll, HandleAcceptFail, HandleHangup, SendBroken, StartBroadcast,
      BroadcastDone, Kill, Connect, Down

ServedConns == {sockOf[fd] : fd \in Served}

\* The next-state relation of the stream, its instances written out.
LEMMA StreamStep ==
  ASSUME IInv, IInv', Counted, [Next]_vars
  PROVE  [Stream!Next]_(Stream!vars)
<1> USE DEF IInv
<1>1. \A c : c \in ServedConns <=> \E fd \in listeners : sockOf[fd] = c /\ c \in open
  BY DEF ServedConns, Served
<1>2. \A c : c \in ServedConns' <=> \E fd \in listeners' : sockOf'[fd] = c /\ c \in open'
  BY DEF ServedConns, Served
<1>3. ASSUME UNCHANGED <<frame, last, got>>, ServedConns' = ServedConns
      PROVE  UNCHANGED Stream!vars
  BY <1>3 DEF Stream!vars, ServedConns
<1>4. CASE init
  <2>1. UNCHANGED <<frame, last, got, listeners, open, sockOf>>
    BY <1>4 DEF init, history
  <2> QED
    BY <1>3, <2>1 DEF ServedConns, Served
<1>5. CASE Sample
  <2>1. \A c \in ServedConns : last[c] = frame
    BY <1>5 DEF ServedConns, Sample, LockStep, Phases
  <2>2. ServedConns' = ServedConns
    BY <1>5 DEF ServedConns, Served, Sample, kernel
  <2>3. frame' = Succ(frame) /\ UNCHANGED <<last, got>>
    BY <1>5 DEF Sample, history
  <2>4. Stream!Publish
    BY <2>1, <2>2, <2>3 DEF ServedConns, Stream!Publish, Stream!Succ, Succ
  <2> QED
    BY <2>4 DEF Stream!Next
<1>6. CASE Poll \/ StartBroadcast \/ BroadcastDone
  <2>1. UNCHANGED <<frame, last, got, listeners, open, sockOf>>
    BY <1>6 DEF Poll, StartBroadcast, BroadcastDone, kernel, history
  <2> QED
    BY <1>3, <2>1 DEF ServedConns, Served
<1>7. CASE HandleAccept
  <2>1. PICK c \in Conns : c = Head(backlog) /\ InQueue(c)
    BY <1>7, TailFacts DEF HandleAccept, TypeOK, InQueue
  <2>2. PICK new \in FreeFds : /\ sockOf' = [sockOf EXCEPT ![new] = c]
                               /\ listeners' = listeners \cup {new}
    BY <1>7, <2>1 DEF HandleAccept
  <2>3. /\ new \in Fds /\ sockOf'[new] = c
        /\ \A fd \in listeners : sockOf'[fd] = sockOf[fd] /\ sockOf[fd] # c
    BY <2>1, <2>2 DEF FreeFds, DescriptorsAgree, TypeOK, OneServerEnd
  <2>4. open' = open /\ frame' = frame
    BY <1>7 DEF HandleAccept
  <2>5. CASE c \in open
    <3>1. ServedConns' = ServedConns \cup {c}
      BY <1>1, <1>2, <2>2, <2>3, <2>4, <2>5
    <3>2. c \notin ServedConns
      BY <1>1, <2>3
    <3>3. last[c] = Idle /\ got[c] = Idle
      BY <2>1 DEF Quiet
    <3>4. last' = [last EXCEPT ![c] = Pred(frame)] /\ got' = [got EXCEPT ![c] = Pred(frame)]
      BY <1>7, <2>1, <2>5 DEF HandleAccept
    <3>5. Stream!Join(c)
      BY <2>4, <3>1, <3>2, <3>3, <3>4
      DEF ServedConns, Stream!Join, Stream!Idle, Stream!Pred, Idle, Pred
    <3> QED
      BY <3>5 DEF Stream!Next
  <2>6. CASE c \notin open
    <3>1. ServedConns' = ServedConns
      BY <1>1, <1>2, <2>2, <2>3, <2>4, <2>6
    <3>2. UNCHANGED <<frame, last, got>>
      BY <1>7, <2>1, <2>6 DEF HandleAccept
    <3> QED
      BY <1>3, <3>1, <3>2
  <2> QED
    BY <2>5, <2>6
<1>8. CASE Down
  <2>1. ServedConns' = {}
    BY <1>8 DEF Down, ServedConns, Served
  <2>2. Stream!Stop
    BY <1>8, <2>1 DEF Down, Stream!Stop, ServedConns
  <2> QED
    BY <2>2 DEF Stream!Next
<1>9. ASSUME NEW fd \in Fds, HandleHangup(fd)
      PROVE  [Stream!Next]_(Stream!vars)
  <2>1. fd \in listeners /\ sockOf[fd] \notin open
    BY <1>9, ServerFdApart DEF HandleHangup, EventsStayTrue, DescriptorsAgree, TypeOK, HungUp
  <2>2. /\ listeners' = listeners \ {fd}
        /\ \A g \in listeners' : sockOf'[g] = sockOf[g]
        /\ UNCHANGED <<open, frame, last, got>>
    BY <1>9 DEF HandleHangup, TypeOK, history
  <2>3. ServedConns' = ServedConns
    BY <1>1, <1>2, <2>1, <2>2
  <2> QED
    BY <1>3, <2>2, <2>3
<1>10. ASSUME NEW fd \in Fds, Send(fd)
       PROVE  [Stream!Next]_(Stream!vars)
  <2> DEFINE c == sockOf[fd]
  <2>1. /\ c \in Conns /\ fd \in Served /\ fd \in unsent /\ pc = "send"
        /\ Len(buf[c]) < SndBuf
        /\ last' = [last EXCEPT ![c] = frame]
        /\ UNCHANGED <<frame, got, listeners, open, sockOf>>
    BY <1>10 DEF Send, TypeOK, Phases, Served
  <2>2. ServedConns' = ServedConns
    BY <2>1 DEF ServedConns, Served
  <2>3. c \in ServedConns /\ last[c] = Pred(frame)
    BY <2>1 DEF ServedConns, LockStep
  <2>4. Stream!Behind(last[c], got[c]) < SndBuf
    BY <2>1 DEF Counted
  <2> HIDE DEF c
  <2>5. Stream!Send(c)
    BY <2>1, <2>2, <2>3, <2>4 DEF ServedConns, Stream!Send, Stream!Pred, Pred
  <2> QED
    BY <2>1, <2>5 DEF Stream!Next
<1>11. ASSUME NEW c \in Conns, Connect(c)
       PROVE  [Stream!Next]_(Stream!vars)
  <2>1. /\ open' = open \cup {c} /\ \A fd \in Fds : sockOf[fd] # c
        /\ UNCHANGED <<frame, last, got, listeners, sockOf>>
    BY <1>11 DEF Connect, Unused, Accepted, server
  <2>2. ServedConns' = ServedConns
    BY <1>1, <1>2, <2>1 DEF TypeOK
  <2> QED
    BY <1>3, <2>1, <2>2
<1>12. ASSUME NEW c \in Conns, Recv(c)
       PROVE  [Stream!Next]_(Stream!vars)
  <2>1. /\ c \in open /\ buf[c] # <<>>
        /\ got' = [got EXCEPT ![c] = Head(buf[c])]
        /\ UNCHANGED <<frame, last, open, listeners, sockOf>>
    BY <1>12 DEF Recv, server
  <2>2. ServedConns' = ServedConns
    BY <2>1 DEF ServedConns, Served
  <2>3. Head(buf[c]) = Succ(got[c])
    BY <2>1 DEF StreamIntact
  <2>4. got[c] # last[c]
    <3>1. Len(buf[c]) # 0 /\ Len(buf[c]) = Stream!Behind(last[c], got[c])
      BY <2>1, EmptySeq DEF Counted, TypeOK
    <3>2. last[c] \in Frames /\ got[c] \in Frames
      BY DEF TypeOK
    <3> QED
      BY <3>1, <3>2, BehindFacts
  <2>5. Stream!Receive(c)
    BY <2>1, <2>2, <2>3, <2>4 DEF ServedConns, Stream!Receive, Stream!Succ, Succ
  <2> QED
    BY <2>5 DEF Stream!Next
<1>13. ASSUME NEW c \in Conns, Close(c)
       PROVE  [Stream!Next]_(Stream!vars)
  <2>1. /\ open' = open \ {c}
        /\ last' = [last EXCEPT ![c] = Idle] /\ got' = [got EXCEPT ![c] = Idle]
        /\ UNCHANGED <<frame, listeners, sockOf>>
    BY <1>13 DEF Close, server
  <2>2. ServedConns' = ServedConns \ {c}
    BY <1>1, <1>2, <2>1
  <2>3. Stream!Leave(c)
    BY <2>1, <2>2 DEF ServedConns, Stream!Leave, Stream!Idle, Idle
  <2> QED
    BY <2>3 DEF Stream!Next
<1>14. CASE UNCHANGED vars
  BY <1>3, <1>14 DEF vars, kernel, server, history, ServedConns, Served
<1>15. CASE HandleAcceptFail \/ Kill \/ \E fd \in Fds : SendBroken(fd)
  BY <1>8, <1>15 DEF HandleAcceptFail, AfterExit, Kill, SendBroken
<1> QED
  BY <1>4, <1>5, <1>6, <1>7, <1>9, <1>10, <1>11, <1>12, <1>13, <1>14, <1>15
  DEF Next, ServerStep, ClientStep

\* The stream has no more than the server's initial states.
LEMMA StreamInit == Init => Stream!Init
  BY DEF Init, Stream!Init, Stream!Idle, Idle, Served

\* The broadcast server implements the abstract stream: every client it serves
\* gets every frame, in order, in lock step with the others.
THEOREM Refinement == Spec => StreamSpec
<1>1. Init => IInv /\ Counted
  BY IInvInit, CountedInit
<1>2. IInv /\ Counted /\ [Next]_vars => IInv' /\ Counted'
  BY IInvStep, CountedStep
<1>3. IInv /\ IInv' /\ Counted /\ [Next]_vars => [Stream!Next]_(Stream!vars)
  BY StreamStep
<1> QED
  BY <1>1, <1>2, <1>3, StreamInit, PTL DEF Spec, StreamSpec, Stream!Spec
=============================================================================
