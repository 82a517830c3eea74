--------------------------- MODULE TelemetryStream ---------------------------
(***************************************************************************)
(* What the ADIRU's broadcast promises to the clients it serves, with no   *)
(* socket, event loop or buffer in sight: one stream of frames, published  *)
(* one at a time.  A served client gets every frame from the one being     *)
(* published when it joined, in order, without a gap or a repetition, and  *)
(* no client is served a frame before all have been served the one before. *)
(* BroadcastServer implements this specification.                          *)
(***************************************************************************)
EXTENDS Naturals

CONSTANTS
  Conns,     \* connections
  SndBuf,    \* frames a connection holds between the sender and the receiver
  MaxFrame   \* frames are named 1 .. MaxFrame, cyclically; more than SndBuf + 1

VARIABLES
  now,       \* the frame published last
  served,    \* the connections the sender serves
  sent,      \* for each connection the last frame sent on it
  got        \* for each connection the last frame received from it

vars == <<now, served, sent, got>>

Frames == 1 .. MaxFrame
Succ(f) == IF f = MaxFrame THEN 1 ELSE f + 1
Pred(f) == IF f = 1 THEN MaxFrame ELSE f - 1

\* How many frames lie between g (received) and s (sent).
Behind(s, g) == IF s >= g THEN s - g ELSE s + MaxFrame - g

\* The value of sent and got while a connection carries nothing.
Idle == MaxFrame

Init == /\ now = 1
        /\ served = {}
        /\ sent = [c \in Conns |-> Idle]
        /\ got = [c \in Conns |-> Idle]

\* A connection that carries nothing joins: the first frame due to it is the
\* one being published.
Join(c) == /\ c \notin served
           /\ sent[c] = Idle /\ got[c] = Idle
           /\ served' = served \cup {c}
           /\ sent' = [sent EXCEPT ![c] = Pred(now)]
           /\ got' = [got EXCEPT ![c] = Pred(now)]
           /\ UNCHANGED now

\* The next frame is published once everybody has been sent this one.
Publish == /\ \A c \in served : sent[c] = now
           /\ now' = Succ(now)
           /\ UNCHANGED <<served, sent, got>>

\* A client with room for it is sent the frame being published.
Send(c) == /\ c \in served
           /\ sent[c] = Pred(now)
           /\ Behind(sent[c], got[c]) < SndBuf
           /\ sent' = [sent EXCEPT ![c] = now]
           /\ UNCHANGED <<now, served, got>>

\* A client receives the frame after the one it received last.
Receive(c) == /\ got[c] # sent[c]
              /\ got' = [got EXCEPT ![c] = Succ(got[c])]
              /\ UNCHANGED <<now, served, sent>>

\* A client leaves; what was under way to it is discarded.
Leave(c) == /\ served' = served \ {c}
            /\ sent' = [sent EXCEPT ![c] = Idle]
            /\ got' = [got EXCEPT ![c] = Idle]
            /\ UNCHANGED now

\* The sender stops; what it has sent can still be received.
Stop == /\ served' = {}
        /\ UNCHANGED <<now, sent, got>>

Next == \/ Publish
        \/ Stop
        \/ \E c \in Conns : Join(c) \/ Send(c) \/ Receive(c) \/ Leave(c)

Spec == Init /\ [][Next]_vars
=============================================================================
