------------------------------ MODULE TunnelMux ------------------------------
(***************************************************************************)
(* guestd/tunnel.py: TCP streams over one byte pipe.  The guest listens    *)
(* and opens streams, the host dials for them; after that both ends move   *)
(* data alike, each against a window that the other refills as it writes.  *)
(*                                                                         *)
(* The unit of data is a chunk.  A frame enters the writer's buffer at     *)
(* once; its sender holds the write lock until the buffer has drained, so  *)
(* the next frame waits while more than PipeRoom frames are unread.        *)
(***************************************************************************)
EXTENDS Integers, Sequences, FiniteSets, SequencesExt

CONSTANTS
  StreamCount,\* bound: streams the guest may open
  Slow,       \* the streams whose local sockets may stop taking data
  Chunks,     \* per end and stream: chunks its local socket has to send
  Window,     \* WINDOW_BYTES, in chunks
  Limits,     \* what max_streams may be
  PipeRoom    \* frames the pipe takes before drain waits

TunnelEnds == {"guest", "host"}
Sids == 1..StreamCount

ASSUME TunnelAssumption ==
  /\ StreamCount \in Nat
  /\ Slow \subseteq Sids
  /\ Chunks \in [TunnelEnds -> [Sids -> Nat]]
  /\ Window \in Nat \ {0} /\ Limits \subseteq Nat \ {0} /\ PipeRoom \in Nat

VARIABLES
  limit,   \* _max_streams
  link,    \* per end: the frames it sent that the other has not read
  streams, \* per end and stream: its _Stream and the bridge to its socket
  broken,  \* the pipe has ended
  ended    \* the ends whose run() has returned

muxVars == <<limit, link, streams, broken, ended>>

Peer(e)      == IF e = "guest" THEN "host" ELSE "guest"
Unused       == [phase |-> "none", up |-> TRUE, down |-> TRUE, window |-> Window,
                 inbox |-> <<>>, writing |-> 0, sent |-> 0, written |-> 0]
Phase(e, s)  == streams[e][s].phase
Registered(e) == {s \in Sids : Phase(e, s) \in {"opening", "dialing", "bridged", "closing"}}
Bridged(e)    == {s \in Sids : Phase(e, s) = "bridged"}

MuxInit ==
  /\ limit \in Limits
  /\ link = [e \in TunnelEnds |-> <<>>]
  /\ streams = [e \in TunnelEnds |-> [s \in Sids |-> Unused]]
  /\ broken = FALSE /\ ended = {}

(* Mutant: the writer waits for window with the lock in its hand. *)
LockFreeOfWindows(e) ==
  /\ Len(link[e]) <= PipeRoom /\ ~broken
  /\ \A s \in Bridged(e) : streams[e][s].window > 0

(* Mux.send: one frame at a time, and none after the pipe ended. *)
LockFree(e) == Len(link[e]) <= PipeRoom /\ ~broken

Frame(kind, s, n) == [kind |-> kind, sid |-> s, n |-> n]
Send(e, f)        == LockFree(e) /\ link' = [link EXCEPT ![e] = Append(@, f)]
Stream(e, s, r)   == streams' = [streams EXCEPT ![e][s] = r]

(* _abort stops both copies and has CLOSE to send; _finish forgets the      *)
(* stream.                                                                  *)
Closing    == [Unused EXCEPT !.phase = "closing"]
Aborted    == [Unused EXCEPT !.phase = "aborted"]
Finished(r) == [r EXCEPT !.phase = "clean", !.window = Window, !.inbox = <<>>]

(* Mutant: the bridge ends with the first of its two directions. *)
FirstCompleted(r) == IF ~r.up \/ ~r.down THEN Finished(r) ELSE r

(* _bridge waits for both directions, unless one of them fails. *)
Settled(r) == IF ~r.up /\ ~r.down THEN Finished(r) ELSE r

-----------------------------------------------------------------------------
(* Streams begin: a local connection, OPEN, and the dial at the other end.  *)

Accepted ==
  /\ "guest" \notin ended
  /\ \E s \in Sids :
       /\ Phase("guest", s) = "none" /\ \A t \in 1..(s - 1) : Phase("guest", t) # "none"
       /\ Stream("guest", s, [Unused EXCEPT !.phase =
            IF Cardinality(Registered("guest")) >= limit THEN "aborted" ELSE "opening"])
  /\ UNCHANGED <<limit, link, broken, ended>>

SendOpen(s) ==
  /\ Phase("guest", s) = "opening"
  /\ Send("guest", Frame("OPEN", s, 0))
  /\ Stream("guest", s, [streams["guest"][s] EXCEPT !.phase = "bridged"])
  /\ UNCHANGED <<limit, broken, ended>>

(* The dial succeeds, or fails and the stream is aborted. *)
Dial(s) ==
  /\ Phase("host", s) = "dialing"
  /\ \E r \in {[streams["host"][s] EXCEPT !.phase = "bridged"], Closing} :
       Stream("host", s, r)
  /\ UNCHANGED <<limit, link, broken, ended>>

-----------------------------------------------------------------------------
(* _upstream: the local socket to the pipe.                                 *)

SendChunk(e, s) ==
  LET r == streams[e][s]
  IN  /\ s \in Bridged(e) /\ r.up /\ r.sent < Chunks[e][s] /\ r.window > 0
      /\ Send(e, Frame("DATA", s, r.sent + 1))
      /\ Stream(e, s, [r EXCEPT !.sent = @ + 1, !.window = @ - 1])
      /\ UNCHANGED <<limit, broken, ended>>

SendEof(e, s) ==
  /\ s \in Bridged(e) /\ streams[e][s].up /\ streams[e][s].sent = Chunks[e][s]
  /\ Send(e, Frame("EOF", s, 0))
  /\ Stream(e, s, Settled([streams[e][s] EXCEPT !.up = FALSE]))
  /\ UNCHANGED <<limit, broken, ended>>

(* _downstream: the pipe to the local socket. *)
TakeChunk(e, s) ==
  LET r == streams[e][s]
  IN  /\ s \in Bridged(e) /\ r.down /\ r.writing = 0 /\ r.inbox # <<>>
      /\ Stream(e, s, IF Head(r.inbox) = 0
                        THEN Settled([r EXCEPT !.down = FALSE])
                        ELSE [r EXCEPT !.writing = Head(r.inbox), !.inbox = Tail(@)])
      /\ UNCHANGED <<limit, link, broken, ended>>

(* Mutant: the credit of one chunk overtakes the writing of it. *)
ReturnTwice(e, s) == Send(e, Frame("CREDIT", s, 2))

ReturnWindow(e, s) == Send(e, Frame("CREDIT", s, 1))

WriteChunk(e, s) ==
  LET r == streams[e][s]
  IN  /\ s \in Bridged(e) /\ r.writing > 0
      /\ ReturnWindow(e, s)
      /\ Stream(e, s, [r EXCEPT !.writing = 0, !.written = @ + 1])
      /\ UNCHANGED <<limit, broken, ended>>

(* The local socket fails under either direction: both stop, CLOSE follows. *)
SocketFails(e, s) ==
  /\ s \in Bridged(e)
  /\ Stream(e, s, Closing)
  /\ UNCHANGED <<limit, link, broken, ended>>

SendClose(e, s) ==
  /\ Phase(e, s) \in {"closing", "refusing"}
  /\ Send(e, Frame("CLOSE", s, 0))
  /\ Stream(e, s, Aborted)
  /\ UNCHANGED <<limit, broken, ended>>

-----------------------------------------------------------------------------
(* run and _dispatch.  A frame for a stream that already finished is        *)
(* dropped; nothing here waits, so the pipe is always read.                 *)

Received(e, f) ==
  LET r    == streams[e][f.sid]
      full == Cardinality(Registered(e)) >= limit
  IN  IF f.kind = "OPEN" THEN [r EXCEPT !.phase = IF full THEN "refusing" ELSE "dialing"]
      ELSE IF \/ f.sid \notin Registered(e)
              \/ f.kind # "CLOSE" /\ r.phase = "closing" THEN r
      ELSE CASE f.kind = "CLOSE"  -> Aborted
             [] f.kind = "DATA"   -> IF Len(r.inbox) + 1 > 2 * Window
                                       THEN Closing
                                       ELSE [r EXCEPT !.inbox = Append(@, f.n)]
             [] f.kind = "EOF"    -> [r EXCEPT !.inbox = Append(@, 0)]
             [] f.kind = "CREDIT" -> [r EXCEPT !.window = @ + f.n]

DispatchFrame(e) ==
  /\ e \notin ended /\ link[Peer(e)] # <<>>
  /\ LET f == Head(link[Peer(e)]) IN Stream(e, f.sid, Received(e, f))
  /\ link' = [link EXCEPT ![Peer(e)] = Tail(@)]
  /\ UNCHANGED <<limit, broken, ended>>

PipeBreaks == ~broken /\ broken' = TRUE /\ UNCHANGED <<limit, link, streams, ended>>

(* The end of the pipe is read: every stream is aborted and finished. *)
EndRun(e) ==
  /\ broken /\ e \notin ended
  /\ ended' = ended \cup {e}
  /\ streams' = [streams EXCEPT ![e] = [s \in Sids |->
       IF s \in Registered(e) THEN Aborted ELSE streams[e][s]]]
  /\ link' = [link EXCEPT ![Peer(e)] = <<>>]
  /\ UNCHANGED <<limit, broken>>

-----------------------------------------------------------------------------
Copies(e, s)  == SendChunk(e, s) \/ SendEof(e, s) \/ TakeChunk(e, s) \/ WriteChunk(e, s)
                   \/ SendClose(e, s)
Moves(s)      == SendOpen(s) \/ Dial(s) \/ \E e \in TunnelEnds : Copies(e, s)
Reads         == \E e \in TunnelEnds : DispatchFrame(e) \/ EndRun(e)
Fails         == PipeBreaks \/ \E e \in TunnelEnds, s \in Sids : SocketFails(e, s)

MuxNext == Accepted \/ Fails \/ Reads \/ \E s \in Sids : Moves(s)

-----------------------------------------------------------------------------
InFlight(e, kind, s) == {i \in 1..Len(link[e]) : link[e][i].kind = kind /\ link[e][i].sid = s}
SumOf(e, frames)     == FoldSet(LAMBDA i, n : link[e][i].n + n, 0, frames)
Queued(r)            == Cardinality({i \in 1..Len(r.inbox) : r.inbox[i] # 0})

(* Of a stream both ends still hold, the window is never lost and never
   granted twice: what the sender may still send, what is in the pipe, what
   the receiver has queued or is writing, and the credit on its way back make
   one window.  So the receiver's own limit never cuts off a peer that keeps to
   its window, through every opening, half close, abort and refusal. *)
WindowIsConserved ==
  \A e \in TunnelEnds : \A s \in Bridged(e) :
    LET r == streams[Peer(e)][s]
    IN  r.phase \in {"dialing", "bridged"} =>
          streams[e][s].window + Cardinality(InFlight(e, "DATA", s)) + Queued(r)
            + (IF r.writing > 0 THEN 1 ELSE 0) + SumOf(Peer(e), InFlight(Peer(e), "CREDIT", s))
          = Window

(* What a local socket was given is a prefix, in order, of what the other one
   sent, and an end that finished its stream without an abort had given it
   everything: a half-closed client still receives its whole answer. *)
DeliveryIsWhole ==
  \A e \in TunnelEnds, s \in Sids :
    LET r == streams[e][s]
    IN  /\ r.writing > 0 => r.writing = r.written + 1
        /\ Phase(e, s) = "clean" => r.written = Chunks[Peer(e)][s] /\ r.sent = Chunks[e][s]

(* What that rests on.  The chunks of a stream, and its half close after    *)
(* them, have places 1, 2, ...; an end has taken some of them, and the next *)
(* ones come to it in their order.                                          *)
FrameKinds == {"OPEN", "DATA", "EOF", "CREDIT", "CLOSE"}
Frames     == [kind : FrameKinds, sid : Sids, n : Nat]
Phases     == {"none", "opening", "dialing", "bridged", "closing", "refusing", "aborted", "clean"}
MuxStreams == [phase : Phases, up : BOOLEAN, down : BOOLEAN, window : Int, inbox : Seq(Nat),
               writing : Nat, sent : Nat, written : Nat]

MuxTypeOK ==
  /\ limit \in Limits
  /\ link \in [TunnelEnds -> Seq(Frames)]
  /\ streams \in [TunnelEnds -> [Sids -> MuxStreams]]
  /\ broken \in BOOLEAN /\ ended \subseteq TunnelEnds

Carries(f, s)  == f.sid = s /\ f.kind \in {"DATA", "EOF"}
Place(e, f)    == IF f.kind = "EOF" THEN Chunks[e][f.sid] + 1 ELSE f.n
InHand(r)      == r.written + (IF r.writing > 0 THEN 1 ELSE 0)
Taken(r)       == InHand(r) + Len(r.inbox)
Carrying(q, s) == {i \in 1 .. Len(q) : Carries(q[i], s)}

HavePlaces(e, q) == \A i \in 1 .. Len(q) : q[i].kind = "DATA" => q[i].n \in 1 .. Chunks[e][q[i].sid]

(* One end of a stream, whatever the other does. *)
InItsOrder(e, s, r) ==
  /\ r.sent <= Chunks[e][s]
  /\ r.writing > 0 => r.writing = r.written + 1
  /\ \A k \in 1 .. Len(r.inbox) :
       IF r.inbox[k] = 0 THEN InHand(r) + k = Chunks[Peer(e)][s] + 1
                         ELSE r.inbox[k] = InHand(r) + k
  /\ r.phase # "bridged" => r.writing = 0
  /\ r.phase \in {"none", "opening", "dialing"} => r.up /\ r.down /\ r.sent = 0 /\ r.written = 0
  /\ r.phase = "none" => r.inbox = <<>>
  /\ r.phase = "bridged" /\ ~r.down => r.written = Chunks[Peer(e)][s] /\ r.writing = 0
  /\ r.phase = "bridged" /\ ~r.up => r.sent = Chunks[e][s]
  /\ r.phase = "clean" => r.written = Chunks[Peer(e)][s] /\ r.sent = Chunks[e][s]

(* What is on its way to an end that takes it: the next places, each once   *)
(* and in their order, up to what the other has sent.                       *)
InSequence(e, q, s, t) ==
  \A i \in Carrying(q, s) :
    /\ Place(e, q[i]) > t
    /\ \A m \in t + 1 .. Place(e, q[i]) - 1 :
         \E j \in Carrying(q, s) : j < i /\ Place(e, q[j]) = m
    /\ \A j \in Carrying(q, s) : j < i => Place(e, q[j]) < Place(e, q[i])

ReachesTo(e, q, s, t, n) ==
  /\ t <= n
  /\ \A i \in Carrying(q, s) : Place(e, q[i]) <= n
  /\ \A m \in t + 1 .. n : \E i \in Carrying(q, s) : Place(e, q[i]) = m

MaySend        == {"dialing", "bridged", "closing", "refusing"}
Early          == {"none", "opening", "dialing", "bridged"}
Accepts(e, s)  == e \notin ended /\ Phase(e, s) \in Early
Feeds(e, s)    == Phase(e, s) \in Early /\ streams[e][s].up

ComesInOrder(e, s) ==
  LET p == Peer(e)
      t == Taken(streams[e][s])
  IN  Accepts(e, s) =>
        /\ InSequence(p, link[p], s, t)
        /\ Feeds(p, s) => ReachesTo(p, link[p], s, t, streams[p][s].sent)

(* The first frame of a stream opens it, once. *)
Opens(q, s)      == {i \in 1 .. Len(q) : q[i].kind = "OPEN" /\ q[i].sid = s}
OpensOnce(q, s)  == \A i, j \in Opens(q, s) : i = j
OpensAhead(q, s) == \A i \in 1 .. Len(q) : q[i].sid = s => \E j \in Opens(q, s) : j <= i
Silent(q, s)     == \A i \in 1 .. Len(q) : q[i].sid # s

OpensFirst(s) ==
  /\ Opens(link["host"], s) = {}
  /\ OpensOnce(link["guest"], s)
  /\ Opens(link["guest"], s) # {} => Phase("host", s) = "none"
  /\ Phase("host", s) = "none" =>
       Silent(link["host"], s) /\ ("host" \notin ended => OpensAhead(link["guest"], s))
  /\ Phase("guest", s) \in {"none", "opening"} =>
       Phase("host", s) = "none" /\ Silent(link["guest"], s)
  /\ Phase("guest", s) \in MaySend /\ Phase("host", s) = "none" /\ "host" \notin ended =>
       Opens(link["guest"], s) # {}

MuxInvariant ==
  /\ MuxTypeOK
  /\ \A e \in TunnelEnds : HavePlaces(e, link[e])
  /\ \A s \in Sids : OpensFirst(s)
  /\ \A e \in TunnelEnds, s \in Sids : InItsOrder(e, s, streams[e][s]) /\ ComesInOrder(e, s)

(* A stream whose sockets keep moving ends at both ends, and neither a stream
   nobody reads, nor a refused one, nor a full pipe keeps it waiting. *)
NobodyWaitsForASlowStream ==
  \A s \in Sids \ Slow :
    s \in Registered("guest") ~> s \notin Registered("guest") \cup Registered("host")
=============================================================================
