---------------------------- MODULE GuestChannel ----------------------------
(***************************************************************************)
(* One session between GuestClient (transport.py) and serve_stream         *)
(* (guestd/main.py): requests and body blocks one way, events and replies  *)
(* the other.  GuestClient's lock admits one call at a time, but a caller  *)
(* may be cancelled, or its wait expire, at any await; the guest, which    *)
(* runs one operation at a time, hears nothing of it.                      *)
(*                                                                         *)
(* The two directions lose and reorder nothing.  A line, or a block of a   *)
(* file, is one token that names the call it was sent for; a block has no  *)
(* name on the wire, and the guest never looks at it.                      *)
(***************************************************************************)
EXTENDS Integers, Sequences

CONSTANTS
  MaxCall,      \* bound: calls made on the session
  Ops,          \* the operations called: "plain", "tree" (an upload),
                \* "read", "exec", "timed_exec"
  MaxEvent,     \* bound: events one operation emits
  Files, Size,  \* an uploaded tree: its files and the blocks of each
  Acknowledged  \* acknowledge_exec_output

ASSUME ChannelAssumption ==
  /\ MaxCall \in Nat /\ MaxEvent \in Nat /\ Files \in Nat /\ Size \in Nat
  /\ Ops \subseteq {"plain", "tree", "read", "exec", "timed_exec"}
  /\ Acknowledged \in BOOLEAN

VARIABLES
  caller,   \* the call that holds the client's lock
  wire,     \* host to guest, not yet read
  buffer,   \* read by the guest's BufferedReader, not yet used
  replies,  \* guest to host
  guest,    \* what serve_stream is doing
  lastAck,  \* last_acknowledged_exec
  settled   \* per call: how it ended for its caller

channelVars == <<caller, wire, buffer, replies, guest, lastAck, settled>>

CallIds    == 1..MaxCall
Idle       == [id |-> 0, op |-> "none", sent |-> 0, bad |-> FALSE, seen |-> 0,
               sink |-> TRUE, at |-> "idle"]
NoRequest  == [at |-> "serve", id |-> 0, op |-> "none", need |-> 0, failed |-> FALSE,
               files |-> 0, whole |-> TRUE, seq |-> 0, awaiting |-> FALSE]
Unsettled  == [how |-> "none", op |-> "none", seen |-> 0, reply |-> <<>>]
Streams    == {"read", "exec", "timed_exec"}
Acked(op)  == Acknowledged /\ op \in {"exec", "timed_exec"}
CallsMade  == {c \in CallIds : settled[c].op # "none"}
Token(i, kind)     == [id |-> i, kind |-> kind, seq |-> 0]
Ack(i, n)          == [id |-> i, kind |-> "ack", seq |-> n]
Reply(kind)        == [id |-> guest.id, kind |-> kind, seq |-> guest.seq,
                       whole |-> guest.whole, files |-> guest.files]
Refusal(i)         == [id |-> i, kind |-> "err", seq |-> 0, whole |-> TRUE, files |-> 0]

ChannelInit ==
  /\ caller = Idle /\ wire = <<>> /\ buffer = <<>> /\ replies = <<>>
  /\ guest = NoRequest /\ lastAck = 0
  /\ settled = [c \in CallIds |-> Unsettled]

-----------------------------------------------------------------------------
(* The host: GuestClient.call.                                              *)

SettleCall(how, reply) ==
  /\ settled' = [settled EXCEPT ![caller.id] =
                  [@ EXCEPT !.how = how, !.seen = caller.seen, !.reply = reply]]
  /\ caller' = Idle

Call(op) ==
  LET c == 1 + (IF CallsMade = {} THEN 0 ELSE CHOOSE m \in CallsMade : \A n \in CallsMade : n <= m)
  IN  /\ caller = Idle /\ c \in CallIds
      /\ wire' = Append(wire, Token(c, op))
      /\ caller' = [Idle EXCEPT !.id = c, !.op = op,
                                !.at = IF op = "tree" THEN "sending" ELSE "receiving"]
      /\ settled' = [settled EXCEPT ![c].op = op]
      /\ UNCHANGED <<buffer, replies, guest, lastAck>>

(* _TreeBody: the p-th thing a tree's body sends.  A local failure pads the *)
(* current file to its announced size and aborts the body.                  *)
BodyToken(p, bad) ==
  LET boundary == (p - 1) % (Size + 1) = 0
  IN  IF bad THEN IF boundary THEN "abort" ELSE "pad"
      ELSE IF p = Files * (Size + 1) + 1 THEN "end"
      ELSE IF boundary THEN "file" ELSE "block"

(* The blocks are written as the worker thread yields them. *)
SendBody ==
  /\ caller.at = "sending"
  /\ \E bad \in {caller.bad, caller.bad \/ caller.sent < Files * (Size + 1)} :
       LET kind == BodyToken(caller.sent + 1, bad)
       IN  /\ wire' = Append(wire, Token(caller.id, kind))
           /\ caller' = [caller EXCEPT !.sent = @ + 1, !.bad = bad,
                            !.at = IF kind \in {"end", "abort"} THEN "receiving" ELSE @]
  /\ UNCHANGED <<buffer, replies, guest, lastAck, settled>>

(* The caller is cancelled, or wait_for(recv) expires: nobody tells the guest. *)
Abandon ==
  /\ caller # Idle
  /\ SettleCall("abandoned", <<>>)
  /\ UNCHANGED <<wire, buffer, replies, guest, lastAck>>

(* Mutant: a reply is taken for the call that waits, whoever it is for. *)
AnyReply(m) == TRUE

AnswersMe(m) == m.id = caller.id

SkipStale ==
  /\ caller.at = "receiving" /\ replies # <<>> /\ ~AnswersMe(Head(replies))
  /\ replies' = Tail(replies)
  /\ UNCHANGED <<caller, wire, buffer, guest, lastAck, settled>>

(* Mutant: an event the sink failed on is not acknowledged. *)
AcknowledgeConsumed(n, ok) ==
  wire' = IF Acked(caller.op) /\ ok THEN Append(wire, Ack(caller.id, n)) ELSE wire

(* The event is acknowledged whether or not the sink could take it. *)
Acknowledge(n, ok) ==
  wire' = IF Acked(caller.op) THEN Append(wire, Ack(caller.id, n)) ELSE wire

TakeEvent ==
  /\ caller.at = "receiving" /\ replies # <<>>
  /\ LET m == Head(replies)
     IN  /\ AnswersMe(m) /\ m.kind = "event"
         /\ Acked(caller.op) => m.seq = caller.seen + 1
         /\ \E ok \in {FALSE, caller.sink} :
              /\ caller' = [caller EXCEPT !.seen = @ + 1, !.sink = ok]
              /\ Acknowledge(m.seq, ok)
  /\ replies' = Tail(replies)
  /\ UNCHANGED <<buffer, guest, lastAck, settled>>

(* A gap in the sequence: "guest output acknowledgement sequence is invalid". *)
GapInOutput ==
  /\ caller.at = "receiving" /\ replies # <<>> /\ Acked(caller.op)
  /\ AnswersMe(Head(replies)) /\ Head(replies).kind = "event"
  /\ Head(replies).seq # caller.seen + 1
  /\ SettleCall("unreachable", <<>>)
  /\ replies' = Tail(replies)
  /\ UNCHANGED <<wire, buffer, guest, lastAck>>

TakeReply ==
  /\ caller.at = "receiving" /\ replies # <<>>
  /\ AnswersMe(Head(replies)) /\ Head(replies).kind # "event"
  /\ SettleCall(IF Head(replies).kind = "err" THEN "failed"
                ELSE IF caller.sink THEN "ok" ELSE "sink_failed", <<Head(replies)>>)
  /\ replies' = Tail(replies)
  /\ UNCHANGED <<wire, buffer, guest, lastAck>>

(* recv reads end of file; so does a write to a pipe nobody reads. *)
Unreachable ==
  /\ caller # Idle /\ guest.at = "ended"
  /\ caller.at = "receiving" => replies = <<>>
  /\ SettleCall("unreachable", <<>>)
  /\ UNCHANGED <<wire, buffer, replies, guest, lastAck>>

-----------------------------------------------------------------------------
(* The guest: serve_stream and the operations it dispatches.                *)

Return(m) == replies' = Append(replies, m) /\ guest' = NoRequest

(* _Desync: the rest of the stream cannot be framed, so the session ends. *)
Desync == /\ replies' = Append(replies, Reply("err"))
          /\ guest' = [guest EXCEPT !.at = "ended"]

(* readline fills the buffer with whatever has arrived. *)
Fill ==
  /\ guest.at \in {"serve", "tree"} /\ buffer = <<>> /\ wire # <<>>
  /\ \E n \in 1..Len(wire) : /\ buffer' = SubSeq(wire, 1, n)
                             /\ wire' = SubSeq(wire, n + 1, Len(wire))
  /\ UNCHANGED <<caller, replies, guest, lastAck, settled>>

(* The operations without a body or events: one reply each. *)
AnswerPlain(t) ==
  /\ \E kind \in {"ok", "err"} :
       replies' = Append(replies, [Refusal(t.id) EXCEPT !.kind = kind])
  /\ UNCHANGED <<guest, lastAck>>

Begun(t) == [NoRequest EXCEPT !.id = t.id, !.op = t.kind]

(* A tree that cannot be written is drained, not refused. *)
StartTree(t) ==
  /\ \E refused \in BOOLEAN :
       guest' = [Begun(t) EXCEPT !.at = "tree", !.failed = refused]
  /\ UNCHANGED <<replies, lastAck>>

StartStream(t) ==
  /\ lastAck' = IF Acked(t.kind) THEN t.id ELSE lastAck
  /\ \/ guest' = [Begun(t) EXCEPT !.at = "output"] /\ UNCHANGED replies
     \/ replies' = Append(replies, Refusal(t.id)) /\ UNCHANGED guest

(* serve_stream: one request line; the late acknowledgement of a command    *)
(* that ended at its deadline is dropped, anything else is refused.         *)
Dispatch ==
  /\ guest.at = "serve" /\ buffer # <<>>
  /\ LET t == Head(buffer)
     IN  CASE t.kind = "plain"                    -> AnswerPlain(t)
           [] t.kind = "tree"                     -> StartTree(t)
           [] t.kind \in Streams                  -> StartStream(t)
           [] t.kind = "ack" /\ t.id = lastAck    -> UNCHANGED <<replies, guest, lastAck>>
           [] OTHER -> /\ replies' = Append(replies, Refusal(t.id))
                       /\ UNCHANGED <<guest, lastAck>>
  /\ buffer' = Tail(buffer)
  /\ UNCHANGED <<caller, wire, settled>>

(* Mutant: a frame is taken whatever request it names. *)
AnyFrame(t) == t.kind \in {"file", "end", "abort"}

(* _frame: a line of this request's body, or the framing is lost. *)
IsFrame(t) == t.id = guest.id /\ t.kind \in {"file", "end", "abort"}

(* A file may fail to be written; its bytes are drained all the same. *)
ReadFrame ==
  /\ guest.at = "tree" /\ guest.need = 0 /\ buffer # <<>>
  /\ LET t == Head(buffer)
     IN  CASE IsFrame(t) /\ t.kind = "file" ->
                /\ \E bad \in {guest.failed, TRUE} :
                     guest' = [guest EXCEPT !.need = Size, !.failed = bad, !.files = @ + 1]
                /\ UNCHANGED replies
           [] IsFrame(t) /\ t.kind = "end" ->
                Return(Reply(IF guest.failed THEN "err" ELSE "ok"))
           [] IsFrame(t) /\ t.kind = "abort" -> Return(Reply("err"))
           [] OTHER -> Desync
  /\ buffer' = Tail(buffer)
  /\ UNCHANGED <<caller, wire, lastAck, settled>>

(* _copy takes the announced number of bytes, whatever they are.  A line in *)
(* their place may be shorter than what is missing, or just as long, or     *)
(* longer, and then its tail is no frame.                                   *)
ReadBlock ==
  /\ guest.at = "tree" /\ guest.need > 0 /\ buffer # <<>>
  /\ LET t == Head(buffer)
     IN  IF t.kind \in {"block", "pad"}
           THEN /\ guest' = [guest EXCEPT !.need = @ - 1,
                                !.whole = @ /\ t.kind = "block" /\ t.id = guest.id]
                /\ UNCHANGED replies
           ELSE \/ /\ \E n \in {0, guest.need} :
                        guest' = [guest EXCEPT !.need = n, !.whole = FALSE]
                   /\ UNCHANGED replies
                \/ Desync
  /\ buffer' = Tail(buffer)
  /\ UNCHANGED <<caller, wire, lastAck, settled>>

(* Mutant: output does not wait for the event before it. *)
EmitFreely == guest.seq < MaxEvent

MayEmit == guest.seq < MaxEvent /\ ~guest.awaiting

Emit ==
  /\ guest.at = "output" /\ MayEmit
  /\ replies' = Append(replies, [Reply("event") EXCEPT !.seq = @ + 1])
  /\ guest' = [guest EXCEPT !.seq = @ + 1, !.awaiting = Acked(guest.op)]
  /\ UNCHANGED <<caller, wire, buffer, lastAck, settled>>

(* The file is read, or reading it fails.  The command ends, or its own    *)
(* deadline kills it: its last event may then await an acknowledgement.    *)
Exit ==
  /\ guest.at = "output"
  /\ guest.awaiting => guest.op = "timed_exec"
  /\ \/ Return(Reply("ok"))
     \/ guest.op = "read" /\ Return(Reply("err"))
  /\ UNCHANGED <<caller, wire, buffer, lastAck, settled>>

(* _stream_acknowledged_process reads the descriptor itself, past whatever *)
(* the buffered reader already took.                                        *)
ReadAck ==
  /\ guest.at = "output" /\ Acked(guest.op) /\ wire # <<>>
  /\ IF guest.awaiting /\ Head(wire) = Ack(guest.id, guest.seq)
       THEN guest' = [guest EXCEPT !.awaiting = FALSE] /\ UNCHANGED replies
       ELSE Desync
  /\ wire' = Tail(wire)
  /\ UNCHANGED <<caller, buffer, lastAck, settled>>

(* Two lines in one read are not one acknowledgement. *)
ReadTwoLines ==
  /\ guest.at = "output" /\ Acked(guest.op) /\ Len(wire) > 1
  /\ Desync
  /\ wire' = Tail(Tail(wire))
  /\ UNCHANGED <<caller, buffer, lastAck, settled>>

-----------------------------------------------------------------------------
HostReads == SkipStale \/ TakeEvent \/ GapInOutput \/ TakeReply \/ Unreachable
GuestActs == Fill \/ Dispatch \/ ReadFrame \/ ReadBlock \/ Emit \/ ReadAck \/ ReadTwoLines

ChannelNext == \/ \E op \in Ops : Call(op)
               \/ SendBody \/ Abandon \/ HostReads \/ GuestActs \/ Exit

-----------------------------------------------------------------------------
(* A call that returned its data was answered by its own reply, and what the
   reply reports is what the caller asked for and what it saw: the whole tree,
   every file its own bytes, or every event the command emitted, in order.
   Calls abandoned earlier, in the middle of a body, of a reply or of an
   acknowledgement, change none of it. *)
AnswersAreTheirOwn ==
  \A c \in CallIds : settled[c].how = "ok" =>
    LET r == settled[c].reply[1]
    IN  /\ r.id = c /\ r.whole
        /\ settled[c].op = "tree" => r.files = Files
        /\ settled[c].op \in Streams => r.seq = settled[c].seen

(* A command's output crosses the relay one acknowledged event at a time, and
   what is in flight is the newest: an abandoned command leaves at most one
   event of its own behind. *)
OneEventInFlight ==
  \A c \in {d \in CallIds : Acked(settled[d].op)} :
    \A i, j \in 1..Len(replies) :
      /\ replies[i].id = c /\ replies[i].kind = "event"
      /\ replies[j].id = c /\ replies[j].kind = "event"
      => i = j

(* As long as no caller gives up, every call is answered: the sequence of
   events and acknowledgements leaves neither side waiting for the other, a
   failed upload is drained to its end, and a sink that fails does not stop
   the command it listens to. *)
UninterruptedCallsAreAnswered ==
  \A c \in CallIds :
    settled[c].op # "none" ~> \/ settled[c].how # "none"
                              \/ \E d \in CallIds : settled[d].how = "abandoned"
=============================================================================
