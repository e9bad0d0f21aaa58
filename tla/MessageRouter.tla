------------------------------ MODULE MessageRouter ------------------------------
(***************************************************************************)
(* The reading side of a connection (src/src/protocol/client.rs): the      *)
(* handshake of drive(), then message_router, which takes every frame of   *)
(* the same stream to the channel it belongs to; the request-format gate   *)
(* that it keeps; and the application's calls of request_stream_formats,  *)
(* which read that gate from other threads, one role after the other.      *)
(*                                                                         *)
(* A frame is a record; what it carries is its place in the stream.        *)
(***************************************************************************)
EXTENDS Integers, Sequences, FiniteSets

CONSTANTS
    Frames,    \* the frames the server may send
    Request,   \* calls of request_stream_formats
    Droppable, \* bound: channels whose receiver the application may drop
    MaxFrames  \* bound: frames of the stream

Role      == {"player", "artwork", "visualizer"}
RoleOrder == <<"player", "artwork", "visualizer">>
AllRoles  == {"all"} \* a stream/end that names no roles
Channel   == {"audio", "artwork", "visualizer", "message"}

BinaryFrame == [kind : {"binary"}, type : 0..255, len : Nat \ {0}]
TextFrame   == [kind : {"text"}, msg : {"hello", "time", "other", "garbled"}]
StartFrame  == [kind : {"text"}, msg : {"start"}, roles : SUBSET Role]
EndFrame    == [kind : {"text"}, msg : {"end"}, roles : (SUBSET Role) \cup {AllRoles}]
OtherFrame  == [kind : {"empty", "ping", "close", "error"}]

ASSUME RouterAssumption ==
    /\ Frames \subseteq BinaryFrame \cup TextFrame \cup StartFrame \cup EndFrame \cup OtherFrame
    /\ Droppable \subseteq Channel
    /\ MaxFrames \in Nat

VARIABLES
    read,     \* the frames read so far
    phase,    \* what drive() or the router is doing
    settled,  \* roles whose gate is settled for the stream message in hand
    gate,     \* StreamState: is the role's stream active?
    chan,     \* by channel, the frames sent to it (their places in the stream)
    open,     \* by channel, whether the application still holds the receiver
    closed,   \* by channel, the router's *_closed flag
    clock,    \* the server/time messages given to ClockSync::update
    taken,    \* messages the application has received
    req       \* the calls of request_stream_formats

streamVars == <<read, phase, settled, gate>>
appVars    == <<open, taken>>
routerVars == <<streamVars, chan, closed, clock, appVars, req>>

NoReq == [stage |-> "none", wants |-> {}, checked |-> 0, since |-> 0]

RouterInit ==
    /\ read = <<>>
    /\ phase = "hello"
    /\ settled = 0
    /\ gate = [r \in Role |-> FALSE]
    /\ chan = [h \in Channel |-> <<>>]
    /\ open = [h \in Channel |-> TRUE]
    /\ closed = [h \in Channel |-> FALSE]
    /\ clock = <<>>
    /\ taken = 0
    /\ req = [q \in Request |-> NoReq]

---------------------------------------------------------------------------
(* Helpers *)

\* binary_types
PlayerAudio       == 4
IsArtwork(t)      == t \in 8..11
IsVisualizer(t)   == t \in 16..20

\* from_bytes of the three chunks: a type of their own, and bytes enough for the
\* timestamp.
TimestampEnd        == 9
AudioChunk(f)       == f.len >= TimestampEnd /\ f.type = PlayerAudio
ArtworkChunk(f)     == f.len >= TimestampEnd /\ IsArtwork(f.type)
VisualizerChunk(f)  == f.len >= TimestampEnd /\ IsVisualizer(f.type)

\* BinaryFrame::from_bytes and what the router makes of it: a chunk that does not
\* parse and a frame of another type are only logged.
BinaryChannel(f) ==
    CASE f.type = PlayerAudio /\ AudioChunk(f)          -> "audio"
      [] IsArtwork(f.type) /\ ArtworkChunk(f)           -> "artwork"
      [] IsVisualizer(f.type) /\ VisualizerChunk(f)     -> "visualizer"
      [] OTHER                                          -> "none"

\* role_ended: no roles means every role.
RoleEnded(f, r) == f.roles = AllRoles \/ r \in f.roles

\* note_stream_start and note_stream_end: the gate of r after stream message f.
Settle(f, r) ==
    IF f.msg = "start" THEN gate[r] \/ r \in f.roles
                       ELSE gate[r] /\ ~RoleEnded(f, r)

\* Mutant of SendTo: one dropped receiver closes every channel.
SendToAny(h, k) ==
    /\ chan' = IF (\A g \in Channel : ~closed[g]) /\ open[h]
               THEN [chan EXCEPT ![h] = Append(@, k)] ELSE chan
    /\ closed' = IF ~open[h] THEN [closed EXCEPT ![h] = TRUE] ELSE closed

\* The router sends frame k down channel h, unless it has seen that the
\* receiver is gone.
SendTo(h, k) ==
    /\ chan' = IF ~closed[h] /\ open[h] THEN [chan EXCEPT ![h] = Append(@, k)] ELSE chan
    /\ closed' = IF ~open[h] THEN [closed EXCEPT ![h] = TRUE] ELSE closed

\* The next frame of the stream is f.
Reads(f) ==
    /\ Len(read) < MaxFrames
    /\ read' = Append(read, f)

IsText(f, msgs)   == f.kind = "text" /\ f.msg \in msgs
Here              == Len(read) + 1

---------------------------------------------------------------------------
(* drive(): client/hello is out; wait for server/hello, then send client/state *)

\* A text frame must be server/hello; close and errors fail; binary frames,
\* pings and pongs are skipped.
AwaitHello(f) ==
    /\ phase = "hello"
    /\ Reads(f)
    /\ phase' = CASE IsText(f, {"hello"}) -> "state"
                  [] f.kind = "text" /\ f.msg # "hello" -> "failed"
                  [] f.kind \in {"close", "error"} -> "failed"
                  [] OTHER -> "hello"
    /\ UNCHANGED <<settled, gate, chan, closed, clock, appVars, req>>

\* The initial client/state is written and the tasks start, or it is not.
SendState ==
    /\ phase = "state"
    /\ phase' \in {"reading", "failed"}
    /\ UNCHANGED <<read, settled, gate, chan, closed, clock, appVars, req>>

---------------------------------------------------------------------------
(* message_router *)

RouteBinary(f) ==
    /\ phase = "reading"
    /\ f.kind = "binary"
    /\ Reads(f)
    /\ IF BinaryChannel(f) = "none" THEN UNCHANGED <<chan, closed>>
                                    ELSE SendTo(BinaryChannel(f), Here)
    /\ UNCHANGED <<phase, settled, gate, clock, appVars, req>>

\* server/time goes to the clock and nowhere else.
RouteTime(f) ==
    /\ phase = "reading"
    /\ IsText(f, {"time"})
    /\ Reads(f)
    /\ clock' = Append(clock, Here)
    /\ UNCHANGED <<phase, settled, gate, chan, closed, appVars, req>>

\* Any message that does not move the gate; a late server/hello is one.
RouteMessage(f) ==
    /\ phase = "reading"
    /\ IsText(f, {"hello", "other"})
    /\ Reads(f)
    /\ SendTo("message", Here)
    /\ UNCHANGED <<phase, settled, gate, clock, appVars, req>>

\* Empty binary frames, text that does not parse, pings: no effect.
RouteNothing(f) ==
    /\ phase = "reading"
    /\ f.kind \in {"empty", "ping"} \/ IsText(f, {"garbled"})
    /\ Reads(f)
    /\ UNCHANGED <<phase, settled, gate, chan, closed, clock, appVars, req>>

\* stream/start or stream/end: the gate is settled first.
TakeStream(f) ==
    /\ phase = "reading"
    /\ IsText(f, {"start", "end"})
    /\ Reads(f)
    /\ phase' = "settling"
    /\ settled' = 0
    /\ UNCHANGED <<gate, chan, closed, clock, appVars, req>>

\* One atomic store per role, in this order.
SettleRole ==
    LET r == RoleOrder[settled + 1]
    IN  /\ phase = "settling"
        /\ settled < Len(RoleOrder)
        /\ gate' = [gate EXCEPT ![r] = Settle(read[Len(read)], r)]
        /\ settled' = settled + 1
        /\ UNCHANGED <<read, phase, chan, closed, clock, appVars, req>>

\* Mutant of ForwardStream: the message is out before its gate is settled.
ForwardEarly ==
    LET out == \E i \in DOMAIN chan["message"] : chan["message"][i] = Len(read)
    IN  /\ phase = "settling"
        /\ ~out \/ settled = Len(RoleOrder)
        /\ IF out THEN UNCHANGED <<chan, closed>> ELSE SendTo("message", Len(read))
        /\ phase' = IF settled = Len(RoleOrder) THEN "reading" ELSE phase
        /\ UNCHANGED <<read, settled, gate, clock, appVars, req>>

\* Then the message goes out.
ForwardStream ==
    /\ phase = "settling"
    /\ settled = Len(RoleOrder)
    /\ SendTo("message", Len(read))
    /\ phase' = "reading"
    /\ UNCHANGED <<read, settled, gate, clock, appVars, req>>

\* Close, a WebSocket error, or the end of the stream.
RouterStops(f) ==
    /\ phase = "reading"
    /\ f.kind \in {"close", "error"}
    /\ Reads(f)
    /\ phase' = "ended"
    /\ UNCHANGED <<settled, gate, chan, closed, clock, appVars, req>>

---------------------------------------------------------------------------
(* The application *)

TakeMessage ==
    /\ open["message"]
    /\ taken < Len(chan["message"])
    /\ taken' = taken + 1
    /\ UNCHANGED <<streamVars, chan, closed, clock, open, req>>

DropReceiver(h) ==
    /\ open[h]
    /\ open' = [open EXCEPT ![h] = FALSE]
    /\ UNCHANGED <<streamVars, chan, closed, clock, taken, req>>

\* The place in the stream of the last message the application received.
LastTaken == IF taken = 0 THEN 0 ELSE chan["message"][taken]

\* request_stream_formats is called for a set of roles; none is an error.
CallRequest(q, roles) ==
    /\ phase \notin {"hello", "state", "failed"}
    /\ req[q].stage = "none"
    /\ req' = [req EXCEPT ![q] = [stage |-> IF roles = {} THEN "rejected" ELSE "checking",
                                  wants |-> roles, checked |-> 0, since |-> LastTaken]]
    /\ UNCHANGED <<streamVars, chan, closed, clock, appVars>>

\* Each wanted role's gate is loaded in turn; the last one that passes lets the
\* message be queued.
CheckRole(q) ==
    LET k == req[q].checked + 1
        r == RoleOrder[k]
    IN  /\ req[q].stage = "checking"
        /\ req' = [req EXCEPT ![q].checked = k,
                              ![q].stage = IF r \in req[q].wants /\ ~gate[r] THEN "rejected"
                                           ELSE IF k = Len(RoleOrder) THEN "passed"
                                           ELSE @]
        /\ UNCHANGED <<streamVars, chan, closed, clock, appVars>>

---------------------------------------------------------------------------
Route(f) ==
    \/ RouteBinary(f) \/ RouteTime(f) \/ RouteMessage(f) \/ RouteNothing(f)
    \/ TakeStream(f) \/ RouterStops(f)

RouterNext ==
    \/ \E f \in Frames : AwaitHello(f) \/ Route(f)
    \/ SendState
    \/ SettleRole \/ ForwardStream
    \/ TakeMessage
    \/ \E h \in Droppable : DropReceiver(h)
    \/ \E q \in Request : CheckRole(q) \/ \E roles \in SUBSET Role : CallRequest(q, roles)

RouterSpec == RouterInit /\ [][RouterNext]_routerVars

---------------------------------------------------------------------------
(* Properties *)

RouterTypeOK ==
    /\ read \in Seq(Frames) /\ Len(read) <= MaxFrames
    /\ phase \in {"hello", "state", "reading", "settling", "ended", "failed"}
    /\ settled \in 0..Len(RoleOrder)
    /\ gate \in [Role -> BOOLEAN]
    /\ chan \in [Channel -> Seq(1..MaxFrames)]
    /\ open \in [Channel -> BOOLEAN] /\ closed \in [Channel -> BOOLEAN]
    /\ clock \in Seq(1..MaxFrames)
    /\ taken \in 0..Len(chan["message"])
    /\ req \in [Request -> [stage : {"none", "checking", "passed", "rejected"},
                            wants : SUBSET Role, checked : 0..Len(RoleOrder),
                            since : 0..MaxFrames]]

\* Where the handshake ended: the first text frame.
HelloAt == CHOOSE k \in DOMAIN read :
               IsText(read[k], {"hello"}) /\ \A j \in 1..(k - 1) : read[j].kind # "text"

\* Frames the router is done with.
Routed == IF phase \in {"reading", "settling", "ended"}
          THEN {k \in DOMAIN read : k > HelloAt /\ (phase = "settling" => k < Len(read))}
          ELSE {}

\* What the protocol says of a frame's channel, by the type ranges of the spec.
Belongs(f, h) ==
    CASE f.kind = "binary" /\ f.len >= 9 ->
            \/ h = "audio" /\ f.type = 4
            \/ h = "artwork" /\ f.type - 8 \in 0..3
            \/ h = "visualizer" /\ f.type - 16 \in 0..4
      [] f.kind = "text" -> h = "message" /\ f.msg \notin {"time", "garbled"}
      [] OTHER -> FALSE

InOrder(s)     == \A i, j \in DOMAIN s : i < j => s[i] < s[j]
Places(s)      == {s[i] : i \in DOMAIN s}

\* A receiver that is held gets every frame of its kind since the handshake, in
\* order, and no other, whatever the server mixes in and whichever of the other
\* receivers the application has dropped; server/time is for the clock alone.
ChannelsComplete ==
    /\ \A h \in Channel :
          /\ InOrder(chan[h])
          /\ Places(chan[h]) \subseteq {k \in Routed : Belongs(read[k], h)}
          /\ open[h] => Places(chan[h]) = {k \in Routed : Belongs(read[k], h)}
    /\ InOrder(clock)
    /\ Places(clock) = {k \in Routed : IsText(read[k], {"time"})}

\* The stream of role r is active after the first k frames: the last stream
\* message about it is a start.
About(k, r)  == IsText(read[k], {"start", "end"})
                /\ (read[k].roles = AllRoles \/ r \in read[k].roles)
Active(k, r) ==
    \E i \in 1..k : /\ phase # "hello" /\ i > HelloAt
                    /\ About(i, r) /\ read[i].msg = "start"
                    /\ \A j \in (i + 1)..k : ~About(j, r)

\* A caller that reacts to a message sees the gate that message settled, or a
\* later one: a request passes only if each of its roles was active at some
\* moment after that message, and is rejected only if one was not.
RequestsJustified ==
    \A q \in Request :
        /\ req[q].stage = "passed" =>
              \A r \in req[q].wants : \E k \in req[q].since..Len(read) : Active(k, r)
        /\ req[q].stage = "rejected" /\ req[q].wants # {} =>
              \E r \in req[q].wants : \E k \in req[q].since..Len(read) : ~Active(k, r)
================================================================================
