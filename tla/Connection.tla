------------------------------- MODULE Connection -------------------------------
(***************************************************************************)
(* The tasks of one established connection (src/src/protocol/client.rs):   *)
(* any number of senders put commands in an unbounded queue; the writer    *)
(* task takes them one at a time to the WebSocket and acknowledges each;   *)
(* the clock-sync task is one of the senders; the guard disconnects, by a  *)
(* last command through the same queue, or aborts the tasks when dropped.  *)
(*                                                                         *)
(* An abort is a request: the task it is for is cancelled at an await, and *)
(* one that is being polled first runs on to its next await.               *)
(***************************************************************************)
EXTENDS Integers, Sequences

CONSTANTS
    Call,                \* calls of send_message
    Time, Goodbye, Close,\* a client/time message, the goodbye command, the close frame
    NoCmd,
    MaxTimes             \* bound: client/time messages of the sync task

ASSUME ConnectionAssumption ==
    /\ MaxTimes \in Nat
    /\ Time \notin Call /\ Goodbye \notin Call /\ Close \notin Call /\ NoCmd \notin Call
    /\ Time # Goodbye /\ Time # Close /\ Goodbye # Close
    /\ NoCmd \notin {Time, Goodbye, Close}

Command == Call \cup {Time, Goodbye}

VARIABLES
    sent,    \* every command ever queued, in order
    next,    \* how many of them the writer has taken
    writer,  \* the writer task
    wire,    \* the frames the writer put on the wire
    call,    \* what each send_message call has returned
    sync,    \* the clock-sync task
    times,   \* client/time messages queued so far
    router,  \* the reader task
    guard,   \* ConnectionGuard: held, in disconnect(), or how it ended
    ack,     \* the acknowledgement of the goodbye command
    aborted  \* tasks whose abort was requested

queueVars == <<sent, next>>
syncVars  == <<sync, times>>
guardVars == <<guard, ack>>
vars == <<queueVars, writer, wire, call, syncVars, router, guardVars, aborted>>

\* The command the writer has in hand.
InHand == IF writer \in {"sending", "flushing", "closing"} THEN sent[next] ELSE NoCmd

\* The receiver of the queue lives until the writer task is gone.
QueueOpen == writer # "ended"

Waiting == {c \in Call : call[c] = "waiting"}

Init ==
    /\ sent = <<>>
    /\ next = 0
    /\ writer = "idle"
    /\ wire = <<>>
    /\ call = [c \in Call |-> "none"]
    /\ sync = "sleeping"
    /\ times = 0
    /\ router = "running"
    /\ guard = "held"
    /\ ack = "none"
    /\ aborted = {}

---------------------------------------------------------------------------
(* WsSender *)

\* Mutant of Send: a closed queue is not noticed.
SendRegardless(c) ==
    /\ call[c] = "none"
    /\ sent' = Append(sent, c)
    /\ call' = [call EXCEPT ![c] = "waiting"]
    /\ UNCHANGED <<next, writer, wire, syncVars, router, guardVars, aborted>>

\* send_message: queue the command and await its ack; fail at once if the
\* writer is gone.  Senders are clones, and outlive the guard.
Send(c) ==
    /\ call[c] = "none"
    /\ IF QueueOpen
         THEN sent' = Append(sent, c) /\ call' = [call EXCEPT ![c] = "waiting"]
         ELSE sent' = sent /\ call' = [call EXCEPT ![c] = "err"]
    /\ UNCHANGED <<next, writer, wire, syncVars, router, guardVars, aborted>>

\* The caller drops the future; its command stays queued.
CancelSend(c) ==
    /\ call[c] = "waiting"
    /\ call' = [call EXCEPT ![c] = "cancelled"]
    /\ UNCHANGED <<queueVars, writer, wire, syncVars, router, guardVars, aborted>>

---------------------------------------------------------------------------
(* The clock-sync task *)

\* Its sleep is over (or it was just spawned) and it is polled; a cancelled task
\* never is.
SyncWakes ==
    /\ sync = "sleeping"
    /\ "sync" \notin aborted
    /\ times < MaxTimes
    /\ sync' = "polled"
    /\ UNCHANGED <<queueVars, writer, wire, call, times, router, guardVars, aborted>>

\* It reads its clock and queues client/time; it ends when the queue is closed.
SyncSends ==
    /\ sync = "polled"
    /\ IF QueueOpen
         THEN /\ sent' = Append(sent, Time)
              /\ sync' = "awaiting"
              /\ times' = times + 1
         ELSE sync' = "ended" /\ UNCHANGED <<sent, times>>
    /\ UNCHANGED <<next, writer, wire, call, router, guardVars, aborted>>

SyncAborted ==
    /\ "sync" \in aborted
    /\ sync \in {"sleeping", "awaiting"}
    /\ sync' = "ended"
    /\ UNCHANGED <<queueVars, writer, wire, call, times, router, guardVars, aborted>>

---------------------------------------------------------------------------
(* writer_task *)

\* A oneshot ack for command m reaches whoever still waits for it.
Acknowledge(m, result) ==
    /\ call' = [c \in Call |-> IF c = m /\ call[c] = "waiting" THEN result ELSE call[c]]
    /\ sync' = IF m = Time /\ sync = "awaiting"
               THEN IF result = "ok" THEN "sleeping" ELSE "ended"
               ELSE sync
    /\ ack' = IF m = Goodbye /\ guard = "awaiting" THEN result ELSE ack

\* The writer takes the next command of its queue.
WriterTakes ==
    /\ writer = "idle"
    /\ next < Len(sent)
    /\ next' = next + 1
    /\ writer' = "sending"
    /\ UNCHANGED <<sent, wire, call, syncVars, router, guardVars, aborted>>

\* The frame goes out; the flush that follows may still fail.
FrameOut ==
    /\ writer = "sending"
    /\ wire' = Append(wire, InHand)
    /\ writer' = "flushing"
    /\ UNCHANGED <<queueVars, call, syncVars, router, guardVars, aborted>>

\* Mutant of SendCompletes: the ack does not wait for the frame to go out.
AckEarly ==
    /\ writer \in {"sending", "flushing"}
    /\ InHand # Goodbye
    /\ Acknowledge(InHand, "ok")
    /\ writer' = "idle"
    /\ UNCHANGED <<queueVars, wire, times, router, guard, aborted>>

\* sink.send returned Ok for a message.
SendCompletes ==
    /\ writer = "flushing"
    /\ InHand # Goodbye
    /\ Acknowledge(InHand, "ok")
    /\ writer' = "idle"
    /\ UNCHANGED <<queueVars, wire, times, router, guard, aborted>>

\* perform_goodbye: the close frame follows the goodbye.
CloseOut ==
    /\ writer = "flushing"
    /\ InHand = Goodbye
    /\ wire' = Append(wire, Close)
    /\ writer' = "closing"
    /\ UNCHANGED <<queueVars, call, syncVars, router, guardVars, aborted>>

\* Mutant of GoodbyeCompletes: the writer goes on to the next command.
GoodbyeGoesOn ==
    /\ writer = "closing"
    /\ Acknowledge(Goodbye, "ok")
    /\ writer' = "idle"
    /\ UNCHANGED <<queueVars, wire, times, router, guard, aborted>>

\* The goodbye is acknowledged and the loop left.
GoodbyeCompletes ==
    /\ writer = "closing"
    /\ Acknowledge(Goodbye, "ok")
    /\ writer' = "stopping"
    /\ UNCHANGED <<queueVars, wire, times, router, guard, aborted>>

\* Mutant of WriteFails: the writer tries the next command.
FailureGoesOn ==
    /\ writer \in {"sending", "flushing", "closing"}
    /\ Acknowledge(InHand, "err")
    /\ writer' = "idle"
    /\ UNCHANGED <<queueVars, wire, times, router, guard, aborted>>

\* A write, flush or close failed: the command's caller is told, and the loop left.
WriteFails ==
    /\ writer \in {"sending", "flushing", "closing"}
    /\ Acknowledge(InHand, "err")
    /\ writer' = "stopping"
    /\ UNCHANGED <<queueVars, wire, times, router, guard, aborted>>

\* Commands whose ack is dropped with the writer: all not yet acknowledged.
Unanswered == {sent[i] : i \in {j \in DOMAIN sent : j > next}}
              \cup (IF InHand = NoCmd THEN {} ELSE {InHand})

\* The task is gone, and its queue: callers see their acks cancelled.
WriterGone ==
    /\ writer' = "ended"
    /\ call' = [c \in Call |-> IF c \in Unanswered /\ call[c] = "waiting"
                               THEN "err" ELSE call[c]]
    /\ sync' = IF Time \in Unanswered /\ sync = "awaiting" THEN "ended" ELSE sync
    /\ ack' = IF Goodbye \in Unanswered /\ guard = "awaiting" THEN "cancelled" ELSE ack

WriterEnds ==
    /\ writer = "stopping"
    /\ WriterGone
    /\ UNCHANGED <<queueVars, wire, times, router, guard, aborted>>

WriterAborted ==
    /\ "writer" \in aborted
    /\ writer \in {"idle", "sending", "flushing", "closing"}
    /\ WriterGone
    /\ UNCHANGED <<queueVars, wire, times, router, guard, aborted>>

---------------------------------------------------------------------------
(* message_router, seen from outside: ConnectionGuard::closed *)

\* Peer close or transport failure.
RouterEnds ==
    /\ router = "running"
    /\ router' = "ended"
    /\ UNCHANGED <<queueVars, writer, wire, call, syncVars, guardVars, aborted>>

RouterAborted ==
    /\ "router" \in aborted
    /\ RouterEnds

---------------------------------------------------------------------------
(* ConnectionGuard *)

\* Drop: abort every task whose handle the guard still has.
Release(tasks, how) ==
    /\ aborted' = aborted \cup tasks
    /\ guard' = how

\* The guard is dropped without a goodbye.
DropGuard ==
    /\ guard = "held"
    /\ Release({"router", "sync", "writer"}, "dropped")
    /\ UNCHANGED <<queueVars, writer, wire, call, syncVars, router, ack>>

\* disconnect: stop the sync task first.
DisconnectStarts ==
    /\ guard = "held"
    /\ aborted' = aborted \cup {"sync"}
    /\ guard' = "started"
    /\ UNCHANGED <<queueVars, writer, wire, call, syncVars, router, ack>>

\* send_goodbye; if the writer is gone the guard ends here with an error.
DisconnectSends ==
    /\ guard = "started"
    /\ IF QueueOpen
         THEN sent' = Append(sent, Goodbye) /\ guard' = "awaiting" /\ UNCHANGED aborted
         ELSE sent' = sent /\ Release({"router", "writer"}, "err")
    /\ UNCHANGED <<next, writer, wire, call, syncVars, router, ack>>

\* Mutant of DisconnectAcked: a cancelled ack passes for a goodbye.
CancelledIsFine ==
    /\ guard = "awaiting"
    /\ ack # "none"
    /\ guard' = "joining"
    /\ ack' = IF ack = "cancelled" THEN "ok" ELSE ack
    /\ UNCHANGED <<queueVars, writer, wire, call, syncVars, router, aborted>>

\* The ack arrived: join the writer.  A cancelled ack ends the guard.
DisconnectAcked ==
    /\ guard = "awaiting"
    /\ ack # "none"
    /\ IF ack = "cancelled"
         THEN Release({"router", "writer"}, "err")
         ELSE guard' = "joining" /\ UNCHANGED aborted
    /\ UNCHANGED <<queueVars, writer, wire, call, syncVars, router, ack>>

\* Mutant of DisconnectReturns: the writer is not joined.
NotJoined ==
    /\ guard = "joining"
    /\ Release({"router"}, ack)
    /\ UNCHANGED <<queueVars, writer, wire, call, syncVars, router, ack>>

\* The writer is joined: tear the reader down and return the goodbye's result.
DisconnectReturns ==
    /\ guard = "joining"
    /\ writer = "ended"
    /\ Release({"router"}, ack)
    /\ UNCHANGED <<queueVars, writer, wire, call, syncVars, router, ack>>

\* Mutant of DisconnectDropped: the guard keeps no handles to abort.
DroppedDetached ==
    /\ guard \in {"awaiting", "joining"}
    /\ guard' = "dropped"
    /\ UNCHANGED <<queueVars, writer, wire, call, syncVars, router, ack, aborted>>

\* The disconnect future is dropped at one of its awaits (goodbye_timeout).
\* While it joins the writer it has taken that handle: the writer is detached.
DisconnectDropped ==
    /\ guard \in {"awaiting", "joining"}
    /\ Release(IF guard = "awaiting" THEN {"router", "writer"} ELSE {"router"}, "dropped")
    /\ UNCHANGED <<queueVars, writer, wire, call, syncVars, router, ack>>

---------------------------------------------------------------------------
Sync   == SyncWakes \/ SyncSends \/ SyncAborted
Writer == \/ WriterTakes \/ FrameOut \/ SendCompletes \/ CloseOut \/ GoodbyeCompletes
          \/ WriteFails \/ WriterEnds \/ WriterAborted
Guard  == \/ DropGuard
          \/ DisconnectStarts \/ DisconnectSends \/ DisconnectAcked
          \/ DisconnectReturns \/ DisconnectDropped

Next ==
    \/ \E c \in Call : Send(c) \/ CancelSend(c)
    \/ Sync
    \/ Writer
    \/ RouterEnds \/ RouterAborted
    \/ Guard

Spec == Init /\ [][Next]_vars

(***************************************************************************)
(* The runtime polls ready tasks and carries out aborts, and a call of     *)
(* disconnect() that can go on does.  Nothing is assumed of the network: a *)
(* write may never complete.                                               *)
(***************************************************************************)
Fairness ==
    /\ WF_vars(SyncSends) /\ WF_vars(SyncAborted)
    /\ WF_vars(WriterTakes) /\ WF_vars(WriterEnds) /\ WF_vars(WriterAborted)
    /\ WF_vars(RouterAborted)
    /\ WF_vars(DisconnectSends) /\ WF_vars(DisconnectAcked) /\ WF_vars(DisconnectReturns)

FairSpec == Spec /\ Fairness

---------------------------------------------------------------------------
(* Properties *)

TypeOK ==
    /\ sent \in Seq(Command)
    /\ next \in 0..Len(sent)
    /\ writer \in {"idle", "sending", "flushing", "closing", "stopping", "ended"}
    /\ wire \in Seq(Command \cup {Close})
    /\ call \in [Call -> {"none", "waiting", "ok", "err", "cancelled"}]
    /\ sync \in {"polled", "awaiting", "sleeping", "ended"}
    /\ times \in 0..MaxTimes
    /\ router \in {"running", "ended"}
    /\ guard \in {"held", "started", "awaiting", "joining", "ok", "err", "dropped"}
    /\ ack \in {"none", "ok", "err", "cancelled"}
    /\ aborted \subseteq {"sync", "writer", "router"}

Said == \E i \in DOMAIN wire : wire[i] = Goodbye

\* Nothing queued after the goodbye reaches the wire, whoever queued it and
\* even if the sync task was past its abort (client.rs, WriteCommand).
GoodbyeIsLast ==
    \A i \in DOMAIN wire : wire[i] = Goodbye => \A j \in DOMAIN wire : j > i => wire[j] = Close

\* The wire is an initial part of what was queued: no message is written out of
\* turn, twice, or after one that failed, so the server never sees a gap.
WireHasNoGap ==
    \A i \in DOMAIN wire : wire[i] # Close => i <= Len(sent) /\ wire[i] = sent[i]

\* Ok from send_message reflects the wire, not the queue.
OkMeansWritten ==
    \A c \in Call : call[c] = "ok" => \E i \in DOMAIN wire : wire[i] = c

\* Sends toward a dead writer fail rather than hang: no caller is left waiting
\* for an ack that nobody holds, nor is disconnect().
DeadWriterFailsFast ==
    writer = "ended" =>
        /\ Waiting = {}
        /\ sync # "awaiting"
        /\ guard = "awaiting" => ack # "none"

\* disconnect() returned Ok: the goodbye and the close frame are the last on
\* the wire, the writer is gone, and both other tasks have been told to end.
DisconnectOkIsFinal ==
    guard = "ok" =>
        /\ Len(wire) >= 2 /\ wire[Len(wire)] = Close /\ wire[Len(wire) - 1] = Goodbye
        /\ writer = "ended"
        /\ {"sync", "router"} \subseteq aborted

\* However the guard ends, in the midst of a write to a peer that has stopped
\* reading too, all tasks end and no sender is left waiting.
GuardReleases ==
    guard \in {"ok", "err", "dropped"} ~>
        /\ writer = "ended" /\ router = "ended" /\ sync = "ended"
        /\ Waiting = {}

\* To the holder of the guard the connection is a GoodbyeFlush.
Promise == INSTANCE GoodbyeFlush WITH
    reader <- IF guard \in {"ok", "err", "dropped"} THEN "ended" ELSE router,
    said   <- Said,
    result <- IF guard \in {"ok", "err", "dropped"} THEN guard ELSE "none"

\* The manager may take a connection for what GoodbyeFlush says of it.
KeepsPromise == Promise!Spec
================================================================================
