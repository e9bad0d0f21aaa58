------------------------------ MODULE Client_proofs ------------------------------
(***************************************************************************)
(* Theorems about one connection of the client: first its tasks            *)
(* (Connection), then its reading side (MessageRouter).                    *)
(*                                                                         *)
(* The invariant of Connection says where the writer is in the queue: the  *)
(* wire holds the commands taken so far, and whoever waits for an          *)
(* acknowledgement has a command that the writer still owes one.           *)
(*                                                                         *)
(* MessageRouter is proved for any frames, any number of them, any         *)
(* receivers that may be dropped and any set of requests.                  *)
(***************************************************************************)
EXTENDS Connection, MessageRouter, SequenceTheorems, TLAPS


\* The frames on the wire are the commands taken, and only the last of these
\* may be a goodbye.
WireInv ==
    /\ \A i \in DOMAIN wire : i <= next => wire[i] = sent[i]
    /\ \A i \in 1..(next - 1) : sent[i] # Goodbye
    /\ Len(wire) <= next + 1
    /\ Len(wire) = next + 1 => next > 0 /\ wire[next + 1] = Close /\ sent[next] = Goodbye
    /\ writer = "idle" => Len(wire) = next /\ (next > 0 => sent[next] # Goodbye)
    /\ writer = "sending" => next > 0 /\ Len(wire) = next - 1
    /\ writer = "flushing" => next > 0 /\ Len(wire) = next
    /\ writer = "closing" => next > 0 /\ Len(wire) = next + 1

\* The writer still owes an acknowledgement for command m.
Owed(m) ==
    \E j \in DOMAIN sent :
        /\ sent[j] = m
        /\ j > next \/ (j = next /\ writer \in {"sending", "flushing", "closing"})

AckInv ==
    /\ \A c \in Call : call[c] = "waiting" => Owed(c)
    /\ \A c \in Call : call[c] = "ok" => \E i \in DOMAIN wire : wire[i] = c
    /\ sync = "awaiting" => Owed(Time)
    /\ guard = "awaiting" /\ ack = "none" => Owed(Goodbye)
    /\ writer = "ended" => /\ Waiting = {} /\ sync # "awaiting"
                           /\ guard = "awaiting" => ack # "none"

GuardInv ==
    /\ ack = "ok" => Len(wire) = next + 1 /\ writer \in {"stopping", "ended"}
    /\ guard \in {"held", "started"} => ack = "none"
    /\ guard = "joining" => ack \in {"ok", "err"}
    /\ guard = "ok" => ack = "ok" /\ writer = "ended" /\ "router" \in aborted
    /\ guard # "held" => "sync" \in aborted

\* A sync task that is being polled has a message left to send.
TimesInv == sync = "polled" => times < MaxTimes

Inv == TypeOK /\ TimesInv /\ WireInv /\ AckInv /\ GuardInv

---------------------------------------------------------------------------
\* Append, spelt out.
LEMMA AppendFacts ==
    ASSUME NEW S, NEW s \in Seq(S), NEW x \in S, NEW t, t = Append(s, x)
    PROVE  /\ t \in Seq(S) /\ Len(s) \in Nat /\ Len(t) = Len(s) + 1
           /\ DOMAIN s = 1..Len(s) /\ DOMAIN t = 1..Len(t)
           /\ \A i \in 1..Len(s) : t[i] = s[i]
           /\ t[Len(s) + 1] = x
OBVIOUS

\* The queue only grows, and only by a command.
LEMMA QueueGrows ==
    ASSUME TypeOK, [Next]_vars
    PROVE  \/ sent' = sent
           \/ \E m \in Command : sent' = Append(sent, m)
<1>1. CASE UNCHANGED vars
  BY <1>1 DEF vars, queueVars
<1>2. ASSUME NEW c \in Call, Send(c) \/ CancelSend(c)
      PROVE  sent' = sent \/ sent' = Append(sent, c)
  BY <1>2 DEF Send, CancelSend, queueVars
<1>3. CASE Sync
  BY <1>3 DEF Sync, SyncWakes, SyncSends, SyncAborted, queueVars, Command
<1>4. CASE Writer
  BY <1>4 DEF Writer, WriterTakes, FrameOut, SendCompletes, CloseOut, GoodbyeCompletes,
              WriteFails, WriterEnds, WriterAborted, queueVars
<1>5. CASE RouterEnds \/ RouterAborted
  BY <1>5 DEF RouterEnds, RouterAborted, queueVars
<1>6. CASE Guard
  BY <1>6 DEF Guard, DropGuard, DisconnectStarts, DisconnectSends, DisconnectAcked,
              DisconnectReturns, DisconnectDropped, queueVars, Command
<1> QED BY <1>1, <1>2, <1>3, <1>4, <1>5, <1>6 DEF Next, Command

\* What is in the queue stays where it is.
LEMMA QueueKeeps ==
    ASSUME TypeOK, [Next]_vars
    PROVE  /\ sent' \in Seq(Command)
           /\ Len(sent) \in Nat /\ Len(sent') \in Nat /\ Len(sent') >= Len(sent)
           /\ DOMAIN sent = 1..Len(sent) /\ DOMAIN sent' = 1..Len(sent')
           /\ \A i \in DOMAIN sent : sent'[i] = sent[i]
<1>1. sent \in Seq(Command)
  BY DEF TypeOK
<1>2. CASE sent' = sent
  BY <1>1, <1>2
<1>3. ASSUME NEW m \in Command, sent' = Append(sent, m)
      PROVE  /\ sent' \in Seq(Command)
             /\ Len(sent) \in Nat /\ Len(sent') = Len(sent) + 1
             /\ DOMAIN sent = 1..Len(sent) /\ DOMAIN sent' = 1..Len(sent')
             /\ \A i \in DOMAIN sent : sent'[i] = sent[i]
  BY <1>1, <1>3, AppendFacts
<1> QED BY <1>2, <1>3, QueueGrows

\* The types of everything but the two sequences.
RestOK ==
    /\ writer \in {"idle", "sending", "flushing", "closing", "stopping", "ended"}
    /\ call \in [Call -> {"none", "waiting", "ok", "err", "cancelled"}]
    /\ sync \in {"polled", "awaiting", "sleeping", "ended"}
    /\ times \in 0..MaxTimes
    /\ router \in {"running", "ended"}
    /\ guard \in {"held", "started", "awaiting", "joining", "ok", "err", "dropped"}
    /\ ack \in {"none", "ok", "err", "cancelled"}
    /\ aborted \subseteq {"sync", "writer", "router"}

\* Each action keeps these types.
LEMMA RestStep == RestOK /\ TimesInv /\ GuardInv /\ [Next]_vars => RestOK' /\ TimesInv'
<1> SUFFICES ASSUME RestOK, TimesInv, GuardInv, [Next]_vars PROVE RestOK' /\ TimesInv'
  OBVIOUS
<1> USE DEF RestOK, TimesInv
<1>1. CASE UNCHANGED vars
  BY <1>1 DEF vars, queueVars, syncVars, guardVars
<1>2. ASSUME NEW c \in Call, Send(c) \/ CancelSend(c) PROVE RestOK' /\ TimesInv'
  BY <1>2 DEF Send, CancelSend, queueVars, syncVars, guardVars
<1>3. CASE SyncWakes \/ SyncAborted
  BY <1>3 DEF SyncWakes, SyncAborted, queueVars, syncVars, guardVars
<1>5. CASE SyncSends
  <2>1. times' \in 0..MaxTimes
    BY <1>5, ConnectionAssumption DEF SyncSends
  <2>2. sync' \in {"awaiting", "ended"}
    BY <1>5 DEF SyncSends
  <2> QED BY <1>5, <2>1, <2>2 DEF SyncSends, guardVars
<1>4. CASE WriterTakes \/ CloseOut \/ FrameOut
  BY <1>4 DEF WriterTakes, CloseOut, FrameOut, queueVars, syncVars, guardVars
<1>6. CASE SendCompletes \/ GoodbyeCompletes \/ WriteFails
  BY <1>6 DEF SendCompletes, GoodbyeCompletes, WriteFails, Acknowledge, queueVars, syncVars,
              guardVars
<1>7. CASE WriterEnds \/ WriterAborted
  BY <1>7 DEF WriterEnds, WriterAborted, WriterGone, queueVars, syncVars, guardVars
<1>8. CASE RouterEnds \/ RouterAborted
  BY <1>8 DEF RouterEnds, RouterAborted, queueVars, syncVars, guardVars
<1>9. CASE Guard
  <2>1. UNCHANGED <<writer, call, sync, times, router, ack>>
    BY <1>9 DEF Guard, DropGuard, DisconnectStarts, DisconnectSends, DisconnectAcked,
                DisconnectReturns, DisconnectDropped, syncVars
  <2>2. aborted' \subseteq {"sync", "writer", "router"}
    BY <1>9 DEF Guard, DropGuard, DisconnectStarts, DisconnectSends, DisconnectAcked,
                DisconnectReturns, DisconnectDropped, Release
  <2>3. guard' \in {"held", "started", "awaiting", "joining", "ok", "err", "dropped"}
    <3>1. CASE DisconnectReturns
      <4>1. guard' = ack /\ ack # "none" /\ ack # "cancelled"
        BY <3>1, <1>9 DEF DisconnectReturns, Release, GuardInv
      <4> QED BY <4>1
    <3>2. CASE ~DisconnectReturns
      BY <1>9, <3>2 DEF Guard, DropGuard, DisconnectStarts, DisconnectSends, DisconnectAcked,
                        DisconnectDropped, Release
    <3> QED BY <3>1, <3>2
  <2> QED BY <2>1, <2>2, <2>3
<1> QED BY <1>1, <1>2, <1>3, <1>4, <1>5, <1>6, <1>7, <1>8, <1>9 DEF Next, Writer, Sync

\* A step of the writer that is none of these leaves it, and the wire, alone.
LEMMA WriterFrame ==
    ASSUME [Next]_vars
    PROVE  \/ UNCHANGED <<writer, next, wire>>
           \/ Writer
BY DEF Next, Sync, SyncWakes, SyncSends, SyncAborted, Send, CancelSend, RouterEnds,
       RouterAborted, Guard, DropGuard, DisconnectStarts, DisconnectSends, DisconnectAcked,
       DisconnectReturns, DisconnectDropped, vars, queueVars

LEMMA TypeStep == TypeOK /\ TimesInv /\ WireInv /\ GuardInv /\ [Next]_vars => TypeOK' /\ TimesInv'
<1> SUFFICES ASSUME TypeOK, TimesInv, WireInv, GuardInv, [Next]_vars PROVE TypeOK' /\ TimesInv'
  OBVIOUS
<1>1. RestOK' /\ TimesInv'
  BY RestStep DEF TypeOK, RestOK
<1>2. sent' \in Seq(Command) /\ Len(sent) \in Nat /\ Len(sent') \in Nat
      /\ Len(sent') >= Len(sent) /\ next \in 0..Len(sent)
  BY QueueKeeps DEF TypeOK
<1>3. next' \in 0..Len(sent')
  <2>1. CASE next' = next
    BY <1>2, <2>1
  <2>2. CASE WriterTakes
    BY <1>2, <2>2 DEF WriterTakes
  <2> QED BY <2>1, <2>2, WriterFrame DEF Writer, FrameOut, SendCompletes, CloseOut,
             GoodbyeCompletes, WriteFails, WriterEnds, WriterAborted, queueVars
<1>4. wire' \in Seq(Command \cup {Close})
  <2>0. wire \in Seq(Command \cup {Close})
    BY DEF TypeOK
  <2>1. CASE wire' = wire
    BY <2>0, <2>1
  <2>2. CASE FrameOut
    <3>1. next \in 1..Len(sent) /\ wire' = Append(wire, sent[next])
      BY <2>2, <1>2 DEF FrameOut, InHand, WireInv
    <3>2. sent[next] \in Command \cup {Close}
      BY <3>1 DEF TypeOK
    <3> QED BY <2>0, <3>1, <3>2, AppendFacts
  <2>3. CASE CloseOut
    BY <2>0, <2>3, AppendFacts DEF CloseOut
  <2> QED BY <2>1, <2>2, <2>3, WriterFrame DEF Writer, WriterTakes, SendCompletes,
             GoodbyeCompletes, WriteFails, WriterEnds, WriterAborted
<1> QED BY <1>1, <1>2, <1>3, <1>4 DEF TypeOK, RestOK

LEMMA WireStep == TypeOK /\ WireInv /\ [Next]_vars => WireInv'
<1> SUFFICES ASSUME TypeOK, WireInv, [Next]_vars PROVE WireInv'
  OBVIOUS
<1>t. /\ next \in Nat /\ next <= Len(sent) /\ Len(sent) \in Nat /\ Close \notin Command
      /\ wire \in Seq(Command \cup {Close}) /\ Len(wire) \in Nat
      /\ DOMAIN wire = 1..Len(wire)
      /\ DOMAIN sent = 1..Len(sent)
      /\ \A i \in 1..next : sent'[i] = sent[i]
  BY QueueKeeps, ConnectionAssumption DEF TypeOK, Command
<1>1. CASE UNCHANGED <<writer, next, wire>>
  <2>1. /\ \A i \in DOMAIN wire : i <= next => wire[i] = sent[i] /\ sent'[i] = sent[i]
        /\ \A i \in 1..(next - 1) : sent[i] # Goodbye /\ sent'[i] = sent[i]
        /\ next > 0 => sent'[next] = sent[next]
    BY <1>t DEF WireInv
  <2> QED BY <1>1, <2>1 DEF WireInv
<1>2. CASE WriterTakes
  BY <1>t, <1>2 DEF WriterTakes, WireInv
<1>3. CASE FrameOut
  <2>1. /\ wire' = Append(wire, sent[next]) /\ Len(wire) = next - 1 /\ writer' = "flushing"
        /\ sent' = sent /\ next' = next /\ next > 0
        /\ sent[next] \in Command \cup {Close}
    BY <1>3 DEF FrameOut, InHand, WireInv, queueVars, TypeOK
  <2>2. /\ Len(wire') = next /\ wire'[next] = sent[next]
        /\ \A i \in 1..(next - 1) : wire'[i] = wire[i]
    BY <1>t, <2>1, AppendFacts
  <2> QED BY <1>t, <2>1, <2>2 DEF WireInv
<1>4. CASE CloseOut
  <2>1. /\ wire' = Append(wire, Close) /\ Len(wire) = next /\ writer' = "closing"
        /\ sent' = sent /\ next' = next /\ next > 0 /\ sent[next] = Goodbye
    BY <1>4 DEF CloseOut, InHand, WireInv, queueVars
  <2>2. /\ Len(wire') = next + 1 /\ wire'[next + 1] = Close
        /\ \A i \in 1..next : wire'[i] = wire[i]
    BY <1>t, <2>1, AppendFacts
  <2> QED BY <1>t, <2>1, <2>2 DEF WireInv
<1>5. CASE SendCompletes
  BY <1>t, <1>5 DEF SendCompletes, InHand, WireInv, queueVars
<1>6. CASE GoodbyeCompletes \/ WriteFails \/ WriterEnds \/ WriterAborted
  BY <1>t, <1>6 DEF GoodbyeCompletes, WriteFails, WriterEnds, WriterAborted, WriterGone, WireInv,
                    queueVars
<1> QED BY <1>1, <1>2, <1>3, <1>4, <1>5, <1>6, WriterFrame DEF Writer

---------------------------------------------------------------------------
(* Acknowledgements *)

Busy == writer \in {"sending", "flushing", "closing"}

\* A command that is owed an acknowledgement either still is after a step, or
\* was the one in hand, or the writer is gone.
LEMMA OwedStep ==
    ASSUME TypeOK, [Next]_vars, NEW m \in Command, Owed(m)
    PROVE  \/ Owed(m)'
           \/ SendCompletes /\ m = InHand
           \/ GoodbyeCompletes /\ m = InHand
           \/ WriteFails /\ m = InHand
           \/ WriterEnds \/ WriterAborted
<1>1. PICK j \in DOMAIN sent : sent[j] = m /\ (j > next \/ (j = next /\ Busy))
  BY DEF Owed, Busy
<1>2. j \in DOMAIN sent' /\ sent'[j] = m /\ j \in Nat /\ next \in Nat
  BY <1>1, QueueKeeps DEF TypeOK
<1>3. j > next' \/ (j = next' /\ Busy') => Owed(m)'
  BY <1>2 DEF Owed, Busy
<1>4. CASE UNCHANGED <<writer, next, wire>>
  BY <1>1, <1>3, <1>4 DEF Busy
<1>5. CASE WriterTakes
  BY <1>1, <1>2, <1>3, <1>5 DEF WriterTakes, Busy
<1>6. CASE FrameOut \/ CloseOut
  BY <1>1, <1>3, <1>6 DEF FrameOut, CloseOut, Busy, queueVars
<1>7. CASE SendCompletes \/ GoodbyeCompletes \/ WriteFails
  <2>1. next' = next /\ Busy
    BY <1>7 DEF SendCompletes, GoodbyeCompletes, WriteFails, Busy, queueVars
  <2>2. InHand = sent[next]
    BY <2>1 DEF InHand, Busy
  <2> QED BY <1>1, <1>3, <1>7, <2>1, <2>2
<1> QED BY <1>4, <1>5, <1>6, <1>7, WriterFrame DEF Writer

\* A new command is owed one.
LEMMA OwedNew ==
    ASSUME TypeOK, NEW m \in Command, sent' = Append(sent, m), UNCHANGED <<next, writer>>
    PROVE  Owed(m)'
<1>1. /\ Len(sent) + 1 \in DOMAIN sent' /\ sent'[Len(sent) + 1] = m
      /\ Len(sent) + 1 > next'
  BY AppendFacts DEF TypeOK
<1> QED BY <1>1 DEF Owed

\* Every command owed one is dropped with the writer.
LEMMA OwedDropped ==
    ASSUME TypeOK, NEW m \in Command, Owed(m)
    PROVE  m \in Unanswered
<1>1. InHand = IF Busy THEN sent[next] ELSE NoCmd
  BY DEF InHand, Busy
<1>2. \A j \in DOMAIN sent : sent[j] # NoCmd
  BY ConnectionAssumption DEF TypeOK, Command
<1>3. PICK j \in DOMAIN sent : sent[j] = m /\ (j > next \/ (j = next /\ Busy))
  BY DEF Owed, Busy
<1> QED BY <1>1, <1>2, <1>3 DEF Unanswered

LEMMA AckStep == Inv /\ [Next]_vars => AckInv'
<1> SUFFICES ASSUME Inv, [Next]_vars PROVE AckInv'
  OBVIOUS
<1>t. /\ TypeOK /\ WireInv /\ AckInv /\ GuardInv
      /\ call \in [Call -> {"none", "waiting", "ok", "err", "cancelled"}]
      /\ Call \subseteq Command /\ Time \in Command /\ Goodbye \in Command
      /\ Time \notin Call /\ Goodbye \notin Call /\ Time # Goodbye
  BY ConnectionAssumption DEF Inv, TypeOK, Command
<1>w. \A i \in DOMAIN wire : i \in DOMAIN wire' /\ wire'[i] = wire[i]
  <2>1. CASE wire' = wire
    BY <2>1
  <2>2. ASSUME NEW x \in Command \cup {Close}, wire' = Append(wire, x)
        PROVE  \A i \in DOMAIN wire : i \in DOMAIN wire' /\ wire'[i] = wire[i]
    BY <1>t, <2>2, AppendFacts DEF TypeOK
  <2>3. FrameOut => sent[next] \in Command /\ wire' = Append(wire, sent[next])
    BY <1>t DEF FrameOut, InHand, WireInv, TypeOK
  <2>4. CloseOut => wire' = Append(wire, Close)
    BY DEF CloseOut
  <2> QED BY <2>1, <2>2, <2>3, <2>4, WriterFrame DEF Writer, WriterTakes, SendCompletes,
             GoodbyeCompletes, WriteFails, WriterEnds, WriterAborted
<1>k. ASSUME NEW m \in Command, Owed(m)
      PROVE  \/ Owed(m)'
             \/ SendCompletes /\ m = InHand
             \/ GoodbyeCompletes /\ m = InHand
             \/ WriteFails /\ m = InHand
             \/ WriterEnds \/ WriterAborted
  BY <1>t, <1>k, OwedStep
\* A step that wakes nobody and does not end the writer.
<1>q. ASSUME \A m \in Command : Owed(m) => Owed(m)',
             \A c \in Call : \/ call'[c] = call[c]
                             \/ call'[c] \notin {"ok", "waiting"}
                             \/ call'[c] = "waiting" /\ Owed(c)' /\ writer # "ended",
             sync' = "awaiting" => sync = "awaiting" \/ (Owed(Time)' /\ writer # "ended"),
             guard' = "awaiting" /\ ack' = "none" =>
                 (guard = "awaiting" /\ ack = "none") \/ (Owed(Goodbye)' /\ writer # "ended"),
             writer' = "ended" => writer = "ended"
      PROVE  AckInv'
  <2>1. \A c \in Call : call'[c] = "waiting" => Owed(c)'
    BY <1>t, <1>q DEF AckInv
  <2>2. \A c \in Call : call'[c] = "ok" => \E i \in DOMAIN wire' : wire'[i] = c
    BY <1>t, <1>q, <1>w DEF AckInv
  <2>3. sync' = "awaiting" => Owed(Time)'
    BY <1>t, <1>q DEF AckInv
  <2>4. guard' = "awaiting" /\ ack' = "none" => Owed(Goodbye)'
    BY <1>t, <1>q DEF AckInv
  <2>5. writer' = "ended" => /\ Waiting' = {} /\ sync' # "awaiting"
                             /\ guard' = "awaiting" => ack' # "none"
    BY <1>t, <1>q DEF AckInv, Waiting
  <2> QED BY <2>1, <2>2, <2>3, <2>4, <2>5 DEF AckInv
<1>0. Writer \/ (\A m \in Command : Owed(m) => Owed(m)')
  BY <1>k DEF Writer
<1>1. CASE UNCHANGED vars
  BY <1>0, <1>1, <1>q, <1>k DEF vars, queueVars, syncVars, guardVars, Owed, AckInv
<1>2. ASSUME NEW c \in Call, Send(c) \/ CancelSend(c) PROVE AckInv'
  <2>1. \A m \in Command : Owed(m) => Owed(m)'
    <3>1. writer' = writer /\ next' = next
      BY <1>2 DEF Send, CancelSend, queueVars
    <3>2. ~SendCompletes /\ ~GoodbyeCompletes /\ ~WriteFails /\ ~WriterEnds /\ ~WriterAborted
      BY <1>t, <3>1 DEF SendCompletes, GoodbyeCompletes, WriteFails, WriterEnds, WriterAborted,
                       WriterGone
    <3> QED BY <1>k, <3>2
  <2>2. CASE CancelSend(c)
    BY <1>q, <1>t, <2>1, <2>2 DEF CancelSend, syncVars, guardVars
  <2>3. CASE Send(c) /\ QueueOpen
    <3>1. Owed(c)'
      BY <1>t, <2>3, OwedNew DEF Send
    <3> QED BY <1>q, <1>t, <2>1, <2>3, <3>1 DEF Send, QueueOpen, syncVars, guardVars
  <2>4. CASE Send(c) /\ ~QueueOpen
    BY <1>q, <1>t, <2>1, <2>4 DEF Send, syncVars, guardVars
  <2> QED BY <1>2, <2>2, <2>3, <2>4
<1>3. CASE Sync
  <2>0. writer' = writer /\ UNCHANGED <<call, guard, ack, next>>
    BY <1>3 DEF Sync, SyncWakes, SyncSends, SyncAborted, queueVars, guardVars
  <2>1. \A m \in Command : Owed(m) => Owed(m)'
    BY <1>k, <2>0 DEF SendCompletes, GoodbyeCompletes, WriteFails, WriterEnds, WriterAborted,
                      WriterGone
  <2>2. CASE SyncSends /\ QueueOpen
    <3>1. Owed(Time)'
      BY <1>t, <2>0, <2>2, OwedNew DEF SyncSends
    <3> QED BY <1>q, <2>0, <2>1, <2>2, <3>1 DEF QueueOpen
  <2>3. CASE ~(SyncSends /\ QueueOpen)
    <3>1. sync' # "awaiting"
      BY <1>3, <2>3 DEF Sync, SyncWakes, SyncSends, SyncAborted
    <3> QED BY <1>q, <2>0, <2>1, <3>1
  <2> QED BY <2>2, <2>3
<1>4. CASE WriterTakes \/ FrameOut \/ CloseOut
  <2>0. UNCHANGED <<call, sync, guard, ack>> /\ writer' # "ended" /\ writer' # "idle"
        /\ writer' # "stopping"
    BY <1>4 DEF WriterTakes, FrameOut, CloseOut, syncVars, guardVars
  <2>1. \A m \in Command : Owed(m) => Owed(m)'
    BY <1>k, <2>0, <1>4 DEF WriterTakes, FrameOut, CloseOut, SendCompletes, GoodbyeCompletes,
                            WriteFails, WriterEnds, WriterAborted, WriterGone
  <2> QED BY <1>q, <2>0, <2>1
<1>5. CASE SendCompletes \/ GoodbyeCompletes \/ WriteFails
  <2>1. PICK x \in {"ok", "err"} :
            /\ Acknowledge(InHand, x)
            /\ x = "ok" => SendCompletes \/ GoodbyeCompletes
            /\ guard' = guard /\ writer' # "ended"
    <3>1. GoodbyeCompletes => InHand = Goodbye
      BY <1>t DEF GoodbyeCompletes, InHand, WireInv
    <3> QED BY <1>5, <3>1 DEF SendCompletes, GoodbyeCompletes, WriteFails
  <2>2. \A m \in Command : Owed(m) => Owed(m)' \/ m = InHand
    BY <1>k, <2>1 DEF WriterEnds, WriterAborted, WriterGone
  <2>3. \A c \in Call : call'[c] = "waiting" => call[c] = "waiting" /\ c # InHand
    BY <2>1 DEF Acknowledge
  <2>4. \A c \in Call : call'[c] = "ok" =>
            call[c] = "ok" \/ (c = InHand /\ SendCompletes)
    <3>1. GoodbyeCompletes => InHand = Goodbye
      BY <1>t DEF GoodbyeCompletes, InHand, WireInv
    <3> QED BY <1>t, <2>1, <3>1 DEF Acknowledge
  <2>5. SendCompletes => next \in DOMAIN wire /\ wire[next] = InHand
    BY <1>t DEF SendCompletes, InHand, WireInv, TypeOK
  <2>6. \A c \in Call : call'[c] = "ok" => \E i \in DOMAIN wire' : wire'[i] = c
    BY <1>t, <1>w, <2>4, <2>5 DEF AckInv
  <2>7. sync' = "awaiting" => sync = "awaiting" /\ Time # InHand
    BY <2>1 DEF Acknowledge
  <2>8. guard' = "awaiting" /\ ack' = "none" =>
            guard = "awaiting" /\ ack = "none" /\ Goodbye # InHand
    BY <2>1 DEF Acknowledge
  <2>9. \A c \in Call : call'[c] = "waiting" => Owed(c)'
    BY <1>t, <2>2, <2>3 DEF AckInv
  <2>10. /\ sync' = "awaiting" => Owed(Time)'
         /\ guard' = "awaiting" /\ ack' = "none" => Owed(Goodbye)'
    BY <1>t, <2>2, <2>7, <2>8 DEF AckInv
  <2> QED BY <2>1, <2>6, <2>9, <2>10 DEF AckInv
<1>6. CASE WriterEnds \/ WriterAborted
  <2>1. WriterGone /\ guard' = guard /\ wire' = wire
    BY <1>6 DEF WriterEnds, WriterAborted
  <2>2. \A m \in Command : Owed(m) => m \in Unanswered
    BY <1>t, OwedDropped
  <2>3. \A c \in Call : call'[c] # "waiting" /\ (call'[c] = "ok" => call[c] = "ok")
    BY <1>t, <2>1, <2>2 DEF WriterGone, AckInv
  <2>4. sync' # "awaiting"
    BY <1>t, <2>1, <2>2 DEF WriterGone, AckInv
  <2>5. guard' = "awaiting" => ack' # "none"
    BY <1>t, <2>1, <2>2 DEF WriterGone, AckInv
  <2> QED BY <1>t, <2>1, <2>3, <2>4, <2>5 DEF AckInv, Waiting
<1>7. CASE RouterEnds \/ RouterAborted
  <2>0. UNCHANGED <<sent, next, writer, call, sync, guard, ack>>
    BY <1>7 DEF RouterEnds, RouterAborted, queueVars, syncVars, guardVars
  <2>1. \A m \in Command : Owed(m) => Owed(m)'
    BY <2>0 DEF Owed
  <2> QED BY <1>q, <2>0, <2>1
<1>8. CASE Guard
  <2>0. UNCHANGED <<next, writer, call, sync, ack>>
    BY <1>8 DEF Guard, DropGuard, DisconnectStarts, DisconnectSends, DisconnectAcked,
                DisconnectReturns, DisconnectDropped, queueVars, syncVars
  <2>1. \A m \in Command : Owed(m) => Owed(m)'
    BY <1>k, <2>0 DEF SendCompletes, GoodbyeCompletes, WriteFails, WriterEnds, WriterAborted,
                      WriterGone
  <2>2. CASE DisconnectSends /\ QueueOpen
    <3>1. Owed(Goodbye)'
      BY <1>t, <2>0, <2>2, OwedNew DEF DisconnectSends
    <3> QED BY <1>q, <2>0, <2>1, <2>2, <3>1 DEF QueueOpen
  <2>3. CASE ~(DisconnectSends /\ QueueOpen)
    <3>1. guard' # "awaiting"
      <4>1. DisconnectReturns => guard' # "awaiting"
        BY <1>t DEF DisconnectReturns, Release, GuardInv
      <4> QED BY <1>8, <2>3, <4>1 DEF Guard, DropGuard, DisconnectStarts, DisconnectSends,
                 DisconnectAcked, DisconnectDropped, Release
    <3> QED BY <1>q, <2>0, <2>1, <3>1
  <2> QED BY <2>2, <2>3
<1> QED BY <1>1, <1>2, <1>3, <1>4, <1>5, <1>6, <1>7, <1>8 DEF Next, Writer

---------------------------------------------------------------------------
(* The guard *)

LEMMA GuardStep == Inv /\ [Next]_vars => GuardInv'
<1> SUFFICES ASSUME Inv, [Next]_vars PROVE GuardInv'
  OBVIOUS
<1>t. TypeOK /\ WireInv /\ GuardInv
  BY DEF Inv
<1>1. CASE UNCHANGED vars
  BY <1>1, <1>t DEF vars, queueVars, syncVars, guardVars, GuardInv
<1>2. ASSUME NEW c \in Call, Send(c) \/ CancelSend(c) PROVE GuardInv'
  BY <1>2, <1>t DEF Send, CancelSend, queueVars, guardVars, GuardInv
<1>3. CASE Sync
  BY <1>3, <1>t DEF Sync, SyncWakes, SyncSends, SyncAborted, queueVars, guardVars, GuardInv
<1>4. CASE WriterTakes \/ FrameOut \/ CloseOut
  BY <1>4, <1>t DEF WriterTakes, FrameOut, CloseOut, guardVars, GuardInv
<1>5. CASE SendCompletes \/ WriteFails
  <2>1. ack' \in {ack, "err"} /\ ack # "ok"
    BY <1>5, <1>t DEF SendCompletes, WriteFails, Acknowledge, GuardInv
  <2> QED BY <1>5, <1>t, <2>1 DEF SendCompletes, WriteFails, Acknowledge, GuardInv
<1>6. CASE GoodbyeCompletes
  BY <1>6, <1>t DEF GoodbyeCompletes, Acknowledge, WireInv, GuardInv, queueVars
<1>7. CASE WriterEnds \/ WriterAborted
  BY <1>7, <1>t DEF WriterEnds, WriterAborted, WriterGone, GuardInv, queueVars
<1>8. CASE RouterEnds \/ RouterAborted
  BY <1>8, <1>t DEF RouterEnds, RouterAborted, queueVars, guardVars, GuardInv
<1>9. CASE DropGuard \/ DisconnectStarts \/ DisconnectSends \/ DisconnectAcked \/ DisconnectDropped
  BY <1>9, <1>t DEF DropGuard, DisconnectStarts, DisconnectSends, DisconnectAcked, TypeOK,
                    DisconnectDropped, Release, queueVars, GuardInv
<1>10. CASE DisconnectReturns
  BY <1>10, <1>t DEF DisconnectReturns, Release, queueVars, GuardInv
<1> QED BY <1>1, <1>2, <1>3, <1>4, <1>5, <1>6, <1>7, <1>8, <1>9, <1>10 DEF Next, Writer, Guard

---------------------------------------------------------------------------
(* Theorems *)

LEMMA InvInit == Init => Inv
<1> SUFFICES ASSUME Init PROVE Inv
  OBVIOUS
<1>1. TypeOK
  BY ConnectionAssumption DEF Init, TypeOK
<1> QED BY <1>1 DEF Init, Inv, TimesInv, WireInv, AckInv, GuardInv

LEMMA InvStep == Inv /\ [Next]_vars => Inv'
BY TypeStep, WireStep, AckStep, GuardStep DEF Inv

LEMMA Invariance == Spec => []Inv
BY InvInit, InvStep, PTL DEF Spec

\* Every variable keeps its type.
THEOREM TypeCorrect == Spec => []TypeOK
BY Invariance, PTL DEF Inv

\* The wire is always an initial part of what was queued.
THEOREM WireCorrect == Spec => []WireHasNoGap
<1>1. Inv => WireHasNoGap
  BY DEF Inv, TypeOK, WireInv, WireHasNoGap
<1> QED BY <1>1, Invariance, PTL

\* Only the close frame follows a goodbye on the wire.
THEOREM GoodbyeCorrect == Spec => []GoodbyeIsLast
<1>a. \A a, b, n \in Nat : a <= b /\ b <= n + 1 => a <= n \/ (a = n + 1 /\ b = n + 1)
  OBVIOUS
<1>1. ASSUME Inv, NEW i \in DOMAIN wire, wire[i] = Goodbye, NEW j \in DOMAIN wire, j > i
      PROVE  wire[j] = Close
  <2>1. /\ i \in 1..Len(wire) /\ j \in 1..Len(wire) /\ Len(wire) \in Nat
        /\ next \in Nat /\ Goodbye # Close
    BY <1>1, ConnectionAssumption DEF Inv, TypeOK
  <2>2. /\ i \in Nat /\ i > 0 /\ i <= Len(wire) /\ j \in Nat /\ j <= Len(wire)
    BY <2>1
  <2>3. Len(wire) <= next + 1 /\ (Len(wire) = next + 1 => wire[next + 1] = Close)
    BY <1>1 DEF Inv, WireInv
  <2>4. i <= next \/ (i = next + 1 /\ Len(wire) = next + 1)
    BY <1>a, <2>1, <2>2, <2>3
  <2>5. i <= next
    BY <1>1, <2>1, <2>3, <2>4
  <2>6. sent[i] = Goodbye
    BY <1>1, <2>5 DEF Inv, WireInv
  <2>7. i = next
    <3>1. i \in 1..(next - 1) => sent[i] # Goodbye
      BY <1>1 DEF Inv, WireInv
    <3>2. i \in 1..(next - 1) \/ i = next
      BY <2>1, <2>2, <2>5
    <3> QED BY <2>6, <3>1, <3>2
  <2>8. j <= next \/ (j = next + 1 /\ Len(wire) = next + 1)
    BY <1>a, <2>1, <2>2, <2>3
  <2> QED BY <1>1, <2>1, <2>2, <2>3, <2>7, <2>8
<1>2. Inv => GoodbyeIsLast
  BY <1>1 DEF GoodbyeIsLast
<1> QED BY <1>2, Invariance, PTL

\* Ok from send_message says that the message is on the wire (the writer acknowledges
\* a command after the send, spawn_writer_task).
THEOREM AckCorrect == Spec => []OkMeansWritten
<1>1. Inv => OkMeansWritten
  BY DEF Inv, AckInv, OkMeansWritten
<1> QED BY <1>1, Invariance, PTL

\* Once the writer is gone nobody waits for it: a caller whose command was queued or
\* taken is told that the connection is closed (the dropped acknowledgements).
THEOREM WaitersCorrect == Spec => []DeadWriterFailsFast
<1>1. Inv => DeadWriterFailsFast
  BY DEF Inv, AckInv, DeadWriterFailsFast
<1> QED BY <1>1, Invariance, PTL

\* Ok from disconnect() says that goodbye and close were the last frames.
THEOREM DisconnectCorrect == Spec => []DisconnectOkIsFinal
<1>1. ASSUME Inv, guard = "ok"
      PROVE  /\ Len(wire) >= 2 /\ wire[Len(wire)] = Close /\ wire[Len(wire) - 1] = Goodbye
             /\ writer = "ended" /\ {"sync", "router"} \subseteq aborted
  <2>1. ack = "ok" /\ writer = "ended" /\ {"sync", "router"} \subseteq aborted
    BY <1>1 DEF Inv, GuardInv
  <2>2. next \in Nat /\ Len(wire) = next + 1 /\ next > 0 /\ wire[next + 1] = Close
        /\ sent[next] = Goodbye
    BY <1>1, <2>1 DEF Inv, TypeOK, GuardInv, WireInv
  <2>3. wire[next] = sent[next]
    BY <1>1, <2>2 DEF Inv, TypeOK, WireInv
  <2> QED BY <2>1, <2>2, <2>3
<1>2. Inv => DisconnectOkIsFinal
  BY <1>1 DEF DisconnectOkIsFinal
<1> QED BY <1>2, Invariance, PTL

---------------------------------------------------------------------------
(* Refinement *)

Done == guard \in {"ok", "err", "dropped"}

LEMMA SaidStep ==
    ASSUME Inv, [Next]_vars
    PROVE  Said' = Said \/ (FrameOut /\ ~Said /\ Said')
<1>1. CASE wire' = wire
  BY <1>1 DEF Said
<1>2. CASE FrameOut
  <2>1. wire' = Append(wire, sent[next]) /\ sent[next] \in Command \cup {Close}
    BY <1>2 DEF FrameOut, InHand, Inv, WireInv, TypeOK
  <2>2. /\ DOMAIN wire = 1..Len(wire) /\ Len(wire) \in Nat
        /\ DOMAIN wire' = 1..(Len(wire) + 1)
        /\ \A i \in 1..Len(wire) : wire'[i] = wire[i]
    BY <2>1, AppendFacts DEF Inv, TypeOK
  <2>3. Said => Said'
    BY <2>2 DEF Said
  <2> QED BY <1>2, <2>3 DEF Said
<1>3. CASE CloseOut
  <2>1. /\ DOMAIN wire = 1..Len(wire) /\ Len(wire) \in Nat
        /\ DOMAIN wire' = 1..(Len(wire) + 1)
        /\ \A i \in 1..Len(wire) : wire'[i] = wire[i]
        /\ wire'[Len(wire) + 1] = Close /\ Close # Goodbye
    BY <1>3, AppendFacts, ConnectionAssumption DEF CloseOut, Inv, TypeOK
  <2> QED BY <2>1 DEF Said
<1> QED BY <1>1, <1>2, <1>3, WriterFrame DEF Writer, WriterTakes, SendCompletes,
           GoodbyeCompletes, WriteFails, WriterEnds, WriterAborted

LEMMA PromiseStep == Inv /\ Inv' /\ [Next]_vars => [Promise!Next]_(Promise!vars)
<1> SUFFICES ASSUME Inv, Inv', [Next]_vars PROVE [Promise!Next]_(Promise!vars)
  OBVIOUS
<1> DEFINE rd == IF Done THEN "ended" ELSE router
           rs == IF Done THEN guard ELSE "none"
<1>m. /\ rd = (IF guard \in {"ok", "err", "dropped"} THEN "ended" ELSE router)
      /\ rs = (IF guard \in {"ok", "err", "dropped"} THEN guard ELSE "none")
  BY DEF Done
<1>1. CASE guard' = guard /\ router' = router /\ Said' = Said
  BY <1>1 DEF Promise!vars
<1>2. CASE FrameOut /\ ~Said /\ Said'
  BY <1>2 DEF FrameOut, guardVars, Promise!Next, Promise!Say
<1>3. CASE RouterEnds \/ RouterAborted
  <2>1. router = "running" /\ router' = "ended" /\ guard' = guard /\ Said' = Said
    BY <1>3 DEF RouterEnds, RouterAborted, guardVars, Said
  <2>2. CASE Done
    BY <2>1, <2>2 DEF Done, Promise!vars
  <2>3. CASE ~Done
    BY <2>1, <2>3 DEF Done, Promise!Next, Promise!PeerCloses
  <2> QED BY <2>2, <2>3
<1>4. CASE Guard
  <2>1. ~Done /\ wire' = wire /\ router' = router
    BY <1>4 DEF Guard, DropGuard, DisconnectStarts, DisconnectSends, DisconnectAcked,
                DisconnectReturns, DisconnectDropped, Done
  <2>2. Said' = Said
    BY <2>1 DEF Said
  <2>3. CASE Done'
    <3>1. guard' = "ok" => Said'
      <4>1. guard' = "ok" => Len(wire)' >= 2 /\ wire'[Len(wire)' - 1] = Goodbye
        <5>1. ASSUME guard' = "ok" PROVE /\ next' \in Nat /\ Len(wire)' = next' + 1 /\ next' > 0
                                        /\ sent'[next'] = Goodbye
          <6>1. next' \in Nat
            BY DEF Inv, TypeOK
          <6>2. ack' = "ok"
            BY <5>1 DEF Inv, GuardInv
          <6>3. Len(wire)' = next' + 1
            BY <6>2 DEF Inv, GuardInv
          <6> QED BY <6>1, <6>3 DEF Inv, WireInv
        <5>2. ASSUME guard' = "ok" PROVE wire'[next'] = sent'[next']
          <6>1. DOMAIN wire' = 1..Len(wire)'
            BY DEF Inv, TypeOK
          <6>2. next' \in DOMAIN wire' /\ next' <= next'
            BY <5>1, <5>2, <6>1
          <6>3. \A i \in DOMAIN wire' : i <= next' => wire'[i] = sent'[i]
            BY DEF Inv, WireInv
          <6> QED BY <6>2, <6>3
        <5> QED BY <5>1, <5>2
      <4>2. DOMAIN wire' = 1..Len(wire)' /\ Len(wire)' \in Nat
        BY DEF Inv, TypeOK
      <4>3. guard' = "ok" => Len(wire)' - 1 \in DOMAIN wire'
        BY <4>1, <4>2
      <4> QED BY <4>1, <4>3 DEF Said
    <3>2. guard' \in {"ok", "err", "dropped"} /\ guard \notin {"ok", "err", "dropped"}
      BY <2>1, <2>3 DEF Done
    <3>3. Promise!End(guard')
      BY <2>2, <3>1, <3>2 DEF Promise!End
    <3> QED BY <3>2, <3>3 DEF Promise!Next
  <2>4. CASE ~Done'
    BY <2>1, <2>2, <2>4 DEF Done, Promise!vars
  <2> QED BY <2>3, <2>4
<1>5. CASE ~Guard /\ ~RouterEnds /\ ~RouterAborted
  <2>1. guard' = guard /\ router' = router
    BY <1>5 DEF Next, Send, CancelSend, Sync, SyncWakes, SyncSends, SyncAborted, Writer,
                WriterTakes, FrameOut, SendCompletes, CloseOut, GoodbyeCompletes, WriteFails,
                WriterEnds, WriterAborted, vars, guardVars
  <2> QED BY <1>1, <1>2, <2>1, SaidStep
<1> QED BY <1>3, <1>4, <1>5

\* To its holder, a connection with all its tasks is a GoodbyeFlush.
THEOREM PromiseKept == Spec => KeepsPromise
<1>1. Init => Promise!Init
  BY DEF Init, Promise!Init, Said
<1>2. Inv /\ Inv' /\ [Next]_vars => [Promise!Next]_(Promise!vars)
  BY PromiseStep
<1> QED BY <1>1, <1>2, Invariance, PTL DEF Spec, KeepsPromise, Promise!Spec

---------------------------------------------------------------------------
(* The reading side *)

USE DEF streamVars, appVars

---------------------------------------------------------------------------
(* Sequences *)

\* What Append does, element by element.
LEMMA Appended ==
    ASSUME NEW S, NEW s \in Seq(S), NEW e \in S
    PROVE  /\ Append(s, e) \in Seq(S)
           /\ Len(Append(s, e)) = Len(s) + 1
           /\ Len(s) \in Nat
           /\ DOMAIN s = 1..Len(s)
           /\ DOMAIN Append(s, e) = 1..(Len(s) + 1)
           /\ \A i \in 1..Len(s) : Append(s, e)[i] = s[i]
           /\ Append(s, e)[Len(s) + 1] = e
BY AppendProperties

---------------------------------------------------------------------------
(* The invariant, apart from the properties *)

\* Frame k is the hello that ended the handshake.
HelloIs(k) ==
    /\ k \in DOMAIN read
    /\ IsText(read[k], {"hello"})
    /\ \A j \in 1..(k - 1) : read[j].kind # "text"

\* Where the handshake stands, and the stream message being settled.
HelloInv ==
    /\ phase = "hello" => \A j \in DOMAIN read : read[j].kind # "text"
    /\ phase \in {"state", "reading", "settling", "ended"} => HelloIs(HelloAt)
    /\ phase = "state" => HelloAt = Len(read)
    /\ phase = "settling" => /\ HelloAt < Len(read)
                             /\ IsText(read[Len(read)], {"start", "end"})

\* The router has given up a channel only if its receiver is gone.
OpenInv == \A h \in Channel : closed[h] => ~open[h]

\* A request still has a role to look at.
CheckInv == \A q \in Request : req[q].stage = "checking" => req[q].checked < Len(RoleOrder)

RouterInv == RouterTypeOK /\ HelloInv /\ OpenInv /\ CheckInv

---------------------------------------------------------------------------
(* Types *)

\* A request's record with one step of its progress.
LEMMA RequestTyped ==
    ASSUME RouterTypeOK, NEW q \in Request, Len(RoleOrder) = 3
    PROVE  /\ \A roles \in SUBSET Role, st \in {"checking", "rejected"} :
                  [req EXCEPT ![q] = [stage |-> st, wants |-> roles, checked |-> 0,
                                      since |-> LastTaken]]
                  \in [Request -> [stage : {"none", "checking", "passed", "rejected"},
                                   wants : SUBSET Role, checked : 0..Len(RoleOrder),
                                   since : 0..MaxFrames]]
<1>1. LastTaken \in 0..MaxFrames
  <2>1. CASE taken = 0
    BY <2>1, RouterAssumption DEF LastTaken
  <2>2. CASE taken # 0
    <3>1. chan["message"] \in Seq(1..MaxFrames)
      BY DEF RouterTypeOK, Channel
    <3>2. taken \in 1..Len(chan["message"])
      BY <2>2, <3>1 DEF RouterTypeOK
    <3>3. chan["message"][taken] \in 1..MaxFrames
      BY <3>1, <3>2, ElementOfSeq
    <3> QED BY <2>2, <3>3 DEF LastTaken
  <2> QED BY <2>1, <2>2
<1> QED BY <1>1 DEF RouterTypeOK

LEMMA CheckTyped ==
    ASSUME RouterTypeOK, CheckInv, NEW q \in Request, CheckRole(q)
    PROVE  /\ req' \in [Request -> [stage : {"none", "checking", "passed", "rejected"},
                                   wants : SUBSET Role, checked : 0..Len(RoleOrder),
                                   since : 0..MaxFrames]]
           /\ \A p \in Request \ {q} : req'[p] = req[p]
           /\ req'[q].checked = req[q].checked + 1
           /\ req'[q].stage = "checking" => req[q].checked + 1 # Len(RoleOrder)
           /\ req[q].stage = "checking" /\ req[q].checked \in 0..2
           /\ req'[q].stage = IF /\ RoleOrder[req[q].checked + 1] \in req[q].wants
                                 /\ ~gate[RoleOrder[req[q].checked + 1]] THEN "rejected"
                              ELSE IF req[q].checked + 1 = 3 THEN "passed" ELSE "checking"
           /\ req'[q].wants = req[q].wants /\ req'[q].since = req[q].since
<1> DEFINE R == [stage : {"none", "checking", "passed", "rejected"}, wants : SUBSET Role,
                 checked : 0..Len(RoleOrder), since : 0..MaxFrames]
           n == req[q].checked + 1
           st == IF RoleOrder[n] \in req[q].wants /\ ~gate[RoleOrder[n]] THEN "rejected"
                 ELSE IF n = Len(RoleOrder) THEN "passed" ELSE req[q].stage
<1>0. Len(RoleOrder) = 3
  BY DEF RoleOrder
<1>1. req \in [Request -> R] /\ req[q] \in R
  BY DEF RouterTypeOK
<1>2. req[q].stage = "checking" /\ req[q].checked < 3 /\ req[q].checked \in 0..3
  BY <1>0, <1>1 DEF CheckRole, CheckInv
<1>3. n \in 0..3
  BY <1>2
<1>4. req' = [req EXCEPT ![q].checked = n, ![q].stage = st]
  BY DEF CheckRole
<1> HIDE DEF n, st
<1>5. st \in {"checking", "passed", "rejected"} /\ (st = "checking" => n # 3)
  BY <1>0, <1>2 DEF st
<1>6. [req[q] EXCEPT !.checked = n, !.stage = st] \in R
  BY <1>0, <1>1, <1>3, <1>5
<1>7. req' = [req EXCEPT ![q] = [req[q] EXCEPT !.checked = n, !.stage = st]]
  BY <1>1, <1>4
<1>8. req' \in [Request -> R] /\ req'[q].stage = st /\ req'[q].checked = n
  BY <1>1, <1>6, <1>7
<1>9. /\ \A p \in Request \ {q} : req'[p] = req[p]
      /\ req'[q].wants = req[q].wants /\ req'[q].since = req[q].since
  BY <1>1, <1>7
<1>10. st = IF /\ RoleOrder[req[q].checked + 1] \in req[q].wants
               /\ ~gate[RoleOrder[req[q].checked + 1]] THEN "rejected"
            ELSE IF req[q].checked + 1 = 3 THEN "passed" ELSE "checking"
  BY <1>0, <1>2 DEF st, n
<1> QED BY <1>0, <1>2, <1>5, <1>8, <1>9, <1>10 DEF n

\* Sending keeps the channels' types, and the messages received among those sent.
LEMMA SendTyped ==
    ASSUME RouterTypeOK, NEW h \in Channel, NEW k \in 1..MaxFrames, SendTo(h, k)
    PROVE  /\ chan' \in [Channel -> Seq(1..MaxFrames)]
           /\ closed' \in [Channel -> BOOLEAN]
           /\ Len(chan["message"]) <= Len(chan'["message"])
<1>0. "message" \in Channel /\ chan \in [Channel -> Seq(1..MaxFrames)]
  BY DEF RouterTypeOK, Channel
<1>1. closed' \in [Channel -> BOOLEAN]
  BY DEF SendTo, RouterTypeOK
<1>2. CASE chan' = chan
  BY <1>0, <1>1, <1>2
<1>3. CASE chan' = [chan EXCEPT ![h] = Append(@, k)]
  <2>1. /\ Append(chan[h], k) \in Seq(1..MaxFrames)
        /\ Len(Append(chan[h], k)) = Len(chan[h]) + 1 /\ Len(chan[h]) \in Nat
    BY <1>0, Appended
  <2>2. Len(chan["message"]) \in Nat
    BY <1>0
  <2> QED BY <1>0, <1>1, <1>3, <2>1, <2>2
<1> QED BY <1>2, <1>3 DEF SendTo

LEMMA RouterTypeStep == RouterInv /\ [RouterNext]_routerVars => RouterTypeOK'
<1> SUFFICES ASSUME RouterTypeOK, HelloInv, CheckInv, [RouterNext]_routerVars PROVE RouterTypeOK'
  BY DEF RouterInv
<1>0. Len(RoleOrder) = 3 /\ MaxFrames \in Nat /\ "message" \in Channel
  BY RouterAssumption DEF RoleOrder, Channel
<1>1. ASSUME NEW f \in Frames, Reads(f)
      PROVE  /\ read' \in Seq(Frames) /\ Len(read') <= MaxFrames
             /\ Here \in 1..MaxFrames
  <2>1. /\ Append(read, f) \in Seq(Frames)
        /\ Len(Append(read, f)) = Len(read) + 1 /\ Len(read) \in Nat
    BY Appended DEF RouterTypeOK
  <2> QED BY <1>0, <1>1, <2>1 DEF Reads, Here
<1>2. ASSUME NEW f \in Frames, AwaitHello(f) PROVE RouterTypeOK'
  BY <1>1, <1>2 DEF AwaitHello, RouterTypeOK
<1>3. ASSUME NEW f \in Frames, RouteBinary(f) PROVE RouterTypeOK'
  <2>1. BinaryChannel(f) # "none" => BinaryChannel(f) \in Channel
    BY DEF BinaryChannel, Channel
  <2>2. CASE BinaryChannel(f) = "none"
    BY <1>1, <1>3, <2>2 DEF RouteBinary, RouterTypeOK
  <2>3. CASE BinaryChannel(f) # "none"
    <3>1. SendTo(BinaryChannel(f), Here)
      BY <1>3, <2>3 DEF RouteBinary
    <3>2. /\ chan' \in [Channel -> Seq(1..MaxFrames)]
          /\ closed' \in [Channel -> BOOLEAN]
          /\ Len(chan["message"]) <= Len(chan'["message"])
      BY <1>1, <1>3, <2>1, <2>3, <3>1, SendTyped DEF RouteBinary
    <3>3. taken' \in 0..Len(chan'["message"])
      BY <1>0, <1>3, <3>2 DEF RouteBinary, RouterTypeOK
    <3> QED BY <1>1, <1>3, <3>2, <3>3 DEF RouteBinary, RouterTypeOK
  <2> QED BY <2>2, <2>3
<1>4. ASSUME NEW f \in Frames, RouteTime(f) PROVE RouterTypeOK'
  <2>1. clock' \in Seq(1..MaxFrames)
    BY <1>1, <1>4, Appended DEF RouteTime, RouterTypeOK
  <2> QED BY <1>1, <1>4, <2>1 DEF RouteTime, RouterTypeOK
<1>5. ASSUME NEW f \in Frames, RouteMessage(f) PROVE RouterTypeOK'
  <2>1. /\ chan' \in [Channel -> Seq(1..MaxFrames)]
        /\ closed' \in [Channel -> BOOLEAN]
        /\ Len(chan["message"]) <= Len(chan'["message"])
    BY <1>0, <1>1, <1>5, SendTyped DEF RouteMessage
  <2>2. taken' \in 0..Len(chan'["message"])
    BY <1>0, <1>5, <2>1 DEF RouteMessage, RouterTypeOK
  <2> QED BY <1>1, <1>5, <2>1, <2>2 DEF RouteMessage, RouterTypeOK
<1>6. ASSUME NEW f \in Frames, RouteNothing(f) \/ RouterStops(f) PROVE RouterTypeOK'
  BY <1>1, <1>6 DEF RouteNothing, RouterStops, RouterTypeOK
<1>7. ASSUME NEW f \in Frames, TakeStream(f) PROVE RouterTypeOK'
  BY <1>0, <1>1, <1>7 DEF TakeStream, RouterTypeOK
<1>8. CASE SendState
  BY <1>8 DEF SendState, RouterTypeOK
<1>9. CASE SettleRole
  <2>1. settled \in 0..2
    BY <1>0, <1>9 DEF SettleRole, RouterTypeOK
  <2>2. RoleOrder[settled + 1] \in Role
    BY <2>1 DEF RoleOrder, Role
  <2>3. gate' \in [Role -> BOOLEAN]
    BY <1>9, <2>2 DEF SettleRole, Settle, RouterTypeOK
  <2> QED BY <1>0, <1>9, <2>1, <2>3 DEF SettleRole, RouterTypeOK
<1>10. CASE ForwardStream
  <2>1. Len(read) \in 1..MaxFrames
    BY <1>0, <1>10 DEF ForwardStream, RouterTypeOK, HelloInv, HelloIs
  <2>2. /\ chan' \in [Channel -> Seq(1..MaxFrames)]
        /\ closed' \in [Channel -> BOOLEAN]
        /\ Len(chan["message"]) <= Len(chan'["message"])
    BY <1>0, <1>10, <2>1, SendTyped DEF ForwardStream
  <2>3. taken' \in 0..Len(chan'["message"])
    BY <1>0, <1>10, <2>2 DEF ForwardStream, RouterTypeOK
  <2> QED BY <1>10, <2>2, <2>3 DEF ForwardStream, RouterTypeOK
<1>11. CASE TakeMessage
  BY <1>0, <1>11 DEF TakeMessage, RouterTypeOK
<1>12. ASSUME NEW h \in Droppable, DropReceiver(h) PROVE RouterTypeOK'
  BY <1>12, RouterAssumption DEF DropReceiver, RouterTypeOK
<1>13. ASSUME NEW q \in Request, CheckRole(q) PROVE RouterTypeOK'
  <2>1. req' \in [Request -> [stage : {"none", "checking", "passed", "rejected"},
                              wants : SUBSET Role, checked : 0..Len(RoleOrder),
                              since : 0..MaxFrames]]
    BY <1>13, CheckTyped
  <2> QED BY <1>13, <2>1 DEF CheckRole, RouterTypeOK
<1>14. ASSUME NEW q \in Request, NEW roles \in SUBSET Role, CallRequest(q, roles)
       PROVE  RouterTypeOK'
  BY <1>0, <1>14, RequestTyped DEF CallRequest, RouterTypeOK
<1>15. CASE UNCHANGED routerVars
  BY <1>15 DEF routerVars, RouterTypeOK
<1> QED BY <1>2, <1>3, <1>4, <1>5, <1>6, <1>7, <1>8, <1>9, <1>10, <1>11, <1>12, <1>13,
           <1>14, <1>15 DEF RouterNext, Route

---------------------------------------------------------------------------
(* The handshake *)

LEMMA ReadTyped == RouterTypeOK => Len(read) \in Nat /\ DOMAIN read = 1..Len(read)
BY DEF RouterTypeOK

\* There is one hello that ends the handshake.
LEMMA HelloUnique ==
    ASSUME RouterTypeOK', NEW k, HelloIs(k)'
    PROVE  HelloAt' = k
<1>1. Len(read') \in Nat /\ DOMAIN read' = 1..Len(read')
  BY DEF RouterTypeOK
<1>2. \A j \in DOMAIN read' : HelloIs(j)' => j = k
  BY <1>1 DEF HelloIs, IsText
<1> QED BY <1>2 DEF HelloAt, HelloIs

\* A later frame leaves it where it is.
LEMMA HelloKept ==
    ASSUME RouterTypeOK, RouterTypeOK', NEW f \in Frames, read' = Append(read, f), HelloIs(HelloAt)
    PROVE  HelloAt' = HelloAt /\ HelloIs(HelloAt)'
<1>1. PICK h : h = HelloAt
  OBVIOUS
<1>2. HelloIs(h)
  BY <1>1
<1>3. HelloIs(h)'
  BY <1>2, Appended, ReadTyped DEF HelloIs, RouterTypeOK
<1>4. HelloAt' = h
  BY <1>3, HelloUnique
<1> QED BY <1>1, <1>3, <1>4

LEMMA HelloStep == RouterInv /\ RouterTypeOK' /\ [RouterNext]_routerVars => HelloInv'
<1> SUFFICES ASSUME RouterTypeOK, HelloInv, RouterTypeOK', [RouterNext]_routerVars PROVE HelloInv'
  BY DEF RouterInv
<1>1. ASSUME NEW f \in Frames, AwaitHello(f) PROVE HelloInv'
  <2> PICK n : n = Len(read) + 1
    OBVIOUS
  <2>1. /\ phase = "hello" /\ read' = Append(read, f)
        /\ \A j \in 1..Len(read) : read[j].kind # "text" /\ read'[j] = read[j]
        /\ DOMAIN read' = 1..n /\ read'[n] = f /\ n \in Nat /\ Len(read') = n
    BY <1>1, Appended, ReadTyped DEF AwaitHello, Reads, HelloInv, RouterTypeOK
  <2>2. CASE IsText(f, {"hello"})
    <3>1. HelloIs(n)'
      BY <2>1, <2>2 DEF HelloIs, IsText
    <3>2. HelloAt' = n
      BY <3>1, HelloUnique
    <3>3. phase' = "state"
      BY <1>1, <2>2 DEF AwaitHello, IsText
    <3> QED BY <2>1, <3>1, <3>2, <3>3 DEF HelloInv
  <2>3. CASE ~IsText(f, {"hello"})
    <3>1. phase' \in {"failed", "hello"} /\ (phase' = "hello" => f.kind # "text")
      BY <1>1, <2>3 DEF AwaitHello, IsText
    <3>2. phase' = "hello" => \A j \in DOMAIN read' : read'[j].kind # "text"
      BY <2>1, <3>1
    <3> QED BY <3>1, <3>2 DEF HelloInv
  <2> QED BY <2>2, <2>3
<1>2. ASSUME NEW f \in Frames, Route(f) PROVE HelloInv'
  <2>1. phase = "reading" /\ read' = Append(read, f)
    BY <1>2 DEF Route, RouteBinary, RouteTime, RouteMessage, RouteNothing, TakeStream,
                RouterStops, Reads
  <2>2. HelloIs(HelloAt) /\ HelloAt \in 1..Len(read)
    BY <2>1, ReadTyped DEF HelloInv, HelloIs
  <2>3. HelloAt' = HelloAt /\ HelloIs(HelloAt)'
    BY <2>1, <2>2, HelloKept
  <2>4. HelloAt' < Len(read') /\ read'[Len(read')] = f
    BY <2>1, <2>2, <2>3, Appended, ReadTyped DEF RouterTypeOK
  <2>5. phase' \in {"reading", "settling", "ended"}
    BY <1>2 DEF Route, RouteBinary, RouteTime, RouteMessage, RouteNothing, TakeStream,
                RouterStops
  <2>6. phase' = "settling" => IsText(f, {"start", "end"})
    BY <1>2 DEF Route, RouteBinary, RouteTime, RouteMessage, RouteNothing, TakeStream,
                RouterStops
  <2> QED BY <2>3, <2>4, <2>5, <2>6 DEF HelloInv
<1>3. CASE read' = read /\ phase' = phase
  <2>1. HelloAt' = HelloAt /\ (\A k : HelloIs(k)' <=> HelloIs(k))
    BY <1>3 DEF HelloAt, HelloIs
  <2> QED BY <1>3, <2>1 DEF HelloInv, HelloIs
<1>4. CASE SendState \/ ForwardStream
  <2>1. read' = read /\ phase \in {"state", "settling"} /\ phase' \in {"reading", "failed"}
    BY <1>4 DEF SendState, ForwardStream
  <2>2. HelloAt' = HelloAt /\ (HelloIs(HelloAt)' <=> HelloIs(HelloAt))
    BY <2>1 DEF HelloAt, HelloIs
  <2> QED BY <2>1, <2>2 DEF HelloInv
<1> QED BY <1>1, <1>2, <1>3, <1>4 DEF RouterNext, SettleRole, TakeMessage, DropReceiver,
           CheckRole, CallRequest, routerVars

---------------------------------------------------------------------------
(* Receivers and requests in progress *)

LEMMA OpenStep == RouterInv /\ [RouterNext]_routerVars => OpenInv'
<1> SUFFICES ASSUME RouterTypeOK, OpenInv, [RouterNext]_routerVars PROVE OpenInv'
  BY DEF RouterInv
<1>1. ASSUME NEW h \in Channel, NEW k, SendTo(h, k), open' = open PROVE OpenInv'
  BY <1>1 DEF SendTo, OpenInv, RouterTypeOK
<1>2. CASE closed' = closed /\ open' = open
  BY <1>2 DEF OpenInv
<1>3. ASSUME NEW f \in Frames, RouteBinary(f) PROVE OpenInv'
  <2>1. BinaryChannel(f) # "none" => BinaryChannel(f) \in Channel
    BY DEF BinaryChannel, Channel
  <2> QED BY <1>1, <1>2, <1>3, <2>1 DEF RouteBinary
<1>4. ASSUME NEW f \in Frames, RouteMessage(f) \/ ForwardStream PROVE OpenInv'
  BY <1>1, <1>4 DEF RouteMessage, ForwardStream, Channel
<1>5. ASSUME NEW h \in Droppable, DropReceiver(h) PROVE OpenInv'
  BY <1>5, RouterAssumption DEF DropReceiver, OpenInv, RouterTypeOK
<1>6. CASE ForwardStream
  BY <1>1, <1>6 DEF ForwardStream, Channel
<1> QED BY <1>2, <1>3, <1>4, <1>5, <1>6 DEF RouterNext, Route, AwaitHello, RouteTime, RouteNothing,
           TakeStream, RouterStops, SendState, SettleRole, TakeMessage, CheckRole,
           CallRequest, routerVars

LEMMA CheckStep == RouterInv /\ [RouterNext]_routerVars => CheckInv'
<1> SUFFICES ASSUME RouterTypeOK, CheckInv, [RouterNext]_routerVars PROVE CheckInv'
  BY DEF RouterInv
<1>0. Len(RoleOrder) = 3
  BY DEF RoleOrder
<1>1. ASSUME NEW q \in Request, CheckRole(q) PROVE CheckInv'
  <2>1. req[q].checked \in 0..3 /\ req[q].checked < 3
    BY <1>0, <1>1 DEF CheckRole, CheckInv, RouterTypeOK
  <2>2. /\ \A p \in Request \ {q} : req'[p] = req[p]
        /\ req'[q].checked = req[q].checked + 1
        /\ req'[q].stage = "checking" => req[q].checked + 1 # Len(RoleOrder)
    BY <1>1, CheckTyped
  <2> QED BY <1>0, <2>1, <2>2 DEF CheckInv
<1>2. ASSUME NEW q \in Request, NEW roles \in SUBSET Role, CallRequest(q, roles)
      PROVE  CheckInv'
  BY <1>0, <1>2 DEF CallRequest, CheckInv, RouterTypeOK
<1>3. CASE req' = req
  BY <1>3 DEF CheckInv
<1> QED BY <1>1, <1>2, <1>3 DEF RouterNext, Route, AwaitHello, RouteBinary, RouteTime, RouteMessage,
           RouteNothing, TakeStream, RouterStops, SendState, SettleRole, ForwardStream,
           TakeMessage, DropReceiver, routerVars

LEMMA InitInv == RouterInit => RouterInv
<1> SUFFICES ASSUME RouterInit PROVE RouterInv
  OBVIOUS
<1>1. RouterTypeOK
  BY RouterAssumption DEF RouterInit, NoReq, RouterTypeOK, RoleOrder, Channel
<1>2. HelloInv /\ OpenInv /\ CheckInv
  BY DEF RouterInit, NoReq, HelloInv, OpenInv, CheckInv
<1> QED BY <1>1, <1>2 DEF RouterInv

LEMMA StepInv == RouterInv /\ [RouterNext]_routerVars => RouterInv'
BY RouterTypeStep, HelloStep, OpenStep, CheckStep DEF RouterInv

\* MessageRouter: the variables of drive(), of message_router and of the requests
\* keep their types.
THEOREM RouterTypeCorrect == RouterSpec => []RouterTypeOK
<1>1. RouterInv => RouterTypeOK
  BY DEF RouterInv
<1> QED BY <1>1, InitInv, StepInv, PTL DEF RouterSpec

---------------------------------------------------------------------------
(* Routing *)

\* The places in a channel, and what one more does to them.
LEMMA PlacesAppended ==
    ASSUME NEW s \in Seq(1..MaxFrames), NEW e \in 1..MaxFrames
    PROVE  /\ Places(Append(s, e)) = Places(s) \cup {e}
           /\ InOrder(s) /\ (\A k \in Places(s) : k < e) => InOrder(Append(s, e))
<1>1. /\ Len(s) \in Nat /\ DOMAIN s = 1..Len(s)
      /\ DOMAIN Append(s, e) = 1..(Len(s) + 1)
      /\ \A i \in 1..Len(s) : Append(s, e)[i] = s[i]
      /\ Append(s, e)[Len(s) + 1] = e
      /\ \A i \in 1..Len(s) : s[i] \in 1..MaxFrames
      /\ 1..MaxFrames \subseteq Nat
  BY Appended, RouterAssumption
<1>2. Places(Append(s, e)) = Places(s) \cup {e}
  BY <1>1 DEF Places
<1>3. ASSUME InOrder(s), \A k \in Places(s) : k < e,
             NEW i \in DOMAIN Append(s, e), NEW j \in DOMAIN Append(s, e), i < j
      PROVE  Append(s, e)[i] < Append(s, e)[j]
  <2>1. CASE j = Len(s) + 1
    <3>1. i \in 1..Len(s) /\ s[i] \in Places(s)
      BY <1>1, <1>3, <2>1 DEF Places
    <3> QED BY <1>1, <1>3, <2>1, <3>1
  <2>2. CASE j # Len(s) + 1
    BY <1>1, <1>3, <2>2 DEF InOrder
  <2> QED BY <2>1, <2>2
<1> QED BY <1>2, <1>3 DEF InOrder

\* One channel of ChannelsComplete, and the clock's part.
ChannelComplete(h) ==
    /\ InOrder(chan[h])
    /\ Places(chan[h]) \subseteq {k \in Routed : Belongs(read[k], h)}
    /\ open[h] => Places(chan[h]) = {k \in Routed : Belongs(read[k], h)}

ClockComplete ==
    /\ InOrder(clock)
    /\ Places(clock) = {k \in Routed : IsText(read[k], {"time"})}

\* A frame is done with: everything before it was, and is as it was.
DoneWith(k) ==
    /\ k \in 1..MaxFrames
    /\ Routed \subseteq 1..(k - 1)
    /\ Routed' = Routed \cup {k}
    /\ \A j \in Routed : read'[j] = read[j]

\* A frame that is sent where it belongs leaves every channel complete.
LEMMA Delivered ==
    ASSUME RouterTypeOK, OpenInv, NEW k, DoneWith(k), NEW h \in Channel, SendTo(h, k), open' = open,
           \A g \in Channel : Belongs(read'[k], g) <=> g = h,
           NEW g \in Channel, ChannelComplete(g)
    PROVE  ChannelComplete(g)'
<1> DEFINE R == {j \in Routed : Belongs(read[j], g)}
<1>0. /\ k \in 1..MaxFrames /\ Routed \subseteq 1..(k - 1) /\ Routed' = Routed \cup {k}
      /\ \A j \in Routed : read'[j] = read[j]
  BY DEF DoneWith
<1>1. CASE g # h
  <2>1. chan'[g] = chan[g]
    BY <1>1 DEF SendTo, RouterTypeOK
  <2>2. {j \in Routed' : Belongs(read'[j], g)} = R
    BY <1>0, <1>1
  <2> QED BY <2>1, <2>2 DEF ChannelComplete
<1>2. CASE g = h
  <2>1. {j \in Routed' : Belongs(read'[j], g)} = R \cup {k}
    BY <1>0, <1>2
  <2>2. CASE open[h]
    <3>1. chan[g] \in Seq(1..MaxFrames) /\ chan'[g] = Append(chan[g], k)
      BY <1>2, <2>2 DEF SendTo, OpenInv, RouterTypeOK
    <3>2. Places(chan[g]) = R /\ InOrder(chan[g])
      BY <1>2, <2>2 DEF ChannelComplete
    <3>3. \A j \in Routed : j < k
      BY <1>0
    <3>4. \A j \in R : j < k
      BY <3>3
    <3>5. Places(chan'[g]) = R \cup {k} /\ InOrder(chan'[g])
      BY <1>0, <3>1, <3>2, <3>4, PlacesAppended
    <3> QED BY <2>1, <3>5 DEF ChannelComplete
  <2>3. CASE ~open[h]
    <3>1. chan'[g] = chan[g]
      BY <2>3 DEF SendTo
    <3> QED BY <1>2, <2>1, <2>3, <3>1 DEF ChannelComplete
  <2> QED BY <2>2, <2>3
<1> QED BY <1>1, <1>2

\* A frame that belongs in no channel is sent to none.
LEMMA NotDelivered ==
    ASSUME RouterTypeOK, NEW k, DoneWith(k), chan' = chan, open' = open, NEW g \in Channel,
           ~Belongs(read'[k], g), ChannelComplete(g)
    PROVE  ChannelComplete(g)'
<1>1. {j \in Routed' : Belongs(read'[j], g)} = {j \in Routed : Belongs(read[j], g)}
  BY DEF DoneWith
<1> QED BY <1>1 DEF ChannelComplete

\* The clock is given the time messages.
LEMMA ClockDelivered ==
    ASSUME RouterTypeOK, ClockComplete, NEW k, DoneWith(k),
           IF IsText(read'[k], {"time"}) THEN clock' = Append(clock, k) ELSE clock' = clock
    PROVE  ClockComplete'
<1> DEFINE R == {j \in Routed : IsText(read[j], {"time"})}
<1>0. /\ k \in 1..MaxFrames /\ Routed \subseteq 1..(k - 1) /\ Routed' = Routed \cup {k}
      /\ \A j \in Routed : read'[j] = read[j]
  BY DEF DoneWith
<1>1. CASE IsText(read'[k], {"time"})
  <2>1. {j \in Routed' : IsText(read'[j], {"time"})} = R \cup {k}
    BY <1>0, <1>1
  <2>2. \A j \in R : j < k
    BY <1>0
  <2>3. clock \in Seq(1..MaxFrames)
    BY DEF RouterTypeOK
  <2>4. Places(clock') = R \cup {k} /\ InOrder(clock')
    BY <1>0, <1>1, <2>2, <2>3, PlacesAppended DEF ClockComplete
  <2> QED BY <2>1, <2>4 DEF ClockComplete
<1>2. CASE ~IsText(read'[k], {"time"})
  <2>1. {j \in Routed' : IsText(read'[j], {"time"})} = R
    BY <1>0, <1>2
  <2> QED BY <1>2, <2>1 DEF ClockComplete
<1> QED BY <1>1, <1>2

\* Every frame that the router reads and does not settle is done with at once.
LEMMA ReadIsDone ==
    ASSUME RouterInv, RouterTypeOK', NEW f \in Frames, Reads(f), phase = "reading",
           phase' \in {"reading", "ended"}
    PROVE  DoneWith(Here) /\ read'[Here] = f
<1>1. /\ read' = Append(read, f) /\ Len(read') = Len(read) + 1 /\ Len(read) \in Nat
      /\ DOMAIN read = 1..Len(read) /\ DOMAIN read' = 1..(Len(read) + 1)
      /\ \A j \in 1..Len(read) : read'[j] = read[j]
      /\ read'[Len(read) + 1] = f
  BY Appended DEF RouterInv, RouterTypeOK, Reads
<1>2. Here \in 1..MaxFrames
  BY <1>1, RouterAssumption DEF Here, Reads
<1>3. HelloIs(HelloAt) /\ HelloAt \in 1..Len(read)
  BY <1>1 DEF RouterInv, HelloInv, HelloIs
<1>4. HelloAt' = HelloAt
  BY <1>1, <1>3, HelloKept DEF RouterInv
<1>5. Routed = {k \in 1..Len(read) : k > HelloAt}
  BY <1>1 DEF Routed
<1>6. Routed' = {k \in 1..(Len(read) + 1) : k > HelloAt}
  BY <1>1, <1>4 DEF Routed
<1>7. Routed' = Routed \cup {Here} /\ Routed \subseteq 1..(Here - 1)
  BY <1>1, <1>3, <1>5, <1>6 DEF Here
<1> QED BY <1>1, <1>2, <1>5, <1>7 DEF DoneWith, Here

\* A stream message is done with when it is forwarded.
LEMMA ForwardIsDone ==
    ASSUME RouterInv, ForwardStream
    PROVE  /\ DoneWith(Len(read)) /\ read' = read
           /\ IsText(read[Len(read)], {"start", "end"})
<1>1. /\ read' = read /\ phase = "settling" /\ phase' = "reading"
      /\ Len(read) \in Nat /\ DOMAIN read = 1..Len(read) /\ Len(read) <= MaxFrames
  BY ReadTyped DEF ForwardStream, RouterInv, RouterTypeOK
<1>2. HelloAt \in 1..Len(read) /\ HelloAt < Len(read)
      /\ IsText(read[Len(read)], {"start", "end"})
  BY <1>1 DEF RouterInv, HelloInv, HelloIs
<1>3. HelloAt' = HelloAt
  BY <1>1 DEF HelloAt
<1>4. Routed = {k \in 1..Len(read) : k > HelloAt /\ k < Len(read)}
  BY <1>1 DEF Routed
<1>5. Routed' = {k \in 1..Len(read) : k > HelloAt}
  BY <1>1, <1>3 DEF Routed
<1>6. Len(read) \in 1..MaxFrames
  BY <1>1, <1>2, RouterAssumption
<1>7. Routed' = Routed \cup {Len(read)} /\ Routed \subseteq 1..(Len(read) - 1)
  BY <1>1, <1>2, <1>4, <1>5
<1> QED BY <1>1, <1>2, <1>6, <1>7 DEF DoneWith

\* A step that is done with no frame.
LEMMA NothingDone ==
    ASSUME ChannelsComplete, Routed' = Routed, \A j \in Routed : read'[j] = read[j],
           chan' = chan, clock' = clock, \A g \in Channel : open'[g] => open[g]
    PROVE  ChannelsComplete'
<1>1. \A g \in Channel : {j \in Routed' : Belongs(read'[j], g)}
                             = {j \in Routed : Belongs(read[j], g)}
  OBVIOUS
<1>2. {j \in Routed' : IsText(read'[j], {"time"})} = {j \in Routed : IsText(read[j], {"time"})}
  OBVIOUS
<1> QED BY <1>1, <1>2 DEF ChannelsComplete

LEMMA ByChannel ==
    ChannelsComplete <=> ClockComplete /\ \A g \in Channel : ChannelComplete(g)
BY DEF ChannelsComplete, ClockComplete, ChannelComplete

\* A frame read while the router is idle, by where it belongs.
LEMMA FrameStep ==
    ASSUME RouterInv, RouterTypeOK', ChannelsComplete, NEW f \in Frames, Reads(f), phase = "reading",
           phase' \in {"reading", "ended"}, open' = open,
           \/ \E h \in Channel : /\ SendTo(h, Here) /\ clock' = clock
                                 /\ ~IsText(f, {"time"})
                                 /\ \A g \in Channel : Belongs(f, g) <=> g = h
           \/ /\ chan' = chan
              /\ \A g \in Channel : ~Belongs(f, g)
              /\ IF IsText(f, {"time"}) THEN clock' = Append(clock, Here) ELSE clock' = clock
    PROVE  ChannelsComplete'
<1> PICK k : k = Here
  OBVIOUS
<1>1. DoneWith(k) /\ read'[k] = f
  BY ReadIsDone
<1>2. RouterTypeOK /\ OpenInv /\ ClockComplete /\ \A g \in Channel : ChannelComplete(g)
  BY ByChannel DEF RouterInv
<1>3. ClockComplete'
  BY <1>1, <1>2, ClockDelivered
<1>4. \A g \in Channel : ChannelComplete(g)'
  <2>1. CASE \E h \in Channel : /\ SendTo(h, Here)
                                /\ \A g \in Channel : Belongs(f, g) <=> g = h
    BY <1>1, <1>2, <2>1, Delivered
  <2>2. CASE chan' = chan /\ \A g \in Channel : ~Belongs(f, g)
    BY <1>1, <1>2, <2>2, NotDelivered
  <2> QED BY <2>1, <2>2
<1> QED BY <1>3, <1>4 DEF ChannelsComplete, ClockComplete, ChannelComplete

LEMMA RoutingStep == RouterInv /\ RouterTypeOK' /\ ChannelsComplete /\ [RouterNext]_routerVars => ChannelsComplete'
<1> SUFFICES ASSUME RouterInv, RouterTypeOK', ChannelsComplete, [RouterNext]_routerVars PROVE ChannelsComplete'
  OBVIOUS
<1>1. ASSUME NEW f \in Frames, AwaitHello(f) PROVE ChannelsComplete'
  <2>1. /\ phase = "hello" /\ phase' \in {"state", "failed", "hello"}
        /\ chan' = chan /\ clock' = clock /\ open' = open
    BY <1>1 DEF AwaitHello
  <2>2. Routed = {} /\ Routed' = {}
    BY <2>1 DEF Routed
  <2> QED BY <2>1, <2>2, NothingDone
<1>2. ASSUME NEW f \in Frames, RouteBinary(f) PROVE ChannelsComplete'
  <2>1. /\ phase = "reading" /\ phase' = "reading" /\ Reads(f) /\ f.kind = "binary"
        /\ clock' = clock /\ open' = open
    BY <1>2 DEF RouteBinary
  <2>2. f.type \in 0..255 /\ f.len \in Nat
    BY <2>1, RouterAssumption DEF BinaryFrame, TextFrame, StartFrame, EndFrame, OtherFrame
  <2>3. ~IsText(f, {"time"})
    BY <2>1 DEF IsText
  <2>4. CASE BinaryChannel(f) = "none"
    <3>1. \A g \in Channel : ~Belongs(f, g)
      BY <2>1, <2>2, <2>4 DEF BinaryChannel, AudioChunk, ArtworkChunk, VisualizerChunk, IsArtwork,
           IsVisualizer, PlayerAudio, TimestampEnd, Belongs
    <3>2. chan' = chan
      BY <1>2, <2>4 DEF RouteBinary
    <3> QED BY <2>1, <2>3, <3>1, <3>2, FrameStep
  <2>5. CASE BinaryChannel(f) # "none"
    <3>1. BinaryChannel(f) \in Channel /\ SendTo(BinaryChannel(f), Here)
      BY <1>2, <2>5 DEF RouteBinary, BinaryChannel, Channel
    <3>2. \A g \in Channel : Belongs(f, g) <=> g = BinaryChannel(f)
      BY <2>1, <2>2, <2>5 DEF BinaryChannel, AudioChunk, ArtworkChunk, VisualizerChunk, IsArtwork,
           IsVisualizer, PlayerAudio, TimestampEnd, Belongs, Channel
    <3> QED BY <2>1, <2>3, <3>1, <3>2, FrameStep
  <2> QED BY <2>4, <2>5
<1>3. ASSUME NEW f \in Frames, RouteTime(f) PROVE ChannelsComplete'
  <2>1. \A g \in Channel : ~Belongs(f, g)
    BY <1>3 DEF RouteTime, IsText, Belongs
  <2> QED BY <1>3, <2>1, FrameStep DEF RouteTime
<1>4. ASSUME NEW f \in Frames, RouteMessage(f) PROVE ChannelsComplete'
  <2>1. ~IsText(f, {"time"}) /\ \A g \in Channel : Belongs(f, g) <=> g = "message"
    BY <1>4 DEF RouteMessage, IsText, Belongs
  <2>2. "message" \in Channel
    BY DEF Channel
  <2> QED BY <1>4, <2>1, <2>2, FrameStep DEF RouteMessage
<1>5. ASSUME NEW f \in Frames, RouteNothing(f) \/ RouterStops(f) PROVE ChannelsComplete'
  <2>1. ~IsText(f, {"time"}) /\ \A g \in Channel : ~Belongs(f, g)
    BY <1>5 DEF RouteNothing, RouterStops, IsText, Belongs
  <2> QED BY <1>5, <2>1, FrameStep DEF RouteNothing, RouterStops
<1>6. ASSUME NEW f \in Frames, TakeStream(f) PROVE ChannelsComplete'
  <2>1. /\ phase = "reading" /\ phase' = "settling" /\ read' = Append(read, f)
        /\ chan' = chan /\ clock' = clock /\ open' = open
    BY <1>6 DEF TakeStream, Reads
  <2>2. /\ Len(read') = Len(read) + 1 /\ Len(read) \in Nat
        /\ DOMAIN read = 1..Len(read) /\ DOMAIN read' = 1..(Len(read) + 1)
        /\ \A j \in 1..Len(read) : read'[j] = read[j]
    BY <2>1, Appended DEF RouterInv, RouterTypeOK
  <2>3. HelloIs(HelloAt)
    BY <2>1 DEF RouterInv, HelloInv
  <2>4. HelloAt' = HelloAt /\ HelloAt \in 1..Len(read)
    BY <2>1, <2>2, <2>3, HelloKept DEF RouterInv, HelloIs
  <2>5. /\ Routed = {k \in 1..Len(read) : k > HelloAt}
        /\ Routed' = {k \in 1..(Len(read) + 1) : k > HelloAt /\ k < Len(read) + 1}
    BY <2>1, <2>2, <2>4 DEF Routed
  <2>6. Routed' = Routed
    BY <2>2, <2>4, <2>5
  <2> QED BY <2>1, <2>2, <2>5, <2>6, NothingDone
<1>7. CASE SendState
  <2>1. /\ phase = "state" /\ phase' \in {"reading", "failed"} /\ read' = read
        /\ chan' = chan /\ clock' = clock /\ open' = open
    BY <1>7 DEF SendState
  <2>2. HelloAt' = HelloAt /\ HelloAt = Len(read)
    BY <2>1 DEF HelloAt, RouterInv, HelloInv
  <2>3. Routed = {} /\ Routed' = {}
    BY <2>1, <2>2, ReadTyped DEF Routed, RouterInv
  <2> QED BY <2>1, <2>3, NothingDone
<1>8. CASE ForwardStream
  <2> PICK k : k = Len(read)
    OBVIOUS
  <2>1. /\ DoneWith(k) /\ read' = read /\ IsText(read'[k], {"start", "end"})
        /\ SendTo("message", k) /\ "message" \in Channel
        /\ open' = open /\ clock' = clock
    BY <1>8, ForwardIsDone DEF ForwardStream, Channel
  <2>2. ~IsText(read'[k], {"time"}) /\ \A g \in Channel : Belongs(read'[k], g) <=> g = "message"
    BY <2>1 DEF IsText, Belongs
  <2>3. RouterTypeOK /\ OpenInv /\ ClockComplete /\ \A g \in Channel : ChannelComplete(g)
    BY ByChannel DEF RouterInv
  <2>4. ClockComplete'
    BY <2>1, <2>2, <2>3, ClockDelivered
  <2>5. \A g \in Channel : ChannelComplete(g)'
    BY <2>1, <2>2, <2>3, Delivered
  <2> QED BY <2>4, <2>5 DEF ChannelsComplete, ClockComplete, ChannelComplete
<1>9. ASSUME NEW h \in Droppable, DropReceiver(h) PROVE ChannelsComplete'
  <2>1. /\ chan' = chan /\ clock' = clock /\ read' = read /\ phase' = phase
        /\ \A g \in Channel : open'[g] => open[g]
    BY <1>9 DEF DropReceiver, RouterInv, RouterTypeOK
  <2>2. Routed' = Routed
    BY <2>1 DEF Routed, HelloAt
  <2> QED BY <2>1, <2>2, NothingDone
<1>10. CASE /\ chan' = chan /\ clock' = clock /\ read' = read /\ phase' = phase /\ open' = open
  <2>1. Routed' = Routed
    BY <1>10 DEF Routed, HelloAt
  <2> QED BY <1>10, <2>1, NothingDone
<1> QED BY <1>1, <1>2, <1>3, <1>4, <1>5, <1>6, <1>7, <1>8, <1>9, <1>10 DEF RouterNext, Route,
           SettleRole, TakeMessage, CheckRole, CallRequest, routerVars

\* MessageRouter: a receiver that is held gets every frame of its kind since the
\* handshake, in order, and no other; for any stream of frames of any length.
THEOREM RoutingCorrect == RouterSpec => []ChannelsComplete
<1>1. RouterInit => ChannelsComplete
  BY DEF RouterInit, ChannelsComplete, InOrder, Places, Routed
<1>2. RouterInv /\ ChannelsComplete /\ [RouterNext]_routerVars => RouterInv' /\ ChannelsComplete'
  BY StepInv, RoutingStep DEF RouterInv
<1> QED BY <1>1, <1>2, InitInv, PTL DEF RouterSpec

---------------------------------------------------------------------------
(* The gate *)

LEMMA Roles ==
    /\ Len(RoleOrder) = 3
    /\ \A i \in 1..3 : RoleOrder[i] \in Role
    /\ \A r \in Role : \E i \in 1..3 : RoleOrder[i] = r
    /\ \A i, j \in 1..3 : RoleOrder[i] = RoleOrder[j] => i = j
    /\ AllRoles \notin SUBSET Role
BY DEF RoleOrder, Role, AllRoles

\* Whether a stream was active does not depend on later frames.
LEMMA ActiveKept ==
    ASSUME NEW n \in Nat, \A j \in 1..n : read'[j] = read[j], HelloAt' = HelloAt,
           phase # "hello", phase' # "hello", NEW k \in 0..n, NEW r \in Role
    PROVE  Active(k, r)' <=> Active(k, r)
BY DEF Active, About

\* What frame k does to it: only a stream message about the role does anything.
LEMMA ActiveNext ==
    ASSUME RouterTypeOK', phase' # "hello", HelloIs(HelloAt)', NEW r \in Role,
           NEW k \in Nat, HelloAt' < k, k <= Len(read')
    PROVE  Active(k, r)' <=> IF About(k, r)' THEN read'[k].msg = "start"
                             ELSE Active(k - 1, r)'
<1>1. Len(read') \in Nat /\ DOMAIN read' = 1..Len(read') /\ HelloAt' \in 1..Len(read')
  BY DEF RouterTypeOK, HelloIs
<1>2. CASE About(k, r)'
  <2>1. ASSUME read'[k].msg = "start" PROVE Active(k, r)'
    BY <1>1, <1>2, <2>1 DEF Active
  <2>2. ASSUME Active(k, r)' PROVE read'[k].msg = "start"
    <3>1. PICK i \in 1..k : /\ About(i, r)' /\ read'[i].msg = "start"
                            /\ \A j \in (i + 1)..k : ~About(j, r)'
      BY <2>2 DEF Active
    <3>2. i = k
      BY <1>1, <1>2, <3>1
    <3> QED BY <3>1, <3>2
  <2> QED BY <1>2, <2>1, <2>2
<1>3. CASE ~About(k, r)'
  <2>1. ASSUME Active(k, r)' PROVE Active(k - 1, r)'
    <3>1. PICK i \in 1..k : /\ i > HelloAt' /\ About(i, r)' /\ read'[i].msg = "start"
                            /\ \A j \in (i + 1)..k : ~About(j, r)'
      BY <2>1 DEF Active
    <3>2. i \in 1..(k - 1) /\ \A j \in (i + 1)..(k - 1) : ~About(j, r)'
      BY <1>1, <1>3, <3>1
    <3> QED BY <3>1, <3>2 DEF Active
  <2>2. ASSUME Active(k - 1, r)' PROVE Active(k, r)'
    <3>1. PICK i \in 1..(k - 1) : /\ i > HelloAt' /\ About(i, r)' /\ read'[i].msg = "start"
                                  /\ \A j \in (i + 1)..(k - 1) : ~About(j, r)'
      BY <2>2 DEF Active
    <3>2. i \in 1..k /\ \A j \in (i + 1)..k : ~About(j, r)'
      BY <1>1, <1>3, <3>1
    <3> QED BY <1>1, <3>1, <3>2 DEF Active
  <2> QED BY <1>3, <2>1, <2>2
<1> QED BY <1>2, <1>3

\* A gate that is settled is that of the frames read so far; one that is not is
\* that of the frames before the stream message in hand.
GateInv ==
    /\ phase = "hello" => \A r \in Role : ~gate[r]
    /\ phase \in {"state", "reading", "ended"} =>
          \A r \in Role : gate[r] <=> Active(Len(read), r)
    /\ phase = "settling" =>
          \A i \in 1..3 : gate[RoleOrder[i]] <=>
              Active(IF i <= settled THEN Len(read) ELSE Len(read) - 1, RoleOrder[i])

\* What a caller sees at any moment was so at a moment not long ago.
LEMMA GateNow ==
    ASSUME RouterInv, GateInv, phase \in {"reading", "settling", "ended"}, NEW r \in Role
    PROVE  \E m \in {Len(read), Len(read) - 1} :
              /\ phase # "settling" => m = Len(read)
              /\ gate[r] <=> Active(m, r)
<1>1. CASE phase \in {"reading", "ended"}
  BY <1>1 DEF GateInv
<1>2. CASE phase = "settling"
  <2>1. PICK i \in 1..3 : RoleOrder[i] = r
    BY Roles
  <2>2. gate[r] <=> Active(IF i <= settled THEN Len(read) ELSE Len(read) - 1, r)
    BY <1>2, <2>1 DEF GateInv
  <2>3. CASE i <= settled
    BY <1>2, <2>2, <2>3
  <2>4. CASE ~(i <= settled)
    BY <1>2, <2>2, <2>4
  <2> QED BY <2>3, <2>4
<1> QED BY <1>1, <1>2

\* The store of one gate, against the stream message it is for.
LEMMA SettleIsActive ==
    ASSUME RouterInv, phase = "settling", NEW r \in Role, NEW n, n = Len(read),
           gate[r] <=> Active(n - 1, r), Active(n, r) <=> IF About(n, r) THEN read[n].msg = "start"
                                                         ELSE Active(n - 1, r)
    PROVE  Settle(read[n], r) <=> Active(n, r)
<1>1. n \in 1..Len(read) /\ IsText(read[n], {"start", "end"}) /\ read[n] \in Frames
  BY ReadTyped DEF RouterInv, HelloInv, HelloIs, RouterTypeOK
<1>2. CASE read[n].msg = "start"
  <2>1. read[n].roles \in SUBSET Role
    BY <1>1, <1>2, RouterAssumption
       DEF IsText, BinaryFrame, TextFrame, StartFrame, EndFrame, OtherFrame
  <2>2. About(n, r) <=> r \in read[n].roles
    BY <1>1, <2>1, Roles DEF About
  <2> QED BY <1>2, <2>2 DEF Settle
<1>3. CASE read[n].msg = "end"
  <2>1. About(n, r) <=> RoleEnded(read[n], r)
    BY <1>1 DEF About, RoleEnded
  <2> QED BY <1>3, <2>1 DEF Settle
<1> QED BY <1>1, <1>2, <1>3 DEF IsText

\* A frame read in the middle of the stream, as the gate sees it.
LEMMA ReadKeepsActive ==
    ASSUME RouterInv, RouterInv', NEW f \in Frames, Reads(f), phase = "reading", phase' # "hello",
           phase' # "state", phase' # "failed", NEW r \in Role, NEW n, n = Len(read)
    PROVE  /\ Len(read') = n + 1 /\ n \in Nat /\ read'[n + 1] = f
           /\ \A k \in 0..n : Active(k, r)' <=> Active(k, r)
           /\ ~IsText(f, {"start", "end"}) => (Active(n + 1, r)' <=> Active(n, r))
<1>1. /\ read' = Append(read, f) /\ Len(read') = n + 1 /\ n \in Nat
      /\ \A j \in 1..n : read'[j] = read[j]
      /\ read'[n + 1] = f
  BY Appended DEF RouterInv, RouterTypeOK, Reads
<1>2. HelloIs(HelloAt) /\ HelloAt \in 1..n
  BY ReadTyped DEF RouterInv, HelloInv, HelloIs
<1>3. HelloAt' = HelloAt /\ HelloIs(HelloAt)'
  BY <1>1, <1>2, HelloKept DEF RouterInv
<1>4. \A k \in 0..n : Active(k, r)' <=> Active(k, r)
  BY <1>1, <1>3, ActiveKept
<1>5. ASSUME ~IsText(f, {"start", "end"}) PROVE Active(n + 1, r)' <=> Active(n, r)
  <2>1. ~About(n + 1, r)'
    BY <1>1, <1>5 DEF About
  <2>2. Active(n + 1, r)' <=> Active(n, r)'
    <3>1. n + 1 \in Nat /\ HelloAt' < n + 1 /\ n + 1 <= Len(read') /\ (n + 1) - 1 = n
      BY <1>1, <1>2, <1>3
    <3>2. Active(n + 1, r)' <=> Active((n + 1) - 1, r)'
      BY <1>3, <2>1, <3>1, ActiveNext DEF RouterInv
    <3> QED BY <3>1, <3>2
  <2> QED BY <1>1, <1>4, <2>2
<1> QED BY <1>1, <1>4, <1>5

LEMMA GateStep == RouterInv /\ RouterInv' /\ GateInv /\ [RouterNext]_routerVars => GateInv'
<1> SUFFICES ASSUME RouterInv, RouterInv', GateInv, [RouterNext]_routerVars PROVE GateInv'
  OBVIOUS
<1> PICK n : n = Len(read)
  OBVIOUS
<1>0. n \in Nat /\ DOMAIN read = 1..n
  BY ReadTyped DEF RouterInv
<1>1. ASSUME NEW f \in Frames, AwaitHello(f) PROVE GateInv'
  <2>1. /\ gate' = gate /\ phase' \in {"hello", "state", "failed"}
        /\ \A r \in Role : ~gate[r]
    BY <1>1 DEF AwaitHello, GateInv
  <2>2. ASSUME phase' = "state", NEW r \in Role PROVE ~Active(Len(read), r)'
    <3>1. HelloAt' = Len(read') /\ Len(read') \in Nat
      BY <2>2 DEF RouterInv, HelloInv, RouterTypeOK
    <3> QED BY <3>1 DEF Active
  <2> QED BY <2>1, <2>2 DEF GateInv
<1>2. ASSUME NEW f \in Frames, Route(f), ~IsText(f, {"start", "end"}) PROVE GateInv'
  <2>1. /\ phase = "reading" /\ phase' \in {"reading", "ended"} /\ Reads(f) /\ gate' = gate
    BY <1>2 DEF Route, RouteBinary, RouteTime, RouteMessage, RouteNothing, TakeStream, RouterStops
  <2>2. ASSUME NEW r \in Role PROVE gate'[r] <=> Active(Len(read), r)'
    <3>1. Len(read') = n + 1 /\ (Active(n + 1, r)' <=> Active(n, r))
      BY <1>2, <2>1, ReadKeepsActive
    <3>2. gate[r] <=> Active(n, r)
      BY <2>1 DEF GateInv
    <3>3. Active(Len(read), r)' <=> Active(n + 1, r)'
      BY <3>1
    <3> QED BY <2>1, <3>1, <3>2, <3>3
  <2> QED BY <2>1, <2>2 DEF GateInv
<1>3. ASSUME NEW f \in Frames, Route(f), IsText(f, {"start", "end"}) PROVE GateInv'
  <2>1. TakeStream(f)
    BY <1>3 DEF Route, RouteBinary, RouteTime, RouteMessage, RouteNothing, RouterStops, IsText
  <2>2. /\ phase = "reading" /\ phase' = "settling" /\ Reads(f) /\ gate' = gate /\ settled' = 0
    BY <2>1 DEF TakeStream
  <2>3. ASSUME NEW r \in Role PROVE gate'[r] <=> Active(Len(read) - 1, r)'
    <3>1. Len(read') = n + 1 /\ (Active(n, r)' <=> Active(n, r))
      BY <1>0, <2>2, ReadKeepsActive
    <3>2. gate[r] <=> Active(n, r)
      BY <2>2 DEF GateInv
    <3>3. Len(read') - 1 = n
      BY <1>0, <3>1
    <3>4. Active(Len(read) - 1, r)' <=> Active(n, r)'
      BY <3>3
    <3> QED BY <2>2, <3>1, <3>2, <3>4
  <2>4. ASSUME NEW i \in 1..3
        PROVE  gate'[RoleOrder[i]] <=>
                   Active(IF i <= settled THEN Len(read) ELSE Len(read) - 1, RoleOrder[i])'
    <3>1. ~(i <= settled')
      BY <2>2
    <3> QED BY <2>3, <3>1, Roles
  <2> QED BY <2>2, <2>4 DEF GateInv
<1>4. CASE SettleRole
  <2> PICK s : s = settled + 1
    OBVIOUS
  <2> DEFINE r == RoleOrder[s]
  <2>1. /\ phase = "settling" /\ phase' = "settling" /\ read' = read
        /\ s \in 1..3 /\ settled' = s /\ settled = s - 1
        /\ gate' = [gate EXCEPT ![r] = Settle(read[n], r)]
    BY <1>4, Roles DEF SettleRole, RouterInv, RouterTypeOK
  <2>2. r \in Role /\ HelloIs(HelloAt) /\ HelloAt < n /\ HelloAt' = HelloAt
    BY <2>1, Roles DEF RouterInv, HelloInv, HelloAt
  <2>3. ASSUME NEW k \in 0..n, NEW p \in Role PROVE Active(k, p)' <=> Active(k, p)
    BY <1>0, <2>1, <2>2, <2>3, ActiveKept
  <2>4. gate[r] <=> Active(n - 1, r)
    <3>1. ~(s <= settled)
      BY <2>1
    <3> QED BY <2>1, <3>1 DEF GateInv
  <2>5. Active(n, r) <=> IF About(n, r) THEN read[n].msg = "start" ELSE Active(n - 1, r)
    <3>1. n \in Nat /\ HelloAt' < n /\ n <= Len(read') /\ n \in 0..n /\ n - 1 \in 0..n
      BY <1>0, <2>1, <2>2 DEF HelloIs
    <3>2. HelloIs(HelloAt)'
      BY <2>1, <2>2 DEF HelloIs
    <3>3. Active(n, r)' <=> IF About(n, r)' THEN read'[n].msg = "start" ELSE Active(n - 1, r)'
      BY <2>1, <2>2, <3>1, <3>2, ActiveNext DEF RouterInv
    <3>4. About(n, r)' <=> About(n, r)
      BY <2>1 DEF About
    <3> QED BY <2>1, <2>2, <2>3, <3>1, <3>3, <3>4
  <2>6. Settle(read[n], r) <=> Active(n, r)
    BY <2>1, <2>2, <2>4, <2>5, SettleIsActive
  <2> HIDE DEF r
  <2>7. ASSUME NEW i \in 1..3
        PROVE  gate'[RoleOrder[i]] <=>
                   Active(IF i <= settled THEN Len(read) ELSE Len(read) - 1, RoleOrder[i])'
    <3> DEFINE p == RoleOrder[i]
    <3>1. p \in Role /\ n \in 0..n /\ n - 1 \in 0..n
      BY <1>0, <2>2, Roles DEF HelloIs
    <3>2. CASE i = s
      <4>1. p = r /\ gate'[r] = Settle(read[n], r) /\ i <= settled'
        BY <2>1, <2>2, <3>2 DEF RouterInv, RouterTypeOK, r
      <4>2. Active(n, p)' <=> gate'[p]
        BY <2>3, <2>6, <3>1, <4>1
      <4> QED BY <2>1, <4>1, <4>2
    <3>3. CASE i # s
      <4>1. gate'[p] = gate[p] /\ (i <= settled' <=> i <= settled)
        BY <2>1, <2>2, <3>3, Roles DEF RouterInv, RouterTypeOK, r
      <4>2. gate[p] <=> Active(IF i <= settled THEN n ELSE n - 1, p)
        BY <2>1 DEF GateInv
      <4>3. CASE i <= settled
        BY <2>1, <2>3, <3>1, <4>1, <4>2, <4>3
      <4>4. CASE ~(i <= settled)
        BY <2>1, <2>3, <3>1, <4>1, <4>2, <4>4
      <4> QED BY <4>3, <4>4
    <3> QED BY <3>2, <3>3
  <2> QED BY <2>1, <2>7 DEF GateInv
<1>5. CASE ForwardStream
  <2>1. /\ phase = "settling" /\ phase' = "reading" /\ read' = read /\ gate' = gate
        /\ settled = 3 /\ HelloAt' = HelloAt
    BY <1>5, Roles DEF ForwardStream, HelloAt
  <2>2. ASSUME NEW r \in Role PROVE gate'[r] <=> Active(Len(read), r)'
    <3>1. PICK i \in 1..3 : RoleOrder[i] = r
      BY Roles
    <3>2. gate[r] <=> Active(n, r)
      BY <2>1, <3>1 DEF GateInv
    <3>3. Active(n, r)' <=> Active(n, r)
      BY <1>0, <2>1, ActiveKept
    <3> QED BY <2>1, <3>2, <3>3
  <2> QED BY <2>1, <2>2 DEF GateInv
<1>6. CASE SendState
  <2>1. /\ phase = "state" /\ phase' \in {"reading", "failed"} /\ read' = read
        /\ gate' = gate /\ HelloAt' = HelloAt
    BY <1>6 DEF SendState, HelloAt
  <2>2. ASSUME NEW r \in Role PROVE gate'[r] <=> Active(Len(read), r)'
    <3>1. Active(n, r)' <=> Active(n, r)
      BY <1>0, <2>1, ActiveKept
    <3> QED BY <2>1, <3>1 DEF GateInv
  <2> QED BY <2>1, <2>2 DEF GateInv
<1>7. CASE read' = read /\ phase' = phase /\ gate' = gate /\ settled' = settled
  <2>1. HelloAt' = HelloAt /\ \A k, r : Active(k, r)' <=> Active(k, r)
    BY <1>7 DEF HelloAt, Active, About
  <2> QED BY <1>7, <2>1 DEF GateInv
<1> QED BY <1>1, <1>2, <1>3, <1>4, <1>5, <1>6, <1>7 DEF RouterNext, TakeMessage, DropReceiver,
           CheckRole, CallRequest, routerVars

---------------------------------------------------------------------------
(* Requests *)

\* A role a request asked for was active, or not, at some moment since the last
\* message its caller had received.
WasActive(q, r) == \E k \in req[q].since..Len(read) : Active(k, r)
WasIdle(q, r)   == \E k \in req[q].since..Len(read) : ~Active(k, r)

ReqOk(q) ==
    /\ req[q].stage # "none" =>
          /\ phase \in {"reading", "settling", "ended"}
          /\ req[q].since <= Len(read)
          /\ phase = "settling" => req[q].since < Len(read)
    /\ req[q].stage \in {"checking", "passed"} =>
          \A i \in 1..req[q].checked :
              RoleOrder[i] \in req[q].wants => WasActive(q, RoleOrder[i])
    /\ req[q].stage = "passed" => req[q].checked = 3
    /\ req[q].stage = "rejected" /\ req[q].wants # {} =>
          \E r \in req[q].wants : WasIdle(q, r)

ReqInv == \A q \in Request : ReqOk(q)

LEMMA ReqJustified == RouterInv /\ ReqInv => RequestsJustified
<1> SUFFICES ASSUME RouterInv, ReqInv PROVE RequestsJustified
  OBVIOUS
<1>1. ASSUME NEW q \in Request, req[q].stage = "passed", NEW r \in req[q].wants
      PROVE  \E k \in req[q].since..Len(read) : Active(k, r)
  <2>1. r \in Role
    BY DEF RouterInv, RouterTypeOK
  <2>2. PICK i \in 1..3 : RoleOrder[i] = r
    BY <2>1, Roles
  <2> QED BY <1>1, <2>2 DEF ReqInv, ReqOk, WasActive, WasIdle
<1>2. ASSUME NEW q \in Request, req[q].stage = "rejected", req[q].wants # {}
      PROVE  \E r \in req[q].wants : \E k \in req[q].since..Len(read) : ~Active(k, r)
  BY <1>2 DEF ReqInv, ReqOk, WasActive, WasIdle
<1> QED BY <1>1, <1>2 DEF RequestsJustified

\* The messages an application has received are of frames done with.
LEMMA LastTakenDone ==
    ASSUME RouterInv, ChannelsComplete, phase \in {"reading", "settling", "ended"}
    PROVE  /\ LastTaken \in Nat /\ LastTaken <= Len(read)
           /\ phase = "settling" => LastTaken < Len(read)
<1>0. Len(read) \in Nat /\ DOMAIN read = 1..Len(read) /\ (phase = "settling" => Len(read) > 0)
  BY ReadTyped DEF RouterInv, HelloInv, HelloIs
<1>1. CASE taken = 0
  BY <1>0, <1>1 DEF LastTaken
<1>2. CASE taken # 0
  <2>1. "message" \in Channel /\ chan["message"] \in Seq(1..MaxFrames)
    BY DEF RouterInv, RouterTypeOK, Channel
  <2>2. taken \in DOMAIN chan["message"]
    BY <1>2, <2>1 DEF RouterInv, RouterTypeOK
  <2>3. LastTaken \in Places(chan["message"])
    BY <1>2, <2>2 DEF LastTaken, Places
  <2>4. LastTaken \in Routed
    BY <2>1, <2>3 DEF ChannelsComplete
  <2> QED BY <1>0, <2>4 DEF Routed
<1> QED BY <1>1, <1>2

\* What was so stays so as the stream goes on.
LEMMA WasKept ==
    ASSUME RouterInv, RouterInv', phase # "hello", phase # "failed", phase' # "hello",
           \/ read' = read
           \/ \E f \in Frames : read' = Append(read, f),
           NEW q \in Request, req'[q].since = req[q].since, NEW r \in Role
    PROVE  /\ WasActive(q, r) => WasActive(q, r)'
           /\ WasIdle(q, r) => WasIdle(q, r)'
<1> PICK n : n = Len(read)
  OBVIOUS
<1>0. n \in Nat /\ HelloIs(HelloAt) /\ req[q].since \in Nat
  BY ReadTyped, RouterAssumption DEF RouterInv, HelloInv, RouterTypeOK
<1>1. /\ \A j \in 1..n : read'[j] = read[j]
      /\ Len(read') \in Nat /\ n <= Len(read') /\ HelloAt' = HelloAt
  <2>1. CASE read' = read
    BY <1>0, <2>1 DEF HelloAt
  <2>2. ASSUME NEW f \in Frames, read' = Append(read, f) 
        PROVE  /\ \A j \in 1..n : read'[j] = read[j]
               /\ Len(read') \in Nat /\ n <= Len(read') /\ HelloAt' = HelloAt
    BY <1>0, <2>2, Appended, HelloKept DEF RouterInv, RouterTypeOK
  <2> QED BY <2>1, <2>2
<1>2. ASSUME NEW k \in req[q].since..n
      PROVE  k \in req'[q].since..Len(read') /\ (Active(k, r)' <=> Active(k, r))
  <2>1. k \in 0..n /\ k \in req'[q].since..Len(read')
    BY <1>0, <1>1
  <2> QED BY <1>0, <1>1, <2>1, ActiveKept
<1> QED BY <1>2 DEF WasActive, WasIdle

\* While the stream stands still, so do its gates' records.
LEMMA SameStream ==
    ASSUME read' = read, phase' = phase
    PROVE  \A k, r : Active(k, r)' <=> Active(k, r)
<1>1. HelloAt' = HelloAt
  BY DEF HelloAt
<1> QED BY <1>1 DEF Active, About

LEMMA SameWas ==
    ASSUME read' = read, phase' = phase, NEW q, req'[q].since = req[q].since, NEW r
    PROVE  (WasActive(q, r)' <=> WasActive(q, r)) /\ (WasIdle(q, r)' <=> WasIdle(q, r))
<1>1. \A k : Active(k, r)' <=> Active(k, r)
  BY SameStream
<1> QED BY <1>1 DEF WasActive, WasIdle

\* One look at one gate.
LEMMA CheckKeeps ==
    ASSUME RouterInv, GateInv, ReqInv, NEW q \in Request, CheckRole(q)
    PROVE  ReqInv'
<1> PICK c : c = req[q].checked + 1
  OBVIOUS
<1> PICK r : r = RoleOrder[c]
  OBVIOUS
<1>1. /\ read' = read /\ phase' = phase
      /\ req[q].stage = "checking" /\ req[q].checked \in 0..2
      /\ \A p \in Request : p # q => req'[p] = req[p]
      /\ req'[q].checked = c
      /\ req'[q].wants = req[q].wants /\ req'[q].since = req[q].since
      /\ req'[q].stage = IF r \in req[q].wants /\ ~gate[r] THEN "rejected"
                         ELSE IF c = 3 THEN "passed" ELSE "checking"
  <2>1. read' = read /\ phase' = phase
    BY DEF CheckRole, streamVars
  <2> QED BY <2>1, CheckTyped DEF RouterInv
<1>2. c \in 1..3 /\ c - 1 = req[q].checked
  BY <1>1
<1>3. r \in Role
  BY <1>2, Roles
<1>4. /\ Len(read) \in Nat /\ req[q].since \in Nat /\ req[q].since <= Len(read)
      /\ phase \in {"reading", "settling", "ended"}
      /\ phase = "settling" => req[q].since < Len(read)
  <2>1. Len(read) \in Nat /\ req[q].since \in Nat
    BY ReadTyped, RouterAssumption DEF RouterInv, RouterTypeOK
  <2> QED BY <1>1, <2>1 DEF ReqInv, ReqOk
<1>5. ASSUME NEW p \in Request, NEW s
      PROVE  (WasActive(p, s)' <=> WasActive(p, s)) /\ (WasIdle(p, s)' <=> WasIdle(p, s))
  <2>1. req'[p].since = req[p].since
    BY <1>1
  <2> QED BY <1>1, <2>1, SameWas
<1>6. /\ gate[r] => WasActive(q, r)
      /\ ~gate[r] => WasIdle(q, r)
  <2>1. PICK m \in {Len(read), Len(read) - 1} :
            /\ phase # "settling" => m = Len(read)
            /\ gate[r] <=> Active(m, r)
    BY <1>3, <1>4, GateNow
  <2>2. m \in req[q].since..Len(read)
    BY <1>4, <2>1
  <2> QED BY <2>1, <2>2 DEF WasActive, WasIdle
<1>7. ASSUME NEW p \in Request, p # q PROVE ReqOk(p)'
  BY <1>1, <1>5, <1>7 DEF ReqInv, ReqOk
<1>8. req'[q].stage \in {"checking", "passed"} =>
          \A i \in 1..req'[q].checked :
              RoleOrder[i] \in req'[q].wants => WasActive(q, RoleOrder[i])'
  <2> SUFFICES ASSUME req'[q].stage \in {"checking", "passed"}, NEW i \in 1..c,
                      RoleOrder[i] \in req[q].wants
               PROVE  WasActive(q, RoleOrder[i])
    BY <1>1, <1>5
  <2>1. CASE i = c
    BY <1>1, <1>6, <2>1
  <2>2. CASE i # c
    <3>1. i \in 1..req[q].checked
      BY <1>2, <2>2
    <3> QED BY <1>1, <3>1 DEF ReqInv, ReqOk
  <2> QED BY <2>1, <2>2
<1>9. req'[q].stage = "rejected" => r \in req'[q].wants /\ WasIdle(q, r)'
  <2>1. WasIdle(q, r)' <=> WasIdle(q, r)
    BY <1>5
  <2> QED BY <1>1, <1>6, <2>1
<1>10. req'[q].stage = "passed" => req'[q].checked = 3
  BY <1>1
<1>11. ReqOk(q)'
  BY <1>1, <1>4, <1>8, <1>9, <1>10 DEF ReqOk
<1> QED BY <1>7, <1>11 DEF ReqInv

LEMMA ReqStep == RouterInv /\ RouterInv' /\ GateInv /\ ChannelsComplete /\ ReqInv /\ [RouterNext]_routerVars => ReqInv'
<1> SUFFICES ASSUME RouterInv, RouterInv', GateInv, ChannelsComplete, ReqInv, [RouterNext]_routerVars PROVE ReqInv'
  OBVIOUS
<1>0. Len(read) \in Nat /\ DOMAIN read = 1..Len(read)
  BY ReadTyped DEF RouterInv
<1>1. ASSUME NEW f \in Frames, AwaitHello(f) PROVE ReqInv'
  BY <1>1 DEF AwaitHello, ReqInv, ReqOk
<1>2. CASE SendState
  BY <1>2 DEF SendState, ReqInv, ReqOk
<1>3. ASSUME req' = req, phase \in {"reading", "settling", "ended"},
             phase' \in {"reading", "settling", "ended"},
             \/ read' = read /\ (phase' = "settling" => phase = "settling")
             \/ \E f \in Frames : read' = Append(read, f)
      PROVE  ReqInv'
  <2>1. Len(read') \in Nat /\ \/ read' = read
                              \/ Len(read') = Len(read) + 1
    BY <1>0, <1>3, Appended DEF RouterInv, RouterTypeOK
  <2>2. ASSUME NEW q \in Request, NEW r \in Role
        PROVE  /\ WasActive(q, r) => WasActive(q, r)'
               /\ WasIdle(q, r) => WasIdle(q, r)'
    BY <1>3, WasKept
  <2>3. ASSUME NEW q \in Request, req'[q].stage # "none"
        PROVE  /\ req'[q].since <= Len(read')
               /\ phase' = "settling" => req'[q].since < Len(read')
    <3>1. req[q].since \in Nat
      BY RouterAssumption DEF RouterInv, RouterTypeOK
    <3>2. /\ req'[q].since = req[q].since /\ req[q].since <= Len(read)
          /\ phase = "settling" => req[q].since < Len(read)
      BY <1>3, <2>3 DEF ReqInv, ReqOk
    <3>3. CASE read' = read
      BY <1>3, <2>1, <3>1, <3>2, <3>3
    <3>4. CASE Len(read') = Len(read) + 1
      BY <1>0, <3>1, <3>2, <3>4
    <3> QED BY <2>1, <3>3, <3>4
  <2>4. ASSUME NEW q \in Request, req'[q].stage \in {"checking", "passed"},
               NEW i \in 1..req'[q].checked, RoleOrder[i] \in req'[q].wants
        PROVE  WasActive(q, RoleOrder[i])'
    <3>1. RoleOrder[i] \in Role
      BY <1>3, <2>4 DEF RouterInv, RouterTypeOK
    <3>2. WasActive(q, RoleOrder[i])
      BY <1>3, <2>4 DEF ReqInv, ReqOk
    <3> QED BY <2>2, <3>1, <3>2
  <2>5. ASSUME NEW q \in Request, req'[q].stage = "rejected", req'[q].wants # {}
        PROVE  \E r \in req'[q].wants : WasIdle(q, r)'
    <3>1. PICK r \in req[q].wants : WasIdle(q, r)
      BY <1>3, <2>5 DEF ReqInv, ReqOk
    <3>2. r \in Role
      BY DEF RouterInv, RouterTypeOK
    <3> QED BY <1>3, <2>2, <3>1, <3>2
  <2> QED BY <1>3, <2>3, <2>4, <2>5 DEF ReqInv, ReqOk
<1>4. ASSUME NEW f \in Frames, Route(f) PROVE ReqInv'
  <2>1. /\ phase = "reading" /\ phase' \in {"reading", "settling", "ended"}
        /\ req' = req /\ read' = Append(read, f)
    BY <1>4 DEF Route, RouteBinary, RouteTime, RouteMessage, RouteNothing, TakeStream,
                RouterStops, Reads
  <2> QED BY <1>3, <2>1
<1>5. CASE SettleRole
  BY <1>3, <1>5 DEF SettleRole
<1>6. CASE ForwardStream
  BY <1>3, <1>6 DEF ForwardStream
<1>7. CASE UNCHANGED <<read, phase, req>>
  <2>1. CASE phase \in {"reading", "settling", "ended"}
    BY <1>3, <1>7, <2>1
  <2>2. CASE phase \notin {"reading", "settling", "ended"}
    BY <1>7, <2>2 DEF ReqInv, ReqOk
  <2> QED BY <2>1, <2>2
<1>8. ASSUME NEW q \in Request, NEW roles \in SUBSET Role, CallRequest(q, roles) PROVE ReqInv'
  <2>1. /\ phase' = phase /\ read' = read /\ phase \in {"reading", "settling", "ended"}
        /\ req[q].stage = "none"
    BY <1>8 DEF CallRequest, RouterInv, RouterTypeOK, streamVars
  <2>2. /\ LastTaken \in Nat /\ LastTaken <= Len(read)
        /\ phase = "settling" => LastTaken < Len(read)
    BY <2>1, LastTakenDone
  <2>3. /\ req'[q] = [stage |-> IF roles = {} THEN "rejected" ELSE "checking",
                      wants |-> roles, checked |-> 0, since |-> LastTaken]
        /\ \A p \in Request : p # q => req'[p] = req[p]
    BY <1>8 DEF CallRequest, RouterInv, RouterTypeOK
  <2>4. ASSUME NEW p \in Request, p # q, NEW r
        PROVE  (WasActive(p, r)' <=> WasActive(p, r)) /\ (WasIdle(p, r)' <=> WasIdle(p, r))
    <3>1. req'[p].since = req[p].since
      BY <2>3, <2>4
    <3> QED BY <2>1, <3>1, SameWas
  <2>5. ASSUME NEW p \in Request, p # q
        PROVE  ReqOk(p)'
    <3>1. req'[p] = req[p]
      BY <2>3, <2>5
    <3> QED BY <2>1, <2>4, <2>5, <3>1 DEF ReqInv, ReqOk
  <2>6. ReqOk(q)'
    BY <2>1, <2>2, <2>3 DEF ReqOk
  <2> QED BY <2>5, <2>6 DEF ReqInv
<1>9. ASSUME NEW q \in Request, CheckRole(q) PROVE ReqInv'
  BY <1>9, CheckKeeps
<1> QED BY <1>1, <1>2, <1>4, <1>5, <1>6, <1>7, <1>8, <1>9
        DEF RouterNext, TakeMessage, DropReceiver, routerVars, streamVars, appVars

\* However the application's calls of request_stream_formats fall between the
\* reads and the stores of the router, a call that passes found each role it
\* asks for active, and one that is rejected found some role inactive, at a
\* moment no earlier than the last message its caller had received.
THEOREM RequestsCorrect == RouterSpec => []RequestsJustified
<1>1. RouterInit => GateInv /\ ReqInv
  BY DEF RouterInit, NoReq, GateInv, ReqInv, ReqOk
<1>2. RouterInv /\ RouterInv' /\ ChannelsComplete /\ GateInv /\ ReqInv /\ [RouterNext]_routerVars => GateInv' /\ ReqInv'
  BY GateStep, ReqStep
<1>3. RouterSpec => []RouterInv
  BY InitInv, StepInv, PTL DEF RouterSpec
<1>4. RouterSpec => [](GateInv /\ ReqInv)
  BY <1>1, <1>2, <1>3, RoutingCorrect, PTL DEF RouterSpec
<1> QED BY <1>3, <1>4, ReqJustified, PTL
================================================================================
