--------------------------------- MODULE PwPlayer ---------------------------------
(***************************************************************************)
(* PwSyncedPlayer (src/src/audio/pw_synced_player.rs): the application's   *)
(* calls of new, reconnect, take_error and drop; the thread that sets up   *)
(* the PipeWire stream and runs its loop; and the process callback, which  *)
(* PipeWire calls while the stream is connected and which feeds the device *)
(* clock.  What the callback plays is module Renderer.                     *)
(*                                                                         *)
(* PipeWire is external: connecting and disconnecting may fail, and the    *)
(* device's counter may stall, jump or start over at any callback.         *)
(***************************************************************************)
EXTENDS DeviceClock, Sequences, FiniteSets

CONSTANTS
    Gaps,        \* idle gaps an application asks for, in rounds of the loop
    Rates,       \* units of the ticks; 0 when the stream reports none
    Steps,       \* what the clock advances from callback to callback
    Requested,   \* frames the graph asks for; 0 when it does not say
    Capacity,    \* frames of a buffer
    MaxRequests, \* bound: calls of reconnect
    MaxNow       \* bound: the clock of the callbacks

ASSUME PwAssumption ==
    /\ Gaps \subseteq Nat /\ Rates \subseteq Nat /\ Steps \subseteq Nat
    /\ Requested \subseteq Nat /\ Capacity \in Nat
    /\ MaxRequests \in Nat /\ MaxNow \in Nat

VARIABLES
    owner,     \* the player is held, being dropped (its thread joined), or dropped
    running,   \* the flag they share
    thread,    \* where the thread is
    left,      \* rounds of the idle gap yet to wait
    stream,    \* of the PipeWire stream
    requests,  \* the reconnect channel: idle gaps
    sent,      \* requests the channel accepted
    served,    \* requests accepted before the last disconnect
    lastError, \* last_error is set
    told,      \* the application has seen an error
    device,    \* what the last callback was told, and when its ticks last moved
    est,       \* DeviceClockEstimator
    report,    \* the device clock's report at the last callback, if any
    broken,    \* when the device's timeline was last broken
    filled     \* frames the last callback wrote

threadVars == <<thread, left, stream>>
ownerVars  == <<owner, running>>
errorVars  == <<lastError, told>>
clockVars  == <<device, est, report, broken, filled>>
requestVars == <<requests, sent, served>>
vars == <<threadVars, ownerVars, errorVars, clockVars, requestVars>>

\* new: the thread is spawned, whatever becomes of it.
Init ==
    /\ owner = "held"
    /\ running = TRUE
    /\ thread = "setup"
    /\ left = 0
    /\ stream = "none"
    /\ requests = <<>>
    /\ sent = 0
    /\ served = 0
    /\ lastError = FALSE
    /\ told = FALSE
    /\ device = [ticks |-> 0, now |-> 0, moved |-> 0, rate |-> 0]
    /\ est = NewEstimator
    /\ report = {}
    /\ broken = 0
    /\ filled = 0

---------------------------------------------------------------------------
(* The application *)

\* The thread holds the receiver until run_pipewire_loop returns.
Receiving == thread \notin {"failed", "done"}

\* reconnect: a send, which fails with a warning once the receiver is gone.
Reconnect(gap) ==
    /\ owner = "held"
    /\ Receiving
    /\ sent < MaxRequests
    /\ requests' = Append(requests, gap)
    /\ sent' = sent + 1
    /\ UNCHANGED <<served, threadVars, ownerVars, errorVars, clockVars>>

TakeError ==
    /\ owner = "held"
    /\ lastError
    /\ lastError' = FALSE
    /\ told' = TRUE
    /\ UNCHANGED <<threadVars, ownerVars, clockVars, requestVars>>

\* Mutant of Drop: the thread is not told.
DropUntold ==
    /\ owner = "held"
    /\ owner' = "joining"
    /\ UNCHANGED <<running, threadVars, errorVars, clockVars, requestVars>>

\* drop: the flag first, then the join.
Drop ==
    /\ owner = "held"
    /\ owner' = "joining"
    /\ running' = FALSE
    /\ UNCHANGED <<threadVars, errorVars, clockVars, requestVars>>

Joined ==
    /\ owner = "joining"
    /\ thread = "done"
    /\ owner' = "dropped"
    /\ UNCHANGED <<running, threadVars, errorVars, clockVars, requestVars>>

---------------------------------------------------------------------------
(* The thread *)

Goes(from, to) == thread = from /\ thread' = to

\* Every step of the setup may fail, and then all that was set up is released.
SetupFails ==
    /\ Goes("setup", "failed")
    /\ UNCHANGED <<left, stream, ownerVars, errorVars, clockVars, requestVars>>

SetupConnects ==
    /\ Goes("setup", "loop")
    /\ stream' = "connected"
    /\ UNCHANGED <<left, ownerVars, errorVars, clockVars, requestVars>>

\* Mutant of StoreError: it is only logged.
LogError ==
    /\ Goes("failed", "done")
    /\ UNCHANGED <<left, stream, ownerVars, errorVars, clockVars, requestVars>>

\* The error of the loop is stored by the thread's closure.
StoreError ==
    /\ Goes("failed", "done")
    /\ lastError' = TRUE
    /\ UNCHANGED <<left, stream, ownerVars, told, clockVars, requestVars>>

\* The head of the loop; leaving it is the end of the function, which destroys the
\* stream.
LoopRuns ==
    /\ running
    /\ Goes("loop", "poll")
    /\ UNCHANGED <<left, stream, ownerVars, errorVars, clockVars, requestVars>>

LoopEnds ==
    /\ ~running
    /\ thread \in {"loop", "check"}
    /\ thread' = "ending"
    /\ UNCHANGED <<left, stream, ownerVars, errorVars, clockVars, requestVars>>

\* iterate() has returned and no request is there.
PollEmpty ==
    /\ requests = <<>>
    /\ Goes("poll", "loop")
    /\ UNCHANGED <<left, stream, ownerVars, errorVars, clockVars, requestVars>>

\* The first request names the gap and the others are drained with it.
PollRequests ==
    /\ requests # <<>>
    /\ Goes("poll", "disconnect")
    /\ left' = Head(requests)
    /\ requests' = <<>>
    /\ UNCHANGED <<stream, sent, served, ownerVars, errorVars, clockVars>>

\* A failure to disconnect is only logged.
Disconnect ==
    /\ Goes("disconnect", "idle")
    /\ stream' \in {stream, "disconnected"}
    /\ served' = sent - Len(requests)
    /\ UNCHANGED <<left, requests, sent, ownerVars, errorVars, clockVars>>

IdleRound ==
    /\ running /\ left > 0
    /\ Goes("idle", "idle")
    /\ left' = left - 1
    /\ UNCHANGED <<stream, ownerVars, errorVars, clockVars, requestVars>>

\* Mutant of IdleEnds: requests are coalesced after the gap.
IdleDrains ==
    /\ ~running \/ left = 0
    /\ Goes("idle", "check")
    /\ left' = 0
    /\ requests' = <<>>
    /\ UNCHANGED <<stream, sent, served, ownerVars, errorVars, clockVars>>

\* The deadline has passed, or the player is being dropped.
IdleEnds ==
    /\ ~running \/ left = 0
    /\ Goes("idle", "check")
    /\ left' = 0
    /\ UNCHANGED <<stream, ownerVars, errorVars, clockVars, requestVars>>

IdleOver ==
    /\ running
    /\ Goes("check", "connect")
    /\ UNCHANGED <<left, stream, ownerVars, errorVars, clockVars, requestVars>>

\* A failure to connect is only logged, too.
Connect ==
    /\ Goes("connect", "loop")
    /\ stream' \in {stream, "connected"}
    /\ UNCHANGED <<left, ownerVars, errorVars, clockVars, requestVars>>

StreamDestroyed ==
    /\ Goes("ending", "done")
    /\ stream' = "none"
    /\ UNCHANGED <<left, ownerVars, errorVars, clockVars, requestVars>>

---------------------------------------------------------------------------
(* The process callback *)

\* frames_to_fill: what the graph asked for, if anything, up to the capacity.
FramesToFill(requested, capacity) ==
    IF requested = 0 THEN capacity
    ELSE IF requested < capacity THEN requested ELSE capacity

\* What the stream tells of the device after d units of time: the counter moves as
\* it should, stalls, or starts over; after none, it tells the same again.
Told(d) ==
    {[ticks |-> t, now |-> device.now + d] :
        t \in {device.ticks + d, device.ticks} \cup (IF d > 0 THEN {0} ELSE {})}

\* The ticks of s do not continue the device's timeline.
Breaks(s, rate) ==
    \/ rate # device.rate
    \/ s.ticks < device.ticks
    \/ s.ticks > device.ticks /\ s.now - device.moved > MaxGap

\* The callback fills a buffer; before that it queries the stream's time, and a rate
\* of zero is not taken for one.
Process(s, rate, requested) ==
    LET fed == Fed(est, s, rate)
    IN  /\ stream = "connected"
        /\ s.now <= MaxNow
        /\ filled' = FramesToFill(requested, Capacity)
        /\ est' = fed.est
        /\ report' = fed.report
        /\ IF rate = 0 THEN UNCHANGED <<device, broken>>
           ELSE /\ broken' = IF Breaks(s, rate) THEN s.now ELSE broken
                /\ device' = [ticks |-> s.ticks, now |-> s.now, rate |-> rate,
                              moved |-> IF s.ticks = device.ticks /\ rate = device.rate
                                        THEN device.moved ELSE s.now]
        /\ UNCHANGED <<threadVars, ownerVars, errorVars, requestVars>>

---------------------------------------------------------------------------
App == Drop \/ Joined \/ TakeError \/ \E g \in Gaps : Reconnect(g)

Thread ==
    \/ SetupFails \/ SetupConnects \/ StoreError
    \/ LoopRuns \/ LoopEnds \/ PollEmpty \/ PollRequests \/ Disconnect
    \/ IdleRound \/ IdleEnds \/ IdleOver \/ Connect \/ StreamDestroyed

Callback ==
    \E d \in Steps, rate \in Rates, requested \in Requested :
        \E s \in Told(d) : Process(s, rate, requested)

Next == App \/ Thread \/ Callback

\* The thread runs, calls of PipeWire return (its loop iterates for 100 ms at most),
\* and the operating system's join returns.
Fairness == WF_vars(Thread) /\ WF_vars(Joined)

Spec == Init /\ [][Next]_vars /\ Fairness

---------------------------------------------------------------------------
(* Properties *)

TypeOK ==
    /\ owner \in {"held", "joining", "dropped"} /\ running \in BOOLEAN
    /\ thread \in {"setup", "failed", "loop", "poll", "disconnect", "idle", "check",
                   "connect", "ending", "done"}
    /\ left \in Nat
    /\ stream \in {"none", "connected", "disconnected"}
    /\ requests \in Seq(Gaps) /\ sent \in 0..MaxRequests /\ served \in 0..sent
    /\ lastError \in BOOLEAN /\ told \in BOOLEAN
    /\ filled \in 0..Capacity

\* drop() returns, also from the middle of an idle gap or of the setup, and from then
\* on there is no stream and so no callback.
DropEndsAll ==
    owner = "joining" ~> [](owner = "dropped" /\ thread = "done" /\ stream = "none")

\* A thread that is gone though nobody dropped the player has said so through
\* has_error, once, whoever takes the error and when.
DeadThreadReported ==
    thread = "done" /\ running => lastError \/ told

\* Every accepted reconnect is followed by a disconnect of its own or a shared one,
\* also one made during another's gap, unless the player is dropped or has failed.
ReconnectServed ==
    \A k \in 1..MaxRequests :
        sent >= k ~> served >= k \/ ~running \/ lastError \/ told

\* A report of the device clock spans a piece of time in which the device's counter
\* ran on: no restart, no other unit, and no stall longer than the pause that is
\* allowed, whether the stall shows as a pause of the callbacks, as a counter that is
\* frozen while the clock goes on, or as both, and through a reconnect, too.
ReportsOneTimeline ==
    \A r \in report : broken <= r.from.now /\ broken <= r.cumulative.now
================================================================================
