--------------------------- MODULE ConnectionManager ---------------------------
(***************************************************************************)
(* The managed connection life cycle of src/src/protocol/manager.rs.       *)
(*                                                                         *)
(* Inbound TCP peers wait in the accept backlog; the accept loop admits    *)
(* one per handshake slot; each handshake runs on a task that keeps its    *)
(* slot until the established connection is in a bounded channel; the      *)
(* driver task arbitrates every established connection against the         *)
(* incumbent, says goodbye to the loser on a task of its own and yields    *)
(* the winner to the application, which may set the last-played server,    *)
(* disconnect the current one, or drop the manager at any moment.          *)
(*                                                                         *)
(* A connection is named by the peer that opened it.  Its transport is     *)
(* seen only through its reader task (router), which is "ended" once it    *)
(* has finished or was aborted; the code's is_closed() is asked only of    *)
(* guards still held, whose reader nobody has aborted.                     *)
(***************************************************************************)
EXTENDS Integers, Sequences, FiniteSets

CONSTANTS
    Conn,                    \* inbound peers, one connection each
    Server,                  \* server identities (server_id)
    Hellos,                  \* the server/hello messages a peer may send
    Req,                     \* calls of disconnect()
    ReasonOf,                \* the goodbye reason each of these calls gives
    MaxConcurrentHandshakes, \* ManagerConfig::max_concurrent_handshakes
    MaxSets,                 \* bound: how often set_last_played is called
    NoConn, NoServer, NoHello, NoReason

HelloSet == [id : Server, reason : {"playback", "discovery"}]
Reason   == {"another_server", "shutdown", "restart", "user_request"}

ASSUME ManagerAssumption ==
    /\ IsFiniteSet(Conn)
    /\ Hellos \subseteq HelloSet
    /\ ReasonOf \in [Req -> Reason]
    /\ MaxConcurrentHandshakes \in Nat
    /\ MaxSets \in Nat
    /\ NoConn \notin Conn
    /\ NoServer \notin Server
    /\ NoHello \notin HelloSet
    /\ NoReason \notin Reason

VARIABLES
    accept,      \* accept_loop: where the loop waits
    free,        \* permits left in the handshake semaphore
    task,        \* the attempt of each peer: backlog, handshake task, ended
    hello,       \* the server/hello received in the handshake
    router,      \* the connection's reader task
    established, \* the bounded channel from handshake tasks to the driver
    driver,      \* whether the driver task runs
    current,     \* driver: the incumbent
    lastPlayed,  \* driver: the arbitration tie-break
    goodbye,     \* driver: goodbyes in flight, the reason by connection
    wire,        \* the goodbye that reached each peer's socket
    yielded,     \* every winner ever sent to the application, in order
    taken,       \* how many of them next_connection() has returned
    cmds,        \* the unbounded command channel
    reply,       \* what each disconnect() call has returned
    target,      \* the connection a disconnect() call flushes
    handle,      \* whether the ConnectionManager value is still held
    sets         \* calls of set_last_played so far

acceptVars == <<accept, free>>
connVars   == <<hello, router>>
driverVars == <<driver, current, lastPlayed, goodbye>>
appVars    == <<taken, handle, sets>>
callVars   == <<reply, target>>
vars == <<acceptVars, task, connVars, established, driverVars, wire, yielded,
          appVars, cmds, callVars>>

---------------------------------------------------------------------------
(* Configuration and policy *)

\* with_config: zero slots would deadlock the accept loop, so clamp to one.
Slots == IF MaxConcurrentHandshakes < 1 THEN 1 ELSE MaxConcurrentHandshakes

\* Mutant of ShouldSwitch: candidate and incumbent matched the other way round.
SwappedSwitch(inc, cand, lp) ==
    \/ inc.reason = "playback"
    \/ /\ inc.reason = "discovery"
       /\ cand.reason = "discovery"
       /\ inc.id = lp

\* should_switch: does the candidate displace the incumbent?
ShouldSwitch(inc, cand, lp) ==
    \/ cand.reason = "playback"
    \/ /\ cand.reason = "discovery"
       /\ inc.reason = "discovery"
       /\ cand.id = lp

SetCmd(s)        == [op |-> "set_last_played", server |-> s]
DisconnectCmd(r) == [op |-> "disconnect", req |-> r]
Command == [op : {"set_last_played"}, server : Server \cup {NoServer}]
           \cup [op : {"disconnect"}, req : Req]

Closed(c)  == router[c] = "ended"
Flushing   == {c \in Conn : goodbye[c] # NoReason}
Queued     == {established[i] : i \in DOMAIN established}

\* Mutant of Aborted: the guard has no Drop.
NotAborted(S) == router

\* Dropping guards aborts the reader tasks they hold.
Aborted(S) == [c \in Conn |-> IF c \in S /\ router[c] = "running"
                              THEN "ended" ELSE router[c]]

\* Mutant of LiveIncumbent: the incumbent's liveness is not consulted.
AnyIncumbent == current

\* The incumbent as arbitration sees it: one whose reader ended is no incumbent.
LiveIncumbent == IF current # NoConn /\ Closed(current) THEN NoConn ELSE current

\* A oneshot acknowledgement; sending one to a cancelled caller does nothing.
Answer(r, result) ==
    [reply EXCEPT ![r] = IF @ = "waiting" THEN result ELSE @]

Init ==
    /\ accept = "acquire"
    /\ free = Slots
    /\ task = [c \in Conn |-> "none"]
    /\ hello = [c \in Conn |-> NoHello]
    /\ router = [c \in Conn |-> "none"]
    /\ established = <<>>
    /\ driver = "running"
    /\ current = NoConn
    /\ lastPlayed = NoServer
    /\ goodbye = [c \in Conn |-> NoReason]
    /\ wire = [c \in Conn |-> NoReason]
    /\ yielded = <<>>
    /\ taken = 0
    /\ cmds = <<>>
    /\ reply = [r \in Req |-> "none"]
    /\ target = [r \in Req |-> NoConn]
    /\ handle = "held"
    /\ sets = 0

---------------------------------------------------------------------------
(* Peers *)

\* A peer opens a TCP connection; it sits in the listener's backlog.
PeerConnects(c) ==
    /\ task[c] = "none"
    /\ accept # "aborted"
    /\ task' = [task EXCEPT ![c] = "backlog"]
    /\ UNCHANGED <<acceptVars, connVars, established, driverVars, wire, yielded,
                   appVars, cmds, callVars>>

\* The peer closes an established connection, or its transport fails: the
\* reader task ends on its own, whoever holds the guard.
PeerCloses(c) ==
    /\ router[c] = "running"
    /\ router' = [router EXCEPT ![c] = "ended"]
    /\ UNCHANGED <<acceptVars, task, hello, established, driverVars, wire,
                   yielded, appVars, cmds, callVars>>

---------------------------------------------------------------------------
(* accept_loop and the handshake tasks *)

\* The loop takes a permit before it accepts: no slot, no admission.
AcquirePermit ==
    /\ accept = "acquire"
    /\ free > 0
    /\ accept' = "accept"
    /\ free' = free - 1
    /\ UNCHANGED <<task, connVars, established, driverVars, wire, yielded,
                   appVars, cmds, callVars>>

\* accept_tcp returned a peer: the permit moves to the handshake task.
AcceptPeer(c) ==
    /\ accept = "accept"
    /\ task[c] = "backlog"
    /\ accept' = "acquire"
    /\ task' = [task EXCEPT ![c] = "handshake"]
    /\ UNCHANGED <<free, connVars, established, driverVars, wire, yielded,
                   appVars, cmds, callVars>>

\* Mutant of AcceptError: the permit is lost with the error.
AcceptErrorLeaks ==
    /\ accept = "accept"
    /\ accept' = "pause"
    /\ UNCHANGED <<free, task, connVars, established, driverVars, wire, yielded,
                   appVars, cmds, callVars>>

\* accept_tcp failed: give the permit back and pause before the next try.
AcceptError ==
    /\ accept = "accept"
    /\ accept' = "pause"
    /\ free' = free + 1
    /\ UNCHANGED <<task, connVars, established, driverVars, wire, yielded,
                   appVars, cmds, callVars>>

PauseElapsed ==
    /\ accept = "pause"
    /\ accept' = "acquire"
    /\ UNCHANGED <<free, task, connVars, established, driverVars, wire, yielded,
                   appVars, cmds, callVars>>

\* The handshake task ends and its permit with it.
EndAttempt(c) ==
    /\ task' = [task EXCEPT ![c] = "done"]
    /\ free' = free + 1

\* TLS, WebSocket and hello exchange done: the connection's tasks run and the
\* handshake task turns to the established channel, its permit still held.
Establish(c) ==
    /\ task[c] = "handshake"
    /\ task' = [task EXCEPT ![c] = "sending"]
    /\ \E h \in Hellos : hello' = [hello EXCEPT ![c] = h]
    /\ router' = [router EXCEPT ![c] = "running"]
    /\ UNCHANGED <<acceptVars, established, driverVars, wire, yielded, appVars,
                   cmds, callVars>>

\* The handshake returned an error, or the peer closed during it.
HandshakeFails(c) ==
    /\ task[c] = "handshake"
    /\ EndAttempt(c)
    /\ UNCHANGED <<accept, connVars, established, driverVars, wire, yielded,
                   appVars, cmds, callVars>>

\* Mutant of HandshakeTimeout: no deadline on the handshake.
NoHandshakeTimeout(c) == FALSE /\ UNCHANGED vars

\* establish_timeout elapsed on a peer that stalls.
HandshakeTimeout(c) ==
    /\ task[c] = "handshake"
    /\ EndAttempt(c)
    /\ UNCHANGED <<accept, connVars, established, driverVars, wire, yielded,
                   appVars, cmds, callVars>>

\* established_tx.send: waits for room, then the permit is dropped.
SendEstablished(c) ==
    /\ task[c] = "sending"
    /\ driver = "running"
    /\ Len(established) < Slots
    /\ established' = Append(established, c)
    /\ EndAttempt(c)
    /\ UNCHANGED <<accept, connVars, driverVars, wire, yielded, appVars, cmds,
                   callVars>>

\* The driver is gone: send fails and the connection is dropped here.
SendToStoppedDriver(c) ==
    /\ task[c] = "sending"
    /\ driver = "stopped"
    /\ EndAttempt(c)
    /\ router' = Aborted({c})
    /\ UNCHANGED <<accept, hello, established, driverVars, wire, yielded,
                   appVars, cmds, callVars>>

\* Drop aborted the loop: it goes at its await, with the permit it holds.
AcceptAborted ==
    /\ handle = "dropped"
    /\ accept # "aborted"
    /\ accept' = "aborted"
    /\ free' = IF accept = "accept" THEN free + 1 ELSE free
    /\ UNCHANGED <<task, connVars, established, driverVars, wire, yielded,
                   appVars, cmds, callVars>>

\* The JoinSet of the aborted loop aborts each handshake task.
HandshakeAborted(c) ==
    /\ accept = "aborted"
    /\ task[c] \in {"handshake", "sending"}
    /\ EndAttempt(c)
    /\ router' = Aborted({c})
    /\ UNCHANGED <<accept, hello, established, driverVars, wire, yielded,
                   appVars, cmds, callVars>>

---------------------------------------------------------------------------
(* driver: one branch of its select! per action, each without an await *)

\* arbitrate: the newcomer loses and is sent goodbye(another_server).
ArbitrateReject ==
    LET inc == LiveIncumbent
        c   == Head(established)
    IN  /\ driver = "running"
        /\ established # <<>>
        /\ inc # NoConn
        /\ ~ShouldSwitch(hello[inc], hello[c], lastPlayed)
        /\ established' = Tail(established)
        /\ goodbye' = [goodbye EXCEPT ![c] = "another_server"]
        /\ UNCHANGED <<acceptVars, task, connVars, driver, current, lastPlayed,
                       wire, yielded, appVars, cmds, callVars>>

\* Mutant of Displaced: the displaced incumbent is dropped without a goodbye.
DisplacedSilently(inc) == goodbye

\* The displaced incumbent's goodbye is flushed on a task of its own.
Displaced(inc) ==
    IF inc = NoConn THEN goodbye
                    ELSE [goodbye EXCEPT ![inc] = "another_server"]

\* Mutant of Yield: the application receives the newest winner first.
YieldFirst(c) == IF handle = "held" THEN <<c>> \o yielded ELSE yielded

\* conn_tx.send: unbounded; fails, harmlessly, once the handle is dropped.
Yield(c) == IF handle = "held" THEN Append(yielded, c) ELSE yielded

\* arbitrate: the newcomer wins, displacing the live incumbent if there is one.
\* A dead incumbent is dropped first, with no goodbye and no say.
ArbitratePromote ==
    LET inc == LiveIncumbent
        c   == Head(established)
    IN  /\ driver = "running"
        /\ established # <<>>
        /\ inc # NoConn => ShouldSwitch(hello[inc], hello[c], lastPlayed)
        /\ established' = Tail(established)
        /\ goodbye' = Displaced(inc)
        /\ current' = c
        /\ yielded' = Yield(c)
        /\ UNCHANGED <<acceptVars, task, connVars, driver, lastPlayed, wire,
                       appVars, cmds, callVars>>

\* guard.closed() fired: the incumbent's reader has ended.
IncumbentClosed ==
    /\ driver = "running"
    /\ current # NoConn
    /\ Closed(current)
    /\ current' = NoConn
    /\ UNCHANGED <<acceptVars, task, connVars, established, driver, lastPlayed,
                   goodbye, wire, yielded, appVars, cmds, callVars>>

\* Command::SetLastPlayed
ApplySetLastPlayed ==
    /\ driver = "running"
    /\ cmds # <<>>
    /\ Head(cmds).op = "set_last_played"
    /\ lastPlayed' = Head(cmds).server
    /\ cmds' = Tail(cmds)
    /\ UNCHANGED <<acceptVars, task, connVars, established, driver, current,
                   goodbye, wire, yielded, appVars, callVars>>

\* Command::Disconnect with no incumbent, or a dead one: Ok at once.
ApplyDisconnectIdle ==
    /\ driver = "running"
    /\ cmds # <<>>
    /\ Head(cmds).op = "disconnect"
    /\ LiveIncumbent = NoConn
    /\ current' = NoConn
    /\ reply' = Answer(Head(cmds).req, "ok")
    /\ cmds' = Tail(cmds)
    /\ UNCHANGED <<acceptVars, task, connVars, established, driver, lastPlayed,
                   goodbye, wire, yielded, appVars, target>>

\* Command::Disconnect with a live incumbent: the flush runs off the driver and
\* answers the caller when it ends.
ApplyDisconnectLive ==
    LET r == Head(cmds).req
    IN  /\ driver = "running"
        /\ cmds # <<>>
        /\ Head(cmds).op = "disconnect"
        /\ LiveIncumbent # NoConn
        /\ goodbye' = [goodbye EXCEPT ![current] = ReasonOf[r]]
        /\ target' = [target EXCEPT ![r] = current]
        /\ current' = NoConn
        /\ cmds' = Tail(cmds)
        /\ UNCHANGED <<acceptVars, task, connVars, established, driver,
                       lastPlayed, wire, yielded, appVars, reply>>

\* Aborted by Drop, or out of its loop because the channels closed: everything
\* the driver owns is dropped, and no goodbye is said.
DriverStops ==
    /\ handle = "dropped"
    /\ driver = "running"
    /\ driver' = "stopped"
    /\ router' = Aborted(Queued \cup Flushing \cup {current})
    /\ established' = <<>>
    /\ current' = NoConn
    /\ goodbye' = [c \in Conn |-> NoReason]
    /\ cmds' = <<>>
    /\ UNCHANGED <<acceptVars, task, hello, lastPlayed, wire, yielded, appVars,
                   callVars>>

---------------------------------------------------------------------------
(* flush_goodbye: a task per goodbye, under goodbye_timeout *)

\* The writer put client/goodbye on the wire; its ack is on the way.  The peer
\* may have closed its side meanwhile without the write failing.
GoodbyeWritten(c) ==
    /\ goodbye[c] # NoReason
    /\ wire[c] = NoReason
    /\ wire' = [wire EXCEPT ![c] = goodbye[c]]
    /\ UNCHANGED <<acceptVars, task, connVars, established, driverVars, yielded,
                   appVars, cmds, callVars>>

\* Mutant of EndFlush: the guard is forgotten without tearing the reader down.
LeakyFlush(c, result) ==
    /\ goodbye' = [goodbye EXCEPT ![c] = NoReason]
    /\ router' = router
    /\ reply' = [r \in Req |-> IF target[r] = c /\ reply[r] = "waiting"
                               THEN result ELSE reply[r]]
    /\ UNCHANGED <<acceptVars, task, hello, established, driver, current,
                   lastPlayed, wire, yielded, appVars, cmds, target>>

\* The guard is consumed, so the connection's tasks end; a disconnect() call
\* waiting on this flush gets its result.
EndFlush(c, result) ==
    /\ goodbye' = [goodbye EXCEPT ![c] = NoReason]
    /\ router' = Aborted({c})
    /\ reply' = [r \in Req |-> IF target[r] = c /\ reply[r] = "waiting"
                               THEN result ELSE reply[r]]
    /\ UNCHANGED <<acceptVars, task, hello, established, driver, current,
                   lastPlayed, wire, yielded, appVars, cmds, target>>

\* guard.disconnect returned Ok: the writer acknowledged the goodbye.
FlushCompletes(c) ==
    /\ goodbye[c] # NoReason
    /\ wire[c] = goodbye[c]
    /\ EndFlush(c, "ok")

\* Mutant of FlushFails: a failed write is reported as success.
FlushFailsQuietly(c) ==
    /\ goodbye[c] # NoReason
    /\ EndFlush(c, "ok")

\* guard.disconnect returned an error: the writer is gone, or it failed, at the
\* goodbye or at the close that follows it.
FlushFails(c) ==
    /\ goodbye[c] # NoReason
    /\ EndFlush(c, "err")

\* Mutant of FlushTimeout: a flush may take for ever.
NoFlushTimeout(c) == FALSE /\ UNCHANGED vars

\* The deadline elapsed: the guard is dropped, even if the goodbye is out.
FlushTimeout(c) ==
    /\ goodbye[c] # NoReason
    /\ EndFlush(c, "err")

---------------------------------------------------------------------------
(* The application, through the ConnectionManager handle *)

\* next_connection returned a winner.
NextConnection ==
    /\ handle = "held"
    /\ taken < Len(yielded)
    /\ taken' = taken + 1
    /\ UNCHANGED <<acceptVars, task, connVars, established, driverVars, wire,
                   yielded, handle, sets, cmds, callVars>>

\* set_last_played: enqueued; the driver applies it later.
SetLastPlayed(s) ==
    /\ handle = "held"
    /\ sets < MaxSets
    /\ sets' = sets + 1
    /\ cmds' = Append(cmds, SetCmd(s))
    /\ UNCHANGED <<acceptVars, task, connVars, established, driverVars, wire,
                   yielded, taken, handle, callVars>>

\* disconnect: enqueue the command and await its acknowledgement.
Disconnect(r) ==
    /\ handle = "held"
    /\ reply[r] = "none"
    /\ reply' = [reply EXCEPT ![r] = "waiting"]
    /\ cmds' = Append(cmds, DisconnectCmd(r))
    /\ UNCHANGED <<acceptVars, task, connVars, established, driverVars, wire,
                   yielded, appVars, target>>

\* The caller drops the disconnect() future; the command stays queued.
CancelDisconnect(r) ==
    /\ reply[r] = "waiting"
    /\ reply' = [reply EXCEPT ![r] = "cancelled"]
    /\ UNCHANGED <<acceptVars, task, connVars, established, driverVars, wire,
                   yielded, appVars, cmds, target>>

\* Drop for ConnectionManager: abort both tasks.  disconnect() borrows the
\* manager, so no call of it is pending.
DropManager ==
    /\ handle = "held"
    /\ \A r \in Req : reply[r] # "waiting"
    /\ handle' = "dropped"
    /\ UNCHANGED <<acceptVars, task, connVars, established, driverVars, wire,
                   yielded, taken, sets, cmds, callVars>>

---------------------------------------------------------------------------
AcceptLoop ==
    \/ AcquirePermit
    \/ \E c \in Conn : AcceptPeer(c)
    \/ AcceptError
    \/ PauseElapsed
    \/ AcceptAborted

Handshake(c) ==
    \/ Establish(c)
    \/ HandshakeFails(c)
    \/ HandshakeTimeout(c)
    \/ SendEstablished(c)
    \/ SendToStoppedDriver(c)
    \/ HandshakeAborted(c)

Driver ==
    \/ ArbitrateReject \/ ArbitratePromote
    \/ IncumbentClosed
    \/ ApplySetLastPlayed
    \/ ApplyDisconnectIdle \/ ApplyDisconnectLive
    \/ DriverStops

Flush(c) ==
    \/ GoodbyeWritten(c)
    \/ FlushCompletes(c) \/ FlushFails(c) \/ FlushTimeout(c)

App ==
    \/ NextConnection
    \/ \E s \in Server \cup {NoServer} : SetLastPlayed(s)
    \/ \E r \in Req : Disconnect(r) \/ CancelDisconnect(r)
    \/ DropManager

Next ==
    \/ AcceptLoop
    \/ Driver
    \/ App
    \/ \E c \in Conn : PeerConnects(c) \/ PeerCloses(c) \/ Handshake(c) \/ Flush(c)

Spec == Init /\ [][Next]_vars

(***************************************************************************)
(* The runtime polls every ready task (weak fairness), a select! branch    *)
(* that stays ready is taken since the branch order is random, and every   *)
(* timer fires.  A backlogged peer and a handshake task waiting for room   *)
(* are served in FIFO order by the kernel and by the channel, so they are  *)
(* not overtaken for ever (strong fairness); this also says that accept    *)
(* errors are transient, as the code's comment does.  Peers, the network   *)
(* and the application owe nothing.                                        *)
(***************************************************************************)
Fairness ==
    /\ WF_vars(AcquirePermit) /\ WF_vars(PauseElapsed) /\ WF_vars(AcceptAborted)
    /\ WF_vars(Driver)
    /\ \A c \in Conn :
          /\ SF_vars(AcceptPeer(c)) /\ SF_vars(SendEstablished(c))
          /\ WF_vars(HandshakeTimeout(c)) /\ WF_vars(SendToStoppedDriver(c))
          /\ WF_vars(HandshakeAborted(c)) /\ WF_vars(FlushTimeout(c))

FairSpec == Spec /\ Fairness

---------------------------------------------------------------------------
(* Properties *)

TypeOK ==
    /\ accept \in {"acquire", "accept", "pause", "aborted"}
    /\ free \in 0..Slots
    /\ task \in [Conn -> {"none", "backlog", "handshake", "sending", "done"}]
    /\ hello \in [Conn -> Hellos \cup {NoHello}]
    /\ router \in [Conn -> {"none", "running", "ended"}]
    /\ established \in Seq(Conn)
    /\ driver \in {"running", "stopped"}
    /\ current \in Conn \cup {NoConn}
    /\ lastPlayed \in Server \cup {NoServer}
    /\ goodbye \in [Conn -> Reason \cup {NoReason}]
    /\ wire \in [Conn -> Reason \cup {NoReason}]
    /\ yielded \in Seq(Conn)
    /\ taken \in 0..Len(yielded)
    /\ cmds \in Seq(Command)
    /\ reply \in [Req -> {"none", "waiting", "ok", "err", "cancelled"}]
    /\ target \in [Req -> Conn \cup {NoConn}]
    /\ handle \in {"held", "dropped"}
    /\ sets \in 0..MaxSets

\* A connection whose tasks run has exactly one owner: its handshake task, then
\* the established channel, then the driver (as its incumbent) or a goodbye
\* flush.  No guard is in two places and nothing runs that nobody can tear down
\* (manager.rs moves the guard from one owner to the next).
SingleOwner ==
    /\ \A i, j \in DOMAIN established : established[i] = established[j] => i = j
    /\ \A c \in Conn :
          /\ task[c] # "done" => /\ c \notin Queued /\ c # current
                                /\ goodbye[c] = NoReason
          /\ task[c] \notin {"sending", "done"} => router[c] = "none"
          /\ c \in Queued => c # current /\ goodbye[c] = NoReason
          /\ c = current => goodbye[c] = NoReason
          /\ task[c] = "sending" \/ c \in Queued \/ c = current \/ goodbye[c] # NoReason
             => router[c] # "none"
          /\ router[c] = "running" => \/ task[c] = "sending" \/ c \in Queued
                                     \/ c = current \/ goodbye[c] # NoReason

\* An application that receives winners in order ends with the incumbent: no
\* connection is yielded twice, none before it is arbitrated, and the newest
\* winner is the incumbent while there is one.
YieldedInOrder ==
    /\ \A i, j \in DOMAIN yielded : yielded[i] = yielded[j] => i = j
    /\ \A i \in DOMAIN yielded : task[yielded[i]] = "done" /\ yielded[i] \notin Queued
    /\ handle = "held" /\ current # NoConn =>
          yielded # <<>> /\ yielded[Len(yielded)] = current

\* The client serves one server at a time: of all the connections ever yielded
\* to the application, one that still runs is either the incumbent, and then it
\* is the newest winner, or it is being told goodbye.
OnlyIncumbentServes ==
    \A i \in DOMAIN yielded :
        router[yielded[i]] = "running" =>
            \/ goodbye[yielded[i]] # NoReason
            \/ yielded[i] = current /\ (handle = "held" => i = Len(yielded))

\* Peers that occupy a handshake slot.
Handshaking == {c \in Conn : task[c] \in {"handshake", "sending"}}

\* Every permit is in the semaphore, with the accept loop, or with a handshake
\* task, through every error, timeout and abort: slots are neither lost (the
\* client would stop accepting) nor made up (it would accept without bound).
PermitsConserved ==
    free + Cardinality(Handshaking) + (IF accept = "accept" THEN 1 ELSE 0) = Slots

\* A stalled driver stops admission: peers that hold a socket but have not been
\* arbitrated yet are at most the slots and the room of the channel.
AdmissionBound == Cardinality(Handshaking \cup Queued) <= 2 * Slots

\* disconnect() tells the truth: Ok for a call that took a server off means
\* that server was told the caller's reason on the wire and its tasks ended.
DisconnectHonest ==
    \A r \in Req :
        reply[r] = "ok" /\ target[r] # NoConn =>
            wire[target[r]] = ReasonOf[r] /\ Closed(target[r])

\* Arbitration sends a newcomer away only for a server that is there: a dead
\* incumbent never costs a connection its place.
RejectedForALiveServer ==
    [][\A c \in Conn :
          /\ goodbye[c] = NoReason /\ goodbye'[c] = "another_server"
          /\ c # current
          => current \in Conn /\ router[current] = "running"]_vars

\* A live server that plays is taken off only for another that plays, or at
\* the application's request, whatever last_played says and however the
\* handshakes were ordered.
PlaybackNotPreempted ==
    [][/\ current # NoConn /\ router[current] = "running"
       /\ hello[current].reason = "playback"
       /\ current' \notin {current, NoConn}
       => hello[current'].reason = "playback"]_vars

\* Stalling peers cannot keep another out: every backlogged peer is admitted
\* while the manager lives, each handshake being under its deadline.
BacklogAdmitted ==
    \A c \in Conn : task[c] = "backlog" ~> task[c] # "backlog" \/ handle = "dropped"

\* Dropping the manager ends every connection's tasks, whichever stage the
\* connection was in, including flushes and handshakes under way.
DropReleasesAll ==
    handle = "dropped" ~>
        [](\A c \in Conn : /\ router[c] # "running"
                           /\ task[c] \notin {"handshake", "sending"})

(***************************************************************************)
(* The stage of a connection is decided by who owns it.  One that runs and *)
(* that nobody owns is in no stage of ServerLifecycle.                     *)
(***************************************************************************)
StageOf(c) ==
    CASE c = current -> "serving"
      [] goodbye[c] # NoReason -> "leaving"
      [] task[c] = "sending" \/ c \in Queued -> "pending"
      [] router[c] = "none" -> "absent"
      [] OTHER -> IF router[c] = "running" THEN "astray" ELSE "closed"

Lifecycle == INSTANCE ServerLifecycle WITH stage <- [c \in Conn |-> StageOf(c)]

\* The manager keeps the promise of ServerLifecycle: one server at a time, no
\* way back, nobody turned away for nothing.
KeepsLifecycle == Lifecycle!Spec

\* Every disconnect() call returns, even when the peer has stopped reading; and so
\* does the flush of every other goodbye, as ServerLifecycle promises.
DisconnectAnswered ==
    /\ \A r \in Req : reply[r] = "waiting" ~> reply[r] # "waiting"
    /\ Lifecycle!FairSpec

\* manager.rs, next_connection: "An entry displaced before you received it
\* arrives with already-closed channels".  The channels close only when the
\* goodbye flush has ended.
DisplacedArrivesClosed ==
    [][taken' > taken => LET c == yielded[taken']
                         IN  c = current \/ router[c] # "running"]_vars

===============================================================================
