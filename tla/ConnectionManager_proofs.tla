------------------------ MODULE ConnectionManager_proofs ------------------------
(***************************************************************************)
(* Proofs about ConnectionManager, for any finite set of peers, any set of *)
(* disconnect() calls and any configuration.                               *)
(***************************************************************************)
EXTENDS ConnectionManager, FiniteSetTheorems, TLAPS

USE DEF acceptVars, connVars, driverVars, appVars, callVars

---------------------------------------------------------------------------
(* Handshake slots *)

\* The clamp of with_config leaves at least one slot.
LEMMA SlotsPositive == Slots \in Nat \ {0}
BY ManagerAssumption DEF Slots

\* The peers that hold a permit are a finite set, so counting them makes sense.
LEMMA HandshakingFinite ==
    ASSUME NEW S, S \subseteq Conn
    PROVE  IsFiniteSet(S) /\ Cardinality(S) \in Nat
BY ManagerAssumption, FS_Subset, FS_CardinalityType

\* What a step does to the number of handshake tasks: one starts, one ends, or
\* none does.
LEMMA HandshakingChange ==
    ASSUME TypeOK, NEW c \in Conn
    PROVE  /\ /\ task[c] \notin {"handshake", "sending"}
              /\ task' = [task EXCEPT ![c] = "handshake"]
              => Cardinality(Handshaking') = Cardinality(Handshaking) + 1
           /\ /\ task[c] \in {"handshake", "sending"}
              /\ task' = [task EXCEPT ![c] = "done"]
              => Cardinality(Handshaking') = Cardinality(Handshaking) - 1
           /\ /\ task[c] \in {"handshake", "sending"}
              /\ task' = [task EXCEPT ![c] = "sending"]
              => Handshaking' = Handshaking
           /\ /\ task[c] = "none"
              /\ task' = [task EXCEPT ![c] = "backlog"]
              => Handshaking' = Handshaking
<1>0. Handshaking \subseteq Conn /\ IsFiniteSet(Handshaking)
  BY HandshakingFinite DEF Handshaking
<1>t. task \in [Conn -> {"none", "backlog", "handshake", "sending", "done"}]
  BY DEF TypeOK
<1>1. ASSUME task[c] \notin {"handshake", "sending"},
             task' = [task EXCEPT ![c] = "handshake"]
      PROVE  Cardinality(Handshaking') = Cardinality(Handshaking) + 1
  <2>1. Handshaking' = Handshaking \cup {c} /\ c \notin Handshaking
    BY <1>t, <1>1 DEF Handshaking
  <2> QED BY <2>1, <1>0, FS_AddElement
<1>2. ASSUME task[c] \in {"handshake", "sending"},
             task' = [task EXCEPT ![c] = "done"]
      PROVE  Cardinality(Handshaking') = Cardinality(Handshaking) - 1
  <2>1. Handshaking' = Handshaking \ {c} /\ c \in Handshaking
    BY <1>t, <1>2 DEF Handshaking
  <2> QED BY <2>1, <1>0, FS_RemoveElement
<1>3. ASSUME task[c] \in {"handshake", "sending"},
             task' = [task EXCEPT ![c] = "sending"]
      PROVE  Handshaking' = Handshaking
  BY <1>t, <1>3 DEF Handshaking
<1>4. ASSUME task[c] = "none",
             task' = [task EXCEPT ![c] = "backlog"]
      PROVE  Handshaking' = Handshaking
  BY <1>t, <1>4 DEF Handshaking
<1> QED BY <1>1, <1>2, <1>3, <1>4

\* The permit count is kept by every step.
LEMMA PermitStep ==
    TypeOK /\ PermitsConserved /\ [Next]_vars => PermitsConserved' /\ (free \in 0..Slots)'
<1> SUFFICES ASSUME TypeOK, PermitsConserved, [Next]_vars
             PROVE  PermitsConserved' /\ (free \in 0..Slots)'
  OBVIOUS
<1> DEFINE n == Cardinality(Handshaking)
           b == IF accept = "accept" THEN 1 ELSE 0
<1>1. /\ n \in Nat /\ Slots \in Nat /\ Slots' = Slots /\ free \in Nat
      /\ free + n + b = Slots
  BY HandshakingFinite, SlotsPositive DEF Handshaking, TypeOK, PermitsConserved, Slots
<1>2. n' \in Nat
  <2>1. Handshaking' \subseteq Conn
    BY DEF Handshaking
  <2> QED BY <2>1, HandshakingFinite
<1>3. SUFFICES free' \in Nat /\ free' + n' + b' = Slots
  BY <1>1, <1>2 DEF PermitsConserved
<1> HIDE DEF n
<1>4. CASE UNCHANGED <<accept, free, task>>
  BY <1>1, <1>4 DEF n, Handshaking
<1>5. ASSUME NEW c \in Conn, Handshake(c)
      PROVE  free' \in Nat /\ free' + n' + b' = Slots
  <2>1. CASE Establish(c)
    BY <1>1, <2>1, HandshakingChange DEF Establish, n
  <2>2. CASE ~Establish(c)
    <3>1. EndAttempt(c) /\ accept' = accept /\ task[c] \in {"handshake", "sending"}
      BY <1>5, <2>2 DEF Handshake, HandshakeFails, HandshakeTimeout, SendEstablished,
                        SendToStoppedDriver, HandshakeAborted
    <3>2. n' = n - 1
      BY <3>1, HandshakingChange DEF n, EndAttempt
    <3> QED BY <1>1, <3>1, <3>2 DEF EndAttempt
  <2> QED BY <2>1, <2>2
<1>6. CASE AcceptLoop
  <2>1. CASE AcquirePermit
    BY <1>1, <2>1 DEF AcquirePermit, n, Handshaking
  <2>2. ASSUME NEW c \in Conn, AcceptPeer(c)
        PROVE  free' \in Nat /\ free' + n' + b' = Slots
    <3>1. n' = n + 1
      BY <2>2, HandshakingChange DEF n, AcceptPeer
    <3> QED BY <1>1, <2>2, <3>1 DEF AcceptPeer
  <2>3. CASE AcceptError
    BY <1>1, <2>3 DEF AcceptError, n, Handshaking
  <2>4. CASE PauseElapsed
    BY <1>1, <2>4 DEF PauseElapsed, n, Handshaking
  <2>5. CASE AcceptAborted
    BY <1>1, <2>5 DEF AcceptAborted, n, Handshaking
  <2> QED BY <1>6, <2>1, <2>2, <2>3, <2>4, <2>5 DEF AcceptLoop
<1>7. ASSUME NEW c \in Conn, PeerConnects(c)
      PROVE  free' \in Nat /\ free' + n' + b' = Slots
  BY <1>1, <1>7, HandshakingChange DEF PeerConnects, n
<1>8. \/ UNCHANGED <<accept, free, task>>
      \/ AcceptLoop
      \/ \E c \in Conn : Handshake(c) \/ PeerConnects(c)
  BY DEF Next, vars, Driver, ArbitrateReject, ArbitratePromote, IncumbentClosed,
         ApplySetLastPlayed, ApplyDisconnectIdle, ApplyDisconnectLive, DriverStops,
         App, NextConnection, SetLastPlayed, Disconnect, CancelDisconnect, DropManager,
         PeerCloses, Flush, GoodbyeWritten, FlushCompletes, FlushFails, FlushTimeout,
         EndFlush
<1> QED BY <1>4, <1>5, <1>6, <1>7, <1>8

---------------------------------------------------------------------------
(* Types *)

\* What the operators of the model return.
LEMMA OperatorTypes ==
    ASSUME TypeOK
    PROVE  /\ \A S : Aborted(S) \in [Conn -> {"none", "running", "ended"}]
           /\ LiveIncumbent \in Conn \cup {NoConn}
           /\ \A r, x : x \in {"ok", "err"} =>
                Answer(r, x) \in [Req -> {"none", "waiting", "ok", "err", "cancelled"}]
           /\ \A inc \in Conn \cup {NoConn} :
                Displaced(inc) \in [Conn -> Reason \cup {NoReason}]
           /\ \A c \in Conn : /\ Yield(c) \in Seq(Conn)
                              /\ Len(Yield(c)) \in Len(yielded)..(Len(yielded) + 1)
           /\ \A s \in Server \cup {NoServer} : SetCmd(s) \in Command
           /\ \A r \in Req : DisconnectCmd(r) \in Command
           /\ \A cmd \in Command : /\ cmd.op = "disconnect" => cmd.req \in Req
                                  /\ cmd.op = "set_last_played" =>
                                        cmd.server \in Server \cup {NoServer}
<1>1. \A S : Aborted(S) \in [Conn -> {"none", "running", "ended"}]
  BY DEF TypeOK, Aborted
<1>2. LiveIncumbent \in Conn \cup {NoConn}
  BY DEF TypeOK, LiveIncumbent
<1>3. \A r, x : x \in {"ok", "err"} =>
        Answer(r, x) \in [Req -> {"none", "waiting", "ok", "err", "cancelled"}]
  BY DEF TypeOK, Answer
<1>4. \A inc \in Conn \cup {NoConn} :
        Displaced(inc) \in [Conn -> Reason \cup {NoReason}]
  BY DEF TypeOK, Displaced, Reason
<1>5. \A c \in Conn : /\ Yield(c) \in Seq(Conn)
                     /\ Len(Yield(c)) \in Len(yielded)..(Len(yielded) + 1)
  BY DEF TypeOK, Yield
<1>6. \A s \in Server \cup {NoServer} : SetCmd(s) \in Command
  BY DEF SetCmd, Command
<1>7. \A r \in Req : DisconnectCmd(r) \in Command
  BY DEF DisconnectCmd, Command
<1>8. \A cmd \in Command : /\ cmd.op = "disconnect" => cmd.req \in Req
                         /\ cmd.op = "set_last_played" =>
                               cmd.server \in Server \cup {NoServer}
  BY DEF Command
<1> QED BY <1>1, <1>2, <1>3, <1>4, <1>5, <1>6, <1>7, <1>8

LEMMA TypeStep == TypeOK /\ PermitsConserved /\ [Next]_vars => TypeOK'
<1> SUFFICES ASSUME TypeOK, PermitsConserved, [Next]_vars
             PROVE  TypeOK'
  OBVIOUS
<1>f. (free \in 0..Slots)' /\ Slots' = Slots
  BY PermitStep DEF Slots
<1>1. CASE UNCHANGED vars
  BY <1>1 DEF TypeOK, vars, Slots, Command
<1>2. CASE AcceptLoop
  BY <1>2, <1>f DEF AcceptLoop, AcquirePermit, AcceptPeer, AcceptError, PauseElapsed,
                    AcceptAborted, TypeOK, Command
<1>3. CASE Driver
  <2>1. CASE ArbitrateReject
    BY <1>f, <2>1 DEF ArbitrateReject, TypeOK, Reason, Command
  <2>2. CASE ArbitratePromote
    BY <1>f, <2>2, OperatorTypes DEF ArbitratePromote, TypeOK, Command
  <2>3. CASE IncumbentClosed
    BY <1>f, <2>3 DEF IncumbentClosed, TypeOK, Command
  <2>4. CASE ApplySetLastPlayed
    BY <1>f, <2>4, OperatorTypes DEF ApplySetLastPlayed, TypeOK
  <2>5. CASE ApplyDisconnectIdle
    BY <1>f, <2>5, OperatorTypes DEF ApplyDisconnectIdle, TypeOK
  <2>6. CASE ApplyDisconnectLive
    <3>1. Head(cmds).req \in Req /\ current \in Conn /\ Tail(cmds) \in Seq(Command)
      <4>1. cmds \in Seq(Command) /\ cmds # <<>> /\ Head(cmds).op = "disconnect"
            /\ current \in Conn \cup {NoConn} /\ LiveIncumbent # NoConn
        BY <2>6 DEF ApplyDisconnectLive, TypeOK
      <4>2. Head(cmds) \in Command /\ Tail(cmds) \in Seq(Command)
        BY <4>1
      <4>3. Head(cmds).req \in Req
        BY <4>1, <4>2 DEF Command
      <4> QED BY <4>1, <4>2, <4>3 DEF LiveIncumbent
    <3>2. ReasonOf[Head(cmds).req] \in Reason
      BY <3>1, ManagerAssumption
    <3> QED BY <1>f, <2>6, <3>1, <3>2 DEF ApplyDisconnectLive, TypeOK
  <2>7. CASE DriverStops
    BY <1>f, <2>7, OperatorTypes DEF DriverStops, TypeOK
  <2> QED BY <1>3, <2>1, <2>2, <2>3, <2>4, <2>5, <2>6, <2>7 DEF Driver
<1>4. CASE App
  <2>1. CASE NextConnection
    BY <1>f, <2>1 DEF NextConnection, TypeOK, Command
  <2>2. ASSUME NEW s \in Server \cup {NoServer}, SetLastPlayed(s)
        PROVE  TypeOK'
    BY <1>f, <2>2, OperatorTypes, ManagerAssumption DEF SetLastPlayed, TypeOK
  <2>3. ASSUME NEW r \in Req, Disconnect(r)
        PROVE  TypeOK'
    BY <1>f, <2>3, OperatorTypes DEF Disconnect, TypeOK
  <2>4. ASSUME NEW r \in Req, CancelDisconnect(r)
        PROVE  TypeOK'
    BY <1>f, <2>4 DEF CancelDisconnect, TypeOK, Command
  <2>5. CASE DropManager
    BY <1>f, <2>5 DEF DropManager, TypeOK, Command
  <2> QED BY <1>4, <2>1, <2>2, <2>3, <2>4, <2>5 DEF App
<1>5. ASSUME NEW c \in Conn, PeerConnects(c) \/ PeerCloses(c)
      PROVE  TypeOK'
  BY <1>f, <1>5 DEF PeerConnects, PeerCloses, TypeOK, Command
<1>6. ASSUME NEW c \in Conn, Handshake(c)
      PROVE  TypeOK'
  <2>1. CASE Establish(c)
    BY <1>f, <2>1 DEF Establish, TypeOK, Command
  <2>2. CASE HandshakeFails(c) \/ HandshakeTimeout(c)
    BY <1>f, <2>2 DEF HandshakeFails, HandshakeTimeout, EndAttempt, TypeOK, Command
  <2>3. CASE SendEstablished(c)
    BY <1>f, <2>3 DEF SendEstablished, EndAttempt, TypeOK, Command
  <2>4. CASE SendToStoppedDriver(c) \/ HandshakeAborted(c)
    <3>1. Aborted({c}) \in [Conn -> {"none", "running", "ended"}]
      BY OperatorTypes
    <3> QED BY <1>f, <2>4, <3>1
            DEF SendToStoppedDriver, HandshakeAborted, EndAttempt, TypeOK
  <2> QED BY <1>6, <2>1, <2>2, <2>3, <2>4 DEF Handshake
<1>7. ASSUME NEW c \in Conn, Flush(c)
      PROVE  TypeOK'
  <2>1. CASE GoodbyeWritten(c)
    BY <1>f, <2>1 DEF GoodbyeWritten, TypeOK, Command
  <2>2. ASSUME NEW x \in {"ok", "err"}, EndFlush(c, x)
        PROVE  TypeOK'
    BY <1>f, <2>2, OperatorTypes DEF EndFlush, TypeOK, Command
  <2> QED BY <1>7, <2>1, <2>2 DEF Flush, FlushCompletes, FlushFails, FlushTimeout
<1> QED BY <1>1, <1>2, <1>3, <1>4, <1>5, <1>6, <1>7 DEF Next

LEMMA TypeInit == Init => TypeOK /\ PermitsConserved
<1> SUFFICES ASSUME Init
             PROVE  TypeOK /\ PermitsConserved
  OBVIOUS
<1>1. TypeOK
  BY SlotsPositive, ManagerAssumption DEF Init, TypeOK
<1>2. Handshaking = {}
  BY DEF Init, Handshaking
<1>3. PermitsConserved
  BY <1>2, SlotsPositive, FS_EmptySet DEF Init, PermitsConserved
<1> QED BY <1>1, <1>3

\* Every reachable state is well typed.
THEOREM TypeCorrect == Spec => []TypeOK
<1>1. Init => TypeOK /\ PermitsConserved
  BY TypeInit
<1>2. TypeOK /\ PermitsConserved /\ [Next]_vars => (TypeOK /\ PermitsConserved)'
  BY TypeStep, PermitStep
<1> QED BY <1>1, <1>2, PTL DEF Spec

\* Handshake slots are neither lost nor made up, whatever the errors, timeouts
\* and aborts (accept_loop's semaphore).
THEOREM PermitsCorrect == Spec => []PermitsConserved
<1>1. Init => TypeOK /\ PermitsConserved
  BY TypeInit
<1>2. TypeOK /\ PermitsConserved /\ [Next]_vars => (TypeOK /\ PermitsConserved)'
  BY TypeStep, PermitStep
<1> QED BY <1>1, <1>2, PTL DEF Spec

---------------------------------------------------------------------------
(* Ownership of connections *)

\* No connection waits twice in the established channel.
Distinct == \A i, j \in DOMAIN established : established[i] = established[j] => i = j

\* Sending to the channel adds the connection.
LEMMA QueuedAppend ==
    ASSUME TypeOK, Distinct, NEW c \in Conn, c \notin Queued,
           established' = Append(established, c)
    PROVE  Queued' = Queued \cup {c} /\ Distinct'
<1> DEFINE n == Len(established)
<1>1. /\ n \in Nat /\ DOMAIN established = 1..n
      /\ DOMAIN established' = 1..(n + 1)
      /\ \A i \in 1..n : established'[i] = established[i]
      /\ established'[n + 1] = c
  BY DEF TypeOK
<1> HIDE DEF n
<1>2. \A i \in 1..n : established[i] # c
  BY <1>1 DEF Queued
<1>3. Distinct'
  BY <1>1, <1>2 DEF Distinct
<1>4. Queued' \subseteq Queued \cup {c}
  BY <1>1 DEF Queued
<1>5. Queued \cup {c} \subseteq Queued'
  BY <1>1 DEF Queued
<1> QED BY <1>3, <1>4, <1>5

\* Receiving from the channel removes its head and nothing else.
LEMMA QueuedTail ==
    ASSUME TypeOK, Distinct, established # <<>>, established' = Tail(established)
    PROVE  /\ Head(established) \in Queued
           /\ Queued' = Queued \ {Head(established)}
           /\ Distinct'
<1> DEFINE n == Len(established)
<1>1. /\ n \in Nat \ {0} /\ DOMAIN established = 1..n
      /\ DOMAIN established' = 1..(n - 1)
      /\ \A i \in 1..(n - 1) : established'[i] = established[i + 1]
      /\ Head(established) = established[1]
  BY DEF TypeOK
<1> HIDE DEF n
<1>2. Head(established) \in Queued
  BY <1>1 DEF Queued
<1>3. Distinct'
  BY <1>1 DEF Distinct
<1>4. Queued' \subseteq Queued \ {Head(established)}
  BY <1>1 DEF Distinct, Queued
<1>5. Queued \ {Head(established)} \subseteq Queued'
  <2>1. SUFFICES ASSUME NEW i \in 1..n, i # 1
                 PROVE  established[i] \in Queued'
    BY <1>1 DEF Queued
  <2>2. i - 1 \in 1..(n - 1) /\ established'[i - 1] = established[i]
    BY <1>1, <2>1
  <2> QED BY <1>1, <2>2 DEF Queued
<1> QED BY <1>2, <1>3, <1>4, <1>5

\* The ownership of one connection, the part of SingleOwner that is about it.
Owned(c) ==
    /\ task[c] # "done" => c \notin Queued /\ c # current /\ goodbye[c] = NoReason
    /\ task[c] \notin {"sending", "done"} => router[c] = "none"
    /\ c \in Queued => c # current /\ goodbye[c] = NoReason
    /\ c = current => goodbye[c] = NoReason
    /\ task[c] = "sending" \/ c \in Queued \/ c = current \/ goodbye[c] # NoReason
       => router[c] # "none"
    /\ router[c] = "running" => \/ task[c] = "sending" \/ c \in Queued
                               \/ c = current \/ goodbye[c] # NoReason

LEMMA SingleOwnerIsOwned == SingleOwner <=> Distinct /\ \A c \in Conn : Owned(c)
BY DEF SingleOwner, Distinct, Owned

LEMMA OwnerStep == TypeOK /\ SingleOwner /\ [Next]_vars => SingleOwner'
<1> SUFFICES ASSUME TypeOK, Distinct, \A c \in Conn : Owned(c), [Next]_vars
             PROVE  Distinct' /\ \A c \in Conn : Owned(c)'
  BY SingleOwnerIsOwned DEF SingleOwner, Distinct, Owned
<1>t. /\ task \in [Conn -> {"none", "backlog", "handshake", "sending", "done"}]
      /\ router \in [Conn -> {"none", "running", "ended"}]
      /\ goodbye \in [Conn -> Reason \cup {NoReason}]
      /\ current \in Conn \cup {NoConn}
      /\ NoConn \notin Conn
      /\ "another_server" # NoReason
      /\ Queued \subseteq Conn
  BY ManagerAssumption DEF TypeOK, Queued, Reason
<1>1. CASE UNCHANGED <<task, router, established, current, goodbye>>
  BY <1>1 DEF Distinct, Owned, Queued
<1>2. ASSUME UNCHANGED <<router, established, current, goodbye>>,
             NEW d \in Conn,
             \/ PeerConnects(d) \/ AcceptPeer(d)
             \/ HandshakeFails(d) \/ HandshakeTimeout(d)
      PROVE  Distinct' /\ \A c \in Conn : Owned(c)'
  <2>1. task[d] \in {"none", "backlog", "handshake"}
        /\ \E x \in {"backlog", "handshake", "done"} : task' = [task EXCEPT ![d] = x]
    BY <1>2 DEF PeerConnects, AcceptPeer, HandshakeFails, HandshakeTimeout, EndAttempt
  <2>2. Queued' = Queued
    BY <1>2 DEF Queued
  <2> QED BY <1>t, <1>2, <2>1, <2>2 DEF Distinct, Owned
<1>3. ASSUME NEW d \in Conn, Establish(d)
      PROVE  Distinct' /\ \A c \in Conn : Owned(c)'
  BY <1>t, <1>3 DEF Establish, Distinct, Owned, Queued
<1>4. ASSUME NEW d \in Conn, PeerCloses(d)
      PROVE  Distinct' /\ \A c \in Conn : Owned(c)'
  BY <1>t, <1>4 DEF PeerCloses, Distinct, Owned, Queued
<1>5. ASSUME NEW d \in Conn, SendEstablished(d)
      PROVE  Distinct' /\ \A c \in Conn : Owned(c)'
  <2>1. d \notin Queued
    BY <1>5 DEF SendEstablished, Owned
  <2>2. Queued' = Queued \cup {d} /\ Distinct'
    BY <1>5, <2>1, QueuedAppend DEF SendEstablished
  <2> QED BY <1>t, <1>5, <2>1, <2>2 DEF SendEstablished, EndAttempt, Owned
<1>6. ASSUME NEW d \in Conn, SendToStoppedDriver(d) \/ HandshakeAborted(d)
      PROVE  Distinct' /\ \A c \in Conn : Owned(c)'
  <2>1. Queued' = Queued /\ Distinct'
    BY <1>6 DEF SendToStoppedDriver, HandshakeAborted, Queued, Distinct
  <2> QED BY <1>t, <1>6, <2>1
          DEF SendToStoppedDriver, HandshakeAborted, EndAttempt, Aborted, Owned
<1>7. CASE ArbitrateReject \/ ArbitratePromote
  <2>1. /\ Head(established) \in Queued /\ Head(established) \in Conn
        /\ Queued' = Queued \ {Head(established)} /\ Distinct'
    BY <1>t, <1>7, QueuedTail DEF ArbitrateReject, ArbitratePromote
  <2>2. CASE ArbitrateReject
    BY <1>t, <2>1, <2>2 DEF ArbitrateReject, Owned
  <2>3. CASE ArbitratePromote
    BY <1>t, <2>1, <2>3 DEF ArbitratePromote, Displaced, LiveIncumbent, Closed, Owned
  <2> QED BY <1>7, <2>2, <2>3
<1>8. CASE IncumbentClosed \/ ApplyDisconnectIdle
  <2>1. /\ Queued' = Queued /\ Distinct' /\ current' = NoConn
        /\ current # NoConn => router[current] = "ended"
        /\ UNCHANGED <<task, router, goodbye>>
    BY <1>8 DEF IncumbentClosed, ApplyDisconnectIdle, LiveIncumbent, Closed, Queued, Distinct
  <2> QED BY <1>t, <2>1 DEF Owned
<1>9. CASE ApplyDisconnectLive
  <2>1. /\ Queued' = Queued /\ Distinct' /\ current' = NoConn /\ current \in Conn
        /\ \E x : x # NoReason /\ goodbye' = [goodbye EXCEPT ![current] = x]
        /\ UNCHANGED <<task, router>>
    <3>1. /\ Queued' = Queued /\ Distinct' /\ current' = NoConn /\ current \in Conn
          /\ goodbye' = [goodbye EXCEPT ![current] = ReasonOf[Head(cmds).req]]
          /\ UNCHANGED <<task, router>>
      BY <1>t, <1>9 DEF ApplyDisconnectLive, LiveIncumbent, Queued, Distinct
    <3>2. Head(cmds) \in Command /\ Head(cmds).op = "disconnect"
      BY <1>9 DEF ApplyDisconnectLive, TypeOK
    <3>3. ReasonOf[Head(cmds).req] # NoReason
      BY <3>2, ManagerAssumption DEF Command
    <3> QED BY <3>1, <3>3
  <2> QED BY <1>t, <2>1 DEF Owned
<1>10. CASE DriverStops
  <2>1. /\ Queued' = {} /\ Distinct' /\ current' = NoConn
        /\ goodbye' = [c \in Conn |-> NoReason] /\ task' = task
        /\ router' = Aborted(Queued \cup Flushing \cup {current})
    BY <1>10 DEF DriverStops, Queued, Distinct
  <2> QED BY <1>t, <2>1 DEF Owned, Aborted, Flushing
<1>11. ASSUME NEW d \in Conn, NEW x, EndFlush(d, x), goodbye[d] # NoReason
       PROVE  Distinct' /\ \A c \in Conn : Owned(c)'
  <2>1. Queued' = Queued /\ Distinct'
    BY <1>11 DEF EndFlush, Queued, Distinct
  <2> QED BY <1>t, <1>11, <2>1 DEF EndFlush, Aborted, Owned
<1>12. ASSUME NEW d \in Conn, FlushCompletes(d) \/ FlushFails(d) \/ FlushTimeout(d)
       PROVE  Distinct' /\ \A c \in Conn : Owned(c)'
  BY <1>11, <1>12 DEF FlushCompletes, FlushFails, FlushTimeout
<1>13. \/ UNCHANGED <<task, router, established, current, goodbye>>
       \/ \E d \in Conn :
            \/ /\ UNCHANGED <<router, established, current, goodbye>>
               /\ \/ PeerConnects(d) \/ AcceptPeer(d)
                  \/ HandshakeFails(d) \/ HandshakeTimeout(d)
            \/ Establish(d) \/ PeerCloses(d) \/ SendEstablished(d)
            \/ SendToStoppedDriver(d) \/ HandshakeAborted(d)
            \/ FlushCompletes(d) \/ FlushFails(d) \/ FlushTimeout(d)
       \/ ArbitrateReject \/ ArbitratePromote \/ IncumbentClosed
       \/ ApplyDisconnectIdle \/ ApplyDisconnectLive \/ DriverStops
  <2>1. CASE UNCHANGED vars
    BY <2>1 DEF vars
  <2>2. CASE AcceptLoop
    BY <2>2 DEF AcceptLoop, AcquirePermit, AcceptPeer, AcceptError, PauseElapsed, AcceptAborted
  <2>3. CASE Driver
    BY <2>3 DEF Driver, ApplySetLastPlayed
  <2>4. CASE App
    BY <2>4 DEF App, NextConnection, SetLastPlayed, Disconnect, CancelDisconnect, DropManager
  <2>5. ASSUME NEW c \in Conn, PeerConnects(c) \/ PeerCloses(c) \/ Handshake(c) \/ Flush(c)
        PROVE  <1>13!1 \/ <1>13!2
    BY <2>5 DEF PeerConnects, Handshake, HandshakeFails, HandshakeTimeout, Flush, GoodbyeWritten
  <2> QED BY <2>1, <2>2, <2>3, <2>4, <2>5 DEF Next
<1> QED BY <1>1, <1>2, <1>3, <1>4, <1>5, <1>6, <1>7, <1>8, <1>9, <1>10, <1>12, <1>13

\* A guard is never in two places, and no connection's tasks outlive their
\* owner: the ownership the code moves from handshake task to channel to driver
\* to flush holds for any number of peers and calls.
THEOREM OwnershipCorrect == Spec => []SingleOwner
<1>1. Init => SingleOwner
  BY ManagerAssumption DEF Init, SingleOwner, Queued
<1>2. TypeOK /\ SingleOwner /\ [Next]_vars => SingleOwner'
  BY OwnerStep
<1> QED BY <1>1, <1>2, TypeCorrect, PTL DEF Spec

---------------------------------------------------------------------------
(* What the application is given *)

\* An attempt that is over stays over; the other steps of the system leave the
\* tasks of arbitrated connections alone.
LEMMA DoneStaysDone ==
    ASSUME TypeOK, [Next]_vars, NEW c \in Conn, task[c] = "done"
    PROVE  task'[c] = "done"
<1>1. CASE UNCHANGED task
  BY <1>1
<1>2. ASSUME NEW d \in Conn, PeerConnects(d) \/ AcceptPeer(d) \/ Handshake(d)
      PROVE  task'[c] = "done"
  BY <1>2 DEF PeerConnects, AcceptPeer, Handshake, Establish, HandshakeFails,
              HandshakeTimeout, SendEstablished, SendToStoppedDriver, HandshakeAborted,
              EndAttempt, TypeOK
<1>3. \/ UNCHANGED task
      \/ \E d \in Conn : PeerConnects(d) \/ AcceptPeer(d) \/ Handshake(d)
  BY DEF Next, vars, AcceptLoop, AcquirePermit, AcceptError, PauseElapsed, AcceptAborted,
         Driver, ArbitrateReject, ArbitratePromote, IncumbentClosed, ApplySetLastPlayed,
         ApplyDisconnectIdle, ApplyDisconnectLive, DriverStops, App, NextConnection,
         SetLastPlayed, Disconnect, CancelDisconnect, DropManager, PeerCloses, Flush,
         GoodbyeWritten, FlushCompletes, FlushFails, FlushTimeout, EndFlush
<1> QED BY <1>1, <1>2, <1>3

\* Only an established connection enters the channel, only an arbitrated one
\* leaves it.
LEMMA QueuedStep ==
    ASSUME TypeOK, SingleOwner, [Next]_vars
    PROVE  \A c \in Queued' : c \in Queued \/ task[c] = "sending"
<1> USE SingleOwnerIsOwned
<1>1. CASE UNCHANGED established
  BY <1>1 DEF Queued
<1>2. ASSUME NEW d \in Conn, SendEstablished(d)
      PROVE  \A c \in Queued' : c \in Queued \/ task[c] = "sending"
  BY <1>2, QueuedAppend DEF SendEstablished, Owned
<1>3. CASE ArbitrateReject \/ ArbitratePromote
  BY <1>3, QueuedTail DEF ArbitrateReject, ArbitratePromote
<1>4. CASE DriverStops
  BY <1>4 DEF DriverStops, Queued
<1>5. \/ UNCHANGED established
      \/ \E d \in Conn : SendEstablished(d)
      \/ ArbitrateReject \/ ArbitratePromote \/ DriverStops
  BY DEF Next, vars, AcceptLoop, AcquirePermit, AcceptPeer, AcceptError, PauseElapsed,
         AcceptAborted, Driver, IncumbentClosed, ApplySetLastPlayed, ApplyDisconnectIdle,
         ApplyDisconnectLive, App, NextConnection, SetLastPlayed, Disconnect,
         CancelDisconnect, DropManager, PeerConnects, PeerCloses, Handshake, Establish,
         HandshakeFails, HandshakeTimeout, SendToStoppedDriver, HandshakeAborted, Flush,
         GoodbyeWritten, FlushCompletes, FlushFails, FlushTimeout, EndFlush
<1> QED BY <1>1, <1>2, <1>3, <1>4, <1>5

LEMMA YieldStep ==
    TypeOK /\ SingleOwner /\ YieldedInOrder /\ [Next]_vars => YieldedInOrder'
<1> SUFFICES ASSUME TypeOK, SingleOwner, YieldedInOrder, [Next]_vars
             PROVE  YieldedInOrder'
  OBVIOUS
<1>t. /\ yielded \in Seq(Conn) /\ established \in Seq(Conn)
      /\ current \in Conn \cup {NoConn} /\ NoConn \notin Conn
      /\ DOMAIN yielded = 1..Len(yielded) /\ Len(yielded) \in Nat
  BY ManagerAssumption DEF TypeOK
<1>1. CASE ~ArbitratePromote
  <2>1. yielded' = yielded
    BY <1>1 DEF Next, vars, AcceptLoop, AcquirePermit, AcceptPeer, AcceptError,
         PauseElapsed, AcceptAborted, Driver, ArbitrateReject, IncumbentClosed,
         ApplySetLastPlayed, ApplyDisconnectIdle, ApplyDisconnectLive, DriverStops, App,
         NextConnection, SetLastPlayed, Disconnect, CancelDisconnect, DropManager,
         PeerConnects, PeerCloses, Handshake, Establish, HandshakeFails,
         HandshakeTimeout, SendEstablished, SendToStoppedDriver, HandshakeAborted, Flush,
         GoodbyeWritten, FlushCompletes, FlushFails, FlushTimeout, EndFlush
  <2>2. current' \in {current, NoConn} /\ (handle' = "held" => handle = "held")
    BY <1>1 DEF Next, vars, AcceptLoop, AcquirePermit, AcceptPeer, AcceptError,
         PauseElapsed, AcceptAborted, Driver, ArbitrateReject, IncumbentClosed,
         ApplySetLastPlayed, ApplyDisconnectIdle, ApplyDisconnectLive, DriverStops, App,
         NextConnection, SetLastPlayed, Disconnect, CancelDisconnect, DropManager,
         PeerConnects, PeerCloses, Handshake, Establish, HandshakeFails,
         HandshakeTimeout, SendEstablished, SendToStoppedDriver, HandshakeAborted, Flush,
         GoodbyeWritten, FlushCompletes, FlushFails, FlushTimeout, EndFlush
  <2>3. \A i \in DOMAIN yielded :
           task'[yielded[i]] = "done" /\ yielded[i] \notin Queued'
    BY <1>t, DoneStaysDone, QueuedStep DEF YieldedInOrder
  <2> QED BY <2>1, <2>2, <2>3 DEF YieldedInOrder
<1>2. CASE ArbitratePromote
  <2> DEFINE c == Head(established)
  <2>1. /\ c \in Queued /\ c \in Conn /\ Queued' = Queued \ {c}
    BY <1>2, <1>t, QueuedTail, SingleOwnerIsOwned DEF ArbitratePromote
  <2>2. task' = task /\ current' = c /\ handle' = handle /\ yielded' = Yield(c)
    BY <1>2 DEF ArbitratePromote
  <2>3. task[c] = "done"
    BY <2>1, SingleOwnerIsOwned DEF Owned
  <2>4. \A i \in DOMAIN yielded : yielded[i] # c
    BY <2>1 DEF YieldedInOrder
  <2> HIDE DEF c
  <2>5. CASE handle = "held"
    <3>1. /\ yielded' = Append(yielded, c)
          /\ Len(yielded') = Len(yielded) + 1 /\ DOMAIN yielded' = 1..(Len(yielded) + 1)
          /\ \A i \in 1..Len(yielded) : yielded'[i] = yielded[i]
          /\ yielded'[Len(yielded) + 1] = c
      BY <1>t, <2>1, <2>2, <2>5 DEF Yield
    <3>2. \A i, j \in DOMAIN yielded' : yielded'[i] = yielded'[j] => i = j
      BY <1>t, <2>4, <3>1 DEF YieldedInOrder
    <3>3. \A i \in DOMAIN yielded' :
             task'[yielded'[i]] = "done" /\ yielded'[i] \notin Queued'
      BY <1>t, <2>1, <2>2, <2>3, <3>1 DEF YieldedInOrder
    <3>4. yielded' # <<>> /\ yielded'[Len(yielded')] = current'
      BY <1>t, <2>2, <3>1
    <3> QED BY <3>2, <3>3, <3>4 DEF YieldedInOrder
  <2>6. CASE handle # "held"
    BY <2>1, <2>2, <2>6 DEF Yield, YieldedInOrder
  <2> QED BY <2>5, <2>6
<1> QED BY <1>1, <1>2

LEMMA YieldInit == Init => YieldedInOrder
BY DEF Init, YieldedInOrder

\* No connection is yielded twice or before it was arbitrated, and the newest
\* winner is the incumbent while there is one (next_connection's contract).
THEOREM YieldOrderCorrect == Spec => []YieldedInOrder
BY YieldInit, YieldStep, TypeCorrect, OwnershipCorrect, PTL DEF Spec

\* Of all connections the application was ever given, one at most is served:
\* the others have ended or are being told goodbye.
THEOREM ServingCorrect == Spec => []OnlyIncumbentServes
<1>1. TypeOK /\ SingleOwner /\ YieldedInOrder => OnlyIncumbentServes
  <2> SUFFICES ASSUME TypeOK, SingleOwner, YieldedInOrder,
                      NEW i \in DOMAIN yielded, router[yielded[i]] = "running",
                      goodbye[yielded[i]] = NoReason
               PROVE  yielded[i] = current /\ (handle = "held" => i = Len(yielded))
    BY DEF OnlyIncumbentServes
  <2>1. yielded[i] \in Conn /\ Len(yielded) \in Nat /\ DOMAIN yielded = 1..Len(yielded)
    BY DEF TypeOK
  <2>2. yielded[i] = current /\ current # NoConn
    BY <2>1, SingleOwnerIsOwned, ManagerAssumption DEF Owned, YieldedInOrder
  <2>3. ASSUME handle = "held"
        PROVE  i = Len(yielded)
    <3>1. Len(yielded) \in DOMAIN yielded /\ yielded[Len(yielded)] = yielded[i]
      BY <2>1, <2>2, <2>3 DEF YieldedInOrder
    <3> QED BY <3>1 DEF YieldedInOrder
  <2> QED BY <2>2, <2>3
<1> QED BY <1>1, TypeCorrect, OwnershipCorrect, YieldOrderCorrect, PTL

---------------------------------------------------------------------------
(* Admission *)

\* The established channel is bounded by the number of slots.
ChannelBound == Len(established) <= Slots

LEMMA ChannelStep == TypeOK /\ ChannelBound /\ [Next]_vars => ChannelBound'
<1> SUFFICES ASSUME TypeOK, ChannelBound, [Next]_vars
             PROVE  ChannelBound'
  OBVIOUS
<1>t. Len(established) \in Nat /\ Slots \in Nat /\ Slots' = Slots
  BY SlotsPositive DEF TypeOK, Slots
<1>1. CASE UNCHANGED established
  BY <1>t, <1>1 DEF ChannelBound
<1>2. ASSUME NEW d \in Conn, SendEstablished(d)
      PROVE  ChannelBound'
  BY <1>t, <1>2 DEF SendEstablished, ChannelBound, TypeOK
<1>3. CASE ArbitrateReject \/ ArbitratePromote
  BY <1>t, <1>3 DEF ArbitrateReject, ArbitratePromote, ChannelBound, TypeOK
<1>4. CASE DriverStops
  BY <1>t, <1>4 DEF DriverStops, ChannelBound
<1>5. \/ UNCHANGED established
      \/ \E d \in Conn : SendEstablished(d)
      \/ ArbitrateReject \/ ArbitratePromote \/ DriverStops
  BY DEF Next, vars, AcceptLoop, AcquirePermit, AcceptPeer, AcceptError, PauseElapsed,
         AcceptAborted, Driver, IncumbentClosed, ApplySetLastPlayed, ApplyDisconnectIdle,
         ApplyDisconnectLive, App, NextConnection, SetLastPlayed, Disconnect,
         CancelDisconnect, DropManager, PeerConnects, PeerCloses, Handshake, Establish,
         HandshakeFails, HandshakeTimeout, SendToStoppedDriver, HandshakeAborted, Flush,
         GoodbyeWritten, FlushCompletes, FlushFails, FlushTimeout, EndFlush
<1> QED BY <1>1, <1>2, <1>3, <1>4, <1>5

\* A channel holds no more connections than it is long.
LEMMA QueuedSize ==
    ASSUME TypeOK
    PROVE  Cardinality(Queued) <= Len(established)
<1>1. established \in Surjection(1..Len(established), Queued)
  <2>1. DOMAIN established = 1..Len(established)
    BY DEF TypeOK
  <2>2. established \in [1..Len(established) -> Queued]
    BY <2>1 DEF TypeOK, Queued
  <2>3. \A c \in Queued : \E i \in 1..Len(established) : established[i] = c
    BY <2>1 DEF Queued
  <2> QED BY <2>2, <2>3 DEF Surjection
<1>2. Len(established) \in Nat
  BY DEF TypeOK
<1> QED BY <1>1, <1>2, FS_SurjCardinalityBound DEF ExistsSurjection

\* A stalled driver stops admission: at most two connections per slot hold a
\* socket and have not been arbitrated (the claim of accept_loop's comment).
THEOREM AdmissionCorrect == Spec => []AdmissionBound
<1>1. Init => ChannelBound
  BY SlotsPositive DEF Init, ChannelBound
<1>2. TypeOK /\ PermitsConserved /\ ChannelBound => AdmissionBound
  <2> SUFFICES ASSUME TypeOK, PermitsConserved, ChannelBound
               PROVE  AdmissionBound
    OBVIOUS
  <2>1. /\ IsFiniteSet(Handshaking) /\ IsFiniteSet(Queued)
        /\ Cardinality(Handshaking) \in Nat /\ Cardinality(Queued) \in Nat
        /\ Cardinality(Handshaking \cap Queued) \in Nat
    <3>1. Handshaking \subseteq Conn /\ Queued \subseteq Conn
      BY DEF Handshaking, Queued, TypeOK
    <3>2. Handshaking \cap Queued \subseteq Conn
      BY <3>1
    <3> QED BY <3>1, <3>2, HandshakingFinite
  <2>2. Cardinality(Handshaking \cup Queued) <=
           Cardinality(Handshaking) + Cardinality(Queued)
    <3>1. Cardinality(Handshaking \cup Queued) =
             Cardinality(Handshaking) + Cardinality(Queued)
                - Cardinality(Handshaking \cap Queued)
      BY <2>1, FS_Union
    <3> QED BY <2>1, <3>1
  <2>3. Cardinality(Handshaking) <= Slots
    <3> DEFINE n == Cardinality(Handshaking)
               b == IF accept = "accept" THEN 1 ELSE 0
    <3>1. n \in Nat /\ b \in Nat /\ free \in Nat /\ Slots \in Nat /\ free + n + b = Slots
      BY <2>1, SlotsPositive DEF PermitsConserved, TypeOK
    <3> HIDE DEF n, b
    <3>2. n <= Slots
      BY <3>1
    <3> QED BY <3>2 DEF n
  <2>4. Cardinality(Queued) <= Slots
    BY <2>1, QueuedSize, SlotsPositive DEF ChannelBound, TypeOK
  <2>5. Cardinality(Handshaking \cup Queued) \in Nat
    BY <2>1, FS_Union, FS_CardinalityType
  <2> QED BY <2>1, <2>2, <2>3, <2>4, <2>5, SlotsPositive DEF AdmissionBound
<1> QED BY <1>1, <1>2, ChannelStep, TypeCorrect, PermitsCorrect, PTL DEF Spec

---------------------------------------------------------------------------
(* Refinement of ServerLifecycle *)

Stages == [c \in Conn |-> StageOf(c)]

\* The stage, from the ownership.
LEMMA StageIs ==
    ASSUME NEW c \in Conn, Owned(c)
    PROVE  /\ StageOf(c) \in {"absent", "pending", "serving", "leaving", "closed"}
           /\ StageOf(c) = "serving" <=> c = current
           /\ StageOf(c) = "leaving" <=> goodbye[c] # NoReason
           /\ StageOf(c) = "pending" <=> task[c] = "sending" \/ c \in Queued
           /\ StageOf(c) = "absent" <=> router[c] = "none"
BY DEF StageOf, Owned

\* The same of the state a step leads to.
LEMMA StageIsNext ==
    ASSUME NEW c \in Conn, Owned(c)'
    PROVE  /\ StageOf(c)' \in {"absent", "pending", "serving", "leaving", "closed"}
           /\ StageOf(c)' = "serving" <=> c = current'
           /\ StageOf(c)' = "leaving" <=> goodbye'[c] # NoReason
           /\ StageOf(c)' = "pending" <=> task'[c] = "sending" \/ c \in Queued'
           /\ StageOf(c)' = "absent" <=> router'[c] = "none"
BY DEF StageOf, Owned

\* A step that leaves a connection's owner alone leaves its stage alone.
LEMMA SameStage ==
    ASSUME NEW c \in Conn, Owned(c), Owned(c)',
           c = current <=> c = current',
           goodbye[c] # NoReason <=> goodbye'[c] # NoReason,
           task[c] = "sending" \/ c \in Queued <=> task'[c] = "sending" \/ c \in Queued',
           router[c] = "none" <=> router'[c] = "none"
    PROVE  StageOf(c)' = StageOf(c)
BY StageIs, StageIsNext

LEMMA RefinementStep ==
    TypeOK /\ SingleOwner /\ SingleOwner' /\ [Next]_vars => [Lifecycle!Next]_Stages
<1> SUFFICES ASSUME TypeOK, Distinct, \A c \in Conn : Owned(c) /\ Owned(c)', [Next]_vars
             PROVE  Lifecycle!Next \/ Stages' = Stages
  <2>1. ASSUME SingleOwner'
        PROVE  \A c \in Conn : Owned(c)'
    BY <2>1 DEF SingleOwner, Owned, Queued
  <2> QED BY <2>1, SingleOwnerIsOwned
<1>t. /\ task \in [Conn -> {"none", "backlog", "handshake", "sending", "done"}]
      /\ router \in [Conn -> {"none", "running", "ended"}]
      /\ goodbye \in [Conn -> Reason \cup {NoReason}]
      /\ current \in Conn \cup {NoConn}
      /\ NoConn \notin Conn
      /\ "another_server" # NoReason
      /\ Queued \subseteq Conn
  BY ManagerAssumption DEF TypeOK, Queued, Reason
<1>s. (\A c \in Conn : StageOf(c)' = StageOf(c)) => Stages' = Stages
  BY DEF Stages
<1> DEFINE Sent == {c \in Conn : task[c] = "sending"} \cup Queued
<1>1. CASE UNCHANGED <<current, goodbye>> /\ Sent' = Sent
           /\ \A c \in Conn : router'[c] = "none" <=> router[c] = "none"
  BY <1>t, <1>1, <1>s, SameStage
<1>2. ASSUME NEW d \in Conn, Establish(d)
      PROVE  Lifecycle!Next
  <2>1. StageOf(d) = "absent"
    BY <1>2, StageIs DEF Establish, Owned
  <2>2. StageOf(d)' = "pending"
    BY <1>t, <1>2, StageIsNext DEF Establish
  <2>3. \A c \in Conn \ {d} : StageOf(c)' = StageOf(c)
    BY <1>t, <1>2, SameStage DEF Establish, Queued
  <2>4. Lifecycle!Arrive(d)
    BY <2>1, <2>2, <2>3 DEF Lifecycle!Arrive
  <2> QED BY <2>4 DEF Lifecycle!Next
<1>3. ASSUME NEW S \in SUBSET Conn, S # {}, \A c \in S : StageOf(c) \notin {"absent", "closed"},
             \A c \in S : StageOf(c)' = "closed",
             \A c \in Conn \ S : StageOf(c)' = StageOf(c)
      PROVE  Lifecycle!Next
  <2>1. \A c \in S : StageOf(c) \in {"pending", "serving", "leaving"}
    BY <1>3, StageIs
  <2>2. Lifecycle!Close(S)
    BY <1>3, <2>1 DEF Lifecycle!Close
  <2> QED BY <2>2 DEF Lifecycle!Next
<1>4. ASSUME NEW d \in Conn, task[d] \in {"handshake", "sending"},
             SendToStoppedDriver(d) \/ HandshakeAborted(d)
      PROVE  Lifecycle!Next \/ Stages' = Stages
  <2>1. /\ Queued' = Queued /\ UNCHANGED <<current, goodbye>>
        /\ task' = [task EXCEPT ![d] = "done"] /\ router' = Aborted({d})
    BY <1>4 DEF SendToStoppedDriver, HandshakeAborted, EndAttempt, Queued
  <2>2. \A c \in Conn \ {d} : StageOf(c)' = StageOf(c)
    BY <1>t, <2>1, SameStage DEF Aborted
  <2>3. CASE task[d] = "sending"
    <3>1. StageOf(d) = "pending"
      BY <2>3, StageIs
    <3>2. StageOf(d)' = "closed"
      BY <1>t, <2>1, <2>3, StageIsNext DEF Aborted, Owned
    <3> QED BY <1>3, <2>2, <3>1, <3>2
  <2>4. CASE task[d] = "handshake"
    <3>1. StageOf(d)' = StageOf(d)
      BY <1>t, <2>1, <2>4, SameStage DEF Aborted
    <3> QED BY <1>s, <2>2, <3>1
  <2> QED BY <1>4, <2>3, <2>4
<1>5. CASE ArbitrateReject
  <2>1. PICK d \in Conn, e \in Conn :
              /\ d = Head(established) /\ e = current
              /\ d \in Queued /\ Queued' = Queued \ {d} /\ Distinct'
              /\ goodbye' = [goodbye EXCEPT ![d] = "another_server"]
              /\ UNCHANGED <<task, router, current>>
    BY <1>t, <1>5, QueuedTail DEF ArbitrateReject, LiveIncumbent
  <2>2. StageOf(d) = "pending" /\ StageOf(d)' = "leaving" /\ StageOf(e) = "serving"
    BY <1>t, <2>1, StageIs, StageIsNext
  <2>3. \A c \in Conn \ {d} : StageOf(c)' = StageOf(c)
    BY <1>t, <2>1, SameStage
  <2>4. Lifecycle!Reject(d)
    BY <2>2, <2>3 DEF Lifecycle!Reject, Lifecycle!Serving
  <2> QED BY <2>4 DEF Lifecycle!Next
<1>6. CASE ArbitratePromote
  <2>1. PICK d \in Conn :
              /\ d \in Queued /\ Queued' = Queued \ {d} /\ Distinct'
              /\ goodbye' = Displaced(LiveIncumbent) /\ current' = d
              /\ UNCHANGED <<task, router>>
    BY <1>t, <1>6, QueuedTail DEF ArbitratePromote
  <2>2. StageOf(d) = "pending" /\ StageOf(d)' = "serving" /\ d # current
    BY <1>t, <2>1, StageIs, StageIsNext DEF Owned
  <2>3. \A c \in Conn : c \notin {d, current} => StageOf(c)' = StageOf(c)
    BY <1>t, <2>1, SameStage DEF Displaced, LiveIncumbent
  <2>4. \A c \in Conn : StageOf(c) = "serving" <=> c = current
    BY StageIs
  <2>5. ASSUME NEW e \in Conn, e = current
        PROVE  StageOf(e)' \in {"leaving", "closed"}
    <3>1. e # d /\ router[e] # "none" /\ task[e] = "done" /\ e \notin Queued
      BY <2>2, <2>5 DEF Owned
    <3> QED BY <2>1, <3>1, StageIsNext
  <2>6. \E after \in {"leaving", "closed"} :
           \A c \in Conn : StageOf(c)' = IF c = d THEN "serving"
                                       ELSE IF StageOf(c) = "serving" THEN after
                                       ELSE StageOf(c)
    <3>1. CASE current = NoConn
      BY <1>t, <2>2, <2>3, <2>4, <3>1
    <3>2. CASE current # NoConn
      <4>1. PICK e \in Conn : e = current
        BY <1>t, <3>2
      <4>2. \A c \in Conn : StageOf(c)' = IF c = d THEN "serving"
                                        ELSE IF StageOf(c) = "serving" THEN StageOf(e)'
                                        ELSE StageOf(c)
        BY <2>2, <2>3, <2>4, <4>1
      <4> QED BY <2>5, <4>1, <4>2
    <3> QED BY <3>1, <3>2
  <2>7. Lifecycle!Elect(d)
    BY <2>2, <2>6 DEF Lifecycle!Elect, Lifecycle!Serving
  <2> QED BY <2>7 DEF Lifecycle!Next
<1>7. CASE IncumbentClosed \/ ApplyDisconnectIdle
  <2>1. /\ Queued' = Queued /\ current' = NoConn
        /\ UNCHANGED <<task, router, goodbye>>
    BY <1>7 DEF IncumbentClosed, ApplyDisconnectIdle, Queued
  <2>2. CASE current = NoConn
    BY <1>1, <2>1, <2>2
  <2>3. CASE current # NoConn
    <3>0. PICK e \in Conn : e = current
      BY <1>t, <2>3
    <3>1. StageOf(e) = "serving"
      BY <3>0, StageIs
    <3>2. StageOf(e)' = "closed"
      BY <1>t, <2>1, <3>0, StageIsNext DEF Owned
    <3>3. \A c \in Conn \ {e} : StageOf(c)' = StageOf(c)
      BY <1>t, <2>1, <3>0, SameStage
    <3> QED BY <1>3, <3>1, <3>2, <3>3
  <2> QED BY <2>2, <2>3
<1>8. CASE ApplyDisconnectLive
  <2>1. PICK e \in Conn :
              /\ Queued' = Queued /\ current' = NoConn /\ e = current
              /\ goodbye' = [goodbye EXCEPT ![e] = ReasonOf[Head(cmds).req]]
              /\ UNCHANGED <<task, router>>
    BY <1>t, <1>8 DEF ApplyDisconnectLive, LiveIncumbent, Queued
  <2>2. ReasonOf[Head(cmds).req] # NoReason
    <3>1. Head(cmds) \in Command /\ Head(cmds).op = "disconnect"
      BY <1>8 DEF ApplyDisconnectLive, TypeOK
    <3> QED BY <3>1, ManagerAssumption DEF Command
  <2>3. StageOf(e) = "serving" /\ StageOf(e)' = "leaving"
    BY <1>t, <2>1, <2>2, StageIs, StageIsNext
  <2>4. \A c \in Conn \ {e} : StageOf(c)' = StageOf(c)
    BY <1>t, <2>1, SameStage
  <2>5. Lifecycle!Dismiss(e)
    BY <2>3, <2>4 DEF Lifecycle!Dismiss
  <2> QED BY <2>5 DEF Lifecycle!Next
<1>9. CASE DriverStops
  <2> DEFINE S == Queued \cup Flushing \cup ({current} \cap Conn)
  <2>1. /\ Queued' = {} /\ current' = NoConn /\ UNCHANGED task
        /\ goodbye' = [c \in Conn |-> NoReason]
        /\ router' = Aborted(Queued \cup Flushing \cup {current})
    BY <1>9 DEF DriverStops, Queued
  <2>2. S \subseteq Conn
    BY <1>t DEF Flushing
  <2>3. \A c \in S : StageOf(c) \notin {"absent", "closed"}
    BY <2>2, StageIs DEF Flushing, Owned
  <2>4. \A c \in S : StageOf(c)' = "closed"
    <3>1. SUFFICES ASSUME NEW c \in S
                   PROVE  StageOf(c)' = "closed"
      OBVIOUS
    <3>2. c \in Conn /\ task[c] = "done" /\ router[c] # "none"
      BY <2>2, <3>1 DEF Flushing, Owned
    <3>3. router'[c] # "none"
      BY <2>1, <3>1, <3>2 DEF Aborted
    <3> QED BY <1>t, <2>1, <3>2, <3>3, StageIsNext
  <2>5. \A c \in Conn \ S : StageOf(c)' = StageOf(c)
    BY <1>t, <2>1, SameStage DEF Aborted, Flushing
  <2>6. CASE S # {}
    BY <1>3, <2>2, <2>3, <2>4, <2>5, <2>6
  <2>7. CASE S = {}
    BY <1>s, <2>5, <2>7
  <2> QED BY <2>6, <2>7
<1>10. ASSUME NEW d \in Conn, FlushCompletes(d) \/ FlushFails(d) \/ FlushTimeout(d)
       PROVE  Lifecycle!Next
  <2>1. /\ goodbye[d] # NoReason /\ goodbye' = [goodbye EXCEPT ![d] = NoReason]
        /\ Queued' = Queued /\ UNCHANGED <<task, current>> /\ router' = Aborted({d})
    BY <1>10 DEF FlushCompletes, FlushFails, FlushTimeout, EndFlush, Queued
  <2>2. StageOf(d) = "leaving"
    BY <2>1, StageIs
  <2>3. StageOf(d)' = "closed"
    <3>1. task[d] = "done" /\ d \notin Queued /\ d # current /\ router[d] # "none"
      BY <2>1 DEF Owned
    <3> QED BY <1>t, <2>1, <3>1, StageIsNext DEF Aborted
  <2>4. \A c \in Conn \ {d} : StageOf(c)' = StageOf(c)
    BY <1>t, <2>1, SameStage DEF Aborted
  <2> QED BY <1>3, <2>2, <2>3, <2>4
<1>11. ASSUME NEW d \in Conn, SendEstablished(d)
       PROVE  Stages' = Stages
  <2>1. d \notin Queued
    BY <1>11 DEF SendEstablished, Owned
  <2>2. Queued' = Queued \cup {d}
    BY <1>11, <2>1, QueuedAppend DEF SendEstablished
  <2>3. Sent' = Sent /\ UNCHANGED <<current, goodbye, router>>
    BY <1>t, <1>11, <2>2 DEF SendEstablished, EndAttempt
  <2> QED BY <1>t, <1>s, <2>3, SameStage
<1>12. ASSUME NEW d \in Conn, \/ PeerConnects(d) \/ AcceptPeer(d) \/ PeerCloses(d)
                              \/ HandshakeFails(d) \/ HandshakeTimeout(d)
       PROVE  Stages' = Stages
  <2>1. Sent' = Sent /\ UNCHANGED <<current, goodbye>>
        /\ \A c \in Conn : router'[c] = "none" <=> router[c] = "none"
    BY <1>t, <1>12 DEF PeerConnects, AcceptPeer, PeerCloses, HandshakeFails,
                       HandshakeTimeout, EndAttempt, Queued
  <2> QED BY <1>t, <1>s, <2>1, SameStage
<1>13. \/ UNCHANGED <<task, router, established, current, goodbye>>
       \/ \E d \in Conn :
            \/ PeerConnects(d) \/ AcceptPeer(d) \/ PeerCloses(d)
            \/ HandshakeFails(d) \/ HandshakeTimeout(d)
            \/ Establish(d) \/ SendEstablished(d)
            \/ SendToStoppedDriver(d) \/ HandshakeAborted(d)
            \/ FlushCompletes(d) \/ FlushFails(d) \/ FlushTimeout(d)
       \/ ArbitrateReject \/ ArbitratePromote \/ IncumbentClosed
       \/ ApplyDisconnectIdle \/ ApplyDisconnectLive \/ DriverStops
  <2>1. CASE UNCHANGED vars
    BY <2>1 DEF vars
  <2>2. CASE AcceptLoop
    BY <2>2 DEF AcceptLoop, AcquirePermit, AcceptError, PauseElapsed, AcceptAborted
  <2>3. CASE Driver
    BY <2>3 DEF Driver, ApplySetLastPlayed
  <2>4. CASE App
    BY <2>4 DEF App, NextConnection, SetLastPlayed, Disconnect, CancelDisconnect, DropManager
  <2>5. ASSUME NEW c \in Conn, PeerConnects(c) \/ PeerCloses(c) \/ Handshake(c) \/ Flush(c)
        PROVE  <1>13!1 \/ <1>13!2
    BY <2>5 DEF Handshake, Flush, GoodbyeWritten
  <2> QED BY <2>1, <2>2, <2>3, <2>4, <2>5 DEF Next
<1>14. CASE UNCHANGED <<task, router, established, current, goodbye>>
  BY <1>1, <1>14 DEF Queued
<1>15. \A d \in Conn : SendToStoppedDriver(d) \/ HandshakeAborted(d)
                         => task[d] \in {"handshake", "sending"}
  BY DEF SendToStoppedDriver, HandshakeAborted
<1> QED BY <1>2, <1>4, <1>5, <1>6, <1>7, <1>8, <1>9, <1>10, <1>11, <1>12, <1>13, <1>14, <1>15

\* The manager implements ServerLifecycle: for any number of peers at most one
\* server serves, stages only advance, and nobody is turned away but for a
\* server that serves.
THEOREM LifecycleCorrect == Spec => KeepsLifecycle
<1>1. Init => Lifecycle!Init
  <2>1. ASSUME Init, NEW c \in Conn
        PROVE  StageOf(c) = "absent"
    BY <2>1, ManagerAssumption DEF Init, StageOf, Queued
  <2> QED BY <2>1 DEF Lifecycle!Init
<1>2. TypeOK /\ SingleOwner /\ SingleOwner' /\ [Next]_vars => [Lifecycle!Next]_Stages
  BY RefinementStep
<1>3. Stages = [c \in Conn |-> StageOf(c)]
  BY DEF Stages
<1> QED BY <1>1, <1>2, TypeCorrect, OwnershipCorrect, PTL DEF Spec, KeepsLifecycle, Lifecycle!Spec, Stages

---------------------------------------------------------------------------
(* The answer of disconnect() *)

\* The calls whose command the driver has not taken yet.
Pending == {r \in Req : \E i \in DOMAIN cmds : cmds[i] = DisconnectCmd(r)}

\* A call is enqueued once.
CallsDistinct ==
    \A i, j \in DOMAIN cmds : cmds[i] = cmds[j] /\ cmds[i].op = "disconnect" => i = j

\* The life of one call: until its command is taken it has no target; while its
\* goodbye is in flight its target is owned by that flush and nothing else; when
\* it has returned Ok the goodbye was written and the target is closed.
Tracked(r) ==
    /\ reply[r] = "none" => r \notin Pending /\ target[r] = NoConn
    /\ r \in Pending => target[r] = NoConn /\ reply[r] \in {"waiting", "cancelled"}
    /\ handle = "dropped" => reply[r] # "waiting"
    /\ target[r] # NoConn =>
          /\ task[target[r]] = "done" /\ target[r] # current /\ target[r] \notin Queued
          /\ router[target[r]] # "none"
          /\ goodbye[target[r]] \in {NoReason, ReasonOf[r]}
          /\ reply[r] = "waiting" => goodbye[target[r]] = ReasonOf[r]
          /\ reply[r] = "ok" => wire[target[r]] = ReasonOf[r] /\ Closed(target[r])

CallInv == CallsDistinct /\ \A r \in Req : Tracked(r)

\* Taking a command off the channel.
LEMMA PendingTail ==
    ASSUME TypeOK, CallsDistinct, cmds # <<>>, cmds' = Tail(cmds)
    PROVE  /\ CallsDistinct' /\ Pending' \subseteq Pending
           /\ \A r \in Req : Head(cmds) = DisconnectCmd(r) =>
                r \in Pending /\ Pending' = Pending \ {r}
           /\ (\A r \in Req : Head(cmds) # DisconnectCmd(r)) => Pending' = Pending
<1> DEFINE n == Len(cmds)
<1>1. /\ n \in Nat \ {0} /\ DOMAIN cmds = 1..n
      /\ DOMAIN cmds' = 1..(n - 1)
      /\ \A i \in 1..(n - 1) : cmds'[i] = cmds[i + 1]
      /\ Head(cmds) = cmds[1]
  BY DEF TypeOK
<1> HIDE DEF n
<1>2. CallsDistinct'
  BY <1>1 DEF CallsDistinct
<1>3. Pending' \subseteq Pending
  BY <1>1 DEF Pending
<1>4. ASSUME NEW r \in Req, \E i \in 1..n : i # 1 /\ cmds[i] = DisconnectCmd(r)
      PROVE  r \in Pending'
  <2>1. PICK i \in 1..n : i # 1 /\ cmds[i] = DisconnectCmd(r)
    BY <1>4
  <2>2. i - 1 \in 1..(n - 1) /\ cmds'[i - 1] = DisconnectCmd(r)
    BY <1>1, <2>1
  <2> QED BY <1>1, <2>2 DEF Pending
<1>5. ASSUME NEW r \in Req, Head(cmds) = DisconnectCmd(r)
      PROVE  r \in Pending /\ r \notin Pending'
  <2>1. cmds[1].op = "disconnect"
    BY <1>1, <1>5 DEF DisconnectCmd
  <2> QED BY <1>1, <1>5, <2>1 DEF CallsDistinct, Pending
<1>6. ASSUME NEW r \in Pending, Head(cmds) # DisconnectCmd(r)
      PROVE  r \in Pending'
  BY <1>1, <1>4, <1>6 DEF Pending
<1>7. \A r, q \in Req : DisconnectCmd(r) = DisconnectCmd(q) => r = q
  <2>1. \A r \in Req : DisconnectCmd(r).req = r
    BY DEF DisconnectCmd
  <2> QED BY <2>1
<1> QED BY <1>2, <1>3, <1>5, <1>6, <1>7 DEF Pending

\* Adding one.
LEMMA PendingAppend ==
    ASSUME TypeOK, CallsDistinct, NEW cmd \in Command, cmds' = Append(cmds, cmd),
           cmd.op = "disconnect" => \A i \in DOMAIN cmds : cmds[i] # cmd
    PROVE  /\ CallsDistinct'
           /\ Pending' = Pending \cup {r \in Req : cmd = DisconnectCmd(r)}
<1> DEFINE n == Len(cmds)
<1>1. /\ n \in Nat /\ DOMAIN cmds = 1..n
      /\ DOMAIN cmds' = 1..(n + 1)
      /\ \A i \in 1..n : cmds'[i] = cmds[i]
      /\ cmds'[n + 1] = cmd
  BY DEF TypeOK
<1> HIDE DEF n
<1>2. CallsDistinct'
  BY <1>1 DEF CallsDistinct
<1>3. Pending' \subseteq Pending \cup {r \in Req : cmd = DisconnectCmd(r)}
  BY <1>1 DEF Pending
<1>4. Pending \cup {r \in Req : cmd = DisconnectCmd(r)} \subseteq Pending'
  BY <1>1 DEF Pending
<1> QED BY <1>2, <1>3, <1>4

\* A step that leaves the calls alone keeps them tracked, if it does not touch
\* the connections they are about.
LEMMA TrackedKept ==
    ASSUME TypeOK, [Next]_vars, SingleOwner, NEW r \in Req, Tracked(r),
           UNCHANGED <<target, cmds>>,
           reply'[r] = reply[r] \/ (reply'[r] = "cancelled" /\ reply[r] = "waiting"),
           handle' = handle \/ reply'[r] # "waiting",
           \A c \in Conn : task[c] = "done" /\ c # current /\ c \notin Queued =>
               /\ task'[c] = "done" /\ c # current' /\ c \notin Queued'
               /\ goodbye'[c] = goodbye[c]
               /\ wire'[c] = wire[c] \/ wire[c] = NoReason
               /\ router'[c] = router[c] \/ (router[c] = "running" /\ router'[c] = "ended")
    PROVE  Tracked(r)'
<1>1. Pending' = Pending
  BY DEF Pending
<1>2. target[r] \in Conn \cup {NoConn} /\ reply[r] \in {"none", "waiting", "ok", "err", "cancelled"}
      /\ ReasonOf[r] # NoReason
  BY ManagerAssumption DEF TypeOK
<1> QED BY <1>1, <1>2 DEF Tracked, Closed

\* What must hold after a step for a call whose flush is of connection c.
LEMMA TrackedAt ==
    ASSUME NEW r \in Req, NEW c \in Conn, target'[r] = c,
           reply'[r] # "none", r \notin Pending',
           handle' = "dropped" => reply'[r] # "waiting",
           task'[c] = "done", c # current', c \notin Queued', router'[c] # "none",
           goodbye'[c] \in {NoReason, ReasonOf[r]},
           reply'[r] = "waiting" => goodbye'[c] = ReasonOf[r],
           reply'[r] = "ok" => wire'[c] = ReasonOf[r] /\ router'[c] = "ended"
    PROVE  Tracked(r)'
BY DEF Tracked, Closed

\* What holds before a step for such a call.
LEMMA TrackedOf ==
    ASSUME NEW r \in Req, NEW c \in Conn, target[r] = c, Tracked(r)
    PROVE  /\ reply[r] # "none" /\ r \notin Pending
           /\ handle = "dropped" => reply[r] # "waiting"
           /\ task[c] = "done" /\ c # current /\ c \notin Queued /\ router[c] # "none"
           /\ goodbye[c] \in {NoReason, ReasonOf[r]}
           /\ reply[r] = "waiting" => goodbye[c] = ReasonOf[r]
           /\ reply[r] = "ok" => wire[c] = ReasonOf[r] /\ router[c] = "ended"
BY ManagerAssumption DEF Tracked, Closed

LEMMA CallStep ==
    TypeOK /\ SingleOwner /\ CallInv /\ [Next]_vars => CallInv'
<1> SUFFICES ASSUME TypeOK, SingleOwner, CallInv, [Next]_vars
             PROVE  CallInv'
  OBVIOUS
<1>t. /\ task \in [Conn -> {"none", "backlog", "handshake", "sending", "done"}]
      /\ router \in [Conn -> {"none", "running", "ended"}]
      /\ goodbye \in [Conn -> Reason \cup {NoReason}]
      /\ wire \in [Conn -> Reason \cup {NoReason}]
      /\ reply \in [Req -> {"none", "waiting", "ok", "err", "cancelled"}]
      /\ target \in [Req -> Conn \cup {NoConn}]
      /\ current \in Conn \cup {NoConn}
      /\ NoConn \notin Conn
      /\ \A r \in Req : ReasonOf[r] # NoReason
      /\ Queued \subseteq Conn /\ Pending \subseteq Req
      /\ CallsDistinct /\ Distinct
      /\ \A c \in Conn : Owned(c)
      /\ \A r \in Req : Tracked(r)
  BY ManagerAssumption, SingleOwnerIsOwned DEF TypeOK, Queued, Pending, CallInv
<1> DEFINE Settled(c) == task[c] = "done" /\ c # current /\ c \notin Queued
           Kept == \A c \in Conn : Settled(c) =>
               /\ task'[c] = "done" /\ c # current' /\ c \notin Queued'
               /\ goodbye'[c] = goodbye[c]
               /\ wire'[c] = wire[c] \/ wire[c] = NoReason
               /\ router'[c] = router[c] \/ (router[c] = "running" /\ router'[c] = "ended")
<1>a. ASSUME UNCHANGED <<target, cmds, reply, handle>>, Kept
      PROVE  CallInv'
  <2>1. CallsDistinct'
    BY <1>t, <1>a DEF CallsDistinct
  <2> QED BY <1>t, <1>a, <2>1, TrackedKept DEF CallInv
<1>1. CASE UNCHANGED vars
  <2>1. Kept
    BY <1>1 DEF vars, Queued
  <2> QED BY <1>a, <1>1, <2>1 DEF vars
<1>2. CASE AcceptLoop
  <2>1. UNCHANGED <<target, cmds, reply, handle, current, goodbye, wire, router, established>>
        /\ \/ task' = task
           \/ \E d \in Conn : task[d] # "done" /\ task' = [task EXCEPT ![d] = "handshake"]
    BY <1>2 DEF AcceptLoop, AcquirePermit, AcceptPeer, AcceptError, PauseElapsed, AcceptAborted
  <2>2. Kept
    BY <1>t, <2>1 DEF Queued
  <2> QED BY <1>a, <2>1, <2>2
<1>3. ASSUME NEW d \in Conn, PeerConnects(d) \/ PeerCloses(d) \/ GoodbyeWritten(d)
      PROVE  CallInv'
  <2>1. UNCHANGED <<target, cmds, reply, handle>>
    BY <1>3 DEF PeerConnects, PeerCloses, GoodbyeWritten
  <2>2. Kept
    BY <1>t, <1>3 DEF PeerConnects, PeerCloses, GoodbyeWritten, Queued
  <2> QED BY <1>a, <2>1, <2>2
<1>4. ASSUME NEW d \in Conn, Handshake(d)
      PROVE  CallInv'
  <2>1. UNCHANGED <<target, cmds, reply, handle, current, goodbye, wire>>
    BY <1>4 DEF Handshake, Establish, HandshakeFails, HandshakeTimeout, SendEstablished,
                SendToStoppedDriver, HandshakeAborted
  <2>2. /\ task[d] \in {"handshake", "sending"}
        /\ \E x \in {"sending", "done"} : task' = [task EXCEPT ![d] = x]
        /\ \A c \in Conn \ {d} : router'[c] = router[c]
    BY <1>t, <1>4 DEF Handshake, Establish, HandshakeFails, HandshakeTimeout,
                SendEstablished, SendToStoppedDriver, HandshakeAborted, EndAttempt, Aborted
  <2>3. \A c \in Queued' : c \in Queued \/ task[c] = "sending"
    BY QueuedStep
  <2>4. Kept
    BY <1>t, <2>1, <2>2, <2>3
  <2> QED BY <1>a, <2>1, <2>4
<1>5. CASE ArbitrateReject \/ ArbitratePromote
  <2>1. UNCHANGED <<target, cmds, reply, handle, task, router, wire>>
    BY <1>5 DEF ArbitrateReject, ArbitratePromote
  <2>2. PICK d \in Conn :
             /\ d \in Queued /\ Queued' = Queued \ {d}
             /\ current' \in {current, d}
             /\ \A c \in Conn : c # d /\ c # current => goodbye'[c] = goodbye[c]
    BY <1>t, <1>5, QueuedTail DEF ArbitrateReject, ArbitratePromote, Displaced, LiveIncumbent
  <2>3. Kept
    BY <1>t, <2>1, <2>2
  <2> QED BY <1>a, <2>1, <2>3
<1>6. CASE IncumbentClosed \/ NextConnection
  <2>1. Kept
    BY <1>t, <1>6 DEF IncumbentClosed, NextConnection, Queued
  <2> QED BY <1>a, <1>6, <2>1 DEF IncumbentClosed, NextConnection
<1>7. CASE DropManager
  <2>1. UNCHANGED <<target, cmds, reply>> /\ \A r \in Req : reply[r] # "waiting"
    BY <1>7 DEF DropManager
  <2>2. Kept
    BY <1>t, <1>7 DEF DropManager, Queued
  <2>3. CallsDistinct'
    BY <1>t, <2>1 DEF CallsDistinct
  <2> QED BY <1>t, <2>1, <2>2, <2>3, TrackedKept DEF CallInv
<1>8. ASSUME NEW q \in Req, CancelDisconnect(q)
      PROVE  CallInv'
  <2>1. /\ UNCHANGED <<target, cmds, handle>> /\ reply[q] = "waiting"
        /\ reply' = [reply EXCEPT ![q] = "cancelled"]
    BY <1>8 DEF CancelDisconnect
  <2>2. Kept
    BY <1>t, <1>8 DEF CancelDisconnect, Queued
  <2>3. CallsDistinct'
    BY <1>t, <2>1 DEF CallsDistinct
  <2>4. \A r \in Req : \/ reply'[r] = reply[r]
                       \/ (reply'[r] = "cancelled" /\ reply[r] = "waiting")
    BY <1>t, <2>1
  <2> QED BY <1>t, <2>1, <2>2, <2>3, <2>4, TrackedKept DEF CallInv
<1>9. CASE ApplySetLastPlayed
  <2>1. \A r \in Req : Head(cmds) # DisconnectCmd(r)
    BY <1>9 DEF ApplySetLastPlayed, DisconnectCmd
  <2>2. CallsDistinct' /\ Pending' = Pending
    BY <1>t, <1>9, <2>1, PendingTail DEF ApplySetLastPlayed
  <2>3. UNCHANGED <<target, reply, handle, current, goodbye, wire, router, task, established>>
    BY <1>9 DEF ApplySetLastPlayed
  <2>4. Queued' = Queued
    BY <2>3 DEF Queued
  <2> QED BY <1>t, <2>2, <2>3, <2>4 DEF CallInv, Tracked, Closed
<1>10. ASSUME NEW s \in Server \cup {NoServer}, SetLastPlayed(s)
       PROVE  CallInv'
  <2>1. SetCmd(s) \in Command /\ SetCmd(s).op # "disconnect"
        /\ \A r \in Req : SetCmd(s) # DisconnectCmd(r)
    BY DEF SetCmd, DisconnectCmd, Command
  <2>2. CallsDistinct' /\ Pending' = Pending
    <3>1. cmds' = Append(cmds, SetCmd(s))
      BY <1>10 DEF SetLastPlayed
    <3>2. CallsDistinct' /\ Pending' = Pending \cup {r \in Req : SetCmd(s) = DisconnectCmd(r)}
      BY <1>t, <2>1, <3>1, PendingAppend
    <3>3. {r \in Req : SetCmd(s) = DisconnectCmd(r)} = {}
      BY <2>1
    <3> QED BY <3>2, <3>3
  <2>3. UNCHANGED <<target, reply, handle, current, goodbye, wire, router, task, established>>
    BY <1>10 DEF SetLastPlayed
  <2>4. Queued' = Queued
    BY <2>3 DEF Queued
  <2> QED BY <1>t, <2>2, <2>3, <2>4 DEF CallInv, Tracked, Closed
<1>11. ASSUME NEW q \in Req, Disconnect(q)
       PROVE  CallInv'
  <2>1. /\ DisconnectCmd(q) \in Command
        /\ \A r \in Req : DisconnectCmd(q) = DisconnectCmd(r) => r = q
    <3>1. \A r \in Req : DisconnectCmd(r).req = r
      BY DEF DisconnectCmd
    <3> QED BY <3>1 DEF DisconnectCmd, Command
  <2>2. q \notin Pending /\ target[q] = NoConn
    BY <1>t, <1>11 DEF Disconnect, Tracked
  <2>3. CallsDistinct' /\ Pending' = Pending \cup {q}
    <3>1. \A i \in DOMAIN cmds : cmds[i] # DisconnectCmd(q)
      BY <2>2 DEF Pending
    <3> QED BY <1>t, <1>11, <2>1, <3>1, PendingAppend DEF Disconnect
  <2>4. /\ UNCHANGED <<target, handle, current, goodbye, wire, router, task>>
        /\ Queued' = Queued /\ handle = "held"
        /\ reply' = [reply EXCEPT ![q] = "waiting"]
    BY <1>11 DEF Disconnect, Queued
  <2> QED BY <1>t, <2>2, <2>3, <2>4 DEF CallInv, Tracked, Closed
<1>12. CASE ApplyDisconnectIdle \/ ApplyDisconnectLive
  <2>1. /\ cmds # <<>> /\ cmds' = Tail(cmds) /\ Head(cmds).op = "disconnect"
        /\ Head(cmds) \in Command
    BY <1>12 DEF ApplyDisconnectIdle, ApplyDisconnectLive, TypeOK
  <2>2. PICK q \in Req : Head(cmds) = DisconnectCmd(q) /\ Head(cmds).req = q
    BY <2>1 DEF Command, DisconnectCmd
  <2>3. q \in Pending /\ Pending' = Pending \ {q} /\ CallsDistinct'
    BY <1>t, <2>1, <2>2, PendingTail
  <2>4. target[q] = NoConn /\ reply[q] \in {"waiting", "cancelled"}
    BY <1>t, <2>3 DEF Tracked
  <2>5. CASE ApplyDisconnectIdle
    <3>1. /\ UNCHANGED <<target, handle, goodbye, wire, router, task>>
          /\ Queued' = Queued /\ current' = NoConn
          /\ reply' = [reply EXCEPT ![q] = IF @ = "waiting" THEN "ok" ELSE @]
      BY <2>2, <2>5 DEF ApplyDisconnectIdle, Answer, Queued
    <3> QED BY <1>t, <2>3, <2>4, <3>1 DEF CallInv, Tracked, Closed
  <2>6. CASE ApplyDisconnectLive
    <3>1. /\ UNCHANGED <<reply, handle, wire, router, task>>
          /\ Queued' = Queued /\ current' = NoConn /\ current \in Conn
          /\ goodbye' = [goodbye EXCEPT ![current] = ReasonOf[q]]
          /\ target' = [target EXCEPT ![q] = current]
      <4>1. current # NoConn
        BY <2>6 DEF ApplyDisconnectLive, LiveIncumbent
      <4>2. /\ UNCHANGED <<reply, handle, wire, router, task, established>>
            /\ current' = NoConn
            /\ goodbye' = [goodbye EXCEPT ![current] = ReasonOf[Head(cmds).req]]
            /\ target' = [target EXCEPT ![Head(cmds).req] = current]
        BY <2>6 DEF ApplyDisconnectLive
      <4>3. Queued' = Queued
        BY <4>2 DEF Queued
      <4> QED BY <1>t, <2>2, <4>1, <4>2, <4>3
    <3>2. ASSUME NEW r \in Req
          PROVE  Tracked(r)'
      <4>1. CASE r = q
        <5>1. target'[q] = current /\ goodbye'[current] = ReasonOf[q]
          BY <1>t, <3>1
        <5>2. task[current] = "done" /\ router[current] # "none" /\ current \notin Queued
          BY <1>t, <3>1 DEF Owned
        <5> QED BY <1>t, <2>3, <2>4, <3>1, <4>1, <5>1, <5>2 DEF Tracked
      <4>2. CASE r # q
        <5>1. target'[r] = target[r]
          BY <1>t, <3>1, <4>2
        <5>2. target[r] # NoConn => goodbye'[target[r]] = goodbye[target[r]]
          BY <1>t, <3>1 DEF Tracked
        <5> QED BY <1>t, <2>3, <3>1, <4>2, <5>1, <5>2 DEF Tracked, Closed
      <4> QED BY <4>1, <4>2
    <3> QED BY <2>3, <3>2 DEF CallInv
  <2> QED BY <1>12, <2>5, <2>6
<1>13. CASE DriverStops
  <2>1. /\ UNCHANGED <<target, handle, wire, reply, task>>
        /\ Queued' = {} /\ current' = NoConn /\ cmds' = <<>>
        /\ goodbye' = [c \in Conn |-> NoReason]
        /\ handle = "dropped"
        /\ router' = Aborted(Queued \cup Flushing \cup {current})
    BY <1>13 DEF DriverStops, Queued
  <2>2. Pending' = {} /\ CallsDistinct'
    BY <2>1 DEF Pending, CallsDistinct
  <2>3. \A c \in Conn : /\ router[c] = "ended" => router'[c] = "ended"
                        /\ router[c] # "none" => router'[c] # "none"
                        /\ goodbye'[c] = NoReason /\ c # current'
    BY <1>t, <2>1 DEF Aborted
  <2>4. ASSUME NEW r \in Req
        PROVE  Tracked(r)'
    <3>1. Tracked(r) /\ target[r] \in Conn \cup {NoConn} /\ reply[r] # "waiting"
      BY <1>t, <2>1 DEF Tracked
    <3>2. CASE target[r] = NoConn
      BY <2>1, <2>2, <3>1, <3>2 DEF Tracked
    <3>3. CASE target[r] \in Conn
      <4>1. PICK c \in Conn : target[r] = c
        BY <3>3
      <4>2. /\ reply[r] # "none" /\ task[c] = "done" /\ router[c] # "none"
            /\ reply[r] = "ok" => wire[c] = ReasonOf[r] /\ router[c] = "ended"
        BY <3>1, <4>1, TrackedOf
      <4>3. target'[r] = c /\ reply'[r] = reply[r] /\ wire'[c] = wire[c] /\ task'[c] = task[c]
        BY <2>1, <4>1
      <4>4. r \notin Pending' /\ c \notin Queued' /\ c # current' /\ goodbye'[c] = NoReason
        BY <2>1, <2>2, <2>3
      <4>5. router'[c] # "none" /\ (router[c] = "ended" => router'[c] = "ended")
        BY <2>3, <4>2
      <4> QED BY <3>1, <4>2, <4>3, <4>4, <4>5, TrackedAt
    <3> QED BY <3>1, <3>2, <3>3
  <2> QED BY <2>2, <2>4 DEF CallInv
<1>14. ASSUME NEW d \in Conn, NEW x \in {"ok", "err"}, EndFlush(d, x),
              goodbye[d] # NoReason, x = "ok" => wire[d] = goodbye[d]
       PROVE  CallInv'
  <2>1. /\ UNCHANGED <<target, handle, wire, cmds, task, current>>
        /\ Queued' = Queued
        /\ goodbye' = [goodbye EXCEPT ![d] = NoReason]
        /\ router' = Aborted({d})
        /\ reply' = [r \in Req |-> IF target[r] = d /\ reply[r] = "waiting"
                                   THEN x ELSE reply[r]]
    BY <1>14 DEF EndFlush, Queued
  <2>2. Pending' = Pending /\ CallsDistinct'
    BY <1>t, <2>1 DEF Pending, CallsDistinct
  <2>3. \A c \in Conn : /\ router[c] = "ended" => router'[c] = "ended"
                        /\ router[c] # "none" => router'[c] # "none"
        /\ router'[d] = "ended"
    BY <1>t, <2>1, <1>14 DEF Aborted, Owned
  <2>4. ASSUME NEW r \in Req
        PROVE  Tracked(r)'
    <3>0. Tracked(r) /\ target[r] \in Conn \cup {NoConn}
      BY <1>t
    <3>1. CASE target[r] = NoConn
      <4>1. reply'[r] = reply[r] /\ target'[r] = NoConn
        BY <1>t, <2>1, <3>1
      <4> QED BY <2>1, <2>2, <3>0, <3>1, <4>1 DEF Tracked
    <3>2. CASE target[r] \in Conn
      <4>1. PICK c \in Conn : target[r] = c
        BY <3>2
      <4>2. /\ reply[r] # "none" /\ r \notin Pending
            /\ handle = "dropped" => reply[r] # "waiting"
            /\ task[c] = "done" /\ c # current /\ c \notin Queued /\ router[c] # "none"
            /\ goodbye[c] \in {NoReason, ReasonOf[r]}
            /\ reply[r] = "waiting" => goodbye[c] = ReasonOf[r]
            /\ reply[r] = "ok" => wire[c] = ReasonOf[r] /\ router[c] = "ended"
        BY <3>0, <4>1, TrackedOf
      <4>3. /\ target'[r] = c /\ task'[c] = "done" /\ c # current' /\ c \notin Queued'
            /\ r \notin Pending' /\ wire'[c] = wire[c] /\ handle' = handle
        BY <2>1, <2>2, <4>1, <4>2
      <4>4. router'[c] # "none" /\ (router[c] = "ended" => router'[c] = "ended")
        BY <2>3, <4>2
      <4>5. CASE c = d /\ reply[r] = "waiting"
        <5>1. reply'[r] = x /\ x \in {"ok", "err"}
          BY <2>1, <4>1, <4>5
        <5>2. goodbye'[c] = NoReason /\ router'[c] = "ended"
          BY <1>t, <2>1, <2>3, <4>5
        <5>3. x = "ok" => wire[c] = ReasonOf[r]
          BY <1>14, <4>2, <4>5
        <5> QED BY <4>3, <5>1, <5>2, <5>3, TrackedAt
      <4>6. CASE ~(c = d /\ reply[r] = "waiting")
        <5>1. reply'[r] = reply[r]
          BY <2>1, <4>1, <4>6
        <5>2. goodbye'[c] = IF c = d THEN NoReason ELSE goodbye[c]
          BY <1>t, <2>1
        <5> QED BY <4>2, <4>3, <4>4, <4>6, <5>1, <5>2, TrackedAt
      <4> QED BY <4>5, <4>6
    <3> QED BY <3>0, <3>1, <3>2
  <2> QED BY <2>2, <2>4 DEF CallInv
<1>15. ASSUME NEW d \in Conn, FlushCompletes(d) \/ FlushFails(d) \/ FlushTimeout(d)
       PROVE  CallInv'
  BY <1>14, <1>15 DEF FlushCompletes, FlushFails, FlushTimeout
<1> QED BY <1>1, <1>2, <1>3, <1>4, <1>5, <1>6, <1>7, <1>8, <1>9, <1>10, <1>11, <1>12,
           <1>13, <1>15 DEF Next, Driver, App, Flush

\* disconnect() returns Ok for a live server only when the goodbye with the
\* caller's reason is on the wire and the connection is torn down, whatever was
\* displaced, cancelled, timed out or closed meanwhile.
THEOREM DisconnectCorrect == Spec => []DisconnectHonest
<1>1. Init => CallInv
  BY DEF Init, CallInv, CallsDistinct, Tracked, Pending
<1>2. CallInv => DisconnectHonest
  BY DEF CallInv, Tracked, DisconnectHonest
<1> QED BY <1>1, <1>2, CallStep, TypeCorrect, OwnershipCorrect, PTL DEF Spec

---------------------------------------------------------------------------
(* Arbitration decides against the incumbent as it is when it decides. *)

LEMMA RejectStep ==
    TypeOK /\ SingleOwner /\ [Next]_vars =>
        \A c \in Conn : /\ goodbye[c] = NoReason /\ goodbye'[c] = "another_server"
                        /\ c # current
                        => current \in Conn /\ router[current] = "running"
<1> SUFFICES ASSUME TypeOK, SingleOwner, [Next]_vars, NEW c \in Conn,
                    goodbye[c] = NoReason, goodbye'[c] = "another_server", c # current
             PROVE  current \in Conn /\ router[current] = "running"
  OBVIOUS
<1>t. /\ goodbye \in [Conn -> Reason \cup {NoReason}]
      /\ router \in [Conn -> {"none", "running", "ended"}]
      /\ current \in Conn \cup {NoConn} /\ NoConn \notin Conn
      /\ NoReason # "another_server"
  BY ManagerAssumption DEF TypeOK, Reason
<1>1. CASE ArbitrateReject
  <2>1. LiveIncumbent # NoConn
    BY <1>1 DEF ArbitrateReject
  <2>2. current \in Conn /\ router[current] # "ended"
    BY <1>t, <2>1 DEF LiveIncumbent, Closed
  <2>3. router[current] # "none"
    BY <2>2 DEF SingleOwner
  <2> QED BY <1>t, <2>2, <2>3
<1>2. ~ArbitratePromote
  BY <1>t DEF ArbitratePromote, Displaced, LiveIncumbent
<1>3. ~ApplyDisconnectLive
  BY <1>t DEF ApplyDisconnectLive
<1>4. ~(UNCHANGED goodbye)
  BY <1>t
<1>5. ~(\E d \in Conn : goodbye' = [goodbye EXCEPT ![d] = NoReason])
  BY <1>t
<1>6. ~DriverStops
  BY <1>t DEF DriverStops
<1>7. ~(AcceptLoop \/ App \/ IncumbentClosed \/ ApplySetLastPlayed \/ ApplyDisconnectIdle
        \/ UNCHANGED vars)
  BY <1>4 DEF AcceptLoop, AcquirePermit, AcceptPeer, AcceptError, PauseElapsed, AcceptAborted,
              App, NextConnection, SetLastPlayed, Disconnect, CancelDisconnect, DropManager,
              IncumbentClosed, ApplySetLastPlayed, ApplyDisconnectIdle, vars, driverVars
<1>8. \A d \in Conn : ~(PeerConnects(d) \/ PeerCloses(d) \/ Handshake(d))
  BY <1>4 DEF PeerConnects, PeerCloses, Handshake, Establish, HandshakeFails, HandshakeTimeout,
              SendEstablished, SendToStoppedDriver, HandshakeAborted, driverVars
<1>9. \A d \in Conn : ~Flush(d)
  BY <1>4, <1>5 DEF Flush, GoodbyeWritten, FlushCompletes, FlushFails, FlushTimeout, EndFlush,
                   driverVars
<1> QED BY <1>1, <1>2, <1>3, <1>6, <1>7, <1>8, <1>9 DEF Next, Driver

\* A newcomer is sent away only for a server whose reader runs at that moment.
THEOREM RejectionCorrect == Spec => RejectedForALiveServer
BY RejectStep, TypeCorrect, OwnershipCorrect, PTL DEF Spec, RejectedForALiveServer

LEMMA PreemptStep ==
    TypeOK /\ [Next]_vars =>
        (/\ current # NoConn /\ router[current] = "running"
         /\ hello[current].reason = "playback"
         /\ current' \notin {current, NoConn}
         => hello[current'].reason = "playback")
<1> SUFFICES ASSUME TypeOK, [Next]_vars, current # NoConn, router[current] = "running",
                    hello[current].reason = "playback", current' \notin {current, NoConn}
             PROVE  hello[current'].reason = "playback"
  OBVIOUS
<1>1. CASE ArbitratePromote
  <2>1. LiveIncumbent = current
    BY DEF LiveIncumbent, Closed
  <2>2. current' = Head(established)
    BY <1>1 DEF ArbitratePromote
  <2>3. ShouldSwitch(hello[current], hello[Head(established)], lastPlayed)
    BY <1>1, <2>1 DEF ArbitratePromote
  <2> QED BY <2>2, <2>3 DEF ShouldSwitch
<1>2. ~(ArbitrateReject \/ IncumbentClosed \/ ApplySetLastPlayed \/ ApplyDisconnectIdle
        \/ ApplyDisconnectLive \/ DriverStops)
  BY DEF ArbitrateReject, IncumbentClosed, ApplySetLastPlayed, ApplyDisconnectIdle,
         ApplyDisconnectLive, DriverStops
<1>3. ~(AcceptLoop \/ App \/ UNCHANGED vars)
  BY DEF AcceptLoop, AcquirePermit, AcceptPeer, AcceptError, PauseElapsed, AcceptAborted,
         App, NextConnection, SetLastPlayed, Disconnect, CancelDisconnect, DropManager,
         vars, driverVars
<1>4. \A d \in Conn : ~(PeerConnects(d) \/ PeerCloses(d) \/ Handshake(d) \/ Flush(d))
  BY DEF PeerConnects, PeerCloses, Handshake, Establish, HandshakeFails, HandshakeTimeout,
         SendEstablished, SendToStoppedDriver, HandshakeAborted, Flush, GoodbyeWritten,
         FlushCompletes, FlushFails, FlushTimeout, EndFlush, driverVars
<1> QED BY <1>1, <1>2, <1>3, <1>4 DEF Next, Driver

\* A live server that plays is replaced only by another that plays.
THEOREM PreemptionCorrect == Spec => PlaybackNotPreempted
BY PreemptStep, TypeCorrect, PTL DEF Spec, PlaybackNotPreempted
================================================================================
