--------------------------------- MODULE Renderer ---------------------------------
(***************************************************************************)
(* AudioRenderer::render (src/src/audio/renderer.rs) on the callback       *)
(* thread, beside the application's calls of SyncedPlayer::enqueue, clear  *)
(* and set_static_delay and the router's updates of the clock.             *)
(*                                                                         *)
(* A callback takes the queue's mutex up to four times, reads the static   *)
(* delay once, and holds the clock's mutex from "sync" to the end of       *)
(* "plan"; what happens in between is the interleaving modelled here.      *)
(*                                                                         *)
(* Server and client clock show the same time: what the estimate between   *)
(* them does is not modelled, only whether it converts and has settled.    *)
(***************************************************************************)
EXTENDS PlaybackQueueOps, SyncCorrectionOps

CONSTANTS
    Period,    \* frames of a callback
    Deltas,    \* presentation latencies a callback may be told
    Delays,    \* static delays the application may ask for
    MaxDelay,  \* MAX_STATIC_DELAY_MS
    EarlyWindow, \* the start gate opens so long before the cursor is due
    Arrivals,  \* sequences of buffers that may arrive
    MaxNow,    \* bound: callbacks start before this time
    MaxClears, \* bound: calls of clear
    MaxSets    \* bound: calls of set_static_delay

ASSUME RendererAssumption ==
    /\ Period \in Nat \ {0}
    /\ Deltas \subseteq Nat /\ Delays \subseteq Nat /\ MaxDelay \in Nat
    /\ EarlyWindow \in Nat
    /\ \A s \in Arrivals : s \in Seq(Buffer)
    /\ MaxNow \in Nat /\ MaxClears \in Nat /\ MaxSets \in Nat

VARIABLES
    pq,       \* the queue
    arriving, \* buffers yet to be enqueued
    clock,    \* "dark": no conversions; "warm"; "settled"; "lost": settled and dark
    delay,    \* static_delay_us
    setter,   \* set_static_delay: the delay is stored, the queue not yet flagged
    sets,     \* calls of set_static_delay
    now,      \* the instant of the current or next callback
    cb,       \* the callback under way
    r,        \* AudioRenderer
    handoff,  \* the last handoff: who made it, and with what delay
    heard,    \* what the last callback that rendered put out
    blind     \* frames that callbacks which missed the clock may have dropped

appVars == <<arriving, delay, setter, sets>>
ghosts  == <<handoff, heard, blind>>
vars == <<pq, appVars, clock, now, cb, r, ghosts>>

\* What a callback tells the filter of its period.
PeriodTime == (Period * Second) \div Rate

NoCallback == [at |-> "idle", gen |-> 0, cursor |-> {}, force |-> FALSE,
               delta |-> 0, delay |-> 0]

Init ==
    /\ pq = Fresh(0)
    /\ arriving \in Arrivals
    /\ clock = "dark"
    /\ delay = 0
    /\ setter = "idle"
    /\ sets = 0
    /\ now = 0
    /\ cb = NoCallback
    /\ r = [started |-> FALSE, gen |-> 0, floor |-> {}, insertIn |-> 0, dropIn |-> 0,
            corr |-> [NewCorr EXCEPT !.filter = ForPeriod(@, PeriodTime)]]
    /\ handoff = [gen |-> -1, delay |-> 0]
    /\ heard = [saw |-> 0, in |-> 0, by |-> 0, at |-> 0, frames |-> <<>>]
    /\ blind = 0

---------------------------------------------------------------------------
(* The application and the router *)

Enqueue ==
    /\ arriving # <<>>
    /\ pq' = Pushed(pq, Head(arriving))
    /\ arriving' = Tail(arriving)
    /\ UNCHANGED <<clock, delay, setter, sets, now, cb, r, ghosts>>

Clear ==
    /\ pq.generation < MaxClears
    /\ pq' = Cleared(pq)
    /\ UNCHANGED <<appVars, clock, now, cb, r, ghosts>>

\* static_delay_ms_to_us: the longest delay for a longer one.
Clamped(d) == Min({d, MaxDelay})

\* set_static_delay: store the delay,
StoreDelay(d) ==
    /\ setter = "idle"
    /\ sets < MaxSets
    /\ delay' = Clamped(d)
    /\ setter' = "stored"
    /\ sets' = sets + 1
    /\ UNCHANGED <<pq, arriving, clock, now, cb, r, ghosts>>

\* then ask for a handoff, if there is a cursor.
FlagDelay ==
    /\ setter = "stored"
    /\ pq' = [pq EXCEPT !.force = @ \/ pq.initialized]
    /\ setter' = "idle"
    /\ UNCHANGED <<arriving, delay, sets, clock, now, cb, r, ghosts>>

Converts == clock \in {"warm", "settled"}
Settled  == clock \in {"settled", "lost"}

\* ClockSync::update.  The clock stays settled once it is; its conversions are
\* withheld while the drift is not plausible.
Update ==
    /\ clock' \in IF Settled THEN {"settled", "lost"} ELSE {"dark", "warm", "settled", "lost"}
    /\ UNCHANGED <<pq, appVars, now, cb, r, ghosts>>

\* Mutant of ClockUpdate: the callback does not hold the clock's mutex.
UpdateUnlocked == Update

\* Under the clock's mutex.
ClockUpdate == cb.at \notin {"handoff", "plan"} /\ Update

---------------------------------------------------------------------------
(* The callback *)

\* min_playback_delta_us
Lowest(d) == Min(r.floor \cup {d})

\* The queue's timing state is read; another generation resets the renderer.
Snapshot(d) ==
    /\ cb.at = "idle"
    /\ now < MaxNow
    /\ cb' = [at |-> "sync", gen |-> pq.generation, force |-> pq.force, delta |-> d,
              cursor |-> IF pq.initialized THEN {pq.cursor} ELSE {}, delay |-> 0]
    /\ r' = IF pq.generation = r.gen
            THEN [r EXCEPT !.floor = {Lowest(d)}]
            ELSE [started |-> FALSE, gen |-> pq.generation, floor |-> {d},
                  insertIn |-> 0, dropIn |-> 0, corr |-> Restarted(r.corr)]
    /\ blind' = IF pq.generation = r.gen THEN blind ELSE 0
    /\ UNCHANGED <<pq, appVars, clock, now, handoff, heard>>

\* The callback's buffer is silence.
Silent == now' = now + Period /\ cb' = NoCallback

\* Audio goes out, or before the start silence.
Goes(started) ==
    IF started THEN cb' = [cb EXCEPT !.at = "render"] /\ now' = now ELSE Silent

\* The most frames that a callback drops.
Drops ==
    IF r.corr.schedule.drop > 0 THEN 1 + (Period - 1) \div r.corr.schedule.drop ELSE 0

\* There is no cursor, or the clock's mutex is held by the router.
SkipSync ==
    /\ cb.at = "sync"
    /\ Goes(r.started)
    /\ blind' = blind + Drops
    /\ UNCHANGED <<pq, appVars, clock, r, handoff, heard>>

\* The clock's mutex is taken and the delay loaded.
Sync ==
    /\ cb.at = "sync"
    /\ cb.cursor # {}
    /\ cb' = [cb EXCEPT !.at = IF cb.force THEN "handoff" ELSE "plan", !.delay = delay]
    /\ r' = [r EXCEPT !.corr = Settling(@, Settled)]
    /\ UNCHANGED <<pq, appVars, clock, now, ghosts>>

\* The server time heard at the start of this callback, or before playback has
\* started of the next one.
Target == now + Min(r.floor) + cb.delay + (IF r.started THEN 0 ELSE Duration(Period))

\* Mutant of HandoffCursor: the generation is not looked at again.
NoRecheck == IF Converts /\ pq.initialized THEN FirstPlayable(pq, Target) ELSE {}

\* Where the cursor goes, if the generation is still the same.
HandoffCursor ==
    IF Converts /\ pq.generation = cb.gen /\ pq.initialized
    THEN FirstPlayable(pq, Target) ELSE {}

\* The renderer with the correction given up.
Reset(s) == [s EXCEPT !.corr = Restarted(@), !.insertIn = 0, !.dropIn = 0]

\* force_reanchor: move the cursor to the first audio due.  Without any, or
\* before the start, this callback is silent.
Handoff ==
    /\ cb.at = "handoff"
    /\ IF HandoffCursor = {}
         THEN UNCHANGED <<pq, r, handoff>> /\ Silent
         ELSE \E c \in HandoffCursor :
              /\ pq' = [Sought(pq, c) EXCEPT !.force = FALSE]
              /\ r' = Reset(r)
              /\ handoff' = [gen |-> cb.gen, delay |-> cb.delay]
              /\ IF r.started THEN cb' = [cb EXCEPT !.at = "plan", !.cursor = {c}] /\ now' = now
                              ELSE Silent
    /\ UNCHANGED <<appVars, clock, heard, blind>>

\* How late the cursor is.
RawError == (now + cb.delta) - (Min(cb.cursor) - cb.delay)

\* Mutant of TooEarly: no start gate.
NoGate == FALSE

\* Only the start waits for the cursor to be due.
TooEarly == ~r.started /\ RawError + EarlyWindow < 0

\* The renderer under the schedule of corr; a changed schedule starts counting.
Adopts(s, corr) ==
    IF corr.schedule = s.corr.schedule THEN [s EXCEPT !.corr = corr]
    ELSE [s EXCEPT !.corr = corr, !.insertIn = corr.schedule.insert,
                                  !.dropIn = corr.schedule.drop]

\* Start if it is time, and plan; a gross plan moves the cursor at once,
\* whichever generation the queue is in by now.
Correct ==
    LET corr == Measured(r.corr, RawError, Settled)
    IN  /\ cb.at = "plan"
        /\ Converts /\ ~TooEarly
        /\ IF corr.schedule.reanchor
             THEN /\ pq' = Sought(pq, now + Min(r.floor) + cb.delay)
                  /\ r' = Reset([r EXCEPT !.started = TRUE, !.corr = corr])
             ELSE /\ pq' = pq
                  /\ r' = Adopts([r EXCEPT !.started = TRUE], corr)
        /\ cb' = [cb EXCEPT !.at = "render"]
        /\ UNCHANGED <<appVars, clock, now, ghosts>>

StaysSilent ==
    /\ cb.at = "plan"
    /\ Converts /\ TooEarly
    /\ Silent
    /\ UNCHANGED <<pq, appVars, clock, r, ghosts>>

\* No conversions: a correction under way is given up.
PlanBlind ==
    /\ cb.at = "plan"
    /\ ~Converts
    /\ r' = IF IsCorrecting(r.corr.schedule) THEN Reset(r) ELSE r
    /\ Goes(r.started)
    /\ UNCHANGED <<pq, appVars, clock, ghosts>>

\* One frame of output: s is the queue, the counters and what was put out.  A
\* frame is known by its server time; a repeated or missing one is not.
Played(s, q) ==
    [s EXCEPT !.pq  = FrameRead(q),
              !.out = Append(@, IF HasFrame(q)
                                THEN {Ready(q).current.ts + Duration(Ready(q).index)} ELSE {})]

OutputFrame(s) ==
    LET sched == r.corr.schedule
        d     == Max({s.dropIn - 1, 0})
        n     == Max({s.insertIn - 1, 0})
        drops == sched.drop > 0 /\ d = 0
        t     == [s EXCEPT !.dropIn = IF drops THEN sched.drop
                                      ELSE IF sched.drop > 0 THEN d ELSE @]
    IN  IF drops THEN Played(t, FrameRead(s.pq))
        ELSE IF sched.insert > 0 /\ n = 0
             THEN [t EXCEPT !.insertIn = sched.insert, !.out = Append(@, {})]
        ELSE Played([t EXCEPT !.insertIn = IF sched.insert > 0 THEN n ELSE @], s.pq)

\* Queue, counters and output after i frames, for each i.
Outputs ==
    LET after[i \in 0..Period] ==
            IF i = 0
            THEN [pq |-> pq, insertIn |-> r.insertIn, dropIn |-> r.dropIn, out |-> <<>>]
            ELSE OutputFrame(after[i - 1])
    IN  after

\* The frames are taken from the queue, whichever generation it is in by now.
Render ==
    LET s == Outputs[Period]
    IN  /\ cb.at = "render"
        /\ pq' = s.pq
        /\ r' = [r EXCEPT !.insertIn = s.insertIn, !.dropIn = s.dropIn]
        /\ heard' = [saw |-> cb.gen, in |-> pq.generation, by |-> handoff.gen,
                     at |-> now + cb.delta, frames |-> s.out]
        /\ Silent
        /\ UNCHANGED <<appVars, clock, handoff, blind>>

---------------------------------------------------------------------------
App == Enqueue \/ Clear \/ FlagDelay \/ \E d \in Delays : StoreDelay(d)

Callback ==
    \/ \E d \in Deltas : Snapshot(d)
    \/ SkipSync \/ Sync \/ Handoff \/ Correct \/ StaysSilent \/ PlanBlind \/ Render

Next == App \/ ClockUpdate \/ Callback

Spec == Init /\ [][Next]_vars

---------------------------------------------------------------------------
(* Properties *)

TypeOK ==
    /\ pq.generation \in 0..MaxClears /\ pq.remainder \in 0..(Rate - 1)
    /\ pq.index \in 0..pq.current.frames
    /\ clock \in {"dark", "warm", "settled", "lost"}
    /\ blind \in Nat
    /\ delay \in 0..MaxDelay /\ setter \in {"idle", "stored"} /\ sets \in 0..MaxSets
    /\ cb.at \in {"idle", "sync", "handoff", "plan", "render"}
    /\ cb.gen \in 0..MaxClears /\ cb.delta \in Deltas \cup {0}
    /\ r.started \in BOOLEAN /\ r.floor \subseteq Deltas
    /\ r.corr.schedule \in Schedule /\ ~r.corr.schedule.reanchor
    /\ r.insertIn \in 0..r.corr.schedule.insert /\ r.dropIn \in 0..r.corr.schedule.drop

Audible == {i \in DOMAIN heard.frames : heard.frames[i] # {}}

\* Audio of a generation is heard only once a callback that knew the generation
\* has anchored it, whenever clear() and enqueue() happen.  The one exception is
\* the callback that clear() overtook.
AnchoredBeforeHeard ==
    heard.saw = heard.in /\ Audible # {} => heard.by = heard.in

\* How late frame i of the last output was.
Lateness(i) == heard.at + Duration(i - 1) - CHOOSE t \in heard.frames[i] : TRUE

Jitter == Max(Deltas) - Min(Deltas)

\* With an unbroken supply, however late it comes, no frame is heard before its
\* time by more than the start gate allows and the latency reading varies: not at
\* the start, nor after underruns, corrections, a blind callback or a moved cursor.
\* Callbacks that miss the clock's mutex go on with a correction that may have
\* become too much: what they drop is allowed for.
\* Excluded are the callback that clear() overtook, and streams whose static delay
\* was changed, which moves the time itself.
NeverEarly ==
    heard.saw = heard.in /\ sets = 0 =>
        \A i \in Audible : Lateness(i) >= -(EarlyWindow + Jitter + Duration(blind))

\* synced_player.rs, set_static_delay: "Takes effect on the next audio callback";
\* renderer.rs: "force_reanchor is sticky".  Once the queue is anchored and no
\* handoff is asked for, it is anchored with the delay that was set.
DelayTakesEffect ==
    pq.initialized /\ ~pq.force /\ setter = "idle" /\ handoff.gen = pq.generation
        => handoff.delay = delay
================================================================================
