------------------------------- MODULE ApiClient -------------------------------
(***************************************************************************)
(* The HTTP client of app/downloader/api_client.py inside one command of   *)
(* app/cli.py: concurrent calls of get_json that share one browser         *)
(* session, which the first of them opens and warms up and the command     *)
(* closes in its finally clause.                                           *)
(*                                                                         *)
(* Everything runs on one event loop, so a step is what happens between    *)
(* two awaits.  Locks and the semaphore are held by being at a position:   *)
(* _session_lock by a call that is "warming", _rate_lock by one that is    *)
(* "spacing", a permit of the semaphore by every call past "queued".       *)
(*                                                                         *)
(* Time is relative: each call counts down what is left of its timeouts    *)
(* and its sleep, and Tick lets one unit pass unless a timer is due.       *)
(***************************************************************************)
EXTENDS Integers, FiniteSets

CONSTANTS Calls,         \* the calls of get_json a command makes
          Concurrency,   \* the highest setting of concurrency
          MaxRetries,    \* max_retries
          RequestDelay,  \* request_delay
          Timeout,       \* timeout of a warm-up or an attempt
          TotalTimeout,  \* total_timeout
          BackoffCap,    \* the longest sleep of the exponential backoff
          RetryAfters    \* the Retry-After values IDX may send, capped

ASSUME ConstantsAssumption ==
    /\ IsFiniteSet(Calls)
    /\ Concurrency \in Nat \ {0} /\ MaxRetries \in Nat
    /\ RequestDelay \in Nat
    /\ Timeout \in Nat \ {0} /\ TotalTimeout \in Nat \ {0}
    /\ BackoffCap \in Nat \ {0} /\ RetryAfters \subseteq Nat

VARIABLES
    (* AsyncIDXClient *)
    session,    \* _session, 0 for None; sessions are numbered as they open
    ready,      \* _session_ready
    gap,        \* how far _next_request_at lies in the future
    (* the coroutine of each call *)
    pc, attempt,
    left,       \* of the total timeout
    timer,      \* of the timeout of the warm-up or the attempt
    sleep,      \* of the sleep of the throttle or the backoff
    via,        \* the session its last request was sent on
    (* _run_with_provider *)
    gathers,    \* the loop of the command awaits gather, and not as_completed
    permits,    \* concurrency, of the semaphore: IDX_MAX_CONCURRENCY
    command, closing,
    (* history *)
    opened, closed,  \* sessions
    elapsed,    \* time since the call began
    sinceSend   \* time since a request started, up to RequestDelay

client == <<session, ready, gap>>
timers == <<left, timer, sleep>>
coroutines == <<pc, attempt, timers, via>>
settings == <<gathers, permits>>
shutdown == <<settings, command, closing, closed>>
vars == <<client, coroutines, shutdown, opened, elapsed, sinceSend>>

Active == {"ensure", "warming", "queued", "throttle", "spacing", "sent",
           "backoff"}
Positions == {"idle", "ok", "failed", "cancelled"} \cup Active
Permits == {"throttle", "spacing", "sent", "backoff"}
Timed == {"warming", "throttle", "spacing", "sent"}
Sleeping == {"spacing", "backoff"}

At(position) == {c \in Calls : pc[c] \in position}

Init == /\ session = 0 /\ ready = FALSE /\ gap = 0
        /\ pc = [c \in Calls |-> "idle"]
        /\ attempt = [c \in Calls |-> 0]
        /\ left = [c \in Calls |-> 0]
        /\ timer = [c \in Calls |-> 0]
        /\ sleep = [c \in Calls |-> 0]
        /\ via = [c \in Calls |-> 0]
        /\ gathers \in BOOLEAN /\ permits \in 1 .. Concurrency
        /\ command = "running" /\ closing = 0
        /\ opened = 0 /\ closed = {}
        /\ elapsed = [c \in Calls |-> 0]
        /\ sinceSend = RequestDelay

-------------------------------------------------------------------------------
(* get_json                                                                *)

\* The loop still runs the tasks of as_completed after the command left it.
Running == command = "running" \/ (~gathers /\ command # "over")

\* Mutant: _ensure_session is outside of the total timeout.
BoundedAfterWarmUp == Active \ {"ensure", "warming"}

\* asyncio.timeout(total_timeout) surrounds everything but _open_session, which
\* never waits: the warm-up, the queue, the throttle, the backoff.
Bounded == Active

\* _open_session opens a session if there is none; _ensure_session passes at
\* once when it is warmed up.
Begin(c) ==
    /\ Running /\ pc[c] = "idle"
    /\ IF session = 0
       THEN /\ opened' = opened + 1
            /\ session' = opened + 1
            /\ ready' = FALSE
       ELSE UNCHANGED <<opened, session, ready>>
    /\ pc' = [pc EXCEPT ![c] = IF ready' THEN "queued" ELSE "ensure"]
    /\ left' = [left EXCEPT ![c] = TotalTimeout]
    /\ UNCHANGED <<gap, attempt, timer, sleep, via, shutdown, elapsed,
                   sinceSend>>

\* Mutant: the warm-up runs without the session lock.
SessionLockNever == TRUE

\* Mutant: a call that is cancelled during the warm-up keeps the lock.
SessionLockLeaked == At({"warming", "failed", "cancelled"}) = {}

SessionLockFree == At({"warming"}) = {}

\* _ensure_session with the lock.  close may have removed the session while the
\* call waited: the attribute error counts as a failed, best-effort warm-up.
WarmUp(c) ==
    /\ pc[c] = "ensure" /\ SessionLockFree
    /\ IF ready \/ session = 0
       THEN /\ pc' = [pc EXCEPT ![c] = "queued"]
            /\ ready' = TRUE
            /\ UNCHANGED <<timer, via>>
       ELSE /\ pc' = [pc EXCEPT ![c] = "warming"]
            /\ timer' = [timer EXCEPT ![c] = Timeout]
            /\ via' = [via EXCEPT ![c] = session]
            /\ UNCHANGED ready
    /\ UNCHANGED <<session, gap, attempt, left, sleep, shutdown, opened,
                   elapsed, sinceSend>>

\* The landing page answered, failed or timed out: all the same.
WarmedUp(c) ==
    /\ pc[c] = "warming"
    /\ pc' = [pc EXCEPT ![c] = "queued"]
    /\ ready' = TRUE
    /\ UNCHANGED <<session, gap, attempt, timers, via, shutdown, opened,
                   elapsed, sinceSend>>

-------------------------------------------------------------------------------
(* _get_json_with_retries and _throttle_request_start                      *)

\* Each attempt has a timeout of its own, the throttle included.
Attempt(c, n) ==
    /\ pc' = [pc EXCEPT ![c] = "throttle"]
    /\ attempt' = [attempt EXCEPT ![c] = n]
    /\ timer' = [timer EXCEPT ![c] = Timeout]
    /\ UNCHANGED <<client, left, sleep, via, shutdown, opened, elapsed,
                   sinceSend>>

\* The semaphore admits so many calls.
Acquire(c) == /\ pc[c] = "queued"
              /\ Cardinality(At(Permits)) < permits
              /\ Attempt(c, 1)

\* Mutant: the wait is computed without the rate lock.
RateLockNever == TRUE

RateLockFree == At({"spacing"}) = {}

\* Under the rate lock the wait is computed once, then slept.
Throttle(c) ==
    /\ pc[c] = "throttle" /\ RateLockFree
    /\ pc' = [pc EXCEPT ![c] = "spacing"]
    /\ sleep' = [sleep EXCEPT ![c] = gap]
    /\ UNCHANGED <<client, attempt, left, timer, via, shutdown, opened,
                   elapsed, sinceSend>>

AttemptsLeft(c) == attempt[c] <= MaxRetries

\* The attempt counts as failed: another one after a backoff, or none is left.
\* n counts attempts from one, the exponent of the code from zero.
Retry(c) ==
    IF AttemptsLeft(c)
    THEN /\ pc' = [pc EXCEPT ![c] = "backoff"]
         /\ \E delay \in RetryAfters \cup
                         {IF 2 ^ (attempt[c] - 1) < BackoffCap
                          THEN 2 ^ (attempt[c] - 1) ELSE BackoffCap} :
                sleep' = [sleep EXCEPT ![c] = delay]
    ELSE /\ pc' = [pc EXCEPT ![c] = "failed"]
         /\ UNCHANGED sleep

\* The next request may start RequestDelay after this one.  Without a session
\* the attribute error is retried like a network failure.
Send(c) ==
    /\ pc[c] = "spacing" /\ sleep[c] = 0
    /\ gap' = RequestDelay
    /\ IF session = 0
       THEN Retry(c) /\ UNCHANGED <<via, sinceSend>>
       ELSE /\ pc' = [pc EXCEPT ![c] = "sent"]
            /\ via' = [via EXCEPT ![c] = session]
            /\ sinceSend' = 0
            /\ UNCHANGED sleep
    /\ UNCHANGED <<session, ready, attempt, left, timer, shutdown, opened,
                   elapsed>>

Finish(c, outcome) ==
    /\ pc' = [pc EXCEPT ![c] = outcome]
    /\ UNCHANGED <<client, attempt, timers, via, shutdown, opened,
                   elapsed, sinceSend>>

\* Status 200, or a status that is not worth a retry.
Respond(c) == pc[c] = "sent" /\ \E outcome \in {"ok", "failed"} : Finish(c, outcome)

\* A retryable status, a network failure, or the timeout of the attempt, which
\* may end before the throttle let the request start.
AttemptFails(c) ==
    /\ \/ pc[c] = "sent"
       \/ pc[c] \in Timed \ {"warming"} /\ timer[c] = 0
    /\ Retry(c)
    /\ UNCHANGED <<client, attempt, left, timer, via, shutdown, opened,
                   elapsed, sinceSend>>

BackedOff(c) == /\ pc[c] = "backoff" /\ sleep[c] = 0
                /\ Attempt(c, attempt[c] + 1)

\* The total timeout cancels the call wherever it is; a warm-up it cancels
\* leaves the session not ready.
TimeOut(c) == pc[c] \in Bounded /\ left[c] = 0 /\ Finish(c, "failed")

CallStep(c) == \/ Begin(c) \/ WarmUp(c) \/ WarmedUp(c) \/ Acquire(c)
               \/ Throttle(c) \/ Send(c) \/ Respond(c) \/ AttemptFails(c)
               \/ BackedOff(c) \/ TimeOut(c)

-------------------------------------------------------------------------------
(* The command                                                             *)

Cancelled == [c \in Calls |-> IF pc[c] \in Active THEN "cancelled" ELSE pc[c]]

\* Mutant: gather leaves its children running when it is cancelled.
LeaveGatherAtOnce == UNCHANGED pc

\* gather has returned, or an interrupt cancels its children and waits for them.
LeaveGather == pc' = Cancelled

\* The loop of the command ends: it is done, a statement raised, or Ctrl-C.  With
\* as_completed the tasks that were not awaited yet go on.
Leave == /\ command = "running"
         /\ command' = "leaving"
         /\ IF gathers THEN LeaveGather ELSE UNCHANGED pc
         /\ UNCHANGED <<client, attempt, timers, via, settings, closing, closed,
                        opened, elapsed, sinceSend>>

\* close takes the session away under the lock, and only then awaits its end.
Close == /\ command = "leaving" /\ SessionLockFree
         /\ command' = "closing"
         /\ closing' = session
         /\ session' = 0 /\ ready' = FALSE
         /\ UNCHANGED <<gap, coroutines, settings, closed, opened,
                        elapsed, sinceSend>>

\* asyncio.run cancels what is left of the tasks.
Over == /\ command = "closing"
        /\ command' = "over"
        /\ closed' = closed \cup {closing}
        /\ pc' = Cancelled
        /\ UNCHANGED <<client, attempt, timers, via, settings, closing, opened,
                        elapsed, sinceSend>>

Elapse(f, positions) ==
    [c \in Calls |-> IF pc[c] \in positions /\ f[c] > 0 THEN f[c] - 1 ELSE f[c]]

Tick == /\ \A c \in At(Bounded) : left[c] > 0
        /\ \A c \in At(Timed) : timer[c] > 0
        /\ \A c \in At(Sleeping) : sleep[c] > 0
        /\ left' = Elapse(left, Bounded)
        /\ timer' = Elapse(timer, Timed)
        /\ sleep' = Elapse(sleep, Sleeping)
        /\ gap' = IF gap > 0 THEN gap - 1 ELSE 0
        /\ sinceSend' = IF sinceSend < RequestDelay THEN sinceSend + 1
                                                    ELSE RequestDelay
        /\ elapsed' = [c \in Calls |-> IF pc[c] \in Active THEN elapsed[c] + 1
                                                           ELSE elapsed[c]]
        /\ UNCHANGED <<session, ready, pc, attempt, via, shutdown, opened>>

Next == \/ \E c \in Calls : CallStep(c)
        \/ Leave \/ Close \/ Over \/ Tick

Spec == Init /\ [][Next]_vars

\* The event loop runs every task that can run and every timer that is due, time
\* passes, and the command proceeds once its loop has ended.  IDX need not
\* answer, nor does the operator interrupt the command.
TaskStep(c) == WarmUp(c) \/ Acquire(c) \/ Throttle(c) \/ Send(c) \/ BackedOff(c)

TimerStep(c) == \/ timer[c] = 0 /\ (WarmedUp(c) \/ AttemptFails(c))
                \/ TimeOut(c)

FairSpec == /\ Spec
            /\ \A c \in Calls : WF_vars(TaskStep(c)) /\ WF_vars(TimerStep(c))
            /\ WF_vars(Tick) /\ WF_vars(Close) /\ WF_vars(Over)

-------------------------------------------------------------------------------
(* Properties                                                              *)

TypeOK ==
    /\ session \in Nat /\ ready \in BOOLEAN /\ gap \in 0 .. RequestDelay
    /\ pc \in [Calls -> Positions]
    /\ attempt \in [Calls -> 0 .. MaxRetries + 1]
    /\ left \in [Calls -> 0 .. TotalTimeout]
    /\ timer \in [Calls -> 0 .. Timeout]
    /\ sleep \in [Calls -> Int]
    /\ via \in [Calls -> Nat]
    /\ gathers \in BOOLEAN /\ permits \in 1 .. Concurrency
    /\ command \in {"running", "leaving", "closing", "over"}
    /\ closing \in Nat /\ opened \in Nat
    /\ closed \subseteq Nat
    /\ elapsed \in [Calls -> Nat]
    /\ sinceSend \in 0 .. RequestDelay

\* One call at a time warms the session up, and never one that is warm: the other
\* calls wait for it, or take over when its timeout ends it.  True of every
\* command, also while close takes the session away.
WarmedUpOnce == \A c, d \in At({"warming"}) : c = d /\ ~ready

\* "One browser session is shared for the command lifetime and closed only after
\* all concurrent requests finish" (README.md): whoever waits for an answer waits
\* on the session that is open.  The loops over symbols, which await
\* as_completed, do not keep to it.
ClosedAfterRequests ==
    \A c \in At({"warming", "sent"}) : session # 0 /\ via[c] = session

\* The commands that await gather keep to it: they open one session, send no
\* request before it was warmed up or after it was closed, and leave none open.
OneSession == gathers =>
    /\ opened <= 1
    /\ ClosedAfterRequests
    /\ At({"sent"}) # {} => ready
    /\ command = "over" => 1 .. opened \subseteq closed

\* "IDX_TOTAL_TIMEOUT bounds each endpoint operation, including retries and
\* backoff" (README.md), and the warm-up, the queue and the throttle as well.
CallsAreBounded == \A c \in Calls : elapsed[c] <= TotalTimeout

\* "IDX_REQUEST_DELAY spaces request starts" (README.md), of all calls together
\* and of retries too.
RequestsAreSpaced ==
    [][\A c \in Calls : pc[c] # "sent" /\ pc'[c] = "sent"
                            => sinceSend = RequestDelay]_vars

\* Every call that began ends, whatever IDX answers, and so does the shutdown.
CallsEnd ==
    /\ \A c \in Calls : pc[c] \in Active ~> pc[c] \notin Active
    /\ command = "leaving" ~> command = "over"
===============================================================================
