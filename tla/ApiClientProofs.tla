---------------------------- MODULE ApiClientProofs ----------------------------
(***************************************************************************)
(* Theorems about ApiClient for any number of calls, permits and retries,  *)
(* and for all delays and timeouts.                                        *)
(***************************************************************************)
EXTENDS ApiClient, TLAPS

-------------------------------------------------------------------------------
(* Type correctness                                                        *)

\* A call that backs off has attempts left: TypeOK is not inductive without it.
Counted == \A c \in Calls : pc[c] = "backoff" => attempt[c] <= MaxRetries

\* The initial states are well typed.
LEMMA InitType == Init => TypeOK /\ Counted
  <1>1. Init => TypeOK
    <2> SUFFICES ASSUME Init
                 PROVE  TypeOK
      OBVIOUS
    <2>1. /\ pc \in [Calls -> Positions]
          /\ attempt \in [Calls -> 0 .. MaxRetries + 1]
          /\ left \in [Calls -> 0 .. TotalTimeout]
          /\ timer \in [Calls -> 0 .. Timeout]
      BY ConstantsAssumption DEF Init, Positions
    <2>2. /\ sleep \in [Calls -> Int] /\ via \in [Calls -> Nat]
          /\ elapsed \in [Calls -> Nat]
      BY DEF Init
    <2>3. ready \in BOOLEAN
      BY Zenon DEF Init
    <2> QED
      BY <2>1, <2>2, <2>3, ConstantsAssumption DEF Init, TypeOK
  <1>2. Init => Counted
    BY DEF Init, Counted
  <1> QED
    BY <1>1, <1>2

\* A backoff is as long as a retry of the code waits.
LEMMA RetryType ==
    ASSUME TypeOK, NEW c \in Calls, Retry(c)
    PROVE  /\ pc' \in [Calls -> Positions] /\ sleep' \in [Calls -> Int]
           /\ \E p \in {"backoff", "failed"} : pc' = [pc EXCEPT ![c] = p]
           /\ pc'[c] = "backoff" => attempt[c] <= MaxRetries
           /\ \A d \in Calls \ {c} : sleep'[d] = sleep[d]
  <1>1. CASE AttemptsLeft(c)
    <2>1. attempt[c] - 1 \in Int
      BY ConstantsAssumption DEF TypeOK
    <2>2. PICK delay \in RetryAfters \cup
                         {IF 2 ^ (attempt[c] - 1) < BackoffCap
                          THEN 2 ^ (attempt[c] - 1) ELSE BackoffCap} :
              sleep' = [sleep EXCEPT ![c] = delay]
      BY <1>1 DEF Retry
    <2>3. delay \in Int
      BY <2>1, <2>2, ConstantsAssumption
    <2> QED
      BY <1>1, <2>2, <2>3 DEF Retry, AttemptsLeft, TypeOK, Positions, Active
  <1>2. CASE ~AttemptsLeft(c)
    BY <1>2 DEF Retry, TypeOK, Positions, Active
  <1> QED
    BY <1>1, <1>2

\* The steps of a call keep every variable well typed.
LEMMA CallStepType ==
    ASSUME TypeOK, Counted, NEW c \in Calls, CallStep(c)
    PROVE  TypeOK'
  <1>1. CASE Begin(c)
    <2>1. session' \in Nat /\ opened' \in Nat /\ ready' \in BOOLEAN
      <3>1. CASE session = 0
        <4>1. ready' = FALSE
          BY <1>1, <3>1 DEF Begin
        <4>2. ready' \in BOOLEAN
          BY <4>1, Zenon
        <4> QED
          BY <1>1, <3>1, <4>2 DEF Begin, TypeOK
      <3>2. CASE session # 0
        BY <1>1, <3>2 DEF Begin, TypeOK
      <3> QED
        BY <3>1, <3>2
    <2>2. pc' \in [Calls -> Positions] /\ left' \in [Calls -> 0 .. TotalTimeout]
      BY <1>1, ConstantsAssumption DEF Begin, TypeOK, Positions, Active
    <2> QED
      BY <1>1, <2>1, <2>2 DEF Begin, TypeOK, shutdown, settings
  <1>2. CASE WarmUp(c)
    <2>1. /\ pc' \in [Calls -> Positions] /\ ready' \in BOOLEAN
          /\ timer' \in [Calls -> 0 .. Timeout] /\ via' \in [Calls -> Nat]
      <3>1. CASE ready \/ session = 0
        BY <1>2, <3>1 DEF WarmUp, TypeOK, Positions, Active
      <3>2. CASE ~(ready \/ session = 0)
        BY <1>2, <3>2, ConstantsAssumption
        DEF WarmUp, TypeOK, Positions, Active
      <3> QED
        BY <3>1, <3>2
    <2> QED
      BY <1>2, <2>1 DEF WarmUp, TypeOK, shutdown, settings
  <1>3. CASE WarmedUp(c)
    BY <1>3 DEF WarmedUp, TypeOK, Positions, Active, shutdown, settings, timers
  <1>4. CASE Acquire(c)
    BY <1>4, ConstantsAssumption
    DEF Acquire, Attempt, TypeOK, Positions, Active, shutdown, settings, client
  <1>5. CASE Throttle(c)
    BY <1>5, ConstantsAssumption
    DEF Throttle, TypeOK, Positions, Active, shutdown, settings, client
  <1>6. CASE Send(c)
    <2>1. /\ pc' \in [Calls -> Positions] /\ sleep' \in [Calls -> Int]
          /\ via' \in [Calls -> Nat] /\ sinceSend' \in 0 .. RequestDelay
      <3>1. CASE session = 0
        BY <1>6, <3>1, RetryType DEF Send, TypeOK
      <3>2. CASE session # 0
        BY <1>6, <3>2, ConstantsAssumption DEF Send, TypeOK, Positions, Active
      <3> QED
        BY <3>1, <3>2
    <2> QED
      BY <1>6, <2>1, ConstantsAssumption DEF Send, TypeOK, shutdown, settings
  <1>7. CASE Respond(c)
    BY <1>7
    DEF Respond, Finish, TypeOK, Positions, shutdown, settings, client, timers
  <1>8. CASE AttemptFails(c)
    BY <1>8, RetryType DEF AttemptFails, TypeOK, shutdown, settings, client
  <1>9. CASE BackedOff(c)
    <2>1. attempt[c] + 1 \in 0 .. MaxRetries + 1
      BY <1>9, ConstantsAssumption DEF BackedOff, Counted, TypeOK
    <2> QED
      BY <1>9, <2>1, ConstantsAssumption
      DEF BackedOff, Attempt, TypeOK, Positions, Active, shutdown, settings,
          client
  <1>10. CASE TimeOut(c)
    BY <1>10
    DEF TimeOut, Finish, TypeOK, Positions, shutdown, settings, client, timers
  <1> QED
    BY <1>1, <1>2, <1>3, <1>4, <1>5, <1>6, <1>7, <1>8, <1>9, <1>10
    DEF CallStep

\* So do the other steps.
LEMMA CommandStepType ==
    ASSUME TypeOK, Leave \/ Close \/ Over \/ Tick
    PROVE  TypeOK'
  <1>1. Cancelled \in [Calls -> Positions]
    BY DEF Cancelled, TypeOK, Positions
  <1>2. CASE Leave
    BY <1>1, <1>2
    DEF Leave, LeaveGather, TypeOK, client, timers, settings
  <1>3. CASE Close
    BY <1>3, ConstantsAssumption
    DEF Close, TypeOK, coroutines, timers, settings
  <1>4. CASE Over
    BY <1>1, <1>4 DEF Over, TypeOK, client, timers, settings
  <1>5. CASE Tick
    <2>1. /\ left' \in [Calls -> 0 .. TotalTimeout]
          /\ timer' \in [Calls -> 0 .. Timeout]
          /\ sleep' \in [Calls -> Int]
          /\ elapsed' \in [Calls -> Nat]
      BY <1>5, ConstantsAssumption DEF Tick, Elapse, TypeOK
    <2>2. gap' \in 0 .. RequestDelay /\ sinceSend' \in 0 .. RequestDelay
      BY <1>5, ConstantsAssumption DEF Tick, TypeOK
    <2> QED
      BY <1>5, <2>1, <2>2 DEF Tick, TypeOK, shutdown, settings
  <1> QED
    BY <1>2, <1>3, <1>4, <1>5

\* Only a retry starts a backoff, and only a backed off call counts on.
LEMMA CountStep ==
    ASSUME TypeOK, Counted, Next
    PROVE  Counted'
  <1>1. ASSUME NEW c \in Calls, CallStep(c)
        PROVE  Counted'
    <2>1. CASE Send(c) \/ AttemptFails(c)
      <3>1. attempt' = attempt
        BY <2>1 DEF Send, AttemptFails
      <3>2. CASE Retry(c)
        BY <3>1, <3>2, RetryType DEF Counted, TypeOK
      <3>3. CASE ~Retry(c)
        BY <2>1, <3>1, <3>3 DEF Send, AttemptFails, Counted, TypeOK
      <3> QED
        BY <3>2, <3>3
    <2>2. CASE Acquire(c) \/ BackedOff(c)
      BY <2>2 DEF Acquire, BackedOff, Attempt, Counted, TypeOK
    <2>3. CASE Respond(c) \/ TimeOut(c)
      BY <2>3 DEF Respond, TimeOut, Finish, Counted, TypeOK
    <2>4. CASE Begin(c) \/ WarmUp(c) \/ WarmedUp(c) \/ Throttle(c)
      BY <2>4 DEF Begin, WarmUp, WarmedUp, Throttle, Counted, TypeOK
    <2> QED
      BY <1>1, <2>1, <2>2, <2>3, <2>4 DEF CallStep
  <1>2. CASE Leave \/ Close \/ Over \/ Tick
    BY <1>2
    DEF Leave, LeaveGather, Close, Over, Tick, Cancelled, Counted, coroutines
  <1> QED
    BY <1>1, <1>2 DEF Next

\* The type invariant is kept together with Counted.
LEMMA TypeStep == TypeOK /\ Counted /\ [Next]_vars => TypeOK' /\ Counted'
  <1>1. TypeOK /\ Counted /\ Next => TypeOK' /\ Counted'
    BY CallStepType, CommandStepType, CountStep DEF Next
  <1>2. TypeOK /\ Counted /\ UNCHANGED vars => TypeOK' /\ Counted'
    BY DEF TypeOK, Counted, vars, client, coroutines, timers, shutdown, settings
  <1> QED
    BY <1>1, <1>2

\* Every variable of the client stays in its type.
THEOREM TypeCorrect == Spec => []TypeOK
  <1>1. Spec => [](TypeOK /\ Counted)
    BY InitType, TypeStep, PTL DEF Spec
  <1> QED
    BY <1>1, PTL
-------------------------------------------------------------------------------
(* The total timeout                                                       *)

\* What has elapsed of a call that waits is what is gone of its timeout.
BudgetOf(c) ==
    /\ pc[c] = "idle" => elapsed[c] = 0
    /\ pc[c] \in Active => elapsed[c] + left[c] = TotalTimeout
    /\ elapsed[c] <= TotalTimeout

Budget == \A c \in Calls : BudgetOf(c)

\* A step of a call touches no budget but its own, which only Begin starts.
LEMMA BudgetOfCall ==
    ASSUME TypeOK, Budget, NEW c \in Calls, CallStep(c)
    PROVE  Budget'
  <1>1. elapsed' = elapsed
    BY DEF CallStep, Begin, WarmUp, WarmedUp, Acquire, Attempt, Throttle, Send,
           Respond, AttemptFails, BackedOff, TimeOut, Finish
  <1>2. CASE Begin(c)
    <2>1. \A d \in Calls \ {c} : pc'[d] = pc[d] /\ left'[d] = left[d]
      BY <1>2 DEF Begin, TypeOK
    <2>2. left'[c] = TotalTimeout /\ pc'[c] \in Active /\ elapsed[c] = 0
      BY <1>2 DEF Begin, TypeOK, Budget, BudgetOf, Active
    <2> QED
      BY <1>1, <2>1, <2>2, ConstantsAssumption
      DEF Budget, BudgetOf, Active, TypeOK
  <1>3. ASSUME ~Begin(c)
        PROVE  Budget'
    <2>1. left' = left
      BY <1>3 DEF CallStep, WarmUp, WarmedUp, Acquire, Attempt, Throttle, Send,
             Respond, AttemptFails, BackedOff, TimeOut, Finish, timers
    <2>2. /\ \A d \in Calls \ {c} : pc'[d] = pc[d]
          /\ pc[c] \in Active
          /\ pc'[c] # "idle"
      <3>1. CASE Retry(c)
        BY <1>3, <3>1, RetryType
        DEF CallStep, WarmUp, WarmedUp, Acquire, Attempt, Throttle, Send,
            Respond, AttemptFails, BackedOff, TimeOut, Finish, Active, Bounded,
            Timed, TypeOK
      <3>2. CASE ~Retry(c)
        BY <1>3, <3>2
        DEF CallStep, WarmUp, WarmedUp, Acquire, Attempt, Throttle, Send,
            Respond, AttemptFails, BackedOff, TimeOut, Finish, Active, Bounded,
            Timed, TypeOK
      <3> QED
        BY <3>1, <3>2
    <2> QED
      BY <1>1, <2>1, <2>2 DEF Budget, BudgetOf
  <1> QED
    BY <1>2, <1>3

\* Time passes for a call only while something of its timeout is left.
LEMMA BudgetStep == TypeOK /\ Budget /\ [Next]_vars => Budget'
  <1> SUFFICES ASSUME TypeOK, Budget, [Next]_vars
               PROVE  Budget'
    OBVIOUS
  <1>1. CASE Leave \/ Close \/ Over
    BY <1>1
    DEF Leave, LeaveGather, Close, Over, Cancelled, Budget, BudgetOf, TypeOK,
        timers, coroutines, Active
  <1>2. CASE Tick
    <2> SUFFICES ASSUME NEW c \in Calls
                 PROVE  BudgetOf(c)'
      BY DEF Budget
    <2>1. CASE pc[c] \in Active
      <3>1. left[c] > 0 /\ left'[c] = left[c] - 1
        BY <1>2, <2>1 DEF Tick, Elapse, At, Bounded, TypeOK
      <3>2. elapsed'[c] = elapsed[c] + 1
        BY <1>2, <2>1 DEF Tick
      <3> QED
        BY <1>2, <2>1, <3>1, <3>2, ConstantsAssumption
        DEF Tick, Budget, BudgetOf, TypeOK, Active
    <2>2. CASE pc[c] \notin Active
      BY <1>2, <2>2 DEF Tick, Budget, BudgetOf
    <2> QED
      BY <2>1, <2>2
  <1>3. CASE UNCHANGED vars
    BY <1>3 DEF vars, coroutines, timers, Budget, BudgetOf
  <1> QED
    BY <1>1, <1>2, <1>3, BudgetOfCall DEF Next

\* CallsAreBounded: no call takes longer than its total timeout, whatever it
\* waits for.
THEOREM Bound == Spec => []CallsAreBounded
  <1>1. Init => Budget
    BY ConstantsAssumption DEF Init, Budget, BudgetOf, Active
  <1>2. Budget => CallsAreBounded
    BY DEF Budget, BudgetOf, CallsAreBounded
  <1> QED
    BY <1>1, <1>2, BudgetStep, TypeCorrect, PTL DEF Spec
-------------------------------------------------------------------------------
(* The distance of request starts                                          *)

\* The next request time is as far away as the last request start demands, and
\* so is the end of the sleep of the one call that holds the rate lock.
Spaced ==
    /\ sinceSend + gap >= RequestDelay
    /\ \A c \in At({"spacing"}) : sinceSend + sleep[c] >= RequestDelay
    /\ \A c, d \in At({"spacing"}) : c = d

\* Steps that start neither a throttle nor a request leave it as it is.
LEMMA SpacedElsewhere ==
    ASSUME Spaced, UNCHANGED <<sinceSend, gap>>,
           \A c \in At({"spacing"})' : c \in At({"spacing"}) /\ sleep'[c] = sleep[c]
    PROVE  Spaced'
  BY DEF Spaced

\* A sum is no less than its second part.
LEMMA SumBound == \A m, n, k \in Nat : n >= k => m + n >= k
  OBVIOUS

\* A throttle needs the rate lock; a request start gives it back.
LEMMA SpacedCall ==
    ASSUME TypeOK, Spaced, NEW c \in Calls, CallStep(c)
    PROVE  Spaced'
  <1>1. CASE Throttle(c)
    <2>1. At({"spacing"}) = {} /\ At({"spacing"})' = {c} /\ sleep'[c] = gap
      BY <1>1 DEF Throttle, RateLockFree, At, TypeOK
    <2> QED
      BY <1>1, <2>1 DEF Throttle, Spaced, client
  <1>2. CASE Send(c)
    <2>1. c \in At({"spacing"}) /\ At({"spacing"})' = {}
      <3>1. /\ pc'[c] # "spacing"
            /\ \A d \in Calls \ {c} : pc'[d] = pc[d]
        BY <1>2, RetryType DEF Send, TypeOK
      <3> QED
        BY <1>2, <3>1 DEF Send, Spaced, At
    <2>2. /\ gap' >= RequestDelay /\ RequestDelay \in Nat
          /\ sinceSend' \in Nat /\ gap' \in Nat
      BY <1>2, ConstantsAssumption DEF Send, TypeOK
    <2>3. sinceSend' + gap' >= RequestDelay
      BY <2>2, SumBound
    <2> QED
      BY <2>1, <2>3 DEF Spaced
  <1>3. CASE Respond(c) \/ TimeOut(c)
    <2>1. /\ At({"spacing"})' \subseteq At({"spacing"})
          /\ UNCHANGED <<sinceSend, gap, sleep>>
      BY <1>3 DEF Respond, TimeOut, Finish, client, timers, At, TypeOK
    <2> QED
      BY <2>1, SpacedElsewhere
  <1>4. CASE AttemptFails(c)
    <2>1. /\ pc'[c] # "spacing"
          /\ \A d \in Calls \ {c} : pc'[d] = pc[d] /\ sleep'[d] = sleep[d]
      BY <1>4, RetryType DEF AttemptFails, TypeOK
    <2>2. UNCHANGED <<sinceSend, gap>>
      BY <1>4 DEF AttemptFails, client
    <2> QED
      BY <2>1, <2>2, SpacedElsewhere DEF At
  <1>5. CASE Begin(c) \/ WarmUp(c) \/ WarmedUp(c) \/ Acquire(c) \/ BackedOff(c)
    <2>1. /\ At({"spacing"})' \subseteq At({"spacing"})
          /\ UNCHANGED <<sinceSend, gap, sleep>>
      BY <1>5
      DEF Begin, WarmUp, WarmedUp, Acquire, BackedOff, Attempt, client, timers,
          At, TypeOK
    <2> QED
      BY <2>1, SpacedElsewhere
  <1> QED
    BY <1>1, <1>2, <1>3, <1>4, <1>5 DEF CallStep

\* While time passes sleep and gap shrink no faster than the distance grows.
LEMMA SpacedStep == TypeOK /\ Spaced /\ [Next]_vars => Spaced'
  <1> SUFFICES ASSUME TypeOK, Spaced, [Next]_vars
               PROVE  Spaced'
    OBVIOUS
  <1>1. CASE Leave \/ Close \/ Over
    <2>1. /\ At({"spacing"})' \subseteq At({"spacing"})
          /\ UNCHANGED <<sinceSend, gap, sleep>>
      BY <1>1
      DEF Leave, LeaveGather, Close, Over, Cancelled, At, client, timers,
          coroutines, TypeOK
    <2> QED
      BY <2>1, SpacedElsewhere
  <1>2. CASE Tick
    <2>1. At({"spacing"})' = At({"spacing"})
      BY <1>2 DEF Tick, At
    <2>2. /\ sinceSend' = RequestDelay \/ sinceSend' = sinceSend + 1
          /\ gap' >= 0 /\ gap' >= gap - 1
      BY <1>2, ConstantsAssumption DEF Tick, TypeOK
    <2>3. ASSUME NEW c \in At({"spacing"})
          PROVE  sleep'[c] \in Int /\ sleep'[c] >= 0 /\ sleep'[c] = sleep[c] - 1
      BY <1>2 DEF Tick, Elapse, At, Sleeping, TypeOK
    <2>4. sinceSend' + gap' >= RequestDelay
      BY <1>2, <2>2, ConstantsAssumption DEF Spaced, TypeOK, Tick
    <2>5. ASSUME NEW c \in At({"spacing"})
          PROVE  sinceSend' + sleep'[c] >= RequestDelay
      <3>1. sleep[c] \in Int /\ sinceSend + sleep[c] >= RequestDelay
        BY DEF Spaced, At, TypeOK
      <3> QED
        BY <2>2, <2>3, <3>1, ConstantsAssumption DEF TypeOK
    <2> QED
      BY <2>1, <2>4, <2>5 DEF Spaced
  <1>3. CASE UNCHANGED vars
    BY <1>3, SpacedElsewhere DEF vars, coroutines, timers, client, At
  <1> QED
    BY <1>1, <1>2, <1>3, SpacedCall DEF Next

\* Only Send starts a request.
LEMMA SendsOnly ==
    ASSUME TypeOK, [Next]_vars, NEW c \in Calls, pc[c] # "sent", pc'[c] = "sent"
    PROVE  Send(c)
  <1>1. CASE Leave \/ Close \/ Over \/ Tick \/ UNCHANGED vars
    BY <1>1
    DEF Leave, LeaveGather, Close, Over, Tick, Cancelled, TypeOK, vars,
        coroutines
  <1>2. ASSUME NEW d \in Calls, CallStep(d), ~Send(d)
        PROVE  FALSE
    <2>1. CASE AttemptFails(d)
      BY <2>1, RetryType DEF AttemptFails, TypeOK
    <2> QED
      BY <1>2, <2>1
      DEF CallStep, Begin, WarmUp, WarmedUp, Acquire, Attempt, Throttle,
          Respond, BackedOff, TimeOut, Finish, TypeOK
  <1>3. ASSUME NEW d \in Calls, Send(d)
        PROVE  Send(c)
    BY <1>3, RetryType DEF Send, TypeOK
  <1> QED
    BY <1>1, <1>2, <1>3 DEF Next

\* RequestsAreSpaced: requests start RequestDelay apart, whichever call sends
\* them and however often it tries.
THEOREM Spacing == Spec => RequestsAreSpaced
  <1>1. Init => Spaced
    BY ConstantsAssumption DEF Init, Spaced, At
  <1>2. TypeOK /\ Spaced /\ [Next]_vars =>
            [\A c \in Calls : pc[c] # "sent" /\ pc'[c] = "sent"
                                => sinceSend = RequestDelay]_vars
    <2> SUFFICES ASSUME TypeOK, Spaced, [Next]_vars, NEW c \in Calls,
                        pc[c] # "sent", pc'[c] = "sent"
                 PROVE  sinceSend = RequestDelay
      OBVIOUS
    <2>1. Send(c)
      BY SendsOnly
    <2>2. sinceSend + sleep[c] >= RequestDelay /\ sleep[c] = 0
      BY <2>1 DEF Send, Spaced, At
    <2> QED
      BY <2>2, ConstantsAssumption DEF TypeOK
  <1> QED
    BY <1>1, <1>2, SpacedStep, TypeCorrect, PTL DEF Spec, RequestsAreSpaced
-------------------------------------------------------------------------------
(* The browser session                                                     *)

\* A warm-up needs the lock and a session that is not warm, and the end of one
\* is the only other step that changes who warms up.
LEMMA WarmCall ==
    ASSUME TypeOK, WarmedUpOnce, NEW c \in Calls, CallStep(c)
    PROVE  WarmedUpOnce'
  <1>1. CASE WarmUp(c)
    BY <1>1 DEF WarmUp, SessionLockFree, WarmedUpOnce, At, TypeOK
  <1>2. CASE WarmedUp(c)
    BY <1>2 DEF WarmedUp, WarmedUpOnce, At, TypeOK
  <1>3. CASE Begin(c)
    <2>1. At({"warming"})' \subseteq At({"warming"}) /\ (ready' => ready)
      BY <1>3 DEF Begin, At, TypeOK
    <2> QED
      BY <2>1 DEF WarmedUpOnce
  <1>4. ASSUME ~Begin(c), ~WarmUp(c), ~WarmedUp(c)
        PROVE  WarmedUpOnce'
    <2>1. ready' = ready
      BY <1>4
      DEF CallStep, Acquire, Attempt, Throttle, Send, Respond, AttemptFails,
          BackedOff, TimeOut, Finish, client
    <2>2. At({"warming"})' \subseteq At({"warming"})
      <3>1. CASE Send(c) \/ AttemptFails(c)
        BY <3>1, RetryType DEF Send, AttemptFails, At, TypeOK
      <3>2. CASE ~(Send(c) \/ AttemptFails(c))
        BY <1>4, <3>2
        DEF CallStep, Acquire, Attempt, Throttle, Respond, BackedOff, TimeOut,
            Finish, At, TypeOK
      <3> QED
        BY <3>1, <3>2
    <2> QED
      BY <2>1, <2>2 DEF WarmedUpOnce
  <1> QED
    BY <1>1, <1>2, <1>3, <1>4

\* WarmedUpOnce: the session lock keeps warm-ups apart in every command, whether
\* it awaits gather or not and whenever it is closed.
THEOREM WarmUps == Spec => []WarmedUpOnce
  <1>1. Init => WarmedUpOnce
    BY DEF Init, WarmedUpOnce, At
  <1>2. TypeOK /\ WarmedUpOnce /\ [Next]_vars => WarmedUpOnce'
    <2> SUFFICES ASSUME TypeOK, WarmedUpOnce, [Next]_vars
                 PROVE  WarmedUpOnce'
      OBVIOUS
    <2>1. CASE Leave \/ Close \/ Over \/ Tick \/ UNCHANGED vars
      <3>1. At({"warming"})' \subseteq At({"warming"})
        BY <2>1
        DEF Leave, LeaveGather, Close, Over, Tick, Cancelled, coroutines, vars,
            At, TypeOK
      <3>2. ready' => ready
        BY <2>1
        DEF Leave, Close, Over, Tick, vars, client
      <3> QED
        BY <3>1, <3>2 DEF WarmedUpOnce
    <2> QED
      BY <2>1, WarmCall DEF Next
  <1> QED
    BY <1>1, <1>2, TypeCorrect, PTL DEF Spec

\* While its loop runs, a command that gathers has opened its only session or
\* none, and a call that passed the warm-up found it warm; after the loop none of
\* its calls is under way, and close takes that session.
Shared ==
    /\ opened <= 1
    /\ ClosedAfterRequests
    /\ At(Active) # {} => session # 0
    /\ At({"queued"} \cup Permits) # {} => ready
    /\ command \in {"running", "leaving"} => session = opened
    /\ command # "running" => At(Active) = {}
    /\ command \in {"closing", "over"} => closing = opened
    /\ command = "over" => closing \in closed

SharedInv == gathers => Shared

\* A call under way belongs to a command whose loop runs, and does not touch the
\* shutdown.
LEMMA UnderWay ==
    ASSUME TypeOK, gathers, Shared, NEW c \in Calls, CallStep(c)
    PROVE  command = "running" /\ UNCHANGED shutdown
  <1>1. UNCHANGED shutdown
    BY DEF CallStep, Begin, WarmUp, WarmedUp, Acquire, Attempt, Throttle, Send,
           Respond, AttemptFails, BackedOff, TimeOut, Finish
  <1>2. CASE Begin(c)
    BY <1>1, <1>2 DEF Begin, Running
  <1>3. CASE ~Begin(c)
    <2>1. pc[c] \in Active
      BY <1>3 DEF CallStep, WarmUp, WarmedUp, Acquire, Throttle, Send, Respond,
             AttemptFails, BackedOff, TimeOut, Active, Timed, Bounded
    <2> QED
      BY <1>1, <2>1 DEF Shared, At
  <1> QED
    BY <1>1, <1>2, <1>3

\* The calls that wait for an answer, and those that passed the warm-up.
Waiting == {"warming", "sent"}

Warm == {"queued"} \cup Permits

\* The steps of a call open a session only when there has been none, send on the
\* open one, and pass the warm-up only when it is warm.
LEMMA SharedCall ==
    ASSUME TypeOK, gathers, Shared, NEW c \in Calls, CallStep(c)
    PROVE  Shared'
  <1>1. /\ command = "running" /\ command' = "running" /\ session = opened
        /\ opened \in Nat /\ opened <= 1
    BY UnderWay DEF Shared, shutdown, TypeOK
  <1>2. SUFFICES /\ opened' <= 1 /\ session' = opened' /\ ClosedAfterRequests'
                 /\ session' # 0 /\ (At(Warm) # {} => ready)'
    BY <1>1 DEF Shared, Warm
  <1>3. CASE Begin(c)
    <2>1. At(Waiting)' \subseteq At(Waiting) /\ via' = via
      BY <1>3 DEF Begin, At, Waiting, TypeOK
    <2>2. At(Warm)' \subseteq At(Warm) \cup {c}
      BY <1>3 DEF Begin, At, TypeOK
    <2>3. c \in At(Warm)' => ready'
      BY <1>3 DEF Begin, At, TypeOK, Warm, Permits
    <2>4. CASE session = 0
      <3>1. opened' = 1 /\ session' = 1
        BY <1>1, <1>3, <2>4 DEF Begin
      <3>2. At(Waiting) = {} /\ At(Warm) = {}
        BY <2>4 DEF Shared, At, Active, Waiting, Warm, Permits
      <3> QED
        BY <2>1, <2>2, <2>3, <3>1, <3>2 DEF ClosedAfterRequests, Waiting
    <2>5. CASE session # 0
      <3>1. session' = session /\ opened' = opened /\ ready' = ready
        BY <1>3, <2>5 DEF Begin
      <3> QED
        BY <1>1, <2>1, <2>2, <2>3, <2>5, <3>1
        DEF Shared, ClosedAfterRequests, Waiting, Warm
    <2> QED
      BY <2>4, <2>5
  <1>4. ASSUME ~Begin(c)
        PROVE  /\ session' = session /\ session # 0 /\ opened' = opened
               /\ c \in At(Active)
    <2>1. c \in At(Active)
      BY <1>4
      DEF CallStep, WarmUp, WarmedUp, Acquire, Throttle, Send, Respond,
          AttemptFails, BackedOff, TimeOut, Active, Timed, Bounded, At
    <2>2. session' = session /\ opened' = opened
      BY <1>4
      DEF CallStep, WarmUp, WarmedUp, Acquire, Attempt, Throttle, Send, Respond,
          AttemptFails, BackedOff, TimeOut, Finish, client
    <2> QED
      BY <2>1, <2>2 DEF Shared
  <1>5. CASE WarmUp(c)
    <2>1. ~Begin(c)
      BY <1>5 DEF WarmUp, Begin
    <2>2. ClosedAfterRequests'
      BY <1>4, <1>5, <2>1
      DEF WarmUp, Shared, ClosedAfterRequests, At, TypeOK
    <2>3. (At(Warm) # {} => ready)'
      BY <1>5 DEF WarmUp, Shared, Warm, Permits, At, TypeOK
    <2> QED
      BY <1>1, <1>4, <2>1, <2>2, <2>3
  <1>6. CASE Send(c)
    <2>1. ~Begin(c)
      BY <1>6 DEF Send, Begin
    <2>2. ClosedAfterRequests'
      BY <1>4, <1>6, <2>1 DEF Send, Shared, ClosedAfterRequests, At, TypeOK
    <2>3. At(Warm)' \subseteq At(Warm) /\ ready' = ready
      BY <1>4, <1>6, <2>1 DEF Send, Warm, Permits, At, TypeOK
    <2> QED
      BY <1>1, <1>4, <2>1, <2>2, <2>3 DEF Shared, Warm
  <1>7. CASE AttemptFails(c)
    <2>1. ~Begin(c)
      BY <1>7 DEF AttemptFails, Begin, Timed
    <2>2. /\ At(Waiting)' \subseteq At(Waiting) /\ At(Warm)' \subseteq At(Warm)
          /\ via' = via /\ ready' = ready
      BY <1>7, RetryType
      DEF AttemptFails, At, Waiting, Warm, Permits, Timed, TypeOK, client
    <2> QED
      BY <1>1, <1>4, <2>1, <2>2 DEF Shared, ClosedAfterRequests, Waiting, Warm
  <1>8. CASE WarmedUp(c)
    <2>1. ~Begin(c)
      BY <1>8 DEF WarmedUp, Begin
    <2>2. At(Waiting)' \subseteq At(Waiting) /\ via' = via /\ ready' = TRUE
      BY <1>8 DEF WarmedUp, At, Waiting, TypeOK
    <2> QED
      BY <1>1, <1>4, <2>1, <2>2 DEF Shared, ClosedAfterRequests, Waiting
  <1>9. CASE \/ Respond(c) \/ TimeOut(c) \/ Acquire(c) \/ Throttle(c)
             \/ BackedOff(c)
    <2>1. ~Begin(c)
      BY <1>9
      DEF Respond, TimeOut, Acquire, Throttle, BackedOff, Begin, Bounded, Active
    <2>2. /\ At(Waiting)' \subseteq At(Waiting) /\ At(Warm)' \subseteq At(Warm)
          /\ via' = via /\ ready' = ready
      BY <1>9
      DEF Respond, TimeOut, Finish, Acquire, Throttle, BackedOff, Attempt, At,
          Waiting, Warm, Permits, TypeOK, client
    <2> QED
      BY <1>1, <1>4, <2>1, <2>2 DEF Shared, ClosedAfterRequests, Waiting, Warm
  <1> QED
    BY <1>3, <1>5, <1>6, <1>7, <1>8, <1>9 DEF CallStep

\* Leaving the loop ends all calls before the session is taken away.
LEMMA SharedStep == TypeOK /\ SharedInv /\ [Next]_vars => SharedInv'
  <1> SUFFICES ASSUME TypeOK, SharedInv, [Next]_vars, gathers'
               PROVE  Shared'
    BY DEF SharedInv
  <1>1. gathers /\ Shared
    <2>1. gathers' = gathers
      BY DEF Next, CallStep, Begin, WarmUp, WarmedUp, Acquire, Attempt,
             Throttle, Send, Respond, AttemptFails, BackedOff, TimeOut, Finish,
             Leave, Close, Over, Tick, vars, shutdown, settings
    <2> QED
      BY <2>1 DEF SharedInv
  <1>2. ASSUME Leave \/ Over
        PROVE  At(Active)' = {}
    <2>1. pc' = Cancelled
      BY <1>1, <1>2 DEF Leave, LeaveGather, Over
    <2> QED
      BY <2>1 DEF Cancelled, At, Active
  <1>9. ASSUME At(Active)' = {}
        PROVE  At(Waiting)' = {} /\ At(Warm)' = {}
    BY <1>9 DEF At, Active, Waiting, Warm, Permits
  <1>3. CASE Leave
    BY <1>1, <1>2, <1>3, <1>9
    DEF Leave, Shared, ClosedAfterRequests, client, Waiting, Warm
  <1>4. CASE Close
    <2>1. At(Active)' = {}
      BY <1>1, <1>4 DEF Close, Shared, At, coroutines
    <2> QED
      BY <1>1, <1>4, <1>9, <2>1
      DEF Close, Shared, ClosedAfterRequests, Waiting, Warm
  <1>5. CASE Over
    BY <1>1, <1>2, <1>5, <1>9
    DEF Over, Shared, ClosedAfterRequests, client, Waiting, Warm
  <1>6. CASE Tick
    BY <1>1, <1>6 DEF Tick, Shared, ClosedAfterRequests, At, shutdown
  <1>7. CASE UNCHANGED vars
    BY <1>1, <1>7
    DEF vars, client, coroutines, shutdown, Shared, ClosedAfterRequests, At
  <1> QED
    BY <1>1, <1>3, <1>4, <1>5, <1>6, <1>7, SharedCall DEF Next

\* OneSession, of the commands that await gather: their calls share one session,
\* which is warm before a request leaves, which none of them is waiting on when
\* it is closed, and which is not left open.
THEOREM Session == Spec => []OneSession
  <1>1. Init => SharedInv
    BY DEF Init, SharedInv, Shared, ClosedAfterRequests, At, Active, Permits
  <1>2. TypeOK /\ SharedInv => OneSession
    <2> SUFFICES ASSUME TypeOK, gathers, Shared
                 PROVE  /\ opened <= 1 /\ ClosedAfterRequests
                        /\ At({"sent"}) # {} => ready
                        /\ command = "over" => 1 .. opened \subseteq closed
      BY Zenon DEF SharedInv, OneSession
    <2>1. ASSUME command = "over", NEW s \in 1 .. opened
          PROVE  s \in closed
      BY <2>1 DEF Shared, TypeOK
    <2>2. At({"sent"}) \subseteq At({"queued"} \cup Permits)
      BY DEF At, Permits
    <2> QED
      BY <2>1, <2>2 DEF Shared
  <1> QED
    BY <1>1, <1>2, SharedStep, TypeCorrect, PTL DEF Spec
===============================================================================
