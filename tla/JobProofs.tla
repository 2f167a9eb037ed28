------------------------------- MODULE JobProofs -------------------------------
(***************************************************************************)
(* Theorems about the two parts that start commands: the dashboard's job   *)
(* manager, for any number of clients, jobs, servers, faults, clock        *)
(* readings and any cooldown, and the scheduler, for days of any length,   *)
(* any hour, lateness and number of outages.                               *)
(***************************************************************************)
EXTENDS JobManager, Schedule, TLAPS

\* The values of the strings TypeOK and the actions use.
Statuses == {"none", "RUNNING", "SUCCESS", "FAILED"}

-------------------------------------------------------------------------------
(* Type correctness                                                        *)

\* The answers the handlers build are answers.
LEMMA ViewType ==
    ASSUME NEW o \in {"none", "job", "empty", "reset", "running", "cooldown",
                      "error"},
           NEW j \in Jobs \cup {0}, NEW st \in Statuses, NEW fin \in BOOLEAN,
           NEW code \in Codes
    PROVE  View(o, j, st, fin, code) \in Answer
  BY DEF View, Answer, Statuses

\* So are the refusals and the confirmations.
LEMMA ToldType ==
    ASSUME NEW o \in {"none", "job", "empty", "reset", "running", "cooldown",
                      "error"}
    PROVE  Told(o) \in Answer
  BY ViewType DEF Told, Statuses, Codes

\* The initial states are well typed.
LEMMA InitType == Init => TypeOK
  BY ConstantsAssumption, ToldType DEF Init, TypeOK, Jobs, Codes

\* The critical section of start keeps every variable well typed.
LEMMA AcceptType ==
    ASSUME TypeOK, NEW c \in Clients, NEW j \in Jobs, Accept(c, j)
    PROVE  TypeOK'
  <1>1. /\ status' \in [Jobs -> {"none", "RUNNING", "SUCCESS", "FAILED"}]
        /\ startedAt' \in [Jobs -> [time : 0 .. MaxClock, server : 0 .. MaxServers]]
    BY DEF TypeOK, Accept
  <1>2. /\ pc' \in [Clients -> {"idle", "spawn", "status", "finished", "code"}]
        /\ serving' \in [Clients -> Jobs \cup {0}]
        /\ answer' \in [Clients -> Answer]
    BY ToldType DEF TypeOK, Accept
  <1> QED
    BY <1>1, <1>2 DEF TypeOK, Accept, execution

\* So do the steps that follow it in the handler.
LEMMA StartStepType ==
    ASSUME TypeOK, NEW c \in Clients, NEW j \in Jobs, StartStep(c, j)
    PROVE  TypeOK'
  <1>1. answer' \in [Clients -> Answer]
    <2>1. /\ status[j] \in Statuses /\ finished[j] \in BOOLEAN
          /\ exitCode[j] \in Codes
          /\ answer[c].status \in Statuses /\ answer[c].finished \in BOOLEAN
      BY DEF TypeOK, Answer, Statuses
    <2>2. /\ View("none", j, status[j], FALSE, "None") \in Answer
          /\ View("none", j, answer[c].status, finished[j], "None") \in Answer
          /\ View("job", j, answer[c].status, answer[c].finished, exitCode[j])
               \in Answer
      BY <2>1, ViewType DEF Codes
    <2> QED
      BY <2>2, ToldType DEF TypeOK, StartStep, StartThread, StartThreadFails,
         ReadStatus, ReadFinished, ReadExitCode
  <1>2. /\ pc' \in [Clients -> {"idle", "spawn", "status", "finished", "code"}]
        /\ thread' \in [Jobs -> {"none", "ready", "waiting", "returned", "raised",
                                 "code", "failed", "status", "finish", "ended"}]
        /\ faults' \in 0 .. MaxFaults /\ orphans' \subseteq Jobs
    <2>1. CASE StartThread(c, j)
      BY <2>1 DEF TypeOK, StartThread, history
    <2>2. CASE StartThreadFails(c, j)
      BY <2>2, ConstantsAssumption DEF TypeOK, StartThreadFails, Fault, execution
    <2>3. CASE ReadStatus(c, j) \/ ReadFinished(c, j) \/ ReadExitCode(c, j)
      BY <2>3 DEF TypeOK, ReadStatus, ReadFinished, ReadExitCode, execution, history
    <2> QED
      BY <2>1, <2>2, <2>3 DEF StartStep
  <1>3. UNCHANGED <<clock, slot, states, process, result, serving, server,
                    startedAt>>
    BY DEF StartStep, StartThread, StartThreadFails, ReadStatus, ReadFinished,
       ReadExitCode, execution, history
  <1> QED
    BY <1>1, <1>2, <1>3 DEF TypeOK, slot, states

\* So do the requests that are answered in one step.
LEMMA ReplyType ==
    ASSUME TypeOK, NEW c \in Clients,
           Refuse(c) \/ Current(c) \/ Reset(c) \/ ResetRefused(c)
    PROVE  TypeOK'
  <1>1. \E told \in Answer : Reply(c, told)
    <2>1. ASSUME NEW j \in Jobs
          PROVE  View("job", j, status[j], finished[j], exitCode[j]) \in Answer
      <3>1. /\ status[j] \in Statuses /\ finished[j] \in BOOLEAN
            /\ exitCode[j] \in Codes
        BY DEF TypeOK, Statuses
      <3> QED
        BY <3>1, ViewType
    <2>2. CASE Refuse(c) \/ Reset(c) \/ ResetRefused(c)
      BY <2>2, ToldType DEF Refuse, Reset, ResetRefused
    <2>3. CASE Current(c)
      BY <2>1, <2>3, ToldType DEF Current
    <2> QED
      BY <2>2, <2>3
  <1>2. current' \in Jobs \cup {0}
    BY DEF TypeOK, Refuse, Current, Reset, ResetRefused, slot
  <1>3. UNCHANGED <<clock, lastStarted, lock, states, execution, history>>
    BY DEF Refuse, Current, Reset, ResetRefused, slot
  <1>4. /\ answer' \in [Clients -> Answer]
        /\ UNCHANGED <<pc, serving>>
    BY <1>1 DEF Reply, TypeOK
  <1> QED
    BY <1>2, <1>3, <1>4 DEF TypeOK, states, execution, history

\* So do the thread of a job and its process.
LEMMA ThreadType ==
    ASSUME TypeOK, NEW j \in Jobs, ThreadStep(j) \/ ExitStep(j)
    PROVE  TypeOK'
  <1>1. /\ thread' \in [Jobs -> {"none", "ready", "waiting", "returned", "raised",
                                 "code", "failed", "status", "finish", "ended"}]
        /\ process' \in [Jobs -> {"none", "alive", "exited"}]
    BY DEF TypeOK, ThreadStep, ExitStep, Launch, LaunchRaises, Exit, Reap,
       CommunicateRaises, Acquire, StoreExitCode, StoreStatus, StoreFinished,
       Continue
  <1>2. /\ status' \in [Jobs -> {"none", "RUNNING", "SUCCESS", "FAILED"}]
        /\ exitCode' \in [Jobs -> Codes]
        /\ finished' \in [Jobs -> BOOLEAN]
        /\ result' \in [Jobs -> Codes]
        /\ lock' \in Jobs \cup {0}
    <2>1. CASE StoreExitCode(j)
      BY <2>1 DEF TypeOK, StoreExitCode, slot
    <2>2. CASE StoreStatus(j)
      BY <2>2 DEF TypeOK, StoreStatus, slot
    <2>3. CASE StoreFinished(j)
      BY <2>3 DEF TypeOK, StoreFinished
    <2>4. CASE ExitStep(j)
      BY <2>4 DEF TypeOK, ExitStep, Exit, slot, states, Codes
    <2>5. CASE Acquire(j)
      BY <2>5 DEF TypeOK, Acquire, states
    <2>6. CASE Launch(j) \/ LaunchRaises(j) \/ Reap(j) \/ CommunicateRaises(j)
      BY <2>6 DEF TypeOK, Launch, LaunchRaises, Reap, CommunicateRaises, slot, states
    <2> QED
      BY <2>1, <2>2, <2>3, <2>4, <2>5, <2>6 DEF ThreadStep
  <1>3. faults' \in 0 .. MaxFaults
    BY ConstantsAssumption DEF TypeOK, ThreadStep, ExitStep, Launch,
       LaunchRaises, Exit, Reap, CommunicateRaises, Acquire, StoreExitCode,
       StoreStatus, StoreFinished, Fault, history
  <1>4. UNCHANGED <<clock, current, lastStarted, handlers, server, startedAt,
                    orphans>>
    BY DEF ThreadStep, ExitStep, Launch, LaunchRaises, Exit, Reap,
       CommunicateRaises, Acquire, StoreExitCode, StoreStatus, StoreFinished,
       slot, history
  <1> QED
    BY <1>1, <1>2, <1>3, <1>4 DEF TypeOK, handlers

\* So does a new server.
LEMMA RestartType == TypeOK /\ Restart => TypeOK'
  BY ConstantsAssumption, ToldType DEF TypeOK, Restart, Codes

\* Every reachable state of the job manager is well typed.
THEOREM TypeCorrect == Spec => []TypeOK
  <1>1. TypeOK /\ [Next]_vars => TypeOK'
    <2> SUFFICES ASSUME TypeOK, [Next]_vars
                 PROVE  TypeOK'
      OBVIOUS
    <2>1. CASE \E c \in Clients, j \in Jobs : Accept(c, j)
      BY <2>1, AcceptType
    <2>2. CASE \E c \in Clients, j \in Jobs : StartStep(c, j)
      BY <2>2, StartStepType
    <2>3. CASE \E c \in Clients :
                 Refuse(c) \/ Current(c) \/ Reset(c) \/ ResetRefused(c)
      BY <2>3, ReplyType
    <2>4. CASE \E j \in Jobs : ThreadStep(j) \/ ExitStep(j)
      BY <2>4, ThreadType
    <2>5. CASE Tick
      BY <2>5, ConstantsAssumption DEF Tick, TypeOK, slot, states, execution,
         handlers, history
    <2>6. CASE Restart
      BY <2>6, RestartType
    <2>7. CASE UNCHANGED vars
      BY <2>7 DEF vars, TypeOK, slot, states, execution, handlers, history
    <2> QED
      BY <2>1, <2>2, <2>3, <2>4, <2>5, <2>6, <2>7 DEF Next, ClientStep
  <1> QED
    BY <1>1, InitType, PTL DEF Spec

-------------------------------------------------------------------------------
(* The slot                                                                *)

Active == {"ready", "waiting", "returned", "raised", "code", "failed", "status"}

\* From its first statement until it stores a status, the thread of a job finds
\* its job RUNNING in the slot.
ActiveHoldsSlot ==
    \A j \in Jobs : thread[j] \in Active => current = j /\ status[j] = "RUNNING"

\* At most one handler is about to start a thread, for the job in the slot.
SpawnHoldsSlot ==
    /\ \A c \in Clients : pc[c] = "spawn" =>
         /\ serving[c] \in Jobs
         /\ current = serving[c]
         /\ status[serving[c]] = "RUNNING"
         /\ thread[serving[c]] = "none"
    /\ \A c, d \in Clients : pc[c] = "spawn" /\ pc[d] = "spawn" => c = d

AliveIsWaitedFor ==
    \A j \in Jobs : process[j] = "alive" => thread[j] = "waiting"

FreshIsUntouched ==
    \A j \in Jobs : startedAt[j].server = 0 =>
        thread[j] = "none" /\ status[j] = "none"

SlotInv == /\ ActiveHoldsSlot
           /\ SpawnHoldsSlot
           /\ AliveIsWaitedFor
           /\ FreshIsUntouched

\* The initial states satisfy the invariant of the slot.
LEMMA InitSlot == Init => SlotInv
  BY DEF Init, SlotInv, ActiveHoldsSlot, SpawnHoldsSlot, AliveIsWaitedFor,
     FreshIsUntouched, Active

\* start accepts a job only when no thread runs and none is about to.
LEMMA AcceptSlot ==
    ASSUME TypeOK, SlotInv, NEW c \in Clients, NEW j \in Jobs, Accept(c, j)
    PROVE  SlotInv'
  <1>1. \A i \in Jobs : thread[i] \notin Active
    BY DEF Accept, SlotTaken, SlotInv, ActiveHoldsSlot
  <1>2. \A d \in Clients : pc[d] # "spawn"
    BY DEF Accept, SlotTaken, SlotInv, SpawnHoldsSlot
  <1>3. thread[j] = "none"
    BY DEF Accept, NextJob, SlotInv, FreshIsUntouched
  <1>4. /\ UNCHANGED <<thread, process>>
        /\ current' = j
        /\ status' = [status EXCEPT ![j] = "RUNNING"]
        /\ pc' = [pc EXCEPT ![c] = "spawn"]
        /\ serving' = [serving EXCEPT ![c] = j]
        /\ startedAt' = [startedAt EXCEPT
                           ![j] = [time |-> clock, server |-> server]]
    BY DEF Accept, execution
  <1>5. ActiveHoldsSlot'
    BY <1>1, <1>4 DEF ActiveHoldsSlot
  <1>6. SpawnHoldsSlot'
    BY <1>2, <1>3, <1>4 DEF SpawnHoldsSlot, TypeOK
  <1>7. AliveIsWaitedFor'
    BY <1>4 DEF AliveIsWaitedFor, SlotInv
  <1>8. FreshIsUntouched'
    BY <1>4 DEF FreshIsUntouched, SlotInv, TypeOK
  <1> QED
    BY <1>5, <1>6, <1>7, <1>8 DEF SlotInv

\* The handler hands the slot over to the thread it starts.
LEMMA StartStepSlot ==
    ASSUME TypeOK, SlotInv, NEW c \in Clients, NEW j \in Jobs, StartStep(c, j)
    PROVE  SlotInv'
  <1>1. CASE StartThread(c, j)
    <2>1. /\ UNCHANGED <<current, status, process, serving, startedAt>>
          /\ thread' = [thread EXCEPT ![j] = "ready"]
          /\ pc' = [pc EXCEPT ![c] = "status"]
          /\ pc[c] = "spawn" /\ serving[c] = j
      BY <1>1 DEF StartThread, slot, states, history
    <2>2. /\ current = j /\ status[j] = "RUNNING" /\ thread[j] = "none"
          /\ \A d \in Clients : pc[d] = "spawn" => d = c
      BY <2>1 DEF SlotInv, SpawnHoldsSlot
    <2>3. ActiveHoldsSlot' /\ SpawnHoldsSlot' /\ AliveIsWaitedFor'
      BY <2>1, <2>2 DEF SlotInv, ActiveHoldsSlot, SpawnHoldsSlot,
         AliveIsWaitedFor, TypeOK
    <2>4. FreshIsUntouched'
      BY <2>1, <2>2 DEF SlotInv, FreshIsUntouched, TypeOK
    <2> QED
      BY <2>3, <2>4 DEF SlotInv
  <1>2. CASE ~StartThread(c, j)
    <2>1. /\ UNCHANGED <<current, status, process, serving, startedAt, thread>>
          /\ \E l \in {"idle", "finished", "code"} : pc' = [pc EXCEPT ![c] = l]
      BY <1>2 DEF StartStep, StartThreadFails, ReadStatus, ReadFinished,
         ReadExitCode, slot, states, execution, history
    <2> QED
      BY <2>1 DEF SlotInv, ActiveHoldsSlot, SpawnHoldsSlot, AliveIsWaitedFor,
         FreshIsUntouched, TypeOK
  <1> QED
    BY <1>1, <1>2

\* A reset happens only when no thread needs the slot.
LEMMA ReplySlot ==
    ASSUME TypeOK, SlotInv, NEW c \in Clients,
           Refuse(c) \/ Current(c) \/ Reset(c) \/ ResetRefused(c)
    PROVE  SlotInv'
  <1>1. UNCHANGED <<status, thread, process, pc, serving, startedAt>>
    BY DEF Refuse, Current, Reset, ResetRefused, Reply, states, execution, history
  <1>2. CASE Reset(c)
    BY <1>1, <1>2 DEF Reset, SlotTaken, SlotInv, ActiveHoldsSlot,
       SpawnHoldsSlot, AliveIsWaitedFor, FreshIsUntouched
  <1>3. CASE ~Reset(c)
    <2>1. UNCHANGED current
      BY <1>3 DEF Refuse, Current, ResetRefused, slot
    <2> QED
      BY <1>1, <2>1 DEF SlotInv, ActiveHoldsSlot, SpawnHoldsSlot,
         AliveIsWaitedFor, FreshIsUntouched
  <1> QED
    BY <1>2, <1>3

\* The thread keeps the slot until it stores the status of its job.
LEMMA ThreadSlot ==
    ASSUME TypeOK, SlotInv, NEW j \in Jobs, ThreadStep(j) \/ ExitStep(j)
    PROVE  SlotInv'
  <1>1. UNCHANGED <<current, pc, serving, startedAt>>
    BY DEF ThreadStep, ExitStep, Launch, LaunchRaises, Exit, Reap,
       CommunicateRaises, Acquire, StoreExitCode, StoreStatus, StoreFinished,
       slot, handlers, history
  <1>2. CASE StoreStatus(j)
    <2>1. /\ thread[j] \in Active
          /\ thread' = [thread EXCEPT ![j] = "finish"]
          /\ \E st \in {"SUCCESS", "FAILED"} : status' = [status EXCEPT ![j] = st]
          /\ UNCHANGED process
      BY <1>2 DEF StoreStatus, Continue, Active
    <2>2. /\ current = j
          /\ \A i \in Jobs \ {j} : thread[i] \notin Active
          /\ \A d \in Clients : pc[d] # "spawn"
          /\ startedAt[j].server # 0
      BY <2>1 DEF SlotInv, ActiveHoldsSlot, SpawnHoldsSlot, FreshIsUntouched,
         Active
    <2>3. process[j] # "alive"
      BY <1>2 DEF StoreStatus, SlotInv, AliveIsWaitedFor
    <2> QED
      BY <1>1, <2>1, <2>2, <2>3 DEF SlotInv, ActiveHoldsSlot, SpawnHoldsSlot,
         AliveIsWaitedFor, FreshIsUntouched, TypeOK, Active
  <1>3. CASE ExitStep(j)
    BY <1>1, <1>3 DEF ExitStep, Exit, states, SlotInv, ActiveHoldsSlot,
       SpawnHoldsSlot, AliveIsWaitedFor, FreshIsUntouched, TypeOK
  <1>4. CASE StoreFinished(j)
    BY <1>1, <1>4 DEF StoreFinished, Continue, SlotInv, ActiveHoldsSlot,
       SpawnHoldsSlot, AliveIsWaitedFor, FreshIsUntouched, TypeOK, Active
  <1>5. CASE \/ Launch(j) \/ LaunchRaises(j) \/ Reap(j) \/ CommunicateRaises(j)
             \/ Acquire(j) \/ StoreExitCode(j)
    <2>1. /\ thread[j] \in Active
          /\ \E t \in Active : thread' = [thread EXCEPT ![j] = t]
          /\ UNCHANGED status
      BY <1>5 DEF Launch, LaunchRaises, Reap, CommunicateRaises, Acquire,
         StoreExitCode, Continue, states, Active
    <2>2. AliveIsWaitedFor'
      BY <1>5 DEF Launch, LaunchRaises, Reap, CommunicateRaises, Acquire,
         StoreExitCode, Continue, SlotInv, AliveIsWaitedFor, TypeOK
    <2>3. ActiveHoldsSlot' /\ SpawnHoldsSlot'
      BY <1>1, <2>1 DEF SlotInv, ActiveHoldsSlot, SpawnHoldsSlot, TypeOK, Active
    <2>4. FreshIsUntouched'
      BY <1>1, <2>1 DEF SlotInv, FreshIsUntouched, TypeOK, Active
    <2> QED
      BY <2>2, <2>3, <2>4 DEF SlotInv
  <1> QED
    BY <1>2, <1>3, <1>4, <1>5 DEF ThreadStep

\* Every reachable state satisfies the invariant of the slot.
LEMMA SlotInvariant == Spec => []SlotInv
  <1>1. TypeOK /\ SlotInv /\ [Next]_vars => SlotInv'
    <2> SUFFICES ASSUME TypeOK, SlotInv, [Next]_vars
                 PROVE  SlotInv'
      OBVIOUS
    <2>1. CASE \E c \in Clients, j \in Jobs : Accept(c, j)
      BY <2>1, AcceptSlot
    <2>2. CASE \E c \in Clients, j \in Jobs : StartStep(c, j)
      BY <2>2, StartStepSlot
    <2>3. CASE \E c \in Clients :
                 Refuse(c) \/ Current(c) \/ Reset(c) \/ ResetRefused(c)
      BY <2>3, ReplySlot
    <2>4. CASE \E j \in Jobs : ThreadStep(j) \/ ExitStep(j)
      BY <2>4, ThreadSlot
    <2>5. CASE Restart
      BY <2>5 DEF Restart, SlotInv, ActiveHoldsSlot, SpawnHoldsSlot,
         AliveIsWaitedFor, FreshIsUntouched, Active
    <2>6. CASE Tick \/ UNCHANGED vars
      <3>1. UNCHANGED <<current, status, thread, process, pc, serving, startedAt>>
        BY <2>6 DEF Tick, vars, slot, states, execution, handlers, history
      <3> QED
        BY <3>1 DEF SlotInv, ActiveHoldsSlot, SpawnHoldsSlot, AliveIsWaitedFor,
           FreshIsUntouched
    <2> QED
      BY <2>1, <2>2, <2>3, <2>4, <2>5, <2>6 DEF Next, ClientStep
  <1> QED
    BY <1>1, InitSlot, TypeCorrect, PTL DEF Spec

\* While the CLI process of a job lives, the slot shows that job as RUNNING; so
\* never do two of them live at once.
THEOREM LiveProcess == Spec => []LiveProcessHoldsSlot
  <1>1. SlotInv => LiveProcessHoldsSlot
    BY DEF SlotInv, AliveIsWaitedFor, ActiveHoldsSlot, Active,
       LiveProcessHoldsSlot
  <1> QED
    BY <1>1, SlotInvariant, PTL

-------------------------------------------------------------------------------
(* The cooldown                                                            *)

\* The last start of this server is the one the cooldown counts from.
LastStartKnown ==
    /\ lastStarted <= clock
    /\ \A j \in Jobs :
         /\ startedAt[j].server <= server
         /\ startedAt[j].server = server => startedAt[j].time <= lastStarted

JobsInOrder ==
    \A i, j \in Jobs :
        i < j /\ startedAt[j].server # 0 => startedAt[i].server # 0

SpacingInv == LastStartKnown /\ JobsInOrder /\ StartsAreSpaced

\* A job that is accepted starts a cooldown after the last one of the server.
LEMMA AcceptSpacing ==
    ASSUME TypeOK, SpacingInv, NEW c \in Clients, NEW j \in Jobs, Accept(c, j)
    PROVE  SpacingInv'
  <1>1. /\ clock - lastStarted >= Cooldown
        /\ startedAt[j].server = 0
        /\ \A i \in Jobs : i < j => startedAt[i].server # 0
        /\ startedAt' = [startedAt EXCEPT
                           ![j] = [time |-> clock, server |-> server]]
        /\ lastStarted' = clock
        /\ UNCHANGED <<clock, server>>
    BY ConstantsAssumption DEF Accept, CoolingDown, NextJob, TypeOK
  <1>2. /\ clock \in Nat /\ lastStarted \in Nat /\ server \in Nat \ {0}
        /\ Cooldown \in Nat /\ Jobs \subseteq Nat
        /\ startedAt'[j].time = clock /\ startedAt'[j].server = server
    BY <1>1, ConstantsAssumption DEF TypeOK, Jobs
  <1>other. ASSUME NEW i \in Jobs, i # j
            PROVE  startedAt'[i] = startedAt[i]
    BY <1>1, <1>other DEF TypeOK
  <1>time. ASSUME NEW i \in Jobs
           PROVE  startedAt[i].time \in Nat /\ startedAt[i].server \in Nat
    BY ConstantsAssumption DEF TypeOK
  <1>3. LastStartKnown'
    <2>1. lastStarted' <= clock'
      BY <1>1, <1>2
    <2>2. ASSUME NEW i \in Jobs
          PROVE  /\ startedAt'[i].server <= server'
                 /\ startedAt'[i].server = server' =>
                      startedAt'[i].time <= lastStarted'
      <3>1. CASE i = j
        BY <3>1, <1>1, <1>2
      <3>2. CASE i # j
        <4>1. /\ startedAt[i].server <= server
              /\ startedAt[i].server = server => startedAt[i].time <= lastStarted
              /\ lastStarted <= clock
          BY DEF SpacingInv, LastStartKnown
        <4>2. startedAt'[i] = startedAt[i] /\ startedAt[i].time \in Nat
          BY <1>other, <1>time, <3>2
        <4> QED
          BY <1>1, <1>2, <4>1, <4>2
      <3> QED
        BY <3>1, <3>2
    <2> QED
      BY <2>1, <2>2 DEF LastStartKnown
  <1>4. JobsInOrder'
    BY <1>1, <1>2, <1>other DEF SpacingInv, JobsInOrder
  <1>5. \A i \in Jobs : j < i => startedAt[i].server = 0
    BY <1>1 DEF SpacingInv, JobsInOrder
  <1>6. StartsAreSpaced'
    <2> SUFFICES ASSUME NEW i \in Jobs, NEW k \in Jobs, i < k,
                        startedAt'[i].server = startedAt'[k].server,
                        startedAt'[k].server # 0
                 PROVE  startedAt'[k].time - startedAt'[i].time >= Cooldown
      BY DEF StartsAreSpaced
    <2>1. CASE k = j
      <3>1. i # j
        BY <2>1, <1>2
      <3>2. startedAt'[i] = startedAt[i] /\ startedAt[i].time \in Nat
        BY <1>other, <1>time, <3>1
      <3>3. startedAt[i].server = server
        BY <2>1, <1>2, <3>2
      <3>4. startedAt[i].time <= lastStarted
        BY <3>3 DEF SpacingInv, LastStartKnown
      <3> QED
        BY <1>1, <1>2, <2>1, <3>2, <3>4
    <2>2. CASE i = j
      <3>1. k # j /\ j < k
        BY <2>2, <1>2
      <3>2. startedAt'[k] = startedAt[k] /\ startedAt[k].server = 0
        BY <1>other, <1>5, <3>1
      <3> QED
        BY <3>2
    <2>3. CASE k # j /\ i # j
      <3>1. startedAt'[k] = startedAt[k] /\ startedAt'[i] = startedAt[i]
        BY <2>3, <1>other
      <3> QED
        BY <3>1 DEF SpacingInv, StartsAreSpaced
    <2> QED
      BY <2>1, <2>2, <2>3
  <1> QED
    BY <1>3, <1>4, <1>6 DEF SpacingInv

\* Two jobs accepted by one server start at least the cooldown apart.
THEOREM Spacing == Spec => []StartsAreSpaced
  <1>1. Init => SpacingInv
    BY ConstantsAssumption DEF Init, SpacingInv, LastStartKnown, JobsInOrder,
       StartsAreSpaced
  <1>2. TypeOK /\ SpacingInv /\ [Next]_vars => SpacingInv'
    <2> SUFFICES ASSUME TypeOK, SpacingInv, [Next]_vars
                 PROVE  SpacingInv'
      OBVIOUS
    <2>1. CASE \E c \in Clients, j \in Jobs : Accept(c, j)
      BY <2>1, AcceptSpacing
    <2>2. CASE Tick
      BY <2>2 DEF Tick, TypeOK, slot, history, SpacingInv, LastStartKnown,
         JobsInOrder, StartsAreSpaced
    <2>3. CASE Restart
      BY <2>3 DEF Restart, TypeOK, SpacingInv, LastStartKnown, JobsInOrder,
         StartsAreSpaced
    <2>4. CASE UNCHANGED <<clock, lastStarted, server, startedAt>>
      BY <2>4 DEF SpacingInv, LastStartKnown, JobsInOrder, StartsAreSpaced
    <2>5. CASE \E c \in Clients, j \in Jobs : StartStep(c, j)
      BY <2>4, <2>5 DEF StartStep, StartThread, StartThreadFails, ReadStatus,
         ReadFinished, ReadExitCode, slot, history
    <2>6. CASE \E c \in Clients :
                 Refuse(c) \/ Current(c) \/ Reset(c) \/ ResetRefused(c)
      BY <2>4, <2>6 DEF Refuse, Current, Reset, ResetRefused, slot, history
    <2>7. CASE \E j \in Jobs : ThreadStep(j) \/ ExitStep(j)
      BY <2>4, <2>7 DEF ThreadStep, ExitStep, Launch, LaunchRaises, Exit, Reap,
         CommunicateRaises, Acquire, StoreExitCode, StoreStatus, StoreFinished,
         slot, history
    <2>8. CASE UNCHANGED vars
      BY <2>4, <2>8 DEF vars, slot, history
    <2> QED
      BY <2>1, <2>2, <2>3, <2>5, <2>6, <2>7, <2>8 DEF Next, ClientStep
  <1>3. SpacingInv => StartsAreSpaced
    BY DEF SpacingInv
  <1> QED
    BY <1>1, <1>2, <1>3, TypeCorrect, PTL DEF Spec

-------------------------------------------------------------------------------
(* What clients are told                                                   *)

Ended == {"SUCCESS", "FAILED"}

\* The exit code is stored before the status that depends on it.
CodeBeforeStatus ==
    \A j \in Jobs :
        /\ status[j] = "SUCCESS" => exitCode[j] = "zero" /\ result[j] = "zero"
        /\ status[j] = "FAILED" => exitCode[j] # "zero"
        /\ thread[j] = "status" => exitCode[j] = result[j]
        /\ thread[j] \in {"none", "ready", "waiting", "returned", "raised",
                           "code", "failed"} => exitCode[j] = "None"

\* An ended status a client has read is still the status of the job.
ReadStatusStands ==
    \A c \in Clients :
        /\ answer[c].status \in Ended =>
             answer[c].job \in Jobs /\ status[answer[c].job] = answer[c].status
        /\ pc[c] \in {"finished", "code"} => answer[c].job = serving[c]

AnswerInv == CodeBeforeStatus /\ ReadStatusStands /\ AnswersAreHonest

\* No ended job changes its status, exit code or result, and the steps that
\* leave the answers alone leave them honest.
LEMMA AnswersKept ==
    ASSUME TypeOK, AnswerInv, UNCHANGED <<answer, pc, serving>>,
           \A j \in Jobs : status[j] \in Ended =>
               status'[j] = status[j] /\ result'[j] = result[j]
    PROVE  ReadStatusStands' /\ AnswersAreHonest'
  BY DEF AnswerInv, ReadStatusStands, AnswersAreHonest, Ended

\* The answer of start is honest although it is read without the lock.
LEMMA StartStepAnswers ==
    ASSUME TypeOK, AnswerInv, NEW c \in Clients, NEW j \in Jobs, StartStep(c, j),
           SlotInv
    PROVE  AnswerInv'
  <1>1. UNCHANGED <<status, exitCode, result, serving>>
    BY DEF StartStep, StartThread, StartThreadFails, ReadStatus, ReadFinished,
       ReadExitCode, states, execution
  <1>2. CASE StartThread(c, j)
    <2>1. /\ thread' = [thread EXCEPT ![j] = "ready"]
          /\ pc' = [pc EXCEPT ![c] = "status"]
          /\ UNCHANGED answer
          /\ thread[j] = "none"
      BY <1>2 DEF StartThread, SlotInv, SpawnHoldsSlot
    <2>2. CodeBeforeStatus'
      BY <1>1, <2>1 DEF AnswerInv, CodeBeforeStatus, TypeOK
    <2> QED
      BY <1>1, <2>1, <2>2 DEF AnswerInv, ReadStatusStands, AnswersAreHonest, TypeOK
  <1>3. CASE ~StartThread(c, j)
    <2>1. CodeBeforeStatus'
      <3>1. UNCHANGED thread
        BY <1>3 DEF StartStep, StartThreadFails, ReadStatus, ReadFinished,
           ReadExitCode, execution
      <3> QED
        BY <1>1, <3>1 DEF AnswerInv, CodeBeforeStatus
    <2>2. PICK new \in Answer :
             /\ answer' = [answer EXCEPT ![c] = new]
             /\ new.status \in Ended => new.job = j /\ new.status = status[j]
             /\ new.outcome = "job" => new.exitCode = exitCode[j]
             /\ pc'[c] \in {"finished", "code"} => new.job = j
      <3>1. CASE StartThreadFails(c, j)
        BY <3>1, ToldType DEF StartThreadFails, Told, View, Ended, TypeOK
      <3>2. CASE ReadStatus(c, j)
        <4>1. View("none", j, status[j], FALSE, "None") \in Answer
          BY ViewType DEF TypeOK, Statuses, Codes
        <4> QED
          BY <3>2, <4>1 DEF ReadStatus, View
      <3>3. CASE ReadFinished(c, j)
        <4>1. View("none", j, answer[c].status, finished[j], "None") \in Answer
          <5>1. /\ answer[c].status \in Statuses /\ answer[c].finished \in BOOLEAN
                /\ finished[j] \in BOOLEAN /\ exitCode[j] \in Codes
            BY DEF TypeOK, Answer, Statuses
          <5> QED
            BY <5>1, ViewType DEF Codes
        <4> QED
          BY <3>3, <4>1 DEF ReadFinished, View, AnswerInv, ReadStatusStands
      <3>4. CASE ReadExitCode(c, j)
        <4>1. View("job", j, answer[c].status, answer[c].finished, exitCode[j])
                \in Answer
          <5>1. /\ answer[c].status \in Statuses /\ answer[c].finished \in BOOLEAN
                /\ finished[j] \in BOOLEAN /\ exitCode[j] \in Codes
            BY DEF TypeOK, Answer, Statuses
          <5> QED
            BY <5>1, ViewType DEF Codes
        <4> QED
          BY <3>4, <4>1 DEF ReadExitCode, View, AnswerInv, ReadStatusStands
      <3> QED
        BY <1>3, <3>1, <3>2, <3>3, <3>4 DEF StartStep
    <2>3. /\ \A d \in Clients \ {c} : pc'[d] = pc[d]
          /\ serving[c] = j
      BY <1>3 DEF StartStep, StartThreadFails, ReadStatus, ReadFinished,
         ReadExitCode, TypeOK
    <2>4. ReadStatusStands'
      BY <1>1, <2>2, <2>3 DEF AnswerInv, ReadStatusStands, TypeOK
    <2>5. AnswersAreHonest'
      BY <1>1, <2>2 DEF AnswerInv, AnswersAreHonest, CodeBeforeStatus, TypeOK,
         Ended
    <2> QED
      BY <2>1, <2>4, <2>5 DEF AnswerInv
  <1> QED
    BY <1>2, <1>3

\* So are the answers of current, reset and the refusals.
LEMMA ReplyAnswers ==
    ASSUME TypeOK, AnswerInv, NEW c \in Clients,
           Refuse(c) \/ Current(c) \/ Reset(c) \/ ResetRefused(c)
    PROVE  AnswerInv'
  <1>1. /\ UNCHANGED <<status, exitCode, result, thread, pc, serving>>
        /\ pc[c] = "idle"
    BY DEF Refuse, Current, Reset, ResetRefused, Reply, states, execution
  <1>2. PICK new :
           /\ answer' = [answer EXCEPT ![c] = new]
           /\ new.status \in Ended =>
                new.job \in Jobs /\ new.status = status[new.job]
           /\ new.outcome = "job" =>
                new.job \in Jobs /\ new.exitCode = exitCode[new.job]
    <2>1. CASE Refuse(c) \/ Reset(c) \/ ResetRefused(c)
      <3>1. PICK o \in {"running", "cooldown", "reset"} : Reply(c, Told(o))
        BY <2>1 DEF Refuse, Reset, ResetRefused
      <3> QED
        <4>1. answer' = [answer EXCEPT ![c] = Told(o)]
          BY <3>1 DEF Reply
        <4>2. Told(o).status \notin Ended /\ Told(o).outcome # "job"
          BY DEF Told, View, Ended
        <4> QED
          BY <4>1, <4>2
    <2>2. CASE Current(c)
      <3>1. CASE Reply(c, Told("empty"))
        <4>1. answer' = [answer EXCEPT ![c] = Told("empty")]
          BY <3>1 DEF Reply
        <4>2. Told("empty").status \notin Ended /\ Told("empty").outcome # "job"
          BY DEF Told, View, Ended
        <4> QED
          BY <4>1, <4>2
      <3>2. CASE \E j \in Jobs :
                   Reply(c, View("job", j, status[j], finished[j], exitCode[j]))
        <4>1. PICK j \in Jobs :
                 Reply(c, View("job", j, status[j], finished[j], exitCode[j]))
          BY <3>2
        <4> DEFINE told == View("job", j, status[j], finished[j], exitCode[j])
        <4>2. answer' = [answer EXCEPT ![c] = told]
          BY <4>1 DEF Reply
        <4>3. /\ told.job = j /\ told.status = status[j]
              /\ told.exitCode = exitCode[j]
          BY DEF View
        <4> HIDE DEF told
        <4> QED
          BY <4>2, <4>3
      <3> QED
        BY <2>2, <3>1, <3>2 DEF Current
    <2> QED
      BY <2>1, <2>2
  <1>3. CodeBeforeStatus'
    BY <1>1 DEF AnswerInv, CodeBeforeStatus
  <1>4. ReadStatusStands'
    BY <1>1, <1>2 DEF AnswerInv, ReadStatusStands, TypeOK
  <1>5. AnswersAreHonest'
    BY <1>1, <1>2 DEF AnswerInv, AnswersAreHonest, CodeBeforeStatus, TypeOK, Ended
  <1> QED
    BY <1>3, <1>4, <1>5 DEF AnswerInv

\* The thread stores the exit code of a running job before its status.
LEMMA ThreadAnswers ==
    ASSUME TypeOK, SlotInv, AnswerInv, NEW j \in Jobs, ThreadStep(j) \/ ExitStep(j)
    PROVE  AnswerInv'
  <1>1. UNCHANGED <<answer, pc, serving>>
    BY DEF ThreadStep, ExitStep, Launch, LaunchRaises, Exit, Reap,
       CommunicateRaises, Acquire, StoreExitCode, StoreStatus, StoreFinished,
       handlers
  <1>2. CodeBeforeStatus'
    <2>1. CASE StoreExitCode(j)
      <3>1. status[j] = "RUNNING"
        BY <2>1 DEF StoreExitCode, SlotInv, ActiveHoldsSlot, Active
      <3> QED
        BY <2>1, <3>1 DEF StoreExitCode, Continue, AnswerInv, CodeBeforeStatus,
           TypeOK
    <2>2. CASE StoreStatus(j)
      BY <2>2 DEF StoreStatus, Continue, AnswerInv, CodeBeforeStatus, TypeOK
    <2>3. CASE ExitStep(j)
      <3>1. thread[j] = "waiting" /\ status[j] = "RUNNING"
        BY <2>3 DEF ExitStep, Exit, SlotInv, AliveIsWaitedFor, ActiveHoldsSlot,
           Active
      <3> QED
        BY <2>3, <3>1 DEF ExitStep, Exit, states, AnswerInv, CodeBeforeStatus,
           TypeOK
    <2>4. CASE \/ Launch(j) \/ LaunchRaises(j) \/ Reap(j) \/ CommunicateRaises(j)
               \/ Acquire(j) \/ StoreFinished(j)
      <3>1. UNCHANGED <<status, exitCode, result>>
        BY <2>4 DEF Launch, LaunchRaises, Reap, CommunicateRaises, Acquire,
           StoreFinished, states
      <3> QED
        BY <2>4, <3>1 DEF Launch, LaunchRaises, Reap, CommunicateRaises, Acquire,
           StoreFinished, Continue, AnswerInv, CodeBeforeStatus, TypeOK
    <2> QED
      BY <2>1, <2>2, <2>3, <2>4 DEF ThreadStep
  <1>3. \A i \in Jobs : status[i] \in Ended =>
            status'[i] = status[i] /\ result'[i] = result[i]
    <2>1. CASE StoreStatus(j)
      BY <2>1 DEF StoreStatus, SlotInv, ActiveHoldsSlot, Active, Ended, TypeOK
    <2>2. CASE ExitStep(j)
      BY <2>2 DEF ExitStep, Exit, states, SlotInv, AliveIsWaitedFor,
         ActiveHoldsSlot, Active, Ended, TypeOK
    <2>3. CASE ~StoreStatus(j) /\ ~ExitStep(j)
      BY <2>3 DEF ThreadStep, Launch, LaunchRaises, Reap, CommunicateRaises,
         Acquire, StoreExitCode, StoreFinished, states
    <2> QED
      BY <2>1, <2>2, <2>3
  <1> QED
    BY <1>1, <1>2, <1>3, AnswersKept DEF AnswerInv

\* A new job has no status yet that anybody could have read.
LEMMA AcceptAnswers ==
    ASSUME TypeOK, SlotInv, AnswerInv, NEW c \in Clients, NEW j \in Jobs,
           Accept(c, j)
    PROVE  AnswerInv'
  <1>1. /\ status' = [status EXCEPT ![j] = "RUNNING"]
        /\ status[j] = "none" /\ thread[j] = "none"
        /\ UNCHANGED <<exitCode, result, thread>>
        /\ answer' = [answer EXCEPT ![c] = Told("none")]
        /\ pc' = [pc EXCEPT ![c] = "spawn"]
        /\ serving' = [serving EXCEPT ![c] = j]
    BY DEF Accept, NextJob, SlotInv, FreshIsUntouched, execution
  <1>2. CodeBeforeStatus'
    BY <1>1 DEF AnswerInv, CodeBeforeStatus, TypeOK
  <1>3. ReadStatusStands'
    BY <1>1 DEF AnswerInv, ReadStatusStands, TypeOK, Told, View, Ended
  <1>4. AnswersAreHonest'
    BY <1>1 DEF AnswerInv, AnswersAreHonest, TypeOK, Told, View
  <1> QED
    BY <1>2, <1>3, <1>4 DEF AnswerInv

\* Whatever a client is told: SUCCESS comes with exit code zero and after the
\* process ended so, FAILED never comes with exit code zero.
THEOREM Honesty == Spec => []AnswersAreHonest
  <1>1. Init => AnswerInv
    BY DEF Init, AnswerInv, CodeBeforeStatus, ReadStatusStands, AnswersAreHonest,
       Told, View, Ended
  <1>2. TypeOK /\ SlotInv /\ AnswerInv /\ [Next]_vars => AnswerInv'
    <2> SUFFICES ASSUME TypeOK, SlotInv, AnswerInv, [Next]_vars
                 PROVE  AnswerInv'
      OBVIOUS
    <2>1. CASE \E c \in Clients, j \in Jobs : Accept(c, j)
      BY <2>1, AcceptAnswers
    <2>2. CASE \E c \in Clients, j \in Jobs : StartStep(c, j)
      BY <2>2, StartStepAnswers
    <2>3. CASE \E c \in Clients :
                 Refuse(c) \/ Current(c) \/ Reset(c) \/ ResetRefused(c)
      BY <2>3, ReplyAnswers
    <2>4. CASE \E j \in Jobs : ThreadStep(j) \/ ExitStep(j)
      BY <2>4, ThreadAnswers
    <2>5. CASE Restart
      BY <2>5 DEF Restart, AnswerInv, CodeBeforeStatus, ReadStatusStands,
         AnswersAreHonest, Told, View, Ended
    <2>6. CASE Tick \/ UNCHANGED vars
      <3>1. UNCHANGED <<status, exitCode, result, thread, answer, pc, serving>>
        BY <2>6 DEF Tick, vars, states, execution, handlers
      <3> QED
        BY <3>1 DEF AnswerInv, CodeBeforeStatus, ReadStatusStands,
           AnswersAreHonest
    <2> QED
      BY <2>1, <2>2, <2>3, <2>4, <2>5, <2>6 DEF Next, ClientStep
  <1>3. AnswerInv => AnswersAreHonest
    BY DEF AnswerInv
  <1> QED
    BY <1>1, <1>2, <1>3, TypeCorrect, SlotInvariant, PTL DEF Spec

-------------------------------------------------------------------------------
(* The scheduler: days and slots                                           *)

\* The hour t lies in the day Day(t).
LEMMA DayBounds ==
    ASSUME NEW t \in Nat
    PROVE  /\ Day(t) \in Nat
           /\ Day(t) * HoursPerDay <= t /\ t < Day(t) * HoursPerDay + HoursPerDay
  BY ScheduleAssumption, Z3 DEF Day

\* A later day begins at least HoursPerDay later.
LEMMA DaysApart ==
    ASSUME NEW d \in Nat, NEW e \in Nat, d < e
    PROVE  /\ d * HoursPerDay \in Nat /\ e * HoursPerDay \in Nat
           /\ d * HoursPerDay + HoursPerDay <= e * HoursPerDay
  <1>1. e = d + 1 + (e - d - 1) /\ e - d - 1 \in Nat
    OBVIOUS
  <1>2. ASSUME NEW k \in Nat
        PROVE  /\ d * HoursPerDay \in Nat /\ k * HoursPerDay \in Nat
               /\ (d + 1 + k) * HoursPerDay
                     = d * HoursPerDay + HoursPerDay + k * HoursPerDay
    BY ScheduleAssumption, Z3
  <1> QED
    BY <1>1, <1>2, ScheduleAssumption

\* The slots of the days before t's day have come, those of the days after it not.
LEMMA SlotOrder ==
    ASSUME NEW t \in Nat, NEW d \in Nat
    PROVE  /\ Slot(d) \in Nat
           /\ d < Day(t) => Slot(d) + MaxLate < t
           /\ Day(t) < d => t < Slot(d)
           /\ Slot(d) <= t /\ t <= Slot(d) + MaxLate => Day(t) = d
  <1>1. d * HoursPerDay \in Nat
    BY ScheduleAssumption, Z3
  <1>2. PICK today \in Nat : /\ today = Day(t) /\ today * HoursPerDay <= t
                             /\ t < today * HoursPerDay + HoursPerDay
    BY DayBounds
  <1>3. today * HoursPerDay \in Nat
    BY ScheduleAssumption, Z3
  <1>4. d < today => d * HoursPerDay + HoursPerDay <= t
    BY <1>1, <1>2, <1>3, DaysApart, ScheduleAssumption
  <1>5. today < d => t < d * HoursPerDay
    BY <1>1, <1>2, <1>3, DaysApart, ScheduleAssumption
  <1> QED
    BY <1>1, <1>2, <1>4, <1>5, ScheduleAssumption DEF Slot

\* A sleep that ends late ends before the slot of a later day.
LEMMA SlotsIncrease ==
    ASSUME NEW d \in Nat, NEW e \in Nat, d < e
    PROVE  Slot(d) + MaxLate < Slot(e)
  BY DaysApart, ScheduleAssumption DEF Slot

\* The day of the next run is a weekday whose slot is to come, and no weekday before
\* it has that.
LEMMA NextDayIsNext ==
    ASSUME NEW t \in Nat
    PROVE  /\ NextDay(t) \in Nat /\ ~Weekend(NextDay(t)) /\ t < Slot(NextDay(t))
           /\ \A d \in Nat : d < NextDay(t) /\ ~Weekend(d) => Slot(d) <= t
  <1> DEFINE S == {d \in Day(t) .. Day(t) + 3 : Slot(d) > t /\ ~Weekend(d)}
  <1>1. PICK today \in Nat : today = Day(t)
    BY DayBounds
  <1>2. S \subseteq {today, today + 1, today + 2, today + 3}
    BY <1>1
  <1>3. S # {}
    <2>1. \A d \in {today + 1, today + 2, today + 3} : t < Slot(d) /\ Slot(d) \in Nat
      BY <1>1, SlotOrder
    <2>2. \E d \in {today + 1, today + 2, today + 3} : ~Weekend(d)
      BY DEF Weekend
    <2> QED
      BY <1>1, <2>1, <2>2
  <1>4. \E m \in S : \A d \in S : m <= d
    <2> HIDE DEF S
    <2>1. \A d \in S : d \in Nat /\ today <= d /\ d <= today + 3
      BY <1>2
    <2>2. CASE \E d \in S : d <= today
      BY <2>1, <2>2
    <2>3. CASE \A d \in S : today + 1 <= d
      <3>1. CASE today + 1 \in S
        BY <2>3, <3>1
      <3>2. CASE today + 1 \notin S /\ today + 2 \in S
        BY <1>2, <2>3, <3>2
      <3>3. CASE today + 1 \notin S /\ today + 2 \notin S
        <4>1. \A d \in S : d = today + 3
          BY <1>2, <2>3, <3>3
        <4>2. today + 3 \in Int
          BY <1>1
        <4> QED
          BY <1>3, <4>1, <4>2
      <3> QED
        BY <3>1, <3>2, <3>3
    <2> QED
      BY <2>1, <2>2, <2>3
  <1>5. NextDay(t) \in S /\ \A d \in S : NextDay(t) <= d
    BY <1>4 DEF NextDay, Min
  <1>6. ASSUME NEW d \in Nat, d < NextDay(t), ~Weekend(d), ~(Slot(d) <= t)
        PROVE  FALSE
    <2>1. Slot(d) \in Nat /\ ~(d < today)
      BY <1>1, <1>6, SlotOrder, ScheduleAssumption
    <2>2. NextDay(t) \in Nat /\ NextDay(t) <= today + 3
      BY <1>2, <1>5
    <2>3. d \in S
      BY <1>1, <1>6, <2>1, <2>2
    <2> QED
      BY <1>5, <1>6, <2>2, <2>3
  <1> QED
    BY <1>1, <1>2, <1>5, <1>6

-------------------------------------------------------------------------------
(* The loop                                                                *)

\* The weekday d has its command, or a reason why not.
Explained(d) == d \in away \cup launches

\* Between the slot it waits for and the last one, the loop slept through no other.
Asleep ==
    \E d \in Nat :
        /\ scheduled = Slot(d) /\ ~Weekend(d) /\ now <= Slot(d) + MaxLate
        /\ \A e \in Nat : e < d /\ ~Weekend(e) => Explained(e)
        /\ \A e \in launches : e < d

\* A command runs for the day of its slot; every slot since has an explanation.
Awake ==
    /\ \A e \in Nat : ~Weekend(e) /\ Slot(e) <= now => Explained(e)
    /\ phase = "running" =>
          \E d \in launches : scheduled = Slot(d) /\ d \in Nat /\ Slot(d) <= now

\* The invariant: what the loop knows asleep and awake.
LoopInv ==
    /\ now \in Nat
    /\ phase \in {"down", "ready", "sleeping", "running"}
    /\ \A d \in launches : d \in Nat /\ Slot(d) <= now
    /\ phase = "sleeping" => Asleep
    /\ phase # "sleeping" => Awake

\* The loop starts while the container is down.
LEMMA InitLoop == ScheduleInit => LoopInv
  <1> SUFFICES ASSUME ScheduleInit
               PROVE  LoopInv
    OBVIOUS
  <1>1. \A e \in Nat : Slot(e) <= 0 => e \in SlotDays(0)
    <2> SUFFICES ASSUME NEW e \in Nat, Slot(e) <= 0
                 PROVE  e \in SlotDays(0)
      OBVIOUS
    <2>1. Slot(e) \in Nat
      BY SlotOrder
    <2>2. 0 <= Slot(e) + MaxLate
      BY <2>1, ScheduleAssumption
    <2>3. Day(0) = e
      BY <2>2, SlotOrder
    <2> QED
      BY <2>2, <2>3 DEF SlotDays
  <1> QED
    BY <1>1 DEF ScheduleInit, LoopInv, Awake, Explained

\* The next run is planned behind every slot that has come.
LEMMA PlanLoop == LoopInv /\ Plan => LoopInv'
  <1> SUFFICES ASSUME LoopInv, Plan
               PROVE  LoopInv'
    OBVIOUS
  <1>1. PICK d \in Nat : d = NextDay(now)
    BY NextDayIsNext DEF LoopInv
  <1>2. /\ ~Weekend(d) /\ now < Slot(d) /\ Slot(d) \in Nat /\ now \in Nat
        /\ \A e \in Nat : e < d /\ ~Weekend(e) => Slot(e) <= now
    BY <1>1, NextDayIsNext, SlotOrder DEF LoopInv
  <1>3. ASSUME NEW e \in launches, ~(e < d)
        PROVE  FALSE
    <2>1. e \in Nat /\ Slot(e) <= now /\ Slot(e) \in Nat
      BY SlotOrder DEF LoopInv
    <2>2. CASE e = d
      BY <1>2, <2>1, <2>2
    <2>3. CASE d < e
      <3>1. Slot(d) + MaxLate < Slot(e)
        BY <2>1, <2>3, SlotsIncrease
      <3> QED
        BY <1>2, <2>1, <3>1, ScheduleAssumption
    <2> QED
      BY <1>3, <2>1, <2>2, <2>3
  <1>4. /\ scheduled' = Slot(d) /\ phase' = "sleeping" /\ phase = "ready"
        /\ UNCHANGED <<now, launches, away>>
    BY <1>1 DEF Plan, NextScheduledRun
  <1>5. now <= Slot(d) + MaxLate
    BY <1>2, ScheduleAssumption
  <1>6. Asleep'
    <2>1. \A e \in Nat : e < d /\ ~Weekend(e) => Explained(e)
      BY <1>2, <1>4 DEF LoopInv, Awake
    <2> QED
      BY <1>2, <1>3, <1>4, <1>5, <2>1 DEF Asleep, Explained
  <1> QED
    BY <1>4, <1>6 DEF LoopInv

\* The day of the command is that of the slot it was planned for.
LEMMA LaunchDay ==
    ASSUME LoopInv, RunCommand
    PROVE  /\ EndDate \in Nat /\ EndDate = Day(scheduled) /\ scheduled = Slot(EndDate)
           /\ Slot(EndDate) <= now /\ ~Weekend(EndDate)
           /\ \A e \in launches : e < EndDate
           /\ \A e \in Nat : e < EndDate /\ ~Weekend(e) => Explained(e)
           /\ now <= Slot(EndDate) + MaxLate
  <1>1. phase = "sleeping" /\ now >= scheduled /\ now \in Nat
    BY DEF RunCommand, LoopInv
  <1>2. PICK d \in Nat : /\ scheduled = Slot(d) /\ ~Weekend(d) /\ now <= Slot(d) + MaxLate
                         /\ \A e \in Nat : e < d /\ ~Weekend(e) => Explained(e)
                         /\ \A e \in launches : e < d
    BY <1>1 DEF LoopInv, Asleep
  <1>3. Slot(d) \in Nat
    BY SlotOrder
  <1>4. Day(now) = d
    BY <1>1, <1>2, <1>3, SlotOrder
  <1>5. Day(Slot(d)) = d
    BY <1>3, SlotOrder, ScheduleAssumption
  <1> QED
    BY <1>1, <1>2, <1>3, <1>4, <1>5 DEF EndDate

\* With its command the slot that was waited for is explained too.
LEMMA LaunchLoop == LoopInv /\ RunCommand => LoopInv'
  <1> SUFFICES ASSUME LoopInv, RunCommand
               PROVE  LoopInv'
    OBVIOUS
  <1>1. /\ phase' = "running" /\ launches' = launches \cup {EndDate}
        /\ UNCHANGED <<now, scheduled, away>> /\ now \in Nat
    BY DEF RunCommand, LoopInv
  <1>2. ASSUME NEW e \in Nat, ~Weekend(e), Slot(e) <= now
        PROVE  Explained(e)'
    <2>1. e < EndDate \/ e = EndDate
      <3>1. EndDate < e => Slot(EndDate) + MaxLate < Slot(e)
        BY LaunchDay, SlotsIncrease
      <3> QED
        <4>1. /\ EndDate \in Nat /\ now <= Slot(EndDate) + MaxLate
              /\ Slot(e) \in Nat /\ Slot(EndDate) \in Nat
          BY LaunchDay, SlotOrder
        <4>2. ~(EndDate < e)
          BY <1>1, <1>2, <3>1, <4>1, ScheduleAssumption
        <4> QED
          BY <4>1, <4>2
    <2> QED
      BY <1>1, <1>2, <2>1, LaunchDay DEF Explained
  <1>3. Awake'
    BY <1>1, <1>2, LaunchDay DEF Awake, Slot
  <1>4. \A d \in launches' : d \in Nat /\ Slot(d) <= now
    BY <1>1, LaunchDay DEF LoopInv
  <1> QED
    BY <1>1, <1>3, <1>4 DEF LoopInv, Slot

\* While the clock runs, a slot that comes finds the loop asleep for it, or busy, or
\* down.
LEMMA TickLoop == LoopInv /\ HourPasses => LoopInv'
  <1> SUFFICES ASSUME LoopInv, HourPasses
               PROVE  LoopInv'
    OBVIOUS
  <1>1. /\ now' = now + 1 /\ now \in Nat /\ now' \in Nat
        /\ UNCHANGED <<phase, scheduled, launches>> /\ phase # "ready"
        /\ phase = "sleeping" => now < scheduled + MaxLate
        /\ away \subseteq away'
    BY DEF HourPasses, LoopInv
  <1>2. \A d \in launches : d \in Nat /\ Slot(d) <= now'
    BY <1>1, SlotOrder DEF LoopInv
  <1>3. CASE phase = "sleeping"
    <2>1. PICK d \in Nat : /\ scheduled = Slot(d) /\ ~Weekend(d)
                           /\ \A e \in Nat : e < d /\ ~Weekend(e) => Explained(e)
                           /\ \A e \in launches : e < d
      BY <1>3 DEF LoopInv, Asleep
    <2>2. now' <= Slot(d) + MaxLate
      <3>1. Slot(d) \in Nat
        BY SlotOrder
      <3> QED
        BY <1>1, <1>3, <2>1, <3>1, ScheduleAssumption
    <2>3. \A e \in Nat : e < d /\ ~Weekend(e) => Explained(e)'
      BY <1>1, <2>1 DEF Explained
    <2>4. Asleep'
      BY <1>1, <2>1, <2>2, <2>3 DEF Asleep, Slot
    <2> QED
      BY <1>1, <1>2, <1>3, <2>4 DEF LoopInv, Slot
  <1>4. CASE phase # "sleeping"
    <2>1. ASSUME NEW e \in Nat, ~Weekend(e), Slot(e) <= now'
          PROVE  Explained(e)'
      <3>1. CASE Slot(e) <= now
        BY <1>1, <1>4, <2>1, <3>1 DEF LoopInv, Awake, Explained
      <3>2. CASE ~(Slot(e) <= now)
        <4>1. Slot(e) = now' /\ now' <= Slot(e) + MaxLate /\ Slot(e) \in Nat
          <5>1. Slot(e) \in Nat
            BY SlotOrder
          <5> QED
            BY <1>1, <2>1, <3>2, <5>1, ScheduleAssumption
        <4>2. Day(now') = e
          BY <1>1, <4>1, SlotOrder
        <4>3. e \in SlotDays(now')
          BY <2>1, <4>1, <4>2 DEF SlotDays
        <4>4. CASE phase = "down"
          <5>1. e \in away'
            BY <1>1, <4>3, <4>4 DEF HourPasses
          <5> QED
            BY <5>1 DEF Explained
        <4>5. CASE phase = "running"
          <5>1. PICK d \in launches : scheduled = Slot(d) /\ d \in Nat /\ Slot(d) <= now
            BY <1>4, <4>5 DEF LoopInv, Awake
          <5>2. Day(scheduled) = d
            BY <5>1, SlotOrder, ScheduleAssumption
          <5>3. CASE d < e
            <6>1. e \in away'
              BY <1>1, <4>3, <4>5, <5>2, <5>3 DEF HourPasses
            <6> QED
              BY <6>1 DEF Explained
          <5>4. CASE ~(d < e)
            <6>1. ~(e < d)
              BY <1>1, <3>2, <5>1, <4>1, SlotsIncrease, SlotOrder, ScheduleAssumption
            <6>2. e = d
              BY <5>1, <5>4, <6>1
            <6> QED
              BY <1>1, <5>1, <6>2 DEF Explained
          <5> QED
            BY <5>3, <5>4
        <4> QED
          BY <1>1, <1>4, <4>4, <4>5 DEF LoopInv
      <3> QED
        BY <3>1, <3>2
    <2>2. phase = "running" =>
              \E d \in launches : scheduled = Slot(d) /\ d \in Nat /\ Slot(d) <= now'
      BY <1>1, <1>4, SlotOrder DEF LoopInv, Awake
    <2> QED
      BY <1>1, <1>2, <1>4, <2>1, <2>2 DEF LoopInv, Awake, Slot
  <1> QED
    BY <1>3, <1>4

\* A stop explains the slot that the loop was about to serve.
LEMMA StopLoop == LoopInv /\ Stop => LoopInv'
  <1> SUFFICES ASSUME LoopInv, Stop
               PROVE  LoopInv'
    OBVIOUS
  <1>1. /\ phase' = "down" /\ UNCHANGED <<now, launches>> /\ now \in Nat
        /\ away' = away \cup SlotDays(now)
    BY DEF Stop, LoopInv
  <1>2. ASSUME NEW e \in Nat, ~Weekend(e), Slot(e) <= now
        PROVE  Explained(e)'
    <2>1. CASE phase # "sleeping"
      BY <1>1, <1>2, <2>1 DEF LoopInv, Awake, Explained
    <2>2. CASE phase = "sleeping"
      <3>1. PICK d \in Nat : /\ now <= Slot(d) + MaxLate
                             /\ \A f \in Nat : f < d /\ ~Weekend(f) => Explained(f)
        BY <2>2 DEF LoopInv, Asleep
      <3>2. Slot(d) \in Nat /\ Slot(e) \in Nat
        BY SlotOrder
      <3>3. CASE e < d
        BY <1>1, <1>2, <3>1, <3>3 DEF Explained
      <3>4. CASE e = d
        <4>1. Day(now) = e
          BY <1>1, <1>2, <3>1, <3>4, SlotOrder
        <4>2. e \in SlotDays(now)
          BY <1>2, <3>1, <3>4, <4>1 DEF SlotDays
        <4> QED
          BY <1>1, <4>2 DEF Explained
      <3>5. CASE d < e
        <4>1. Slot(d) + MaxLate < Slot(e)
          BY <3>5, SlotsIncrease
        <4> QED
          BY <1>1, <1>2, <3>1, <3>2, <4>1, ScheduleAssumption
      <3> QED
        BY <3>3, <3>4, <3>5
    <2> QED
      BY <2>1, <2>2
  <1> QED
    BY <1>1, <1>2 DEF LoopInv, Awake, Slot

\* Every step keeps the invariant.
LEMMA LoopStep == LoopInv /\ [ScheduleNext]_scheduleVars => LoopInv'
  <1> SUFFICES ASSUME LoopInv, [ScheduleNext]_scheduleVars
               PROVE  LoopInv'
    OBVIOUS
  <1>1. ASSUME Return \/ Start
        PROVE  LoopInv'
    BY <1>1 DEF Return, Start, LoopInv, Awake, Explained, Slot
  <1>2. CASE UNCHANGED scheduleVars
    BY <1>2 DEF scheduleVars, LoopInv, Asleep, Awake, Explained, Slot
  <1> QED
    BY <1>1, <1>2, PlanLoop, LaunchLoop, TickLoop, StopLoop DEF ScheduleNext, Rest

\* The loop's invariant holds always.
LEMMA Loop == ScheduleSpec => []LoopInv
  BY InitLoop, LoopStep, PTL DEF ScheduleSpec

\* MissedSlotsAreExplained: a weekday that got no command found the loop busy with an
\* earlier one, or the container down.
THEOREM Explanation == ScheduleSpec => []MissedSlotsAreExplained
  <1>1. LoopInv => MissedSlotsAreExplained
    <2> SUFFICES ASSUME LoopInv, NEW d \in 0 .. Day(now), d % 7 < 5, Slot(d) + MaxLate < now
                 PROVE  Explained(d)
      BY DEF MissedSlotsAreExplained, Explained
    <2>1. d \in Nat /\ now \in Nat /\ Slot(d) \in Nat /\ ~Weekend(d)
      <3>1. now \in Nat /\ Day(now) \in Nat
        BY DayBounds DEF LoopInv
      <3>2. d \in Nat
        BY <3>1
      <3> QED
        BY <3>1, <3>2, SlotOrder DEF Weekend
    <2>2. CASE phase # "sleeping"
      BY <2>1, <2>2, ScheduleAssumption DEF LoopInv, Awake
    <2>3. CASE phase = "sleeping"
      <3>1. PICK e \in Nat : /\ now <= Slot(e) + MaxLate
                             /\ \A f \in Nat : f < e /\ ~Weekend(f) => Explained(f)
        BY <2>3 DEF LoopInv, Asleep
      <3>2. Slot(e) \in Nat
        BY SlotOrder
      <3>3. CASE d < e
        BY <2>1, <3>1, <3>3
      <3>4. CASE d = e
        BY <2>1, <3>1, <3>4, ScheduleAssumption
      <3>5. CASE e < d
        <4>1. Slot(e) + MaxLate < Slot(d)
          BY <2>1, <3>5, SlotsIncrease
        <4> QED
          BY <2>1, <3>1, <3>2, <4>1, ScheduleAssumption
      <3> QED
        BY <2>1, <3>3, <3>4, <3>5
    <2> QED
      BY <2>2, <2>3
  <1> QED
    BY <1>1, Loop, PTL

\* OneLaunchPerWeekday: a command is for the weekday of its slot, and for a later one
\* than every command before it.
THEOREM Launches == ScheduleSpec => OneLaunchPerWeekday
  <1>1. LoopInv /\ [ScheduleNext]_scheduleVars =>
            [RunCommand => /\ EndDate = Day(scheduled) /\ EndDate % 7 \notin {5, 6}
                       /\ \A d \in launches : d < EndDate]_scheduleVars
    BY LaunchDay DEF Weekend
  <1> QED
    BY <1>1, Loop, PTL DEF ScheduleSpec, OneLaunchPerWeekday
===============================================================================
