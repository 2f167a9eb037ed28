------------------------------ MODULE JobManager ------------------------------
(***************************************************************************)
(* The dashboard's job runner of app/api/jobs.py: HTTP handler threads     *)
(* that start, poll and reset the one job slot of the API process, the     *)
(* daemon thread of each accepted job, and the CLI process that thread     *)
(* waits for.                                                              *)
(*                                                                         *)
(* The manager's lock serialises start, current and reset with each other  *)
(* and with the thread that stores a result.  Each of the former is one    *)
(* step that needs the lock free; the latter holds it while it stores one  *)
(* field after the other, because start builds its answer WITHOUT the lock *)
(* and may read the fields in between.                                     *)
(*                                                                         *)
(* The container's main process is the API server: when it stops, its      *)
(* threads and the CLI process are gone and a new server starts over.      *)
(***************************************************************************)
EXTENDS Integers

CONSTANTS Clients,     \* HTTP handler threads
          Cooldown,    \* cooldown_seconds
          BootClocks,  \* the readings of the monotonic clock at start-up
          MaxClock,    \* bound: the last reading of the clock
          MaxJobs,     \* bound: accepted jobs
          MaxServers,  \* bound: server lifetimes
          MaxFaults    \* bound: thread, spawn and pipe failures injected

ASSUME ConstantsAssumption ==
    /\ Cooldown \in Nat /\ MaxClock \in Nat /\ MaxJobs \in Nat
    /\ BootClocks \subseteq 0 .. MaxClock
    /\ MaxServers \in Nat \ {0} /\ MaxFaults \in Nat

VARIABLES
    clock,        \* time.monotonic(), the uptime of the host
    (* JobManager *)
    current,      \* the job of _current, 0 for None
    lastStarted,  \* _last_started
    lock,         \* the job whose thread holds _lock, 0 if it is free
    (* JobState of each job *)
    status, exitCode, finished,
    (* the thread of each job, and the CLI process *)
    thread, process, result,
    (* the HTTP handlers *)
    pc, serving, answer,
    (* history *)
    server,       \* the number of server lifetimes
    startedAt,    \* when a job was accepted, and by which server
    orphans,      \* jobs whose thread could not be started
    faults

slot == <<current, lastStarted, lock>>
states == <<status, exitCode, finished>>
execution == <<thread, process, result>>
handlers == <<pc, serving, answer>>
history == <<server, startedAt, orphans, faults>>
vars == <<clock, slot, states, execution, handlers, history>>

Jobs == 1 .. MaxJobs
Codes == {"None", "zero", "nonzero"}

\* What a client was told of a job: the fields of public(), or a refusal.
Answer == [outcome : {"none", "job", "empty", "reset", "running", "cooldown",
                      "error"},
           job : Jobs \cup {0}, status : {"none", "RUNNING", "SUCCESS", "FAILED"},
           finished : BOOLEAN, exitCode : Codes]
View(outcome, j, st, fin, code) == [outcome |-> outcome, job |-> j, status |-> st,
                                    finished |-> fin, exitCode |-> code]
Told(outcome) == View(outcome, 0, "none", FALSE, "None")

Init == /\ clock \in BootClocks
        /\ current = 0 /\ lastStarted = 0 /\ lock = 0
        /\ status = [j \in Jobs |-> "none"]
        /\ exitCode = [j \in Jobs |-> "None"]
        /\ finished = [j \in Jobs |-> FALSE]
        /\ thread = [j \in Jobs |-> "none"]
        /\ process = [j \in Jobs |-> "none"]
        /\ result = [j \in Jobs |-> "None"]
        /\ pc = [c \in Clients |-> "idle"]
        /\ serving = [c \in Clients |-> 0]
        /\ answer = [c \in Clients |-> Told("none")]
        /\ server = 1
        /\ startedAt = [j \in Jobs |-> [time |-> 0, server |-> 0]]
        /\ orphans = {}
        /\ faults = 0

\* _current is a job that still runs: start and reset refuse.
SlotTaken == \E j \in Jobs : current = j /\ status[j] = "RUNNING"

\* The cooldown counts from the last accepted job, or from the boot of the host.
CoolingDown == clock - lastStarted < Cooldown

NextJob(j) == /\ startedAt[j].server = 0
              /\ \A i \in Jobs : i < j => startedAt[i].server # 0

Fault == faults < MaxFaults /\ faults' = faults + 1

\* A handler of c answers at once.
Reply(c, told) == /\ answer' = [answer EXCEPT ![c] = told]
                  /\ UNCHANGED <<pc, serving>>

-------------------------------------------------------------------------------
(* start                                                                   *)

\* The critical section of start accepts the request.
Accept(c, j) ==
    /\ pc[c] = "idle" /\ lock = 0
    /\ ~SlotTaken /\ ~CoolingDown
    /\ NextJob(j)
    /\ current' = j
    /\ lastStarted' = clock
    /\ status' = [status EXCEPT ![j] = "RUNNING"]
    /\ startedAt' = [startedAt EXCEPT ![j] = [time |-> clock, server |-> server]]
    /\ pc' = [pc EXCEPT ![c] = "spawn"]
    /\ serving' = [serving EXCEPT ![c] = j]
    /\ answer' = [answer EXCEPT ![c] = Told("none")]
    /\ UNCHANGED <<clock, lock, exitCode, finished, execution, server, orphans,
                   faults>>

\* It refuses: 409 while a job runs, else 429 within the cooldown.
Refuse(c) ==
    /\ pc[c] = "idle" /\ lock = 0
    /\ \/ SlotTaken /\ Reply(c, Told("running"))
       \/ ~SlotTaken /\ CoolingDown /\ Reply(c, Told("cooldown"))
    /\ UNCHANGED <<clock, slot, states, execution, history>>

\* Thread(...).start(), after the lock was released.
StartThread(c, j) ==
    /\ pc[c] = "spawn" /\ serving[c] = j
    /\ thread' = [thread EXCEPT ![j] = "ready"]
    /\ pc' = [pc EXCEPT ![c] = "status"]
    /\ UNCHANGED <<clock, slot, states, process, result, serving, answer,
                   history>>

\* The interpreter cannot start a thread: the request fails with a server error
\* and the job stays RUNNING in the slot.
StartThreadFails(c, j) ==
    /\ pc[c] = "spawn" /\ serving[c] = j
    /\ Fault
    /\ orphans' = orphans \cup {j}
    /\ pc' = [pc EXCEPT ![c] = "idle"]
    /\ answer' = [answer EXCEPT ![c] = Told("error")]
    /\ UNCHANGED <<clock, slot, states, execution, serving, server, startedAt>>

\* public() copies the fields in the order of the class, without the lock:
\* status first, then finished_at, then exit_code.
ReadStatus(c, j) ==
    /\ pc[c] = "status" /\ serving[c] = j
    /\ answer' = [answer EXCEPT ![c] = View("none", j, status[j], FALSE, "None")]
    /\ pc' = [pc EXCEPT ![c] = "finished"]
    /\ UNCHANGED <<clock, slot, states, execution, serving, history>>

ReadFinished(c, j) ==
    /\ pc[c] = "finished" /\ serving[c] = j
    /\ answer' = [answer EXCEPT ![c] =
                    View("none", j, answer[c].status, finished[j], "None")]
    /\ pc' = [pc EXCEPT ![c] = "code"]
    /\ UNCHANGED <<clock, slot, states, execution, serving, history>>

ReadExitCode(c, j) ==
    /\ pc[c] = "code" /\ serving[c] = j
    /\ answer' = [answer EXCEPT ![c] =
         View("job", j, answer[c].status, answer[c].finished, exitCode[j])]
    /\ pc' = [pc EXCEPT ![c] = "idle"]
    /\ UNCHANGED <<clock, slot, states, execution, serving, history>>

-------------------------------------------------------------------------------
(* current and reset                                                       *)

Current(c) ==
    /\ pc[c] = "idle" /\ lock = 0
    /\ \/ current = 0 /\ Reply(c, Told("empty"))
       \/ \E j \in Jobs :
            /\ current = j
            /\ Reply(c, View("job", j, status[j], finished[j], exitCode[j]))
    /\ UNCHANGED <<clock, slot, states, execution, history>>

\* Mutants: reset ends the cooldown; it does not look whether the job runs.
ResetCooldown(c) ==
    /\ pc[c] = "idle" /\ lock = 0
    /\ ~SlotTaken
    /\ current' = 0 /\ lastStarted' = 0
    /\ Reply(c, Told("reset"))
    /\ UNCHANGED <<clock, lock, states, execution, history>>

ResetRunning(c) ==
    /\ pc[c] = "idle" /\ lock = 0
    /\ current' = 0
    /\ Reply(c, Told("reset"))
    /\ UNCHANGED <<clock, lastStarted, lock, states, execution, history>>

\* reset empties the slot of a finished job and keeps the cooldown.
Reset(c) ==
    /\ pc[c] = "idle" /\ lock = 0
    /\ ~SlotTaken
    /\ current' = 0
    /\ Reply(c, Told("reset"))
    /\ UNCHANGED <<clock, lastStarted, lock, states, execution, history>>

ResetRefused(c) ==
    /\ pc[c] = "idle" /\ lock = 0
    /\ SlotTaken
    /\ Reply(c, Told("running"))
    /\ UNCHANGED <<clock, slot, states, execution, history>>

-------------------------------------------------------------------------------
(* _execute                                                                *)

Continue(j, step) == thread' = [thread EXCEPT ![j] = step]

\* subprocess.run starts the CLI command.
Launch(j) ==
    /\ thread[j] = "ready"
    /\ Continue(j, "waiting")
    /\ process' = [process EXCEPT ![j] = "alive"]
    /\ UNCHANGED <<clock, slot, states, result, handlers, history>>

\* Mutant: the exception ends the thread.
LaunchRaisesUncaught(j) ==
    /\ thread[j] = "ready"
    /\ Fault
    /\ Continue(j, "ended")
    /\ UNCHANGED <<clock, slot, states, process, result, handlers, server,
                   startedAt, orphans>>

\* It raises: the command is not found, or no process can be forked.
LaunchRaises(j) ==
    /\ thread[j] = "ready"
    /\ Fault
    /\ Continue(j, "raised")
    /\ UNCHANGED <<clock, slot, states, process, result, handlers, server,
                   startedAt, orphans>>

\* The CLI process ends.
Exit(j, code) ==
    /\ process[j] = "alive"
    /\ process' = [process EXCEPT ![j] = "exited"]
    /\ result' = [result EXCEPT ![j] = code]
    /\ UNCHANGED <<clock, slot, states, thread, handlers, history>>

\* subprocess.run returns the code of the process.
Reap(j) ==
    /\ thread[j] = "waiting" /\ process[j] = "exited"
    /\ Continue(j, "returned")
    /\ UNCHANGED <<clock, slot, states, process, result, handlers, history>>

\* It raises while it waits (undecodable output): run kills the process first.
CommunicateRaises(j) ==
    /\ thread[j] = "waiting"
    /\ Fault
    /\ Continue(j, "raised")
    /\ process' = [process EXCEPT ![j] = "exited"]
    /\ UNCHANGED <<clock, slot, states, result, handlers, server, startedAt,
                   orphans>>

\* Mutant: the exit code is not stored.
AcquireForStatus(j) ==
    /\ lock = 0
    /\ \/ thread[j] = "returned" /\ Continue(j, "status")
       \/ thread[j] = "raised" /\ Continue(j, "failed")
    /\ lock' = j
    /\ UNCHANGED <<clock, current, lastStarted, states, process, result,
                   handlers, history>>

\* The thread takes the lock to store a result, or an exception.
Acquire(j) ==
    /\ lock = 0
    /\ \/ thread[j] = "returned" /\ Continue(j, "code")
       \/ thread[j] = "raised" /\ Continue(j, "failed")
    /\ lock' = j
    /\ UNCHANGED <<clock, current, lastStarted, states, process, result,
                   handlers, history>>

StoreExitCode(j) ==
    /\ thread[j] = "code"
    /\ exitCode' = [exitCode EXCEPT ![j] = result[j]]
    /\ Continue(j, "status")
    /\ UNCHANGED <<clock, slot, status, finished, process, result, handlers,
                   history>>

\* Mutant: the exit code is stored as the status.
StoreCodeAsStatus(j) ==
    /\ thread[j] \in {"status", "failed"}
    /\ status' = [status EXCEPT ![j] = result[j]]
    /\ Continue(j, "finish")
    /\ UNCHANGED <<clock, slot, exitCode, finished, process, result, handlers,
                   history>>

StoreStatus(j) ==
    /\ \/ /\ thread[j] = "status"
          /\ status' = [status EXCEPT ![j] = IF result[j] = "zero"
                                             THEN "SUCCESS" ELSE "FAILED"]
       \/ /\ thread[j] = "failed"
          /\ status' = [status EXCEPT ![j] = "FAILED"]
    /\ Continue(j, "finish")
    /\ UNCHANGED <<clock, slot, exitCode, finished, process, result, handlers,
                   history>>

\* finished_at is stored last; the lock is released and the thread ends.
StoreFinished(j) ==
    /\ thread[j] = "finish"
    /\ finished' = [finished EXCEPT ![j] = TRUE]
    /\ Continue(j, "ended")
    /\ lock' = 0
    /\ UNCHANGED <<clock, current, lastStarted, status, exitCode, process,
                   result, handlers, history>>

-------------------------------------------------------------------------------
(* The host                                                                *)

Tick == /\ clock < MaxClock
        /\ clock' = clock + 1
        /\ UNCHANGED <<slot, states, execution, handlers, history>>

\* The API container restarts: the manager, every thread and every CLI process
\* of the old server are gone.
Restart ==
    /\ server < MaxServers
    /\ server' = server + 1
    /\ current' = 0 /\ lastStarted' = 0 /\ lock' = 0
    /\ status' = [j \in Jobs |-> "none"]
    /\ exitCode' = [j \in Jobs |-> "None"]
    /\ finished' = [j \in Jobs |-> FALSE]
    /\ thread' = [j \in Jobs |-> "none"]
    /\ process' = [j \in Jobs |-> "none"]
    /\ result' = [j \in Jobs |-> "None"]
    /\ pc' = [c \in Clients |-> "idle"]
    /\ serving' = [c \in Clients |-> 0]
    /\ answer' = [c \in Clients |-> Told("none")]
    /\ orphans' = {}
    /\ UNCHANGED <<clock, startedAt, faults>>

-------------------------------------------------------------------------------
StartStep(c, j) == \/ StartThread(c, j) \/ StartThreadFails(c, j)
                   \/ ReadStatus(c, j) \/ ReadFinished(c, j)
                   \/ ReadExitCode(c, j)

ClientStep(c) == \/ \E j \in Jobs : Accept(c, j)
                 \/ Refuse(c) \/ Current(c) \/ Reset(c) \/ ResetRefused(c)

ThreadStep(j) == \/ Launch(j) \/ LaunchRaises(j)
                 \/ Reap(j) \/ CommunicateRaises(j)
                 \/ Acquire(j)
                 \/ StoreExitCode(j) \/ StoreStatus(j) \/ StoreFinished(j)

ExitStep(j) == \E code \in {"zero", "nonzero"} : Exit(j, code)

Next == \/ \E c \in Clients : ClientStep(c) \/ \E j \in Jobs : StartStep(c, j)
        \/ \E j \in Jobs : ThreadStep(j) \/ ExitStep(j)
        \/ Tick
        \/ Restart

Spec == Init /\ [][Next]_vars

\* Started threads and accepted handlers are scheduled, and a CLI command ends
\* (every provider call it makes is bounded by IDX_TOTAL_TIMEOUT).
FairSpec == /\ Spec
            /\ \A j \in Jobs : WF_vars(ThreadStep(j)) /\ WF_vars(ExitStep(j))
            /\ \A c \in Clients : WF_vars(\E j \in Jobs : StartStep(c, j))

-------------------------------------------------------------------------------
(* Properties                                                              *)

TypeOK ==
    /\ clock \in 0 .. MaxClock
    /\ current \in Jobs \cup {0} /\ lock \in Jobs \cup {0}
    /\ lastStarted \in 0 .. MaxClock
    /\ status \in [Jobs -> {"none", "RUNNING", "SUCCESS", "FAILED"}]
    /\ exitCode \in [Jobs -> Codes]
    /\ finished \in [Jobs -> BOOLEAN]
    /\ thread \in [Jobs -> {"none", "ready", "waiting", "returned", "raised",
                            "code", "failed", "status", "finish", "ended"}]
    /\ process \in [Jobs -> {"none", "alive", "exited"}]
    /\ result \in [Jobs -> Codes]
    /\ pc \in [Clients -> {"idle", "spawn", "status", "finished", "code"}]
    /\ serving \in [Clients -> Jobs \cup {0}]
    /\ answer \in [Clients -> Answer]
    /\ server \in 1 .. MaxServers
    /\ startedAt \in [Jobs -> [time : 0 .. MaxClock, server : 0 .. MaxServers]]
    /\ orphans \subseteq Jobs
    /\ faults \in 0 .. MaxFaults

\* While the CLI process of a job lives, the slot shows that job as RUNNING: no
\* second job can start, reset cannot hide it, and a dashboard that is reopened
\* finds it.
LiveProcessHoldsSlot ==
    \A j \in Jobs : process[j] = "alive" => current = j /\ status[j] = "RUNNING"

\* Two jobs accepted by one server start at least the cooldown apart, resets,
\* failures and early ends notwithstanding.
StartsAreSpaced ==
    \A i, j \in Jobs :
        /\ i < j
        /\ startedAt[i].server = startedAt[j].server
        /\ startedAt[j].server # 0
        => startedAt[j].time - startedAt[i].time >= Cooldown

\* Whatever a client was told of a job, even by the answer of start that is
\* read without the lock: SUCCESS comes with exit code zero and only after the
\* process ended so, and FAILED never comes with exit code zero.
AnswersAreHonest ==
    \A c \in Clients : answer[c].outcome = "job" =>
        /\ answer[c].status = "SUCCESS" =>
             answer[c].exitCode = "zero" /\ result[answer[c].job] = "zero"
        /\ answer[c].status = "FAILED" => answer[c].exitCode # "zero"

\* Every job leaves the state RUNNING, unless its thread could not be started.
JobsEnd ==
    \A j \in Jobs :
        status[j] = "RUNNING" ~> status[j] # "RUNNING" \/ j \in orphans
===============================================================================
