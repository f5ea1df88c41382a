---------------------------- MODULE ParallelPool ----------------------------
(***************************************************************************)
(* The parallel run of the PHP engine: ParallelFileProcessor::check with   *)
(* ParallelProcess and ProcessPool on the side of the main process, and    *)
(* WorkerCommand with WorkerRunner in each sub-process.                    *)
(*                                                                         *)
(* The main process is one event loop, so each callback is one action.     *)
(* The jobs (chunks of files) are numbered in the order they are popped    *)
(* from the reversed schedule.  A worker that is busy reads nothing, and   *)
(* the main process sends a request only after reading the worker's last   *)
(* message: at most one message is on a worker's wire.                     *)
(***************************************************************************)
EXTENDS Naturals, FiniteSets

CONSTANTS
    Worker,     \* the sub-processes of the schedule
    NumJobs,    \* how many chunks the schedule has
    Limit,      \* SYSTEM_ERROR_LIMIT
    MaxErrors,  \* the most files of one chunk that end in a system error
    Faults      \* what may go wrong: "crash", "kill", "broken", "name", "long",
                \* or "kill at work", a kill of a worker that has a job only

Jobs == 1 .. NumJobs

(* ScheduleFactory: no more processes than jobs; the application does not  *)
(* come here without files.                                                *)
ASSUME ScheduleAssumption ==
    /\ NumJobs \in Nat \ {0} /\ Limit \in Nat \ {0} /\ MaxErrors \in Nat
    /\ IsFiniteSet(Worker) /\ Worker # {} /\ Cardinality(Worker) <= NumJobs
    /\ Faults \subseteq {"crash", "kill", "kill at work", "broken", "name", "long"}

VARIABLES
    \* the main process
    next,       \* the job popped next; $jobs is next .. NumJobs
    pool,       \* the identifiers in ProcessPool
    serverOpen, \* the TCP server still listens
    link,       \* its end of each connection: "none" before bindConnection
    timer,      \* whether the time-out of each ParallelProcess is armed
    reaped,     \* the workers whose EXIT event was handled
    answered,   \* the jobs whose result was recorded
    systemErrorsCount,
    systemErrors,  \* what kinds of entries $systemErrors has
    reachedSystemErrorsCountLimit,
    outcome,    \* "running", "done", or what was thrown out of the loop
    \* the workers
    proc,       \* "booting", "idle", "busy", "exited"
    hand,       \* the job each is busy with, 0 for none
    code,       \* how each exited; "refused" has the exit code of "success"
    wire        \* the message of each that the main process has not read

main == <<next, pool, serverOpen, link, timer, reaped, answered,
          systemErrorsCount, systemErrors, reachedSystemErrorsCountLimit, outcome>>
workers == <<proc, hand, code, wire>>
vars == <<next, pool, serverOpen, link, timer, reaped, answered,
          systemErrorsCount, systemErrors, reachedSystemErrorsCountLimit, outcome,
          proc, hand, code, wire>>

Quiet == [kind |-> "none", job |-> 0, errors |-> 0]
Hello == [kind |-> "hello", job |-> 0, errors |-> 0]
Message == [kind : {"none", "hello", "result", "broken"},
            job : Jobs \cup {0}, errors : 0 .. MaxErrors]

(* check() up to $streamSelectLoop->run(): every process of the schedule   *)
(* is started and attached before the loop handles its first event.        *)
Init ==
    /\ next = 1
    /\ pool = Worker
    /\ serverOpen = TRUE
    /\ link = [w \in Worker |-> "none"]
    /\ timer = [w \in Worker |-> FALSE]
    /\ reaped = {}
    /\ answered = {}
    /\ systemErrorsCount = 0
    /\ systemErrors = {}
    /\ reachedSystemErrorsCountLimit = FALSE
    /\ outcome = "running"
    /\ proc = [w \in Worker |-> "booting"]
    /\ hand = [w \in Worker |-> 0]
    /\ code = [w \in Worker |-> "none"]
    /\ wire = [w \in Worker |-> Quiet]
-----------------------------------------------------------------------------
(* ProcessPool and ParallelProcess.                                        *)

JobsLeft == next <= NumJobs
Alive(w) == proc[w] # "exited"

(* quit() of a live process ends its encoder, which a process that has not *)
(* said hello does not have yet: the typed property is uninitialised.      *)
Unready == {w \in pool : Alive(w) /\ link[w] = "none"}

Ended(ws, ends) ==
    [v \in Worker |-> IF v \in ws /\ Alive(v) THEN "ended" ELSE ends[v]]

QuitServerStays(ws, ends) ==                    \* mutant: tcpServer not closed
    /\ link' = Ended(ws, ends)
    /\ pool' = pool \ ws
    /\ UNCHANGED serverOpen

QuitUnended(ws, ends) ==                        \* mutant: encoder not ended
    /\ link' = ends
    /\ pool' = pool \ ws
    /\ serverOpen' = (serverOpen /\ pool \ ws # {})

(* quitProcess of every member of ws; `ends' is link as it was before.     *)
Quit(ws, ends) ==
    /\ link' = Ended(ws, ends)
    /\ pool' = pool \ ws
    /\ serverOpen' = (serverOpen /\ pool \ ws # {})

RequestUntimed(w, ends, timers) ==              \* mutant: no addTimer
    /\ next' = next + 1
    /\ timer' = [timers EXCEPT ![w] = FALSE]
    /\ IF ends[w] = "bound" /\ Alive(w)
       THEN /\ hand' = [hand EXCEPT ![w] = next]
            /\ proc' = [proc EXCEPT ![w] = "busy"]
       ELSE UNCHANGED <<hand, proc>>

RequestPeek(w, ends, timers) ==                 \* mutant: end() for array_pop()
    /\ UNCHANGED next
    /\ timer' = [timers EXCEPT ![w] = TRUE]
    /\ IF ends[w] = "bound" /\ Alive(w)
       THEN /\ hand' = [hand EXCEPT ![w] = next]
            /\ proc' = [proc EXCEPT ![w] = "busy"]
       ELSE UNCHANGED <<hand, proc>>

(* request(): the next job is popped, written to w and timed; it arrives   *)
(* only if the connection is up.                                           *)
Request(w, ends, timers) ==
    /\ next' = next + 1
    /\ timer' = [timers EXCEPT ![w] = TRUE]
    /\ IF ends[w] = "bound" /\ Alive(w)
       THEN /\ hand' = [hand EXCEPT ![w] = next]
            /\ proc' = [proc EXCEPT ![w] = "busy"]
       ELSE UNCHANGED <<hand, proc>>

(* A name in the job is no UTF-8: the encoder closes the connection and    *)
(* has $handleErrorCallable called before write() returns; then request()  *)
(* arms the time-out all the same.  `others' have not said hello.          *)
RequestFails(w, others, ends, timers) ==
    /\ "name" \in Faults /\ ends[w] = "bound"
    /\ next' = next + 1
    /\ reachedSystemErrorsCountLimit' = TRUE
    /\ \/ /\ others # {}
          /\ outcome' = "uninitialised"
          /\ link' = [ends EXCEPT ![w] = "ended"]
          /\ UNCHANGED <<pool, serverOpen, timer>>
       \/ /\ others = {}
          /\ Quit(pool, [ends EXCEPT ![w] = "ended"])
          /\ timer' = [v \in Worker |-> v = w \/ (v \notin pool /\ timers[v])]
          /\ UNCHANGED outcome
    /\ UNCHANGED <<reaped, proc, hand, code>>

(* An exception leaves the callback, the loop and check().                 *)
Throw(what) ==
    /\ outcome' = what
    /\ UNCHANGED <<next, pool, serverOpen, timer, reaped, proc, hand, code>>

TimersWithout(ws) == [v \in Worker |-> v \notin ws /\ timer[v]]
-----------------------------------------------------------------------------
(* The HELLO handler of the server.                                        *)
HelloArrives(w) ==
    /\ outcome = "running" /\ wire[w] = Hello
    /\ wire' = [wire EXCEPT ![w] = Quiet]
    /\ LET ends == [link EXCEPT ![w] = "bound"]
       IN  \/ /\ \/ /\ w \notin pool            \* getProcess throws
                    /\ Throw("not found")
                    /\ UNCHANGED link
                 \/ /\ w \in pool /\ ~JobsLeft
                    /\ Quit({w}, ends)
                    /\ timer' = TimersWithout({w})
                    /\ UNCHANGED <<next, hand, proc, reaped, code, outcome>>
                 \/ /\ w \in pool /\ JobsLeft
                    /\ Request(w, ends, timer)
                    /\ link' = ends
                    /\ UNCHANGED <<pool, serverOpen, reaped, code, outcome>>
              /\ UNCHANGED <<systemErrorsCount, systemErrors,
                             reachedSystemErrorsCountLimit>>
           \/ /\ w \in pool /\ JobsLeft
              /\ RequestFails(w, Unready \ {w}, ends, timer)
              /\ systemErrorsCount' = systemErrorsCount + 1
              /\ systemErrors' = systemErrors \cup {"contact"}
    /\ UNCHANGED answered

(* onData.  Once the limit is reached it ends every connection and still   *)
(* goes on to the next job of this worker; what it sets then is a variable *)
(* of its own, $reachedInternalErrorsCountLimit.                           *)
ResultArrives(w) ==
    /\ outcome = "running" /\ wire[w].kind = "result" /\ link[w] = "bound"
    /\ wire' = [wire EXCEPT ![w] = Quiet]
    /\ answered' = answered \cup {wire[w].job}
    /\ LET count == systemErrorsCount + wire[w].errors
           kinds == IF wire[w].errors > 0 THEN systemErrors \cup {"file"}
                    ELSE systemErrors
           atLimit == count >= Limit
           others == IF atLimit THEN pool ELSE {}
       IN  \/ /\ \/ /\ atLimit /\ Unready # {}
                    /\ Throw("uninitialised")
                    /\ UNCHANGED link
                 \/ /\ ~(atLimit /\ Unready # {})
                    /\ JobsLeft
                    /\ Quit(others, link)
                    /\ Request(w, link', TimersWithout(others))
                    /\ UNCHANGED <<reaped, code, outcome>>
                 \/ /\ ~atLimit /\ ~JobsLeft /\ w \in pool
                    /\ Quit({w}, link)
                    /\ timer' = TimersWithout({w})
                    /\ UNCHANGED <<next, hand, proc, reaped, code, outcome>>
                 \/ /\ ~(atLimit /\ Unready # {})
                    /\ ~JobsLeft /\ w \notin pool \ others
                    /\ Throw("not found")
                    /\ UNCHANGED link
              /\ systemErrorsCount' = count
              /\ systemErrors' = kinds
              /\ UNCHANGED reachedSystemErrorsCountLimit
           \/ /\ ~(atLimit /\ Unready # {})
              /\ JobsLeft
              /\ RequestFails(w, Unready, Ended(others, link), timer)
              /\ systemErrorsCount' = count + 1
              /\ systemErrors' = kinds \cup {"contact"}

(* $handleErrorCallable: quitAll after any error of any one process.  A    *)
(* timer that fired is no longer armed.                                    *)
HandleError(ends, fired) ==
    /\ systemErrorsCount' = systemErrorsCount + 1
    /\ systemErrors' = systemErrors \cup {"contact"}
    /\ reachedSystemErrorsCountLimit' = TRUE
    /\ \/ /\ Unready # {}
          /\ Throw("uninitialised")
          /\ link' = ends
       \/ /\ Unready = {}
          /\ Quit(pool, ends)
          /\ timer' = TimersWithout(pool \cup fired)
          /\ UNCHANGED <<next, reaped, proc, hand, code, outcome>>
    /\ UNCHANGED answered

(* The time-out of request(); it is also what becomes of a request written *)
(* to a process that is gone.                                              *)
TimesOut(w) ==
    /\ outcome = "running" /\ timer[w]
    /\ HandleError(link, {w})
    /\ UNCHANGED wire

(* The decoder meets a line it cannot read, or one over its 4 MB, and      *)
(* closes the connection.                                                  *)
DecoderFails(w) ==
    /\ outcome = "running" /\ wire[w].kind = "broken" /\ link[w] = "bound"
    /\ wire' = [wire EXCEPT ![w] = Quiet]
    /\ HandleError([link EXCEPT ![w] = "ended"], {})

NoExitReported(w) == {}                         \* mutant: exit code not looked at
(* onExit: a process killed by a signal has the exit code null.            *)
ExitReported(w) == IF code[w] = "failure" THEN {"child"} ELSE {}

(* The EXIT event: cancelTimer, tryQuitProcess, the exit code.             *)
ExitSeen(w) ==
    /\ outcome = "running" /\ ~Alive(w) /\ w \notin reaped
    /\ reaped' = reaped \cup {w}
    /\ timer' = TimersWithout({w})
    /\ IF w \in pool THEN Quit({w}, link)
       ELSE UNCHANGED <<link, pool, serverOpen>>
    /\ systemErrors' = systemErrors \cup ExitReported(w)
    /\ UNCHANGED <<next, answered, systemErrorsCount,
                   reachedSystemErrorsCountLimit, outcome, workers>>

(* Nothing keeps the loop alive: no listening server, process, timer or    *)
(* connection with something to read.  A hello nobody accepted before the  *)
(* server closed is dropped.                                               *)
Finish ==
    /\ outcome = "running"
    /\ ~serverOpen /\ reaped = Worker
    /\ \A w \in Worker : ~timer[w] /\ (link[w] = "bound" => wire[w] = Quiet)
    /\ outcome' = "done"
    /\ systemErrors' = IF reachedSystemErrorsCountLimit
                       THEN systemErrors \cup {"limit"} ELSE systemErrors
    /\ UNCHANGED <<next, pool, serverOpen, link, timer, reaped, answered,
                   systemErrorsCount, reachedSystemErrorsCountLimit, workers>>
-----------------------------------------------------------------------------
(* The workers.                                                            *)

(* WorkerCommand: connect and say hello.                                   *)
Connect(w) ==
    /\ outcome = "running" /\ proc[w] = "booting" /\ serverOpen
    /\ proc' = [proc EXCEPT ![w] = "idle"]
    /\ wire' = [wire EXCEPT ![w] = Hello]
    /\ UNCHANGED <<main, hand, code>>

(* WorkerRunner's MAIN handler: the files of the job one after the other,  *)
(* each failure caught and counted, then one message.  It goes nowhere     *)
(* when the main process has ended the connection meanwhile.               *)
Answer(w) ==
    /\ outcome = "running" /\ proc[w] = "busy"
    /\ proc' = [proc EXCEPT ![w] = "idle"]
    /\ hand' = [hand EXCEPT ![w] = 0]
    /\ \/ /\ link[w] = "bound"
          /\ \E e \in 0 .. MaxErrors :
                 wire' = [wire EXCEPT ![w] =
                             [kind |-> "result", job |-> hand[w], errors |-> e]]
       \/ /\ link[w] = "bound" /\ "broken" \in Faults
          /\ wire' = [wire EXCEPT ![w] =
                         [kind |-> "broken", job |-> hand[w], errors |-> 0]]
       \/ /\ link[w] = "ended" /\ UNCHANGED wire
    /\ UNCHANGED <<main, code>>

(* The connection is closed: the worker's loop ends, exit code SUCCESS.    *)
Leave(w) ==
    /\ outcome = "running" /\ proc[w] = "idle" /\ link[w] = "ended"
    /\ proc' = [proc EXCEPT ![w] = "exited"]
    /\ code' = [code EXCEPT ![w] = "success"]
    /\ UNCHANGED <<main, hand, wire>>

(* The error handler of WorkerRunner, for a job over the 64 KB its decoder *)
(* takes: what it writes is still unsent when the decoder closes the       *)
(* connection, so that the loop ends, exit code SUCCESS.                   *)
Refuse(w) ==
    /\ outcome = "running" /\ proc[w] = "busy" /\ "long" \in Faults
    /\ proc' = [proc EXCEPT ![w] = "exited"]
    /\ hand' = [hand EXCEPT ![w] = 0]
    /\ code' = [code EXCEPT ![w] = "refused"]
    /\ UNCHANGED <<main, wire>>

(* A fatal error (the memory limit, say), or a signal (the OOM killer).    *)
Die(w) ==
    /\ outcome = "running" /\ Alive(w)
    /\ \/ "crash" \in Faults /\ code' = [code EXCEPT ![w] = "failure"]
       \/ /\ "kill" \in Faults \/ ("kill at work" \in Faults /\ hand[w] # 0)
          /\ code' = [code EXCEPT ![w] = "signal"]
    /\ proc' = [proc EXCEPT ![w] = "exited"]
    /\ hand' = [hand EXCEPT ![w] = 0]
    /\ UNCHANGED <<main, wire>>
-----------------------------------------------------------------------------
Callback(w) == \/ HelloArrives(w) \/ ResultArrives(w) \/ TimesOut(w)
               \/ DecoderFails(w) \/ ExitSeen(w)

Over == outcome # "running" /\ UNCHANGED vars

Next == \/ \E w \in Worker : \/ Callback(w)
                             \/ Connect(w) \/ Answer(w) \/ Refuse(w)
                             \/ Leave(w) \/ Die(w)
        \/ Finish
        \/ Over

(* The loop goes on as long as something is left to do, and every process  *)
(* that is not killed runs on, but for the rules it applies to its files.  *)
Fairness ==
    /\ WF_vars(\E w \in Worker : HelloArrives(w) \/ ResultArrives(w))
    /\ WF_vars(\E w \in Worker : DecoderFails(w))
    /\ \A w \in Worker : WF_vars(TimesOut(w)) /\ WF_vars(ExitSeen(w))
    /\ WF_vars(Finish)
    /\ \A w \in Worker : WF_vars(Connect(w)) /\ WF_vars(Leave(w))

(* No rule works on a file for ever.                                       *)
RulesEnd == \A w \in Worker : WF_vars(Answer(w))

Spec == Init /\ [][Next]_vars
FairSpec == Spec /\ Fairness /\ RulesEnd
=============================================================================
