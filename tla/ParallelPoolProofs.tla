------------------------- MODULE ParallelPoolProofs -------------------------
(***************************************************************************)
(* Theorems about the parallel run of the PHP engine, for any number of    *)
(* processes, chunks and faults.                                           *)
(***************************************************************************)
EXTENDS ParallelPoolProps, TLAPS

(* A process has a job exactly while it is busy; then, and before it has   *)
(* said hello, there is nothing on its wire; what is on a wire names a job *)
(* only if it is about one.                                                *)
Work == \A w \in Worker :
    /\ hand[w] # 0 <=> proc[w] = "busy"
    /\ proc[w] \in {"booting", "busy"} => wire[w] = Quiet
    /\ wire[w].kind \in {"none", "hello"} => wire[w].job = 0
    /\ wire[w].kind \in {"result", "broken"} => wire[w].job # 0
-----------------------------------------------------------------------------
LEMMA Numbers ==
    /\ NumJobs \in Nat /\ NumJobs # 0 /\ Limit \in Nat /\ Limit # 0
    /\ MaxErrors \in Nat /\ Worker # {}
  BY ScheduleAssumption

LEMMA Messages ==
    /\ Quiet \in Message /\ Quiet.kind = "none" /\ Quiet.job = 0
    /\ Hello \in Message /\ Hello.kind = "hello" /\ Hello.job = 0
  BY Numbers DEF Quiet, Hello, Message

LEMMA NextJob ==
    ASSUME TypeOK
    PROVE  /\ next \in Nat /\ next # 0
           /\ JobsLeft => next \in Jobs /\ next + 1 \in 1 .. NumJobs + 1
  <1>1. next \in 1 .. NumJobs + 1
    BY DEF TypeOK
  <1> QED BY <1>1, Numbers DEF JobsLeft, Jobs

LEMMA TypeInit == Init => TypeOK /\ Work
  <1> SUFFICES ASSUME Init PROVE TypeOK /\ Work
    OBVIOUS
  <1>1. next \in 1 .. NumJobs + 1
    BY Numbers DEF Init
  <1>3. wire \in [Worker -> Message]
    BY Messages DEF Init
  <1>4. TypeOK
    BY <1>1, <1>3 DEF Init, TypeOK
  <1>2. Work
    BY Messages DEF Init, Work
  <1> QED BY <1>2, <1>4

(* The main process reads the message of w, and may give it the next job.  *)
Reads(w) ==
    /\ wire' = [wire EXCEPT ![w] = Quiet]
    /\ \/ UNCHANGED <<next, hand, proc>>
       \/ /\ JobsLeft /\ next' = next + 1
          /\ UNCHANGED <<hand, proc>>
       \/ /\ JobsLeft /\ next' = next + 1
          /\ link'[w] = "bound" /\ Alive(w)
          /\ hand' = [hand EXCEPT ![w] = next]
          /\ proc' = [proc EXCEPT ![w] = "busy"]

LEMMA ReadsType ==
    ASSUME TypeOK, Work, NEW w \in Worker, Reads(w), wire[w] # Quiet
    PROVE  /\ next' \in 1 .. NumJobs + 1
           /\ hand' \in [Worker -> Jobs \cup {0}]
           /\ proc' \in [Worker -> {"booting", "idle", "busy", "exited"}]
           /\ wire' \in [Worker -> Message]
           /\ Work'
  <1>1. /\ next' \in 1 .. NumJobs + 1
        /\ hand' \in [Worker -> Jobs \cup {0}]
        /\ proc' \in [Worker -> {"booting", "idle", "busy", "exited"}]
    <2>1. CASE UNCHANGED <<next, hand, proc>>
      BY <2>1 DEF TypeOK
    <2>2. CASE /\ JobsLeft /\ next' = next + 1
               /\ hand' = hand \/ hand' = [hand EXCEPT ![w] = next]
               /\ proc' = proc \/ proc' = [proc EXCEPT ![w] = "busy"]
      <3>1. next \in Jobs /\ next' \in 1 .. NumJobs + 1
        BY <2>2, NextJob
      <3>2. /\ hand \in [Worker -> Jobs \cup {0}]
            /\ proc \in [Worker -> {"booting", "idle", "busy", "exited"}]
        BY DEF TypeOK
      <3>3. hand' \in [Worker -> Jobs \cup {0}]
        BY <2>2, <3>1, <3>2
      <3>4. proc' \in [Worker -> {"booting", "idle", "busy", "exited"}]
        BY <2>2, <3>2
      <3> QED BY <3>1, <3>3, <3>4
    <2> QED BY <2>1, <2>2 DEF Reads
  <1>2. wire' \in [Worker -> Message]
    BY Messages DEF TypeOK, Reads
  <1>3. ASSUME NEW v \in Worker
        PROVE  /\ hand'[v] # 0 <=> proc'[v] = "busy"
               /\ proc'[v] \in {"booting", "busy"} => wire'[v] = Quiet
               /\ wire'[v].kind \in {"none", "hello"} => wire'[v].job = 0
               /\ wire'[v].kind \in {"result", "broken"} => wire'[v].job # 0
    <2>1. CASE v = w
      BY <2>1, NextJob, Messages DEF TypeOK, Work, Reads
    <2>2. CASE v # w
      <3>1. hand'[v] = hand[v] /\ proc'[v] = proc[v] /\ wire'[v] = wire[v]
        BY <2>2 DEF TypeOK, Reads
      <3> QED BY <3>1 DEF Work
    <2> QED BY <2>1, <2>2
  <1> QED BY <1>1, <1>2, <1>3 DEF Work

LEMMA QuitType ==
    ASSUME TypeOK, NEW ws, NEW ends \in [Worker -> {"none", "bound", "ended"}],
           Quit(ws, ends)
    PROVE  /\ link' \in [Worker -> {"none", "bound", "ended"}]
           /\ pool' \subseteq Worker /\ serverOpen' \in BOOLEAN
  BY DEF TypeOK, Quit, Ended

LEMMA TimersType ==
    ASSUME TypeOK, NEW ws
    PROVE  TimersWithout(ws) \in [Worker -> BOOLEAN]
  BY DEF TypeOK, TimersWithout
LEMMA FailsType ==
    ASSUME TypeOK, NEW w \in Worker, NEW others,
           NEW ends \in [Worker -> {"none", "bound", "ended"}],
           NEW timers \in [Worker -> BOOLEAN],
           RequestFails(w, others, ends, timers)
    PROVE  /\ link' \in [Worker -> {"none", "bound", "ended"}]
           /\ pool' \subseteq Worker /\ serverOpen' \in BOOLEAN
           /\ timer' \in [Worker -> BOOLEAN]
           /\ reachedSystemErrorsCountLimit'
           /\ outcome' \in {"running", "done", "not found", "uninitialised"}
           /\ UNCHANGED <<reaped, proc, hand, code>>
  <1>1. [ends EXCEPT ![w] = "ended"] \in [Worker -> {"none", "bound", "ended"}]
    OBVIOUS
  <1>2. CASE Quit(pool, [ends EXCEPT ![w] = "ended"])
             /\ timer' = [v \in Worker |-> v = w \/ (v \notin pool /\ timers[v])]
             /\ UNCHANGED outcome
    <2>1. /\ link' \in [Worker -> {"none", "bound", "ended"}]
          /\ pool' \subseteq Worker /\ serverOpen' \in BOOLEAN
      BY <1>1, <1>2, QuitType
    <2>2. timer' \in [Worker -> BOOLEAN]
      BY <1>2
    <2> QED BY <1>2, <2>1, <2>2 DEF RequestFails, TypeOK
  <1>3. CASE /\ outcome' = "uninitialised"
             /\ link' = [ends EXCEPT ![w] = "ended"]
             /\ UNCHANGED <<pool, serverOpen, timer>>
    BY <1>1, <1>3 DEF RequestFails, TypeOK
  <1> QED BY <1>2, <1>3 DEF RequestFails

LEMMA EndedType ==
    ASSUME TypeOK, NEW ws
    PROVE  Ended(ws, link) \in [Worker -> {"none", "bound", "ended"}]
  BY DEF Ended, TypeOK
-----------------------------------------------------------------------------
(* What each callback does to the process that sent the message.           *)
LEMMA HelloReads ==
    ASSUME TypeOK, NEW w \in Worker, HelloArrives(w)
    PROVE  Reads(w) /\ wire[w] # Quiet
  <1>1. wire' = [wire EXCEPT ![w] = Quiet] /\ wire[w] # Quiet
    BY Messages DEF HelloArrives
  <1>2. CASE Throw("not found")
    BY <1>1, <1>2 DEF Throw, Reads
  <1>3. CASE UNCHANGED <<next, hand, proc>>
    BY <1>1, <1>3 DEF Reads
  <1>4. CASE /\ JobsLeft
             /\ Request(w, [link EXCEPT ![w] = "bound"], timer)
             /\ link' = [link EXCEPT ![w] = "bound"]
    BY <1>1, <1>4 DEF Reads, Request
  <1>5. CASE JobsLeft /\ \E others, ends : RequestFails(w, others, ends, timer)
    BY <1>1, <1>5 DEF Reads, RequestFails
  <1> QED BY <1>2, <1>3, <1>4, <1>5 DEF HelloArrives

LEMMA ResultReads ==
    ASSUME TypeOK, NEW w \in Worker, ResultArrives(w)
    PROVE  Reads(w) /\ wire[w] # Quiet
  <1>1. wire' = [wire EXCEPT ![w] = Quiet] /\ wire[w] # Quiet
    BY Messages DEF ResultArrives
  <1>2. CASE Throw("not found") \/ Throw("uninitialised")
    BY <1>1, <1>2 DEF Throw, Reads
  <1>3. CASE UNCHANGED <<next, hand, proc>>
    BY <1>1, <1>3 DEF Reads
  <1>4. CASE JobsLeft /\ \E timers : Request(w, link', timers)
    BY <1>1, <1>4 DEF Reads, Request
  <1>5. CASE JobsLeft /\ \E others, ends : RequestFails(w, others, ends, timer)
    BY <1>1, <1>5 DEF Reads, RequestFails
  <1> QED BY <1>2, <1>3, <1>4, <1>5 DEF ResultArrives

(* What an action of the worker itself, or a callback about its end, does. *)
LEMMA HelloType ==
    ASSUME TypeOK, Work, NEW w \in Worker, HelloArrives(w)
    PROVE  TypeOK' /\ Work'
  <1>1. /\ next' \in 1 .. NumJobs + 1
        /\ hand' \in [Worker -> Jobs \cup {0}]
        /\ proc' \in [Worker -> {"booting", "idle", "busy", "exited"}]
        /\ wire' \in [Worker -> Message]
        /\ Work'
    BY HelloReads, ReadsType
  <1>2. [link EXCEPT ![w] = "bound"] \in [Worker -> {"none", "bound", "ended"}]
    BY DEF TypeOK
  <1>3. UNCHANGED <<answered, reaped, code>>
    BY DEF HelloArrives, RequestFails, Throw
  <1>4. CASE /\ Throw("not found") /\ UNCHANGED link
             /\ UNCHANGED <<systemErrorsCount, systemErrors,
                            reachedSystemErrorsCountLimit>>
    BY <1>1, <1>3, <1>4 DEF Throw, TypeOK
  <1>6. CASE /\ Quit({w}, [link EXCEPT ![w] = "bound"])
             /\ timer' = TimersWithout({w})
             /\ UNCHANGED <<outcome, systemErrorsCount, systemErrors,
                            reachedSystemErrorsCountLimit>>
    <2>1. /\ link' \in [Worker -> {"none", "bound", "ended"}]
          /\ pool' \subseteq Worker /\ serverOpen' \in BOOLEAN
          /\ timer' \in [Worker -> BOOLEAN]
      BY <1>2, <1>6, QuitType, TimersType
    <2> QED BY <1>1, <1>3, <1>6, <2>1 DEF TypeOK
  <1>7. CASE /\ Request(w, [link EXCEPT ![w] = "bound"], timer)
             /\ link' = [link EXCEPT ![w] = "bound"]
             /\ UNCHANGED <<pool, serverOpen, outcome, systemErrorsCount,
                            systemErrors, reachedSystemErrorsCountLimit>>
    <2>1. timer' \in [Worker -> BOOLEAN]
      BY <1>7 DEF Request, TypeOK
    <2> QED BY <1>1, <1>2, <1>3, <1>7, <2>1 DEF TypeOK
  <1>5. CASE /\ \E others : RequestFails(w, others, [link EXCEPT ![w] = "bound"], timer)
             /\ systemErrorsCount' = systemErrorsCount + 1
             /\ systemErrors' = systemErrors \cup {"contact"}
    <2>1. /\ link' \in [Worker -> {"none", "bound", "ended"}]
          /\ pool' \subseteq Worker /\ serverOpen' \in BOOLEAN
          /\ timer' \in [Worker -> BOOLEAN]
          /\ reachedSystemErrorsCountLimit' \in BOOLEAN
          /\ outcome' \in {"running", "done", "not found", "uninitialised"}
      BY <1>2, <1>5, FailsType DEF TypeOK
    <2>2. /\ systemErrorsCount' \in Nat
          /\ systemErrors' \subseteq {"file", "contact", "child", "limit"}
      <3>1. /\ systemErrorsCount \in Nat
            /\ systemErrors \subseteq {"file", "contact", "child", "limit"}
        BY DEF TypeOK
      <3> QED BY <1>5, <3>1
    <2> QED BY <1>1, <1>3, <2>1, <2>2 DEF TypeOK
  <1> QED BY <1>4, <1>5, <1>6, <1>7 DEF HelloArrives

LEMMA ResultCounts ==
    ASSUME TypeOK, Work, NEW w \in Worker, ResultArrives(w)
    PROVE  /\ wire[w].job \in Jobs
           /\ answered' = answered \cup {wire[w].job} /\ answered' \subseteq Jobs
           /\ systemErrorsCount' \in Nat
           /\ systemErrors' \subseteq {"file", "contact", "child", "limit"}
           /\ UNCHANGED <<reaped, code>>
  <1>1. wire[w] \in Message /\ wire[w].kind = "result"
    BY DEF TypeOK, ResultArrives
  <1>2. wire[w].job \in Jobs /\ wire[w].errors \in 0 .. MaxErrors
    BY <1>1 DEF Work, Message
  <1>3. answered \subseteq Jobs /\ systemErrorsCount \in Nat
        /\ systemErrors \subseteq {"file", "contact", "child", "limit"}
    BY DEF TypeOK
  <1>4. /\ answered' = answered \cup {wire[w].job}
        /\ \/ systemErrorsCount' = systemErrorsCount + wire[w].errors
           \/ systemErrorsCount' = systemErrorsCount + wire[w].errors + 1
        /\ systemErrors' \subseteq systemErrors \cup {"file", "contact"}
        /\ UNCHANGED <<reaped, code>>
    BY DEF ResultArrives, RequestFails, Throw
  <1>5. systemErrorsCount' \in Nat
    BY <1>2, <1>3, <1>4, Numbers
  <1> QED BY <1>2, <1>3, <1>4, <1>5

LEMMA ResultType ==
    ASSUME TypeOK, Work, NEW w \in Worker, ResultArrives(w)
    PROVE  TypeOK' /\ Work'
  <1>1. /\ next' \in 1 .. NumJobs + 1
        /\ hand' \in [Worker -> Jobs \cup {0}]
        /\ proc' \in [Worker -> {"booting", "idle", "busy", "exited"}]
        /\ wire' \in [Worker -> Message]
        /\ Work'
    BY ResultReads, ReadsType
  <1>2. /\ answered' \subseteq Jobs /\ systemErrorsCount' \in Nat
        /\ systemErrors' \subseteq {"file", "contact", "child", "limit"}
        /\ UNCHANGED <<reaped, code>>
    BY ResultCounts
  <1>3. /\ link \in [Worker -> {"none", "bound", "ended"}]
        /\ timer \in [Worker -> BOOLEAN]
    BY DEF TypeOK
  <1>4. ASSUME NEW what \in {"not found", "uninitialised"}, Throw(what),
               UNCHANGED <<link, reachedSystemErrorsCountLimit>>
        PROVE  TypeOK'
    BY <1>1, <1>2, <1>4 DEF Throw, TypeOK
  <1>5. ASSUME NEW ws, Quit(ws, link), timer' \in [Worker -> BOOLEAN],
               UNCHANGED <<outcome, reachedSystemErrorsCountLimit>>
        PROVE  TypeOK'
    <2>1. /\ link' \in [Worker -> {"none", "bound", "ended"}]
          /\ pool' \subseteq Worker /\ serverOpen' \in BOOLEAN
      BY <1>3, <1>5, QuitType
    <2> QED BY <1>1, <1>2, <1>5, <2>1 DEF TypeOK
  <1>6. ASSUME NEW ws, Quit(ws, link), Request(w, link', TimersWithout(ws)),
               UNCHANGED <<outcome, reachedSystemErrorsCountLimit>>
        PROVE  TypeOK'
    <2>1. timer' \in [Worker -> BOOLEAN]
      BY <1>6, TimersType DEF Request
    <2> QED BY <1>5, <1>6, <2>1
  <1>7. ASSUME Quit({w}, link), timer' = TimersWithout({w}),
               UNCHANGED <<outcome, reachedSystemErrorsCountLimit>>
        PROVE  TypeOK'
    BY <1>5, <1>7, TimersType
  <1>8. ASSUME NEW ws, NEW others, RequestFails(w, others, Ended(ws, link), timer)
        PROVE  TypeOK'
    <2>1. /\ link' \in [Worker -> {"none", "bound", "ended"}]
          /\ pool' \subseteq Worker /\ serverOpen' \in BOOLEAN
          /\ timer' \in [Worker -> BOOLEAN]
          /\ reachedSystemErrorsCountLimit' \in BOOLEAN
          /\ outcome' \in {"running", "done", "not found", "uninitialised"}
      BY <1>3, <1>8, EndedType, FailsType
    <2> QED BY <1>1, <1>2, <2>1 DEF TypeOK
  <1> QED BY <1>1, <1>4, <1>6, <1>7, <1>8 DEF ResultArrives

LEMMA ErrorType ==
    ASSUME TypeOK, NEW ends \in [Worker -> {"none", "bound", "ended"}], NEW fired,
           HandleError(ends, fired)
    PROVE  /\ link' \in [Worker -> {"none", "bound", "ended"}]
           /\ pool' \subseteq Worker /\ serverOpen' \in BOOLEAN
           /\ timer' \in [Worker -> BOOLEAN]
           /\ systemErrorsCount' \in Nat
           /\ systemErrors' \subseteq {"file", "contact", "child", "limit"}
           /\ reachedSystemErrorsCountLimit'
           /\ outcome' \in {"running", "done", "not found", "uninitialised"}
           /\ UNCHANGED <<next, reaped, answered, proc, hand, code>>
  <1>4. /\ systemErrorsCount \in Nat
        /\ systemErrors \subseteq {"file", "contact", "child", "limit"}
    BY DEF TypeOK
  <1>1. /\ systemErrorsCount' \in Nat
        /\ systemErrors' \subseteq {"file", "contact", "child", "limit"}
        /\ reachedSystemErrorsCountLimit'
        /\ UNCHANGED <<next, reaped, answered, proc, hand, code>>
    BY <1>4 DEF HandleError, Throw
  <1>2. CASE Throw("uninitialised") /\ link' = ends
    BY <1>1, <1>2 DEF Throw, TypeOK
  <1>3. CASE /\ Quit(pool, ends)
             /\ timer' = TimersWithout(pool \cup fired)
             /\ UNCHANGED outcome
    <2>1. /\ link' \in [Worker -> {"none", "bound", "ended"}]
          /\ pool' \subseteq Worker /\ serverOpen' \in BOOLEAN
          /\ timer' \in [Worker -> BOOLEAN]
      BY <1>3, QuitType, TimersType
    <2> QED BY <1>1, <1>3, <2>1 DEF TypeOK
  <1> QED BY <1>2, <1>3 DEF HandleError

LEMMA TypeStep == TypeOK /\ Work /\ [Next]_vars => TypeOK' /\ Work'
  <1> SUFFICES ASSUME TypeOK, Work, [Next]_vars PROVE TypeOK' /\ Work'
    OBVIOUS
  <1>1. ASSUME NEW w \in Worker, TimesOut(w) PROVE TypeOK' /\ Work'
    <2>1. link \in [Worker -> {"none", "bound", "ended"}]
      BY DEF TypeOK
    <2>2. HandleError(link, {w}) /\ UNCHANGED wire
      BY <1>1 DEF TimesOut
    <2>3. TypeOK'
      BY <2>1, <2>2, ErrorType DEF TypeOK
    <2>4. UNCHANGED <<hand, proc, wire>>
      BY <2>1, <2>2, ErrorType
    <2> QED BY <2>3, <2>4 DEF Work
  <1>2. ASSUME NEW w \in Worker, DecoderFails(w) PROVE TypeOK' /\ Work'
    <2>1. [link EXCEPT ![w] = "ended"] \in [Worker -> {"none", "bound", "ended"}]
      BY DEF TypeOK
    <2>2. /\ HandleError([link EXCEPT ![w] = "ended"], {})
          /\ wire' = [wire EXCEPT ![w] = Quiet] /\ wire[w] # Quiet
      BY <1>2, Messages DEF DecoderFails
    <2>3. UNCHANGED <<next, hand, proc>>
      BY <2>1, <2>2, ErrorType
    <2>4. Reads(w)
      BY <2>2, <2>3 DEF Reads
    <2>5. wire' \in [Worker -> Message] /\ Work'
      BY <2>2, <2>4, ReadsType
    <2>6. TypeOK'
      BY <2>1, <2>2, <2>5, ErrorType DEF TypeOK
    <2> QED BY <2>5, <2>6
  <1>3. ASSUME NEW w \in Worker, ExitSeen(w) PROVE TypeOK' /\ Work'
    <2>1. link \in [Worker -> {"none", "bound", "ended"}]
      BY DEF TypeOK
    <2>2. /\ link' \in [Worker -> {"none", "bound", "ended"}]
          /\ pool' \subseteq Worker /\ serverOpen' \in BOOLEAN
      <3>1. CASE Quit({w}, link)
        BY <2>1, <3>1, QuitType
      <3>2. CASE UNCHANGED <<link, pool, serverOpen>>
        BY <3>2 DEF TypeOK
      <3> QED BY <1>3, <3>1, <3>2 DEF ExitSeen
    <2>3. timer' \in [Worker -> BOOLEAN]
      BY <1>3, TimersType DEF ExitSeen
    <2>4. TypeOK'
      BY <1>3, <2>2, <2>3 DEF ExitSeen, ExitReported, TypeOK, workers
    <2>5. Work'
      BY <1>3 DEF ExitSeen, workers, Work
    <2> QED BY <2>4, <2>5
  <1>4. ASSUME Finish PROVE TypeOK' /\ Work'
    BY <1>4 DEF Finish, workers, TypeOK, Work
  <1>5. ASSUME NEW w \in Worker, Connect(w) PROVE TypeOK' /\ Work'
    <2>1. /\ proc' = [proc EXCEPT ![w] = "idle"] /\ proc[w] = "booting"
          /\ wire' = [wire EXCEPT ![w] = Hello]
          /\ UNCHANGED hand
      BY <1>5 DEF Connect
    <2>2. wire' \in [Worker -> Message]
      BY <2>1, Messages DEF TypeOK
    <2>3. TypeOK'
      BY <1>5, <2>2 DEF Connect, main, TypeOK
    <2>4. Work'
      BY <2>1, <2>2, Messages DEF TypeOK, Work
    <2> QED BY <2>3, <2>4
  <1>6. ASSUME NEW w \in Worker, Answer(w) PROVE TypeOK' /\ Work'
    <2>1. /\ hand[w] \in Jobs /\ proc[w] = "busy"
          /\ proc' = [proc EXCEPT ![w] = "idle"]
          /\ hand' = [hand EXCEPT ![w] = 0]
      BY <1>6 DEF Answer, Work, TypeOK
    <2>2. \/ UNCHANGED wire
          \/ \E m \in Message : /\ m.kind \in {"result", "broken"} /\ m.job # 0
                                /\ wire' = [wire EXCEPT ![w] = m]
      <3>1. ASSUME NEW e \in 0 .. MaxErrors, NEW kind \in {"result", "broken"}
            PROVE  [kind |-> kind, job |-> hand[w], errors |-> e] \in Message
        BY <2>1 DEF Message
      <3>2. 0 \in 0 .. MaxErrors /\ 0 \notin Jobs
        BY Numbers DEF Jobs
      <3> QED BY <1>6, <2>1, <3>1, <3>2 DEF Answer
    <2>3. wire' \in [Worker -> Message]
      BY <2>2 DEF TypeOK
    <2>4. TypeOK'
      <3>1. /\ proc' \in [Worker -> {"booting", "idle", "busy", "exited"}]
            /\ hand' \in [Worker -> Jobs \cup {0}]
        BY <2>1 DEF TypeOK
      <3> QED BY <1>6, <2>3, <3>1 DEF Answer, main, TypeOK
    <2>5. Work'
      <3>1. /\ hand \in [Worker -> Jobs \cup {0}] /\ DOMAIN wire = Worker
            /\ proc \in [Worker -> {"booting", "idle", "busy", "exited"}]
        BY DEF TypeOK
      <3>2. ASSUME NEW v \in Worker, v # w
            PROVE  hand'[v] = hand[v] /\ proc'[v] = proc[v] /\ wire'[v] = wire[v]
        BY <2>1, <2>2, <3>1, <3>2
      <3>3. /\ hand'[w] = 0 /\ proc'[w] = "idle"
            /\ \/ wire'[w] = wire[w]
               \/ wire'[w].kind \in {"result", "broken"} /\ wire'[w].job # 0
        BY <2>1, <2>2, <3>1
      <3> QED BY <3>2, <3>3 DEF Work
    <2> QED BY <2>4, <2>5
  <1>7. ASSUME NEW w \in Worker, Leave(w) PROVE TypeOK' /\ Work'
    <2>1. TypeOK'
      BY <1>7 DEF Leave, main, TypeOK
    <2>2. Work'
      BY <1>7 DEF Leave, TypeOK, Work
    <2> QED BY <2>1, <2>2
  <1>8. ASSUME NEW w \in Worker, Die(w) \/ Refuse(w) PROVE TypeOK' /\ Work'
    <2>1. TypeOK'
      BY <1>8 DEF Die, Refuse, main, TypeOK
    <2>2. /\ proc' = [proc EXCEPT ![w] = "exited"]
          /\ hand' = [hand EXCEPT ![w] = 0] /\ wire' = wire
      BY <1>8 DEF Die, Refuse
    <2>3. /\ proc \in [Worker -> {"booting", "idle", "busy", "exited"}]
          /\ hand \in [Worker -> Jobs \cup {0}]
      BY DEF TypeOK
    <2>4. Work'
      BY <2>2, <2>3 DEF Work
    <2> QED BY <2>1, <2>4
  <1>9. ASSUME UNCHANGED vars PROVE TypeOK' /\ Work'
    BY <1>9 DEF vars, TypeOK, Work
  <1> QED
    BY <1>1, <1>2, <1>3, <1>4, <1>5, <1>6, <1>7, <1>8, <1>9, HelloType, ResultType
    DEF Next, Callback, Over

(* ParallelFileProcessor.php:55-249, WorkerRunner.php: whatever the order  *)
(* of the events and whoever dies, the variables keep their types, and a   *)
(* process has a chunk exactly while it works on it.                       *)
THEOREM PoolType == Spec => [](TypeOK /\ Work)
  <1> QED BY TypeInit, TypeStep, PTL DEF Spec
-----------------------------------------------------------------------------
(* Steps that give no worker a new job.                                    *)
LEMMA LettingGo ==
    ASSUME OneHolder, \A v \in Worker : Held(v)' \subseteq Held(v),
           UNCHANGED <<next, answered>>
    PROVE  OneHolder' /\ Dispatch!Next
  <1>1. InFlight' \subseteq InFlight
    BY DEF InFlight
  <1>2. OneHolder'
    BY <1>1 DEF OneHolder
  <1> QED BY <1>1, <1>2 DEF Dispatch!Next

(* Steps in which the main process reads the message of w: what it had is  *)
(* recorded or gone, and it may be given the next job.                     *)
LEMMA Reading ==
    ASSUME TypeOK, Work, OneHolder, NEW w \in Worker, Reads(w), wire[w] # Quiet,
           \A v \in Worker : v # w /\ link'[v] = "bound" => link[v] = "bound",
           answered \subseteq answered', answered' \ answered \subseteq Held(w)
    PROVE  OneHolder' /\ Dispatch!Next
  <1>1. hand[w] = 0
    BY DEF Work
  <1>2. /\ DOMAIN hand = Worker /\ DOMAIN wire = Worker
        /\ wire' = [wire EXCEPT ![w] = Quiet] /\ Quiet.job = 0
    BY Messages DEF TypeOK, Reads
  <1>3. ASSUME NEW v \in Worker, v # w PROVE Held(v)' \subseteq Held(v)
    <2>1. wire'[v] = wire[v] /\ hand'[v] = hand[v]
      BY <1>2, <1>3 DEF Reads
    <2> QED BY <1>3, <2>1 DEF Held, Has
  <1>4. Held(w)' = {hand'[w]} \ {0}
    BY <1>2 DEF Held, Has
  <1>5. \/ next' = next /\ Held(w)' = {}
        \/ next' = next + 1 /\ JobsLeft /\ Held(w)' \subseteq {next}
    BY <1>1, <1>2, <1>4 DEF Reads
  <1>6. next \in Nat /\ next \notin InFlight \cup answered /\ next \notin Held(w)
    BY NextJob DEF OneHolder, InFlight
  <1>7. InFlight' \subseteq (InFlight \ Held(w)) \cup Held(w)'
    BY <1>3 DEF InFlight, OneHolder
  <1>8. OneHolder'
    <2>1. ASSUME NEW v \in Worker, NEW u \in Worker, v # u
          PROVE  Held(v)' \cap Held(u)' = {}
      <3>1. \A x \in Worker : Held(x)' \subseteq Held(x) \cup {next}
        BY <1>3, <1>5
      <3>2. \A x \in Worker : x # w => next \notin Held(x)'
        BY <1>3, <1>6 DEF InFlight
      <3> QED BY <2>1, <3>1, <3>2 DEF OneHolder
    <2>2. InFlight' \cap answered' = {}
      BY <1>5, <1>6, <1>7 DEF OneHolder
    <2>3. InFlight' \cup answered' \subseteq (1 .. next - 1) \cup (Held(w)')
      BY <1>7 DEF OneHolder, InFlight
    <2>4. InFlight' \cup answered' \subseteq 1 .. next' - 1
      <3>1. CASE next' = next /\ Held(w)' = {}
        BY <2>3, <3>1
      <3>2. CASE next' = next + 1 /\ JobsLeft /\ Held(w)' \subseteq {next}
        <4>1. (1 .. next - 1) \cup {next} \subseteq 1 .. next' - 1
          BY <3>2, NextJob
        <4> QED BY <2>3, <3>2, <4>1
      <3> QED BY <1>5, <3>1, <3>2
    <2> QED BY <2>1, <2>2, <2>4 DEF OneHolder
  <1>9. Dispatch!Next
    <2>1. next' .. NumJobs \subseteq next .. NumJobs
      BY <1>5, <1>6, Numbers
    <2>2. InFlight' \subseteq InFlight \cup ((next .. NumJobs) \ (next' .. NumJobs))
      <3>1. CASE next' = next /\ Held(w)' = {}
        BY <1>7, <3>1
      <3>2. CASE next' = next + 1 /\ JobsLeft /\ Held(w)' \subseteq {next}
        <4>1. next \in (next .. NumJobs) \ (next' .. NumJobs)
          BY <1>6, <3>2, Numbers DEF JobsLeft
        <4> QED BY <1>7, <3>2, <4>1
      <3> QED BY <1>5, <3>1, <3>2
    <2>3. answered' \ answered \subseteq InFlight \ InFlight'
      <3>1. Held(w) \subseteq InFlight
        BY DEF InFlight
      <3>2. Held(w) \cap Held(w)' = {}
        BY <1>5, <1>6
      <3> QED BY <1>7, <3>1, <3>2
    <2> QED BY <2>1, <2>2, <2>3 DEF Dispatch!Next
  <1> QED BY <1>8, <1>9

LEMMA HolderStep ==
    TypeOK /\ Work /\ OneHolder /\ [Next]_vars
        => OneHolder' /\ [Dispatch!Next]_(Dispatch!vars)
  <1> SUFFICES ASSUME TypeOK, Work, OneHolder, [Next]_vars
               PROVE  OneHolder' /\ (Dispatch!Next \/ UNCHANGED Dispatch!vars)
    BY DEF Dispatch!vars
  <1>1. ASSUME NEW w \in Worker, HelloArrives(w) PROVE OneHolder' /\ Dispatch!Next
    <2>1. UNCHANGED answered
      BY <1>1 DEF HelloArrives
    <2>2. \A v \in Worker : v # w /\ link'[v] = "bound" => link[v] = "bound"
      BY <1>1 DEF HelloArrives, RequestFails, Quit, Ended, TypeOK
    <2>3. Reads(w) /\ wire[w] # Quiet
      BY <1>1, HelloReads
    <2> QED BY <2>1, <2>2, <2>3, Reading
  <1>2. ASSUME NEW w \in Worker, ResultArrives(w) PROVE OneHolder' /\ Dispatch!Next
    <2>1. /\ wire[w].job \in Jobs /\ answered' = answered \cup {wire[w].job}
      BY <1>2, ResultCounts
    <2>2. {wire[w].job} \subseteq Held(w)
      <3>1. wire[w].job # 0
        BY <2>1 DEF Jobs
      <3>2. link[w] = "bound"
        BY <1>2 DEF ResultArrives
      <3> QED BY <3>1, <3>2 DEF Held, Has
    <2>3. \A v \in Worker : v # w /\ link'[v] = "bound" => link[v] = "bound"
      BY <1>2 DEF ResultArrives, RequestFails, Quit, Ended, Throw, TypeOK
    <2> QED BY <1>2, <2>1, <2>2, <2>3, ResultReads, Reading
  <1>3. ASSUME NEW w \in Worker, TimesOut(w) PROVE OneHolder' /\ Dispatch!Next
    <2>1. /\ UNCHANGED <<next, answered, hand, wire>>
          /\ \A v \in Worker : link'[v] = "bound" => link[v] = "bound"
      BY <1>3 DEF TimesOut, HandleError, Throw, Quit, Ended
    <2> QED BY <2>1, LettingGo DEF Held, Has
  <1>4. ASSUME NEW w \in Worker, DecoderFails(w) PROVE OneHolder' /\ Dispatch!Next
    <2>1. /\ UNCHANGED <<next, answered, hand>>
          /\ wire' = [wire EXCEPT ![w] = Quiet] /\ DOMAIN wire = Worker
      BY <1>4 DEF DecoderFails, HandleError, Throw, TypeOK
    <2>2. \A v \in Worker : link'[v] = "bound" => link[v] = "bound"
      BY <1>4 DEF DecoderFails, HandleError, Throw, Quit, Ended, TypeOK
    <2>3. \A v \in Worker : wire'[v] = wire[v] \/ wire'[v].job = 0
      BY <2>1, Messages
    <2> QED BY <2>1, <2>2, <2>3, LettingGo DEF Held, Has
  <1>5. ASSUME NEW w \in Worker, ExitSeen(w) PROVE OneHolder' /\ Dispatch!Next
    <2>1. /\ UNCHANGED <<next, answered, hand, wire>>
          /\ \A v \in Worker : link'[v] = "bound" => link[v] = "bound"
      BY <1>5 DEF ExitSeen, Quit, Ended, workers
    <2> QED BY <2>1, LettingGo DEF Held, Has
  <1>6. ASSUME NEW w \in Worker, Connect(w) PROVE OneHolder' /\ Dispatch!Next
    <2>1. /\ UNCHANGED <<next, answered, hand, link>>
          /\ \A v \in Worker : wire'[v] = wire[v] \/ wire'[v].job = 0
      BY <1>6, Messages DEF Connect, main, TypeOK
    <2> QED BY <2>1, LettingGo DEF Held, Has
  <1>7. ASSUME NEW w \in Worker, Answer(w) PROVE OneHolder' /\ Dispatch!Next
    <2>1. /\ UNCHANGED <<next, answered, link>>
          /\ hand' = [hand EXCEPT ![w] = 0] /\ DOMAIN hand = Worker
          /\ DOMAIN wire = Worker
          /\ \/ UNCHANGED wire
             \/ \E m : wire' = [wire EXCEPT ![w] = m] /\ m.job = hand[w]
      BY <1>7 DEF Answer, main, TypeOK
    <2>2. \A v \in Worker :
              \/ hand'[v] = hand[v] /\ wire'[v] = wire[v]
              \/ hand'[v] = 0 /\ (wire'[v] = wire[v] \/ wire'[v].job = hand[v])
      BY <2>1
    <2> QED BY <2>1, <2>2, LettingGo DEF Held, Has
  <1>8. ASSUME NEW w \in Worker, Die(w) \/ Refuse(w) PROVE OneHolder' /\ Dispatch!Next
    <2>1. /\ UNCHANGED <<next, answered, link, wire>>
          /\ \A v \in Worker : hand'[v] = hand[v] \/ hand'[v] = 0
      BY <1>8 DEF Die, Refuse, main, TypeOK
    <2> QED BY <2>1, LettingGo DEF Held, Has
  <1>9. ASSUME Finish \/ UNCHANGED vars \/ (\E w \in Worker : Leave(w))
        PROVE  OneHolder' /\ Dispatch!Next
    <2>1. UNCHANGED <<next, answered, link, wire, hand>>
      BY <1>9 DEF Finish, Leave, vars, main, workers
    <2> QED BY <2>1, LettingGo DEF Held, Has
  <1> QED
    BY <1>1, <1>2, <1>3, <1>4, <1>5, <1>6, <1>7, <1>8, <1>9
    DEF Next, Callback, Over

LEMMA HolderInit == Init => OneHolder /\ Dispatch!Init
  <1> SUFFICES ASSUME Init PROVE OneHolder /\ Dispatch!Init
    OBVIOUS
  <1>1. \A w \in Worker : Held(w) = {}
    BY Messages DEF Init, Held, Has
  <1>2. InFlight = {} /\ answered = {} /\ next = 1
    BY <1>1 DEF InFlight, Init
  <1> QED BY <1>1, <1>2 DEF OneHolder, Dispatch!Init, Jobs

(* ParallelFileProcessor.php:100, 205: a chunk is popped for one worker    *)
(* and never again, whoever dies, times out or answers late.               *)
THEOREM ChunkHasOneHolder == Spec => []OneHolder
  <1>1. Init => OneHolder
    BY HolderInit
  <1>2. TypeOK /\ Work /\ OneHolder /\ [Next]_vars => OneHolder'
    BY HolderStep
  <1> QED BY <1>1, <1>2, PoolType, PTL DEF Spec

(* The event loop and its sub-processes implement the abstract dispatcher: *)
(* what is recorded as a chunk's result came from the worker that had it.  *)
THEOREM ProcessesDispatch == Spec => DispatchSpec
  <1>1. Init => Dispatch!Init
    BY HolderInit
  <1>2. TypeOK /\ Work /\ OneHolder /\ [Next]_vars => [Dispatch!Next]_(Dispatch!vars)
    BY HolderStep
  <1> QED
    BY <1>1, <1>2, PoolType, ChunkHasOneHolder, PTL
    DEF Spec, DispatchSpec, Dispatch!Spec
-----------------------------------------------------------------------------
(* Who is in the pool, and how far the others have been told to leave.     *)
Dismissed ==
    /\ serverOpen <=> pool # {}
    /\ outcome = "running" =>
           /\ \A w \in Worker : Alive(w) /\ w \notin pool => link[w] = "ended"
           /\ reachedSystemErrorsCountLimit => pool = {}

LEMMA QuitDismisses ==
    ASSUME TypeOK, Dismissed, outcome = "running", NEW ws \in SUBSET Worker,
           NEW ends \in [Worker -> {"none", "bound", "ended"}],
           \A v \in Worker : v \notin ws /\ link[v] = "ended" => ends[v] = "ended",
           \A v \in Worker : Alive(v)' => Alive(v),
           Quit(ws, ends)
    PROVE  /\ serverOpen' <=> pool' # {}
           /\ \A v \in Worker : Alive(v)' /\ v \notin pool' => link'[v] = "ended"
           /\ pool = {} => pool' = {}
  BY DEF Dismissed, Quit, Ended

LEMMA DismissedStep == TypeOK /\ Work /\ Dismissed /\ [Next]_vars => Dismissed'
  <1> SUFFICES ASSUME TypeOK, Work, Dismissed, [Next]_vars PROVE Dismissed'
    OBVIOUS
  <1>0. /\ link \in [Worker -> {"none", "bound", "ended"}] /\ pool \subseteq Worker
        /\ proc \in [Worker -> {"booting", "idle", "busy", "exited"}]
    BY DEF TypeOK
  <1>1. ASSUME NEW what \in {"not found", "uninitialised"}, Throw(what)
        PROVE  Dismissed'
    BY <1>1 DEF Throw, Dismissed
  <1>2. ASSUME NEW w \in Worker, Reads(w) PROVE \A v \in Worker : Alive(v)' => Alive(v)
    BY <1>0, <1>2 DEF Reads, Alive
  <1>11. ASSUME NEW w \in Worker, NEW others, NEW timers,
                NEW ends \in [Worker -> {"none", "bound", "ended"}],
                \A v \in Worker : v \in pool \/ (link[v] = "ended" => ends[v] = "ended"),
                outcome = "running", RequestFails(w, others, ends, timers)
         PROVE  Dismissed'
    <2>1. CASE Quit(pool, [ends EXCEPT ![w] = "ended"]) /\ UNCHANGED <<outcome, proc>>
      <3>1. \A v \in Worker : Alive(v)' => Alive(v)
        BY <2>1 DEF Alive
      <3>2. pool' = {}
        BY <2>1 DEF Quit
      <3>3. /\ [ends EXCEPT ![w] = "ended"] \in [Worker -> {"none", "bound", "ended"}]
            /\ \A v \in Worker : v \notin pool /\ link[v] = "ended"
                                     => [ends EXCEPT ![w] = "ended"][v] = "ended"
        BY <1>11
      <3> QED BY <1>0, <1>11, <2>1, <3>1, <3>2, <3>3, QuitDismisses DEF Dismissed
    <2>2. CASE outcome' = "uninitialised" /\ UNCHANGED <<pool, serverOpen>>
      BY <2>2 DEF Dismissed
    <2> QED BY <1>11, <2>1, <2>2 DEF RequestFails
  <1>3. ASSUME NEW w \in Worker, HelloArrives(w) PROVE Dismissed'
    <2>1. \A v \in Worker : Alive(v)' => Alive(v)
      BY <1>2, <1>3, HelloReads
    <2>2. /\ outcome = "running"
          /\ [link EXCEPT ![w] = "bound"] \in [Worker -> {"none", "bound", "ended"}]
          /\ \A v \in Worker : v # w /\ link[v] = "ended"
                                   => [link EXCEPT ![w] = "bound"][v] = "ended"
      BY <1>0, <1>3 DEF HelloArrives
    <2>3. CASE /\ Quit({w}, [link EXCEPT ![w] = "bound"])
               /\ UNCHANGED reachedSystemErrorsCountLimit
      <3>1. \A v \in Worker : v \notin {w} /\ link[v] = "ended"
                                  => [link EXCEPT ![w] = "bound"][v] = "ended"
        BY <2>2
      <3> QED BY <2>1, <2>2, <2>3, <3>1, QuitDismisses DEF Dismissed
    <2>4. CASE /\ w \in pool
               /\ link' = [link EXCEPT ![w] = "bound"]
               /\ UNCHANGED <<pool, serverOpen, outcome, reachedSystemErrorsCountLimit>>
      BY <1>0, <2>1, <2>2, <2>4 DEF Dismissed
    <2>5. CASE /\ w \in pool
               /\ \E others : RequestFails(w, others, [link EXCEPT ![w] = "bound"], timer)
      BY <1>11, <2>2, <2>5
    <2> QED BY <1>1, <1>3, <2>3, <2>4, <2>5 DEF HelloArrives
  <1>4. ASSUME NEW w \in Worker, ResultArrives(w) PROVE Dismissed'
    <2>1. \A v \in Worker : Alive(v)' => Alive(v)
      BY <1>2, <1>4, ResultReads
    <2>2. outcome = "running"
      BY <1>4 DEF ResultArrives
    <2>3. ASSUME NEW ws \in SUBSET Worker, Quit(ws, link),
                 UNCHANGED reachedSystemErrorsCountLimit
          PROVE  Dismissed'
      BY <1>0, <2>1, <2>2, <2>3, QuitDismisses DEF Dismissed
    <2>4. ASSUME NEW ws \in SUBSET Worker, NEW others,
                 RequestFails(w, others, Ended(ws, link), timer)
          PROVE  Dismissed'
      <3>1. /\ Ended(ws, link) \in [Worker -> {"none", "bound", "ended"}]
            /\ \A v \in Worker : link[v] = "ended" => Ended(ws, link)[v] = "ended"
        BY <1>0 DEF Ended
      <3> QED BY <1>11, <2>2, <2>4, <3>1
    <2>5. \/ /\ \E ws \in SUBSET Worker : Quit(ws, link)
             /\ UNCHANGED reachedSystemErrorsCountLimit
          \/ \E what \in {"not found", "uninitialised"} : Throw(what)
          \/ \E ws \in SUBSET Worker : \E others :
                 RequestFails(w, others, Ended(ws, link), timer)
      BY <1>0, <1>4 DEF ResultArrives
    <2> QED BY <1>1, <2>3, <2>4, <2>5
  <1>5. ASSUME NEW ends \in [Worker -> {"none", "bound", "ended"}], NEW fired,
               \A v \in Worker : link[v] = "ended" => ends[v] = "ended",
               outcome = "running", HandleError(ends, fired)
        PROVE  Dismissed'
    <2>1. CASE Quit(pool, ends) /\ UNCHANGED <<outcome, proc>>
      <3>1. \A v \in Worker : Alive(v)' => Alive(v)
        BY <2>1 DEF Alive
      <3>2. pool' = {}
        BY <2>1 DEF Quit, Ended
      <3> QED BY <1>0, <1>5, <2>1, <3>1, <3>2, QuitDismisses DEF Dismissed
    <2> QED BY <1>1, <1>5, <2>1 DEF HandleError
  <1>6. ASSUME NEW w \in Worker, TimesOut(w) PROVE Dismissed'
    BY <1>0, <1>5, <1>6 DEF TimesOut
  <1>7. ASSUME NEW w \in Worker, DecoderFails(w) PROVE Dismissed'
    <2>1. /\ [link EXCEPT ![w] = "ended"] \in [Worker -> {"none", "bound", "ended"}]
          /\ \A v \in Worker : link[v] = "ended"
                                   => [link EXCEPT ![w] = "ended"][v] = "ended"
      BY <1>0
    <2> QED BY <1>5, <1>7, <2>1 DEF DecoderFails
  <1>8. ASSUME NEW w \in Worker, ExitSeen(w) PROVE Dismissed'
    <2>1. /\ outcome = "running" /\ UNCHANGED <<reachedSystemErrorsCountLimit, outcome>>
          /\ \A v \in Worker : Alive(v)' => Alive(v)
      BY <1>8 DEF ExitSeen, workers, Alive
    <2>2. CASE UNCHANGED <<link, pool, serverOpen>>
      BY <2>1, <2>2 DEF Dismissed
    <2>3. CASE Quit({w}, link)
      BY <1>0, <2>1, <2>3, QuitDismisses DEF Dismissed
    <2> QED BY <1>8, <2>2, <2>3 DEF ExitSeen
  <1>9. ASSUME NEW w \in Worker, Connect(w) \/ Answer(w) \/ Leave(w) \/ Die(w) \/ Refuse(w)
        PROVE  Dismissed'
    <2>1. /\ UNCHANGED main
          /\ \A v \in Worker : Alive(v)' => Alive(v)
      BY <1>0, <1>9 DEF Connect, Answer, Leave, Die, Refuse, Alive
    <2> QED BY <2>1 DEF Dismissed, main
  <1>10. ASSUME Finish \/ UNCHANGED vars PROVE Dismissed'
    BY <1>10 DEF Finish, vars, Dismissed, Alive
  <1> QED
    BY <1>3, <1>4, <1>6, <1>7, <1>8, <1>9, <1>10 DEF Next, Callback, Over

LEMMA DismissedAlways == Spec => []Dismissed
  <1>1. Init => Dismissed
    BY Numbers DEF Init, Dismissed
  <1> QED BY <1>1, DismissedStep, PoolType, PTL DEF Spec

(* ProcessPool.php:48-59: the server is closed with the last process, not  *)
(* before, and whoever is still to connect is in the pool.                 *)
THEOREM ServerStaysForPool == Spec => []ServerOpenForPool
  <1>1. Dismissed => ServerOpenForPool
    BY DEF Dismissed, ServerOpenForPool
  <1> QED BY <1>1, DismissedAlways, PTL

(* ParallelFileProcessor.php:118-129: after quitAll nobody gets a chunk,   *)
(* for everybody alive has been dismissed and a request goes nowhere.      *)
THEOREM NothingAfterGivingUp == Spec => NoJobAfterGivingUp
  <1>1. ASSUME TypeOK, Work, Dismissed, [Next]_vars, reachedSystemErrorsCountLimit,
               NEW w \in Worker
        PROVE  hand'[w] \in {hand[w], 0}
    <2>1. DOMAIN hand = Worker
      BY <1>1 DEF TypeOK
    <2>2. ASSUME outcome = "running" PROVE pool = {}
      BY <1>1, <2>2 DEF Dismissed
    <2>3. ASSUME NEW v \in Worker, HelloArrives(v) PROVE UNCHANGED hand
      BY <2>2, <2>3 DEF HelloArrives, Throw
    <2>4. ASSUME NEW v \in Worker, ResultArrives(v) PROVE UNCHANGED hand
      <3>1. ~Alive(v)
        BY <1>1, <2>2, <2>4 DEF ResultArrives, Dismissed
      <3>2. Reads(v)
        BY <1>1, <2>4, ResultReads
      <3> QED BY <3>1, <3>2 DEF Reads
    <2>5. ASSUME NEW v \in Worker, TimesOut(v) \/ DecoderFails(v) PROVE UNCHANGED hand
      BY <2>5 DEF TimesOut, DecoderFails, HandleError, Throw
    <2>6. ASSUME NEW v \in Worker, Answer(v) \/ Die(v) \/ Refuse(v) PROVE hand'[w] \in {hand[w], 0}
      BY <2>1, <2>6 DEF Answer, Die, Refuse
    <2>7. ASSUME Finish \/ UNCHANGED vars
                 \/ (\E v \in Worker : ExitSeen(v) \/ Connect(v) \/ Leave(v))
          PROVE  UNCHANGED hand
      BY <2>7 DEF Finish, vars, ExitSeen, Connect, Leave, workers
    <2> QED
      BY <1>1, <2>3, <2>4, <2>5, <2>6, <2>7 DEF Next, Callback, Over
  <1>2. TypeOK /\ Work /\ Dismissed /\ [Next]_vars
            => [reachedSystemErrorsCountLimit =>
                    \A w \in Worker : hand'[w] \in {hand[w], 0}]_vars
    BY <1>1
  <1> QED BY <1>2, PoolType, DismissedAlways, PTL DEF Spec, NoJobAfterGivingUp
-----------------------------------------------------------------------------
LEMMA WatchedStep == TypeOK /\ Work /\ Watched /\ [Next]_vars => Watched'
  <1> SUFFICES ASSUME TypeOK, Work, Watched, [Next]_vars, outcome' = "running",
                      NEW v \in pool', Held(v)' # {}
               PROVE  timer'[v] /\ link'[v] = "bound"
    BY DEF Watched
  <1>0. /\ link \in [Worker -> {"none", "bound", "ended"}] /\ pool \subseteq Worker
        /\ timer \in [Worker -> BOOLEAN] /\ wire \in [Worker -> Message]
        /\ hand \in [Worker -> Jobs \cup {0}]
    BY DEF TypeOK
  <1>a. outcome = "running" /\ pool' \subseteq pool
    BY DEF Next, Callback, HelloArrives, ResultArrives, TimesOut, DecoderFails,
           HandleError, ExitSeen, Finish, Connect, Answer, Leave, Die, Refuse, Over,
           RequestFails, Throw, Quit, Ended, main, workers, vars
  <1>b. Held(v) # {} => timer[v] /\ link[v] = "bound"
    BY <1>a DEF Watched
  <1>c. v \in pool /\ v \in Worker
    BY <1>0, <1>a
  <1>d. ASSUME NEW w, NEW others, NEW ends, NEW timers,
               RequestFails(w, others, ends, timers)
        PROVE  FALSE
    BY <1>c, <1>d DEF RequestFails, Quit
  <1>1. ASSUME NEW w \in Worker, Reads(w), v # w, link'[v] = link[v]
        PROVE  Held(v)' = Held(v)
    <2>1. hand'[v] = hand[v] /\ wire'[v] = wire[v]
      BY <1>0, <1>c, <1>1 DEF Reads
    <2> QED BY <1>1, <2>1 DEF Held, Has
  <1>2. ASSUME NEW w \in Worker, HelloArrives(w)
        PROVE  timer'[v] /\ link'[v] = "bound"
    <2>1. Reads(w)
      BY <1>2, HelloReads
    <2>2. CASE /\ Quit({w}, [link EXCEPT ![w] = "bound"])
               /\ timer' = TimersWithout({w})
      <3>1. v # w /\ link'[v] = link[v] /\ timer'[v] = timer[v]
        BY <1>0, <1>c, <2>2 DEF Quit, Ended, TimersWithout
      <3> QED BY <1>1, <1>b, <2>1, <3>1
    <2>3. CASE /\ Request(w, [link EXCEPT ![w] = "bound"], timer)
               /\ link' = [link EXCEPT ![w] = "bound"]
      <3>1. /\ v = w => timer'[v] /\ link'[v] = "bound"
            /\ v # w => timer'[v] = timer[v] /\ link'[v] = link[v]
        BY <1>0, <1>c, <2>3 DEF Request
      <3> QED BY <1>1, <1>b, <2>1, <3>1
    <2> QED BY <1>2, <1>d, <2>2, <2>3 DEF HelloArrives, Throw
  <1>3. ASSUME NEW w \in Worker, ResultArrives(w)
        PROVE  timer'[v] /\ link'[v] = "bound"
    <2>1. Reads(w) /\ link[w] = "bound"
      BY <1>3, ResultReads DEF ResultArrives
    <2>2. CASE Quit({w}, link) /\ timer' = TimersWithout({w})
      <3>1. v # w /\ link'[v] = link[v] /\ timer'[v] = timer[v]
        BY <1>0, <1>c, <2>2 DEF Quit, Ended, TimersWithout
      <3> QED BY <1>1, <1>b, <2>1, <3>1
    <2>3. CASE \E ws \in {{}, pool} :
                   Quit(ws, link) /\ Request(w, link', TimersWithout(ws))
      <3>1. Quit({}, link) /\ Request(w, link', TimersWithout({}))
        BY <2>3 DEF Quit, Ended
      <3>2. /\ link'[v] = link[v]
            /\ v = w => timer'[v]
            /\ v # w => timer'[v] = timer[v]
        BY <1>0, <1>c, <3>1 DEF Quit, Ended, Request, TimersWithout
      <3> QED BY <1>1, <1>b, <2>1, <3>2
    <2> QED BY <1>3, <1>d, <2>2, <2>3 DEF ResultArrives, Throw
  <1>4. ASSUME NEW w \in Worker, TimesOut(w) \/ DecoderFails(w) PROVE FALSE
    BY <1>4, <1>c DEF TimesOut, DecoderFails, HandleError, Throw, Quit, Ended
  <1>5. ASSUME NEW w \in Worker, ExitSeen(w)
        PROVE  timer'[v] /\ link'[v] = "bound"
    <2>1. v # w /\ link'[v] = link[v] /\ timer'[v] = timer[v]
      BY <1>0, <1>5, <1>c DEF ExitSeen, Quit, Ended, TimersWithout
    <2>2. UNCHANGED <<hand, wire>>
      BY <1>5 DEF ExitSeen, workers
    <2> QED BY <1>b, <2>1, <2>2 DEF Held, Has
  <1>6. ASSUME NEW w \in Worker, Connect(w) \/ Answer(w) \/ Leave(w) \/ Die(w) \/ Refuse(w)
        PROVE  timer'[v] /\ link'[v] = "bound"
    <2>1. UNCHANGED <<timer, link>>
      BY <1>6 DEF Connect, Answer, Leave, Die, Refuse, main
    <2>2. Held(v) # {}
      <3>1. CASE v # w
        <4>1. hand'[v] = hand[v] /\ wire'[v] = wire[v]
          BY <1>0, <1>6, <1>c, <3>1 DEF Connect, Answer, Leave, Die, Refuse
        <4> QED BY <2>1, <4>1 DEF Held, Has
      <3>2. CASE v = w /\ Answer(w)
        <4>1. hand[v] # 0
          BY <3>2 DEF Answer, Work
        <4> QED BY <4>1 DEF Held, Has
      <3>3. CASE v = w /\ ~Answer(w)
        <4>1. /\ hand'[v] = hand[v] \/ hand'[v] = 0
              /\ wire'[v] = wire[v] \/ wire'[v].job = 0
          BY <1>0, <1>6, <3>3, Messages DEF Connect, Leave, Die, Refuse
        <4> QED BY <2>1, <4>1 DEF Held, Has
      <3> QED BY <3>1, <3>2, <3>3
    <2> QED BY <1>b, <2>1, <2>2
  <1>7. ASSUME UNCHANGED vars PROVE timer'[v] /\ link'[v] = "bound"
    BY <1>7, <1>b DEF vars, Held, Has
  <1> QED
    BY <1>2, <1>3, <1>4, <1>5, <1>6, <1>7 DEF Next, Callback, Finish, Over

(* ParallelProcess.php:96-120: a process of the pool that has a job is     *)
(* connected and timed, however its events are ordered.                    *)
THEOREM WhoeverWorksIsTimed == Spec => []Watched
  <1>1. Init => Watched
    BY Messages DEF Init, Watched, Held, Has
  <1> QED BY <1>1, WatchedStep, PoolType, PTL DEF Spec
-----------------------------------------------------------------------------
(* How each process went: what is known of it before and after the EXIT.   *)
Ends == \A w \in Worker :
    /\ Alive(w) => code[w] = "none" /\ w \notin reaped
    /\ ~Alive(w) => code[w] # "none"
    /\ w \in reaped /\ code[w] = "failure" => "child" \in systemErrors

(* Nothing went wrong so far.                                              *)
Clean == systemErrors = {} /\ \A w \in Worker : code[w] \in {"none", "success"}

(* Then nobody has been dismissed but for want of jobs, and every job that *)
(* was popped is answered or in the hands of a process still connected.    *)
Whole ==
    /\ systemErrorsCount = 0
    /\ \A w \in pool : Alive(w) /\ link[w] # "ended"
    /\ \A w \in Worker : link[w] = "bound" => w \in pool
    /\ \A w \in Worker : hand[w] # 0 => link[w] = "bound"
    /\ pool # Worker => ~JobsLeft
    /\ 1 .. next - 1 \subseteq answered \cup InFlight
NoneLost == outcome = "running" /\ Clean => Whole

LEMMA EndsStep == TypeOK /\ Ends /\ [Next]_vars => Ends'
  <1> SUFFICES ASSUME TypeOK, Ends, [Next]_vars PROVE Ends'
    OBVIOUS
  <1>0. /\ proc \in [Worker -> {"booting", "idle", "busy", "exited"}]
        /\ code \in [Worker -> {"none", "success", "refused", "failure", "signal"}]
    BY DEF TypeOK
  <1>1. ASSUME UNCHANGED <<code, reaped>>, systemErrors \subseteq systemErrors',
               \A w \in Worker : Alive(w)' <=> Alive(w)
        PROVE  Ends'
    BY <1>1 DEF Ends
  <1>2. ASSUME NEW w \in Worker, Reads(w) PROVE \A v \in Worker : Alive(v)' <=> Alive(v)
    BY <1>0, <1>2 DEF Reads, Alive
  <1>3. ASSUME NEW w \in Worker, HelloArrives(w) \/ ResultArrives(w) PROVE Ends'
    <2>1. \A v \in Worker : Alive(v)' <=> Alive(v)
      BY <1>2, <1>3, HelloReads, ResultReads
    <2>2. UNCHANGED <<code, reaped>> /\ systemErrors \subseteq systemErrors'
      BY <1>3 DEF HelloArrives, ResultArrives, RequestFails, Throw
    <2> QED BY <1>1, <2>1, <2>2
  <1>4. ASSUME NEW w \in Worker, TimesOut(w) \/ DecoderFails(w) PROVE Ends'
    <2>1. UNCHANGED <<code, reaped, proc>> /\ systemErrors \subseteq systemErrors'
      BY <1>4 DEF TimesOut, DecoderFails, HandleError, Throw
    <2> QED BY <1>1, <2>1 DEF Alive
  <1>5. ASSUME NEW w \in Worker, ExitSeen(w) PROVE Ends'
    BY <1>5 DEF ExitSeen, ExitReported, Ends, Alive, workers
  <1>6. ASSUME NEW w \in Worker, Connect(w) \/ Answer(w) PROVE Ends'
    <2>1. \A v \in Worker : Alive(v)' <=> Alive(v)
      BY <1>0, <1>6 DEF Connect, Answer, Alive
    <2>2. UNCHANGED <<code, reaped, systemErrors>>
      BY <1>6 DEF Connect, Answer, main
    <2> QED BY <1>1, <2>1, <2>2
  <1>7. ASSUME NEW w \in Worker, Leave(w) \/ Die(w) \/ Refuse(w) PROVE Ends'
    <2>1. /\ proc' = [proc EXCEPT ![w] = "exited"] /\ Alive(w)
          /\ \E c \in {"success", "refused", "failure", "signal"} : code' = [code EXCEPT ![w] = c]
          /\ UNCHANGED <<reaped, systemErrors>>
      BY <1>7 DEF Leave, Die, Refuse, Alive, main
    <2> QED BY <1>0, <2>1 DEF Ends, Alive
  <1>8. ASSUME Finish \/ UNCHANGED vars PROVE Ends'
    BY <1>1, <1>8 DEF Finish, vars, workers, Alive
  <1> QED
    BY <1>3, <1>4, <1>5, <1>6, <1>7, <1>8 DEF Next, Callback, Over

LEMMA CleanBefore ==
    ASSUME TypeOK, Ends, [Next]_vars, Clean', outcome' = "running"
    PROVE  Clean /\ outcome = "running" /\ systemErrors' = {}
  <1>1. systemErrors \subseteq systemErrors' /\ outcome = "running"
    BY DEF Next, Callback, HelloArrives, ResultArrives, TimesOut, DecoderFails,
           HandleError, ExitSeen, Finish, Connect, Answer, Leave, Die, Refuse, Over,
           Throw, main, workers, vars
  <1>2. ASSUME NEW w \in Worker PROVE code[w] \in {"none", "success"}
    <2>0. code \in [Worker -> {"none", "success", "refused", "failure", "signal"}]
      BY DEF TypeOK
    <2>1. code'[w] = code[w] \/ (\E v \in Worker : Leave(v) \/ Die(v) \/ Refuse(v))
      BY DEF Next, Callback, HelloArrives, ResultArrives, TimesOut, DecoderFails,
             HandleError, ExitSeen, Finish, Connect, Answer, Over,
             RequestFails, Throw, main, workers, vars
    <2>2. ASSUME NEW v \in Worker, Leave(v) \/ Die(v) \/ Refuse(v)
          PROVE  code[w] \in {"none", "success"}
      <3>1. code[v] = "none" /\ (v # w => code'[w] = code[w])
        BY <2>0, <2>2 DEF Leave, Die, Refuse, Alive, Ends
      <3> QED BY <3>1 DEF Clean
    <2> QED BY <2>1, <2>2 DEF Clean
  <1> QED BY <1>1, <1>2 DEF Clean
LEMMA NothingSlips ==
    ASSUME TypeOK, Whole, answered \subseteq answered',
           \A v \in Worker : Held(v) \subseteq Held(v)' \cup answered',
           \/ next' = next
           \/ next' = next + 1 /\ \E v \in Worker : next \in Held(v)'
    PROVE  1 .. next' - 1 \subseteq answered' \cup InFlight'
  <1> SUFFICES ASSUME NEW j \in 1 .. next' - 1 PROVE j \in answered' \cup InFlight'
    OBVIOUS
  <1>1. next \in Nat
    BY NextJob
  <1>2. CASE j \in 1 .. next - 1
    <2>1. j \in answered \/ \E v \in Worker : j \in Held(v)
      BY <1>2 DEF Whole, InFlight
    <2> QED BY <2>1 DEF InFlight
  <1>3. CASE j \notin 1 .. next - 1
    <2>1. j = next /\ \E v \in Worker : next \in Held(v)'
      BY <1>1, <1>3
    <2> QED BY <2>1 DEF InFlight
  <1> QED BY <1>2, <1>3

(* The message of w is read, what it had is recorded, and it gets the next *)
(* job or, as there is none, is dismissed.                                 *)
LEMMA ReadAndGoOn ==
    ASSUME TypeOK, Work, Whole, systemErrorsCount' = 0,
           NEW w \in pool, wire[w] # Quiet, wire' = [wire EXCEPT ![w] = Quiet],
           answered \subseteq answered', Held(w) \subseteq answered',
           \/ /\ ~JobsLeft /\ UNCHANGED <<next, hand, proc>>
              /\ pool' = pool \ {w}
              /\ link' = [link EXCEPT ![w] = "ended"]
           \/ /\ JobsLeft /\ UNCHANGED pool
              /\ link' = [link EXCEPT ![w] = "bound"]
              /\ next' = next + 1
              /\ hand' = [hand EXCEPT ![w] = next]
              /\ proc' = [proc EXCEPT ![w] = "busy"]
    PROVE  Whole'
  <1>0. /\ pool \subseteq Worker /\ w \in Worker
        /\ link \in [Worker -> {"none", "bound", "ended"}]
        /\ hand \in [Worker -> Jobs \cup {0}] /\ wire \in [Worker -> Message]
        /\ proc \in [Worker -> {"booting", "idle", "busy", "exited"}]
        /\ next \in Nat /\ next # 0
    BY NextJob DEF TypeOK
  <1>1. hand[w] = 0 /\ Alive(w)
    BY <1>0 DEF Work, Whole
  <1>2. ASSUME NEW v \in Worker, v # w
        PROVE  /\ link'[v] = link[v] /\ hand'[v] = hand[v] /\ wire'[v] = wire[v]
               /\ proc'[v] = proc[v]
    BY <1>0, <1>2
  <1>3. \A v \in Worker : Held(v) \subseteq Held(v)' \cup answered'
    <2>1. ASSUME NEW v \in Worker, v # w PROVE Held(v)' = Held(v)
      BY <1>2, <2>1 DEF Held, Has
    <2> QED BY <2>1
  <1>4. CASE ~JobsLeft /\ UNCHANGED <<next, hand, proc>>
             /\ pool' = pool \ {w} /\ link' = [link EXCEPT ![w] = "ended"]
    <2>1. 1 .. next' - 1 \subseteq answered' \cup InFlight'
      BY <1>3, <1>4, NothingSlips
    <2>2. /\ \A v \in pool' : Alive(v)' /\ link'[v] # "ended"
          /\ \A v \in Worker : link'[v] = "bound" => v \in pool'
      BY <1>0, <1>2, <1>4 DEF Whole, Alive
    <2>3. \A v \in Worker : hand'[v] # 0 => link'[v] = "bound"
      BY <1>0, <1>1, <1>2, <1>4 DEF Whole
    <2>4. ~JobsLeft'
      BY <1>4 DEF JobsLeft
    <2> QED BY <2>1, <2>2, <2>3, <2>4 DEF Whole
  <1>5. CASE /\ JobsLeft /\ UNCHANGED pool
             /\ link' = [link EXCEPT ![w] = "bound"]
             /\ next' = next + 1
             /\ hand' = [hand EXCEPT ![w] = next]
             /\ proc' = [proc EXCEPT ![w] = "busy"]
    <2>0. link'[w] = "bound" /\ hand'[w] = next /\ proc'[w] = "busy"
      BY <1>0, <1>5
    <2>1. next \in Held(w)'
      BY <1>0, <2>0 DEF Held, Has
    <2>2. 1 .. next' - 1 \subseteq answered' \cup InFlight'
      BY <1>0, <1>3, <1>5, <2>1, NothingSlips
    <2>3. /\ \A v \in pool' : Alive(v)' /\ link'[v] # "ended"
          /\ \A v \in Worker : link'[v] = "bound" => v \in pool'
          /\ \A v \in Worker : hand'[v] # 0 => link'[v] = "bound"
      BY <1>0, <1>2, <1>5, <2>0 DEF Whole, Alive
    <2>4. pool' = Worker
      BY <1>5 DEF Whole
    <2> QED BY <2>2, <2>3, <2>4 DEF Whole
  <1> QED BY <1>4, <1>5

LEMMA NoneLostStep ==
    TypeOK /\ Work /\ Dismissed /\ Ends /\ NoneLost /\ [Next]_vars => NoneLost'
  <1> SUFFICES ASSUME TypeOK, Work, Dismissed, Ends, NoneLost, [Next]_vars,
                      outcome' = "running", Clean'
               PROVE  Whole'
    BY DEF NoneLost
  <1>0. Whole /\ systemErrors' = {} /\ outcome = "running"
    BY CleanBefore DEF NoneLost
  <1>t. /\ pool \subseteq Worker
        /\ link \in [Worker -> {"none", "bound", "ended"}]
        /\ hand \in [Worker -> Jobs \cup {0}] /\ wire \in [Worker -> Message]
        /\ proc \in [Worker -> {"booting", "idle", "busy", "exited"}]
    BY DEF TypeOK
  <1>1. ASSUME NEW w \in Worker, HelloArrives(w) PROVE Whole'
    <2>1. /\ wire' = [wire EXCEPT ![w] = Quiet] /\ wire[w] # Quiet
          /\ UNCHANGED <<answered, systemErrorsCount>>
          /\ w \in pool
      BY <1>0, <1>1, Messages DEF HelloArrives, Throw
    <2>2. Alive(w)
      BY <1>0, <2>1 DEF Whole
    <2>3. Held(w) = {}
      <3>1. hand[w] = 0 /\ wire[w].job = 0
        BY <1>1, <2>1, Messages DEF Work, HelloArrives
      <3> QED BY <3>1 DEF Held, Has
    <2>4. CASE ~JobsLeft /\ Quit({w}, [link EXCEPT ![w] = "bound"])
               /\ UNCHANGED <<next, hand, proc>>
      <3>1. link' = [link EXCEPT ![w] = "ended"] /\ pool' = pool \ {w}
        BY <1>t, <2>2, <2>4 DEF Quit, Ended
      <3> QED BY <1>0, <2>1, <2>3, <2>4, <3>1, ReadAndGoOn DEF Whole
    <2>5. CASE JobsLeft /\ Request(w, [link EXCEPT ![w] = "bound"], timer)
               /\ link' = [link EXCEPT ![w] = "bound"] /\ UNCHANGED pool
      <3>1. /\ next' = next + 1 /\ hand' = [hand EXCEPT ![w] = next]
            /\ proc' = [proc EXCEPT ![w] = "busy"]
        BY <1>t, <2>2, <2>5 DEF Request
      <3> QED BY <1>0, <2>1, <2>3, <2>5, <3>1, ReadAndGoOn DEF Whole
    <2> QED BY <1>0, <1>1, <2>4, <2>5 DEF HelloArrives, Throw
  <1>2. ASSUME NEW w \in Worker, ResultArrives(w) PROVE Whole'
    <2>1. /\ wire' = [wire EXCEPT ![w] = Quiet] /\ wire[w] # Quiet
          /\ answered' = answered \cup {wire[w].job}
          /\ link[w] = "bound" /\ wire[w].errors \in 0 .. MaxErrors
      BY <1>2, <1>t, Messages DEF ResultArrives, Message
    <2>2. w \in pool /\ Alive(w)
      BY <1>0, <2>1 DEF Whole
    <2>3. Held(w) \subseteq answered'
      <3>1. hand[w] = 0
        BY <2>1 DEF Work
      <3> QED BY <2>1, <3>1 DEF Held, Has
    <2>4. systemErrorsCount' = 0 /\ ~(systemErrorsCount' >= Limit)
      <3>1. ~(wire[w].errors > 0)
        BY <1>0, <1>2 DEF ResultArrives
      <3>2. wire[w].errors = 0
        BY <2>1, <3>1, Numbers
      <3>3. systemErrorsCount = 0 /\ systemErrorsCount' = systemErrorsCount + wire[w].errors
        BY <1>0, <1>2 DEF ResultArrives, Whole
      <3>4. systemErrorsCount' = 0
        BY <3>2, <3>3
      <3> QED BY <3>4, Numbers
    <2>5. CASE ~JobsLeft /\ Quit({w}, link) /\ UNCHANGED <<next, hand, proc>>
      <3>1. link' = [link EXCEPT ![w] = "ended"] /\ pool' = pool \ {w}
        BY <1>t, <2>2, <2>5 DEF Quit, Ended
      <3> QED BY <1>0, <2>1, <2>2, <2>3, <2>4, <2>5, <3>1, ReadAndGoOn
    <2>6. CASE JobsLeft /\ Quit({}, link) /\ Request(w, link', TimersWithout({}))
      <3>1. link' = [link EXCEPT ![w] = "bound"] /\ UNCHANGED pool
        BY <1>t, <2>1, <2>6 DEF Quit, Ended
      <3>2. /\ next' = next + 1 /\ hand' = [hand EXCEPT ![w] = next]
            /\ proc' = [proc EXCEPT ![w] = "busy"]
        BY <1>t, <2>2, <2>6, <3>1 DEF Request
      <3> QED BY <1>0, <2>1, <2>2, <2>3, <2>4, <2>6, <3>1, <3>2, ReadAndGoOn
    <2> QED BY <1>0, <1>2, <2>4, <2>5, <2>6 DEF ResultArrives, Throw
  <1>3. ASSUME NEW w \in Worker, TimesOut(w) \/ DecoderFails(w) PROVE FALSE
    BY <1>0, <1>3 DEF TimesOut, DecoderFails, HandleError
  <1>4. ASSUME UNCHANGED <<next, pool, link, answered, systemErrorsCount>>,
               \A v \in Worker : v \in pool => Alive(v)',
               \A v \in Worker : hand'[v] # 0 => hand[v] # 0,
               \A v \in Worker : Held(v) \subseteq Held(v)'
        PROVE  Whole'
    <2>1. 1 .. next' - 1 \subseteq answered' \cup InFlight'
      BY <1>0, <1>4, NothingSlips
    <2> QED BY <1>0, <1>t, <1>4, <2>1 DEF Whole, JobsLeft
  <1>5. ASSUME NEW w \in Worker, ExitSeen(w) PROVE Whole'
    <2>1. w \notin pool
      BY <1>0, <1>5 DEF ExitSeen, Whole
    <2>2. UNCHANGED <<next, pool, link, answered, systemErrorsCount, hand, wire, proc>>
      BY <1>5, <2>1 DEF ExitSeen, workers
    <2> QED BY <1>0, <1>4, <2>2 DEF Whole, Alive, Held, Has
  <1>6. ASSUME NEW w \in Worker, Connect(w) \/ Answer(w) PROVE Whole'
    <2>1. UNCHANGED <<next, pool, link, answered, systemErrorsCount>>
      BY <1>6 DEF Connect, Answer, main
    <2>2. \A v \in Worker : v \in pool => Alive(v)'
      BY <1>0, <1>t, <1>6 DEF Connect, Answer, Alive, Whole
    <2>3. \A v \in Worker : hand'[v] # 0 => hand[v] # 0
      BY <1>t, <1>6 DEF Connect, Answer
    <2>4. ASSUME NEW v \in Worker, v # w PROVE Held(v)' = Held(v)
      <3>1. wire'[v] = wire[v] /\ hand'[v] = hand[v]
        BY <1>t, <1>6, <2>4 DEF Connect, Answer
      <3> QED BY <2>1, <3>1 DEF Held, Has
    <2>5. Held(w) \subseteq Held(w)'
      <3>1. CASE Connect(w)
        <4>1. wire[w].job = 0 /\ UNCHANGED hand
          BY <3>1, Messages DEF Connect, Work
        <4> QED BY <2>1, <4>1 DEF Held, Has
      <3>2. CASE Answer(w)
        <4>1. link[w] = "bound" /\ wire[w].job = 0
          BY <1>0, <3>2, Messages DEF Answer, Work, Whole
        <4>2. wire'[w].job = hand[w] /\ link'[w] = "bound"
          BY <1>t, <2>1, <3>2, <4>1 DEF Answer
        <4> QED BY <4>1, <4>2 DEF Held, Has
      <3> QED BY <1>6, <3>1, <3>2
    <2> QED BY <1>4, <2>1, <2>2, <2>3, <2>4, <2>5
  <1>7. ASSUME NEW w \in Worker, Leave(w) PROVE Whole'
    <2>1. w \notin pool /\ UNCHANGED <<next, pool, link, answered, systemErrorsCount,
                                       hand, wire>>
      BY <1>0, <1>7 DEF Leave, Whole, main
    <2>2. \A v \in Worker : v \in pool => Alive(v)'
      BY <1>0, <1>t, <1>7, <2>1 DEF Leave, Alive, Whole
    <2> QED BY <1>4, <2>1, <2>2 DEF Held, Has
  <1>8. ASSUME NEW w \in Worker, Die(w) \/ Refuse(w) PROVE FALSE
    <2>1. code'[w] \in {"refused", "failure", "signal"}
      BY <1>8 DEF Die, Refuse, TypeOK
    <2> QED BY <2>1 DEF Clean
  <1>9. ASSUME UNCHANGED vars PROVE Whole'
    BY <1>0, <1>9 DEF vars, Whole, JobsLeft, InFlight, Held, Has, Alive
  <1> QED
    BY <1>1, <1>2, <1>3, <1>5, <1>6, <1>7, <1>8, <1>9
    DEF Next, Callback, Finish, Over

(* ParallelFileProcessor.php:216-227, WorkerRunner.php:73-79: a run that   *)
(* reports no system error has every chunk answered, unless a process was  *)
(* killed by a signal or got a job too long for its decoder: nothing else  *)
(* makes onExit return without a word.                                     *)
THEOREM LossOfChunksIsReported == Spec => []LossesAreReported
  <1>1. Init => Ends /\ NoneLost /\ LossesAreReported
    <2> SUFFICES ASSUME Init PROVE Ends /\ Whole /\ LossesAreReported
      BY DEF NoneLost
    <2>1. 1 .. next - 1 = {}
      BY DEF Init
    <2> QED BY <2>1 DEF Init, Ends, Whole, Alive, LossesAreReported
  <1>2. ASSUME TypeOK, Work, Dismissed, Ends, NoneLost, Finish,
               systemErrors' = {}, \A w \in Worker : code[w] \notin {"signal", "refused"}
        PROVE  answered = Jobs
    <2>1. Clean /\ outcome = "running"
      BY <1>2 DEF Finish, Clean, Ends, TypeOK
    <2>2. Whole /\ pool = {}
      BY <1>2, <2>1 DEF NoneLost, Finish, Dismissed
    <2>3. InFlight = {}
      BY <2>2 DEF Whole, InFlight, Held, Has
    <2>4. next \in 1 .. NumJobs + 1 /\ ~(next <= NumJobs) /\ answered \subseteq Jobs
      BY <1>2, <2>2, Numbers DEF TypeOK, Whole, JobsLeft
    <2>5. next = NumJobs + 1 /\ next - 1 = NumJobs
      BY <2>4, Numbers
    <2>6. 1 .. next - 1 \subseteq answered
      BY <2>2, <2>3 DEF Whole
    <2> QED BY <2>4, <2>5, <2>6 DEF Jobs
  <1>3. TypeOK /\ Work /\ Dismissed /\ Ends /\ NoneLost /\ LossesAreReported
            /\ [Next]_vars => LossesAreReported'
    <2> SUFFICES ASSUME TypeOK, Work, Dismissed, Ends, NoneLost, LossesAreReported,
                        [Next]_vars, outcome' = "done", systemErrors' = {},
                        \A w \in Worker : code'[w] \notin {"signal", "refused"}
                 PROVE  answered' = Jobs
      BY DEF LossesAreReported
    <2>1. Finish \/ UNCHANGED vars
      BY DEF Next, Callback, HelloArrives, ResultArrives, TimesOut, DecoderFails,
             HandleError, ExitSeen, Connect, Answer, Leave, Die, Refuse, Over,
             Throw, main, workers
    <2>2. CASE Finish
      BY <1>2, <2>2 DEF Finish, workers
    <2>3. CASE UNCHANGED vars
      BY <2>3 DEF vars, LossesAreReported
    <2> QED BY <2>1, <2>2, <2>3
  <1> QED
    BY <1>1, <1>3, EndsStep, NoneLostStep, PoolType, DismissedAlways, PTL DEF Spec
-----------------------------------------------------------------------------
(* ParallelFileProcessor.php:100, 205: a chunk is waiting, on its way to   *)
(* an answer, or answered, and never two of these: none is handed out      *)
(* again, and none is worked on once it is answered.                       *)
THEOREM ChunksArePartitioned == Spec => []Dispatch!Partition
  <1>1. Dispatch!Init => Dispatch!Partition
    BY DEF Dispatch!Init, Dispatch!Partition
  <1>2. Dispatch!Partition /\ [Dispatch!Next]_(Dispatch!vars) => Dispatch!Partition'
    BY DEF Dispatch!Partition, Dispatch!Next, Dispatch!vars
  <1>3. DispatchSpec => []Dispatch!Partition
    BY <1>1, <1>2, PTL DEF DispatchSpec, Dispatch!Spec
  <1> QED BY <1>3, ProcessesDispatch
=============================================================================
