------------------------- MODULE ParallelPoolProps -------------------------
(***************************************************************************)
(* What the parallel run of the PHP engine must guarantee whatever the     *)
(* order of its events, and what its messages claim.                       *)
(***************************************************************************)
EXTENDS ParallelPool

(* Every variable has its type.                                            *)
TypeOK ==
    /\ next \in 1 .. NumJobs + 1
    /\ pool \subseteq Worker /\ reaped \subseteq Worker
    /\ serverOpen \in BOOLEAN /\ reachedSystemErrorsCountLimit \in BOOLEAN
    /\ link \in [Worker -> {"none", "bound", "ended"}]
    /\ timer \in [Worker -> BOOLEAN]
    /\ answered \subseteq Jobs
    /\ systemErrorsCount \in Nat
    /\ systemErrors \subseteq {"file", "contact", "child", "limit"}
    /\ outcome \in {"running", "done", "not found", "uninitialised"}
    /\ proc \in [Worker -> {"booting", "idle", "busy", "exited"}]
    /\ hand \in [Worker -> Jobs \cup {0}]
    /\ code \in [Worker -> {"none", "success", "refused", "failure", "signal"}]
    /\ wire \in [Worker -> Message]

(* The jobs a worker has: the one it works on, or the one whose result is  *)
(* on its wire and will still be read.                                     *)
Has(w) == {hand[w]} \cup (IF link[w] = "bound" THEN {wire[w].job} ELSE {})
Held(w) == Has(w) \ {0}
InFlight == UNION {Held(w) : w \in Worker}

(* ParallelFileProcessor.php:100, 205.  A job is popped once: no two       *)
(* workers have the same one, and none that is queued or recorded.         *)
OneHolder ==
    /\ \A v, w \in Worker : v # w => Held(v) \cap Held(w) = {}
    /\ InFlight \cap answered = {}
    /\ InFlight \cup answered \subseteq 1 .. next - 1

(* ParallelProcess.php:96-120.  Whoever works for the main process is      *)
(* timed: while the run goes on, a process that is still in the pool and   *)
(* has a job has its time-out armed, so its silence cannot pass unnoticed. *)
Watched ==
    outcome = "running" =>
        \A w \in pool : Held(w) # {} => timer[w] /\ link[w] = "bound"

(* ProcessPool.php:48-59.  The server is not closed on a process that is   *)
(* still to connect, nor left open (which keeps the loop alive) when there *)
(* is nobody to wait for.                                                  *)
ServerOpenForPool ==
    /\ serverOpen <=> pool # {}
    /\ outcome = "running" =>
           \A w \in Worker : Alive(w) /\ link[w] = "none" => w \in pool

(* ParallelFileProcessor.php:216-227, WorkerRunner.php:73-79.  A run that   *)
(* reports no system error has every job answered, so every file checked,  *)
(* whatever crashed or sent nonsense; the exceptions are a process killed  *)
(* by a signal and one that got a job too long for it.                     *)
LossesAreReported ==
    outcome = "done" /\ systemErrors = {} =>
        answered = Jobs \/ \E w \in Worker : code[w] \in {"signal", "refused"}

(* ConsoleOutputFormatter.php:35 says "No errors found. Great job" when no *)
(* error is reported: then every job was answered, so every file checked.  *)
NoSilentLoss ==
    outcome = "done" /\ systemErrors = {} => answered = Jobs

(* ParallelFileProcessor.php:118-129.  Once an error made the run give up, *)
(* no process is given another job, also by a result that was already on   *)
(* its way, or by a process that says hello only then.                     *)
NoJobAfterGivingUp ==
    [][reachedSystemErrorsCountLimit =>
           \A w \in Worker : hand'[w] \in {hand[w], 0}]_vars

(* If no worker hangs, the run comes to an end, also when workers die.     *)
Terminates == <>(outcome # "running")

(* Spreading chunks over sub-processes implements the abstract dispatch.   *)
Dispatch == INSTANCE WorkDispatch WITH
    Job <- Jobs,
    waiting <- next .. NumJobs,
    taken <- InFlight,
    settled <- answered
DispatchSpec == Dispatch!Spec
=============================================================================
