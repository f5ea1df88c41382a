---------------------------- MODULE WorkDispatch ----------------------------
(***************************************************************************)
(* What both engines promise of the work they spread over workers: the     *)
(* PHP engine hands chunks of files to sub-processes                       *)
(* (ParallelFileProcessor), the Go engine hands files to goroutines        *)
(* (runner.Run).  A job is waiting, then taken by one worker, then settled *)
(* (its outcome reached the dispatcher) or lost (it never will).           *)
(* No job is handed out twice, no outcome is counted twice, and only what  *)
(* a worker holds can be settled.                                          *)
(***************************************************************************)

CONSTANT Job

VARIABLES waiting, taken, settled

vars == <<waiting, taken, settled>>

Init == /\ waiting = Job
        /\ taken = {}
        /\ settled = {}

(* One step of a dispatcher may take jobs, settle some and give up on      *)
(* others; what it settles leaves the hands that held it.                  *)
Next == /\ waiting' \subseteq waiting
        /\ taken' \subseteq taken \cup (waiting \ waiting')
        /\ settled \subseteq settled'
        /\ settled' \ settled \subseteq taken \ taken'

Spec == Init /\ [][Next]_vars

Partition == /\ waiting \cap taken = {}
             /\ waiting \cap settled = {}
             /\ taken \cap settled = {}
=============================================================================
