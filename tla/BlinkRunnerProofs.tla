------------------------- MODULE BlinkRunnerProofs -------------------------
(***************************************************************************)
(* Theorems about the Go worker pool, for every list of found files and    *)
(* every set of workers.                                                   *)
(***************************************************************************)
EXTENDS BlinkRunner, Integers, SequenceTheorems, WellFoundedInduction, TLAPS

Busy == {"read", "fix", "store", "send"}

(* A worker holds a file exactly while it is inside fixFile or sending.    *)
Holding == \A w \in Worker : (file[w] # 0) <=> (pc[w] \in Busy)

(* The files in hand, collected and failed are different handed-out files. *)
Apart ==
    /\ InHand \subseteq Handed
    /\ Range(collected) \subseteq Handed
    /\ errs \subseteq Handed
    /\ OnceEach

(* How far the two channels are shut, and who has left.                    *)
Shut ==
    /\ \A w \in Worker : pc[w] = "gone" => ~pathsOpen
    /\ ~resultsOpen => \A w \in Worker : pc[w] = "gone"
    /\ ~pathsOpen => fed = Len(Found) \/ cancelled

HandInv == TypeOK /\ Holding /\ Apart /\ Shut

(* Where no two names share a file on disk, the file of a name is as it    *)
(* was until the worker that holds the name rewrites it.                   *)
OwnFiles == \A f, g \in Files : OnDisk[f] = OnDisk[g] => f = g

Untouched ==
    /\ \A f \in Files \ Handed : disk[OnDisk[f]] = "original"
    /\ \A w \in Worker : pc[w] \in {"read", "fix"}
                            => disk[OnDisk[file[w]]] = "original"
    /\ \A w \in Worker : pc[w] \in {"fix", "store"} => src[w] = "original"

Kept == Reportable \cap Handed \subseteq Range(collected) \cup errs \cup InHand
-----------------------------------------------------------------------------
LEMMA LenFound == Len(Found) \in Nat
  BY FoundAssumption

(* The next file to hand out is one of the files, and is not handed out    *)
(* yet: the finder's list has no name twice.                               *)
LEMMA NextPathIsNew ==
    ASSUME fed \in 0 .. Len(Found), fed < Len(Found)
    PROVE  /\ NextPath \in Files \ Handed
           /\ NextPath # 0
           /\ fed' = fed + 1 => Handed' = Handed \cup {NextPath}
  <1>1. Len(Found) \in Nat /\ fed \in Nat /\ fed + 1 \in 1 .. Len(Found)
    BY LenFound
  <1>2. NextPath \in Files /\ NextPath # 0
    <2>1. \A i \in 1 .. Len(Found) : Found[i] \in 1 .. Len(Found)
      BY FoundAssumption
    <2>2. Found[fed + 1] \in 1 .. Len(Found)
      BY <1>1, <2>1
    <2> QED BY <1>1, <2>2 DEF NextPath, Files
  <1>3. ASSUME NEW i \in 1 .. fed PROVE Found[i] # Found[fed + 1]
    <2>1. i \in 1 .. Len(Found) /\ i # fed + 1
      BY <1>1
    <2>2. \A j, k \in 1 .. Len(Found) : Found[j] = Found[k] => j = k
      BY FoundAssumption
    <2> QED BY <1>1, <2>1, <2>2
  <1>4. NextPath \notin Handed
    BY <1>3 DEF NextPath, Handed
  <1>5. ASSUME fed' = fed + 1 PROVE Handed' = Handed \cup {NextPath}
    <2>1. 1 .. fed' = (1 .. fed) \cup {fed + 1}
      BY <1>1, <1>5
    <2> QED BY <2>1 DEF NextPath, Handed
  <1> QED BY <1>2, <1>4, <1>5

(* A worker that takes or gives back a file changes what is in hand by     *)
(* that file.                                                              *)
LEMMA HandGrows ==
    ASSUME file \in [Worker -> Files \cup {0}], NEW w \in Worker, NEW f \in Files,
           f # 0, file[w] = 0, file' = [file EXCEPT ![w] = f]
    PROVE  InHand' = InHand \cup {f}
  BY DEF InHand

LEMMA HandShrinks ==
    ASSUME file \in [Worker -> Files \cup {0}], NEW w \in Worker, file[w] # 0,
           \A u, v \in Worker : u # v /\ file[u] # 0 => file[u] # file[v],
           file' = [file EXCEPT ![w] = 0]
    PROVE  /\ InHand' = InHand \ {file[w]}
           /\ file[w] \in InHand
  BY DEF InHand

(* What appending does to the elements of a sequence.                      *)
LEMMA RangeAppend ==
    ASSUME NEW S, NEW s \in Seq(S), NEW e \in S
    PROVE  /\ Append(s, e) \in Seq(S)
           /\ Range(Append(s, e)) = Range(s) \cup {e}
  <1>1. /\ Append(s, e) \in Seq(S)
        /\ DOMAIN Append(s, e) = 1 .. Len(s) + 1
        /\ DOMAIN s = 1 .. Len(s) /\ Len(s) \in Nat
        /\ \A i \in 1 .. Len(s) : Append(s, e)[i] = s[i]
        /\ Append(s, e)[Len(s) + 1] = e
    OBVIOUS
  <1>2. 1 .. Len(s) + 1 = (1 .. Len(s)) \cup {Len(s) + 1}
    BY <1>1
  <1> QED BY <1>1, <1>2 DEF Range

LEMMA AppendOnce ==
    ASSUME NEW S, NEW s \in Seq(S), NEW e \in S \ Range(s),
           \A i, j \in 1 .. Len(s) : s[i] = s[j] => i = j
    PROVE  \A i, j \in 1 .. Len(Append(s, e)) :
               Append(s, e)[i] = Append(s, e)[j] => i = j
  <1>1. /\ Len(Append(s, e)) = Len(s) + 1 /\ Len(s) \in Nat
        /\ DOMAIN s = 1 .. Len(s)
        /\ \A i \in 1 .. Len(s) : Append(s, e)[i] = s[i]
        /\ Append(s, e)[Len(s) + 1] = e
    OBVIOUS
  <1>2. \A i \in 1 .. Len(s) : s[i] # e
    BY <1>1 DEF Range
  <1>3. 1 .. Len(s) + 1 = (1 .. Len(s)) \cup {Len(s) + 1}
    BY <1>1
  <1> QED BY <1>1, <1>2, <1>3
-----------------------------------------------------------------------------
LEMMA TypeInit == Init => TypeOK
  <1> SUFFICES ASSUME Init PROVE TypeOK
    OBVIOUS
  <1>1. fed \in 0 .. Len(Found)
    BY LenFound DEF Init
  <1>2. collected \in Seq(Files)
    BY DEF Init
  <1>3. disk \in [{OnDisk[f] : f \in Files} -> Contents]
    BY DEF Init, Contents
  <1> QED BY <1>1, <1>2, <1>3 DEF Init, TypeOK, Places, Contents

LEMMA TypeStep == TypeOK /\ Holding /\ [Next]_vars => TypeOK' /\ Holding'
  <1> SUFFICES ASSUME TypeOK, Holding, [Next]_vars PROVE TypeOK' /\ Holding'
    OBVIOUS
  <1> USE DEF TypeOK, Places, Contents, Holding, Busy
  <1>1. ASSUME NEW w \in Worker, Feed(w) PROVE TypeOK' /\ Holding'
    <2>1. fed < Len(Found) /\ fed + 1 \in 0 .. Len(Found)
      BY <1>1, LenFound DEF Feed
    <2>2. NextPath \in Files /\ NextPath # 0
      BY <2>1, NextPathIsNew
    <2> QED BY <1>1, <2>1, <2>2 DEF Feed
  <1>2. ASSUME NEW w \in Worker, Read(w) PROVE TypeOK' /\ Holding'
    <2>1. file[w] \in Files
      BY <1>2 DEF Read
    <2> QED BY <1>2, <2>1 DEF Read
  <1>3. ASSUME NEW w \in Worker, ReadFails(w) PROVE TypeOK' /\ Holding'
    BY <1>3, FileAssumption DEF ReadFails, Fail
  <1>4. ASSUME NEW w \in Worker, Fix(w) PROVE TypeOK' /\ Holding'
    BY <1>4 DEF Fix
  <1>5. ASSUME NEW w \in Worker, Store(w) PROVE TypeOK' /\ Holding'
    BY <1>5 DEF Store
  <1>6. ASSUME NEW w \in Worker, StoreFails(w) PROVE TypeOK' /\ Holding'
    BY <1>6, FileAssumption DEF StoreFails, Fail
  <1>7. ASSUME NEW w \in Worker, Send(w) PROVE TypeOK' /\ Holding'
    <2>1. file[w] \in Files
      BY <1>7 DEF Send
    <2>2. collected' \in Seq(Files)
      BY <1>7, <2>1, RangeAppend DEF Send
    <2> QED BY <1>7, <2>2 DEF Send
  <1>8. ASSUME NEW w \in Worker, Leave(w) PROVE TypeOK' /\ Holding'
    BY <1>8 DEF Leave
  <1>9. ASSUME ClosePaths \/ Cancel \/ CloseResults \/ Return
        PROVE  TypeOK' /\ Holding'
    BY <1>9 DEF ClosePaths, Cancel, CloseResults, Return
  <1>10. ASSUME UNCHANGED vars PROVE TypeOK' /\ Holding'
    BY <1>10 DEF vars
  <1> QED
    BY <1>1, <1>2, <1>3, <1>4, <1>5, <1>6, <1>7, <1>8, <1>9, <1>10
    DEF Next, Step, Over

(* runner.go:62-107: whatever the goroutines do, the variables keep their  *)
(* types and a worker holds a file exactly inside fixFile or at its send.  *)
THEOREM TypeInvariant == Spec => [](TypeOK /\ Holding)
  <1>1. Init => TypeOK /\ Holding
    BY TypeInit DEF Init, Holding, Busy
  <1> QED BY <1>1, TypeStep, PTL DEF Spec
-----------------------------------------------------------------------------
(* The steps that move a file: it enters a hand when it is fed, and leaves *)
(* for `errs', for `collected', or because it has nothing to report.       *)
LEMMA FeedApart ==
    ASSUME TypeOK, Holding, Apart, NEW w \in Worker, Feed(w)
    PROVE  Apart'
  <1>1. /\ fed < Len(Found) /\ fed \in 0 .. Len(Found) /\ fed' = fed + 1
        /\ file[w] = 0 /\ file' = [file EXCEPT ![w] = NextPath]
        /\ file \in [Worker -> Files \cup {0}]
        /\ UNCHANGED <<errs, collected>>
    BY DEF Feed, TypeOK, Holding, Busy
  <1>2. /\ NextPath \in Files \ Handed /\ NextPath # 0
        /\ Handed' = Handed \cup {NextPath}
    BY <1>1, NextPathIsNew
  <1>3. InHand' = InHand \cup {NextPath}
    BY <1>1, <1>2, HandGrows
  <1>4. \A v \in Worker : file[v] # NextPath
    BY <1>2 DEF Apart, InHand
  <1> QED BY <1>1, <1>2, <1>3, <1>4 DEF Apart, OnceEach, TypeOK

LEMMA FailApart ==
    ASSUME TypeOK, Holding, Apart, NEW w \in Worker, pc[w] \in Busy, Fail(w),
           UNCHANGED <<fed, collected>>
    PROVE  Apart'
  <1>1. /\ file[w] # 0 /\ file' = [file EXCEPT ![w] = 0]
        /\ file \in [Worker -> Files \cup {0}]
        /\ errs' = errs \cup {file[w]}
        /\ \A u, v \in Worker : u # v /\ file[u] # 0 => file[u] # file[v]
    BY DEF Fail, TypeOK, Holding, Apart, OnceEach
  <1>2. InHand' = InHand \ {file[w]} /\ file[w] \in InHand
    BY <1>1, HandShrinks
  <1>3. Handed' = Handed
    BY DEF Handed
  <1> QED BY <1>1, <1>2, <1>3 DEF Apart, OnceEach, TypeOK

LEMMA FixApart ==
    ASSUME TypeOK, Holding, Apart, NEW w \in Worker, Fix(w)
    PROVE  Apart'
  <1>1. /\ file[w] # 0
        /\ file' = file \/ file' = [file EXCEPT ![w] = 0]
        /\ file \in [Worker -> Files \cup {0}]
        /\ UNCHANGED <<fed, errs, collected>>
        /\ \A u, v \in Worker : u # v /\ file[u] # 0 => file[u] # file[v]
    BY DEF Fix, TypeOK, Holding, Apart, OnceEach, Busy
  <1>2. Handed' = Handed
    BY <1>1 DEF Handed
  <1>3. CASE file' = file
    BY <1>1, <1>2, <1>3 DEF Apart, OnceEach, InHand
  <1>4. CASE file' = [file EXCEPT ![w] = 0]
    <2>1. InHand' = InHand \ {file[w]}
      BY <1>1, <1>4, HandShrinks
    <2> QED BY <1>1, <1>2, <1>4, <2>1 DEF Apart, OnceEach
  <1> QED BY <1>1, <1>3, <1>4

LEMMA SendApart ==
    ASSUME TypeOK, Holding, Apart, NEW w \in Worker, Send(w)
    PROVE  Apart'
  <1>1. /\ file[w] # 0 /\ file[w] \in Files
        /\ file' = [file EXCEPT ![w] = 0]
        /\ file \in [Worker -> Files \cup {0}]
        /\ collected \in Seq(Files) /\ collected' = Append(collected, file[w])
        /\ UNCHANGED <<fed, errs>>
        /\ \A u, v \in Worker : u # v /\ file[u] # 0 => file[u] # file[v]
    BY DEF Send, TypeOK, Holding, Apart, OnceEach, Busy
  <1>2. InHand' = InHand \ {file[w]} /\ file[w] \in InHand
    BY <1>1, HandShrinks
  <1>3. Range(collected') = Range(collected) \cup {file[w]}
    BY <1>1, RangeAppend
  <1>4. \A i, j \in 1 .. Len(collected') :
            collected'[i] = collected'[j] => i = j
    <2>1. file[w] \in Files \ Range(collected)
      BY <1>1, <1>2 DEF Apart, OnceEach
    <2>2. \A i, j \in 1 .. Len(collected) :
              collected[i] = collected[j] => i = j
      BY DEF Apart, OnceEach
    <2> QED BY <1>1, <2>1, <2>2, AppendOnce
  <1>5. Handed' = Handed
    BY <1>1 DEF Handed
  <1>6. /\ InHand' \subseteq Handed' /\ Range(collected') \subseteq Handed'
        /\ errs' \subseteq Handed'
    BY <1>1, <1>2, <1>3, <1>5 DEF Apart
  <1>7. \A u, v \in Worker : u # v /\ file'[u] # 0 => file'[u] # file'[v]
    BY <1>1
  <1>8. /\ Range(collected') \cap InHand' = {}
        /\ errs' \cap (InHand' \cup Range(collected')) = {}
    BY <1>1, <1>2, <1>3 DEF Apart, OnceEach
  <1> QED BY <1>4, <1>6, <1>7, <1>8 DEF Apart, OnceEach

LEMMA ApartStep == TypeOK /\ Holding /\ Apart /\ [Next]_vars => Apart'
  <1> SUFFICES ASSUME TypeOK, Holding, Apart, [Next]_vars PROVE Apart'
    OBVIOUS
  <1>1. ASSUME UNCHANGED <<fed, file, errs, collected>> PROVE Apart'
    BY <1>1 DEF Apart, OnceEach, InHand, Handed
  <1>2. ASSUME NEW w \in Worker, Read(w) \/ Store(w) \/ Leave(w) PROVE Apart'
    BY <1>1, <1>2 DEF Read, Store, Leave
  <1>3. ASSUME NEW w \in Worker, ReadFails(w) \/ StoreFails(w) PROVE Apart'
    BY <1>3, FailApart DEF ReadFails, StoreFails, Busy
  <1>4. ASSUME ClosePaths \/ Cancel \/ CloseResults \/ Return \/ UNCHANGED vars
        PROVE  Apart'
    BY <1>1, <1>4 DEF ClosePaths, Cancel, CloseResults, Return, vars
  <1> QED
    BY <1>2, <1>3, <1>4, FeedApart, FixApart, SendApart DEF Next, Step, Over

LEMMA ApartInit == Init => Apart
  BY DEF Init, Apart, OnceEach, InHand, Handed, Range

(* runner.go:67-107: no interleaving of the goroutines processes a file    *)
(* twice, reports it twice, or reports it while a worker still holds it.   *)
THEOREM EachFileOnce == Spec => []OnceEach
  <1>1. Apart => OnceEach
    BY DEF Apart
  <1> QED BY <1>1, ApartInit, ApartStep, TypeInvariant, PTL DEF Spec
-----------------------------------------------------------------------------
LEMMA ShutStep == TypeOK /\ Shut /\ [Next]_vars => Shut'
  <1> SUFFICES ASSUME TypeOK, Shut, [Next]_vars PROVE Shut'
    OBVIOUS
  <1> USE DEF TypeOK, Shut
  <1>1. ASSUME NEW w \in Worker, Feed(w) PROVE Shut'
    BY <1>1, LenFound DEF Feed
  <1>2. ASSUME NEW w \in Worker, Step(w) PROVE Shut'
    <2>1. /\ UNCHANGED <<fed, pathsOpen, cancelled, resultsOpen>>
          /\ pc[w] # "gone"
          /\ \E place \in Places : /\ pc' = [pc EXCEPT ![w] = place]
                                   /\ place = "gone" => ~pathsOpen
      <3>1. CASE Fix(w)
        BY <3>1 DEF Fix, Places
      <3>2. CASE Step(w) /\ ~Fix(w)
        BY <3>2 DEF Step, Read, ReadFails, Store, StoreFails, Send, Leave, Fail,
                    Places
      <3> QED BY <1>2, <3>1, <3>2
    <2>2. ASSUME NEW v \in Worker, pc'[v] = "gone"
          PROVE  ~pathsOpen'
      <3>1. PICK place \in Places : /\ pc' = [pc EXCEPT ![w] = place]
                                    /\ place = "gone" => ~pathsOpen
        BY <2>1
      <3>2. pc \in [Worker -> Places] /\ pathsOpen' = pathsOpen
        BY <2>1
      <3>3. CASE v = w
        BY <2>2, <3>1, <3>2, <3>3
      <3>4. CASE v # w
        <4>1. pc[v] = "gone"
          BY <2>2, <3>1, <3>2, <3>4
        <4> QED BY <3>2, <4>1
      <3> QED BY <3>3, <3>4
    <2>3. ~resultsOpen' => FALSE
      BY <2>1
    <2> QED BY <2>1, <2>2, <2>3
  <1>3. ASSUME ClosePaths \/ Cancel \/ CloseResults \/ Return \/ UNCHANGED vars
        PROVE  Shut'
    BY <1>3 DEF ClosePaths, FeederStops, Cancel, CloseResults, AllGone, Return,
                vars
  <1> QED BY <1>1, <1>2, <1>3 DEF Next, Over

LEMMA ShutInvariant == Spec => []Shut
  <1>1. Init => Shut
    BY DEF Init, Shut
  <1> QED BY <1>1, ShutStep, TypeInvariant, PTL DEF Spec

(* runner.go:99-102: `results' is never closed under a worker that could   *)
(* still send, nor before the feeder is finished.                          *)
THEOREM ClosedOnlyWhenAllGone == Spec => []NothingAfterClose
  <1>1. Shut => NothingAfterClose
    BY WorkerAssumption DEF Shut, NothingAfterClose
  <1> QED BY <1>1, ShutInvariant, PTL
-----------------------------------------------------------------------------
(* With a file of its own behind every name, no file that needed a report  *)
(* gets lost.                                                              *)
LEMMA UntouchedInit == Init => Untouched /\ Kept
  <1> SUFFICES ASSUME Init PROVE Untouched /\ Kept
    OBVIOUS
  <1>1. Handed = {}
    BY DEF Init, Handed
  <1>2. \A f \in Files : disk[OnDisk[f]] = "original"
    BY DEF Init
  <1> QED BY <1>1, <1>2 DEF Init, Untouched, Kept

LEMMA FeedKeeps ==
    ASSUME TypeOK, Holding, Apart, Untouched, Kept, NEW w \in Worker, Feed(w)
    PROVE  Untouched' /\ Kept'
  <1>1. /\ fed < Len(Found) /\ fed \in 0 .. Len(Found) /\ fed' = fed + 1
        /\ pc' = [pc EXCEPT ![w] = "read"]
        /\ file[w] = 0 /\ file' = [file EXCEPT ![w] = NextPath]
        /\ file \in [Worker -> Files \cup {0}] /\ pc \in [Worker -> Places]
        /\ UNCHANGED <<src, disk, errs, collected>>
    BY DEF Feed, TypeOK, Holding, Busy
  <1>2. /\ NextPath \in Files \ Handed /\ NextPath # 0
        /\ Handed' = Handed \cup {NextPath}
    BY <1>1, NextPathIsNew
  <1>3. InHand' = InHand \cup {NextPath}
    BY <1>1, <1>2, HandGrows
  <1>4. Untouched'
    BY <1>1, <1>2 DEF Untouched
  <1>5. Kept'
    BY <1>1, <1>2, <1>3 DEF Kept
  <1> QED BY <1>4, <1>5

(* The file a worker writes is nobody else's.                              *)
LEMMA WriteIsOwn ==
    ASSUME OwnFiles, TypeOK, Holding, Apart, Untouched,
           NEW w \in Worker, pc[w] \in Busy, NEW c,
           disk' = [disk EXCEPT ![OnDisk[file[w]]] = c], UNCHANGED fed
    PROVE  /\ \A f \in Files' \ Handed' : disk'[OnDisk[f]] = "original"
           /\ \A v \in Worker : v # w /\ pc[v] \in {"read", "fix"}
                  => disk'[OnDisk[file[v]]] = "original"
  <1>1. /\ file[w] \in Files /\ file[w] \in Handed
        /\ \A v \in Worker : v # w => file[v] # file[w]
        /\ \A v \in Worker : pc[v] \in {"read", "fix"} => file[v] \in Files
    BY DEF TypeOK, Holding, Busy, Apart, OnceEach, InHand
  <1>2. /\ Handed' = Handed /\ Files' = Files
        /\ DOMAIN disk = {OnDisk[f] : f \in Files}
    BY DEF Handed, TypeOK
  <1>3. \A f \in Files : f # file[w] => disk'[OnDisk[f]] = disk[OnDisk[f]]
    BY <1>1, <1>2 DEF OwnFiles
  <1> QED BY <1>1, <1>2, <1>3 DEF Untouched

LEMMA FixKeeps ==
    ASSUME OwnFiles, TypeOK, Holding, Apart, Untouched, Kept,
           NEW w \in Worker, Fix(w)
    PROVE  Untouched' /\ Kept'
  <1>1. /\ pc[w] = "fix" /\ src[w] = "original" /\ file[w] \in Files
        /\ file \in [Worker -> Files \cup {0}] /\ pc \in [Worker -> Places]
        /\ UNCHANGED <<fed, src, errs, collected>>
        /\ \A u, v \in Worker : u # v /\ file[u] # 0 => file[u] # file[v]
    BY DEF Fix, TypeOK, Holding, Apart, OnceEach, Untouched, Busy
  <1>2. Handed' = Handed
    BY <1>1 DEF Handed
  <1>3. PICK r \in ResultsOf(file[w], src[w]) :
            \/ /\ r.changed /\ Write
               /\ disk' = [disk EXCEPT ![OnDisk[file[w]]] = "torn"]
               /\ pc' = [pc EXCEPT ![w] = "store"]
               /\ UNCHANGED file
            \/ /\ r.reported /\ ~(r.changed /\ Write)
               /\ pc' = [pc EXCEPT ![w] = "send"]
               /\ UNCHANGED <<disk, file>>
            \/ /\ ~r.reported
               /\ pc' = [pc EXCEPT ![w] = "recv"]
               /\ file' = [file EXCEPT ![w] = 0]
               /\ UNCHANGED disk
    BY DEF Fix
  <1>4. r.reported <=> file[w] \in Reportable
    <2>1. r = [changed |-> file[w] \in Fixable,
               reported |-> file[w] \in Fixable \cup Erroneous]
      BY <1>1, <1>3 DEF ResultsOf
    <2>2. r.reported = (file[w] \in Fixable \cup Erroneous)
      BY <2>1
    <2> QED BY <2>2 DEF Reportable
  <1>5. CASE /\ r.changed /\ Write
             /\ disk' = [disk EXCEPT ![OnDisk[file[w]]] = "torn"]
             /\ pc' = [pc EXCEPT ![w] = "store"]
             /\ UNCHANGED file
    <2>1. /\ \A f \in Files' \ Handed' : disk'[OnDisk[f]] = "original"
          /\ \A v \in Worker : v # w /\ pc[v] \in {"read", "fix"}
                 => disk'[OnDisk[file[v]]] = "original"
      BY <1>1, <1>5, WriteIsOwn DEF Busy
    <2>3. Untouched'
      BY <1>1, <1>5, <2>1 DEF Untouched
    <2>2. Kept'
      BY <1>1, <1>2, <1>5 DEF Kept, InHand
    <2> QED BY <2>2, <2>3
  <1>6. CASE /\ r.reported /\ ~(r.changed /\ Write)
             /\ pc' = [pc EXCEPT ![w] = "send"]
             /\ UNCHANGED <<disk, file>>
    <2>1. Untouched'
      BY <1>1, <1>2, <1>6 DEF Untouched
    <2>2. Kept'
      BY <1>1, <1>2, <1>6 DEF Kept, InHand
    <2> QED BY <2>1, <2>2
  <1>7. CASE /\ ~r.reported
             /\ pc' = [pc EXCEPT ![w] = "recv"]
             /\ file' = [file EXCEPT ![w] = 0]
             /\ UNCHANGED disk
    <2>1. InHand' = InHand \ {file[w]}
      <3>1. file[w] # 0
        BY <1>1, LenFound DEF Files
      <3> QED BY <1>1, <1>7, <3>1, HandShrinks
    <2>2. Untouched'
      BY <1>1, <1>2, <1>7 DEF Untouched
    <2>3. Kept'
      BY <1>1, <1>2, <1>4, <1>7, <2>1 DEF Kept
    <2> QED BY <2>2, <2>3
  <1> QED BY <1>3, <1>5, <1>6, <1>7

LEMMA KeptStep ==
    ASSUME OwnFiles
    PROVE  TypeOK /\ Holding /\ Apart /\ Untouched /\ Kept /\ [Next]_vars
               => Untouched' /\ Kept'
  <1> SUFFICES ASSUME TypeOK, Holding, Apart, Untouched, Kept, [Next]_vars
               PROVE  Untouched' /\ Kept'
    OBVIOUS
  <1>1. ASSUME NEW w \in Worker, Read(w) PROVE Untouched' /\ Kept'
    <2>1. Untouched'
      BY <1>1 DEF Read, Untouched, TypeOK, Handed
    <2>2. Kept'
      BY <1>1 DEF Read, Kept, InHand, Handed
    <2> QED BY <2>1, <2>2
  <1>2. ASSUME NEW w \in Worker, ReadFails(w) \/ StoreFails(w)
        PROVE  Untouched' /\ Kept'
    <2>1. /\ file[w] # 0 /\ file' = [file EXCEPT ![w] = 0]
          /\ pc' = [pc EXCEPT ![w] = "recv"]
          /\ file \in [Worker -> Files \cup {0}] /\ pc \in [Worker -> Places]
          /\ errs' = errs \cup {file[w]}
          /\ \A u, v \in Worker : u # v /\ file[u] # 0 => file[u] # file[v]
          /\ UNCHANGED <<fed, src, disk, collected>>
      BY <1>2 DEF ReadFails, StoreFails, Fail, TypeOK, Holding, Apart,
                  OnceEach, Busy
    <2>2. InHand' = InHand \ {file[w]}
      BY <2>1, HandShrinks
    <2>3. Untouched'
      BY <2>1 DEF Untouched, Handed
    <2>4. Kept'
      BY <2>1, <2>2 DEF Kept, Handed
    <2> QED BY <2>3, <2>4
  <1>3. ASSUME NEW w \in Worker, Store(w) PROVE Untouched' /\ Kept'
    <2>1. /\ pc[w] = "store" /\ pc' = [pc EXCEPT ![w] = "send"]
          /\ pc \in [Worker -> Places]
          /\ UNCHANGED <<fed, file, src, errs, collected>>
      BY <1>3 DEF Store, TypeOK
    <2>2. /\ \A f \in Files' \ Handed' : disk'[OnDisk[f]] = "original"
          /\ \A v \in Worker : v # w /\ pc[v] \in {"read", "fix"}
                 => disk'[OnDisk[file[v]]] = "original"
      BY <1>3, <2>1, WriteIsOwn DEF Store, Busy
    <2>3. Untouched'
      BY <2>1, <2>2 DEF Untouched
    <2>4. Kept'
      BY <2>1 DEF Kept, InHand, Handed
    <2> QED BY <2>3, <2>4
  <1>4. ASSUME NEW w \in Worker, Send(w) PROVE Untouched' /\ Kept'
    <2>1. /\ file[w] # 0 /\ file[w] \in Files
          /\ file' = [file EXCEPT ![w] = 0]
          /\ pc' = [pc EXCEPT ![w] = "recv"]
          /\ file \in [Worker -> Files \cup {0}] /\ pc \in [Worker -> Places]
          /\ collected \in Seq(Files) /\ collected' = Append(collected, file[w])
          /\ UNCHANGED <<fed, src, disk, errs>>
          /\ \A u, v \in Worker : u # v /\ file[u] # 0 => file[u] # file[v]
      BY <1>4 DEF Send, TypeOK, Holding, Apart, OnceEach, Busy
    <2>2. InHand' = InHand \ {file[w]}
      BY <2>1, HandShrinks
    <2>3. Range(collected') = Range(collected) \cup {file[w]}
      BY <2>1, RangeAppend
    <2>4. Untouched'
      BY <2>1 DEF Untouched, Handed
    <2>5. Kept'
      BY <2>1, <2>2, <2>3 DEF Kept, Handed
    <2> QED BY <2>4, <2>5
  <1>5. ASSUME NEW w \in Worker, Leave(w) PROVE Untouched' /\ Kept'
    <2>1. Untouched'
      BY <1>5 DEF Leave, Untouched, TypeOK, Handed
    <2>2. Kept'
      BY <1>5 DEF Leave, Kept, InHand, Handed
    <2> QED BY <2>1, <2>2
  <1>6. ASSUME ClosePaths \/ Cancel \/ CloseResults \/ Return \/ UNCHANGED vars
        PROVE  Untouched' /\ Kept'
    <2>1. UNCHANGED <<fed, pc, file, src, disk, errs, collected>>
      BY <1>6 DEF ClosePaths, Cancel, CloseResults, Return, vars
    <2> QED BY <2>1 DEF Untouched, Kept, InHand, Handed
  <1> QED
    BY <1>1, <1>2, <1>3, <1>4, <1>5, <1>6, FeedKeeps, FixKeeps
    DEF Next, Step, Over

LEMMA UntouchedHolds ==
    ASSUME OwnFiles
    PROVE  Spec => [](Untouched /\ Kept)
  <1>1. Init => Apart /\ Untouched /\ Kept
    BY ApartInit, UntouchedInit
  <1>2. TypeOK /\ Holding /\ Apart /\ Untouched /\ Kept /\ [Next]_vars
            => Apart' /\ Untouched' /\ Kept'
    BY ApartStep, KeptStep
  <1> QED BY <1>1, <1>2, TypeInvariant, PTL DEF Spec

LEMMA ShutIsAccounted ==
    ASSUME TypeOK, Holding, Shut, Kept
    PROVE  Accounted /\ (~resultsOpen /\ ~cancelled => fed = Len(Found))
  <1> SUFFICES ASSUME ~resultsOpen
               PROVE  /\ Reportable \cap Handed \subseteq Range(collected) \cup errs
                      /\ ~cancelled => fed = Len(Found) /\ Handed = Files
    BY DEF Accounted
  <1>1. InHand = {}
    BY DEF Shut, Holding, Busy, InHand
  <1>2. ASSUME ~cancelled PROVE fed = Len(Found) /\ Handed = Files
    <2>1. fed = Len(Found)
      BY <1>2, WorkerAssumption DEF Shut
    <2> QED BY <2>1, FoundAssumption DEF Handed, Files
  <1> QED BY <1>1, <1>2 DEF Kept

(* runner.go:39-41, 104-117: where no two names stand for one file, every  *)
(* file that was handed out and has something to report is collected or    *)
(* among the errors once the pool is shut, and without a cancelled context *)
(* all files were handed out.                                              *)
THEOREM NoFileLost ==
    ASSUME OwnFiles
    PROVE  Spec => []Accounted
  <1>1. TypeOK /\ Holding /\ Shut /\ Kept => Accounted
    BY ShutIsAccounted
  <1>2. Spec => [](Untouched /\ Kept)
    BY UntouchedHolds
  <1> QED BY <1>1, <1>2, TypeInvariant, ShutInvariant, PTL
-----------------------------------------------------------------------------
(* What is on disk tells who wrote it: a torn file is being written or its *)
(* write failed, a fixed one is on its way to the results or among them.   *)
(* And what some rule changes is written before it is sent.                *)
Written(f) == f \in Fixable /\ Write => disk[OnDisk[f]] = "fixed"

Marked ==
    /\ \A w \in Worker : pc[w] = "store" => file[w] \in Fixable /\ Write
    /\ \A w \in Worker : pc[w] = "send" => Written(file[w])
    /\ \A f \in Range(collected) : Written(f)
    /\ \A f \in Files : disk[OnDisk[f]] = "torn" =>
           f \in errs \/ \E w \in Worker : pc[w] = "store" /\ file[w] = f
    /\ \A f \in Files : disk[OnDisk[f]] = "fixed" =>
           /\ Write /\ f \in Fixable
           /\ f \in Range(collected) \/ \E w \in Worker : pc[w] = "send" /\ file[w] = f
    /\ outcome # "running" => ~resultsOpen

LEMMA MarkedInit == ASSUME Init PROVE Marked
  <1>1. \A f \in Files : disk[OnDisk[f]] = "original"
    BY DEF Init
  <1>2. Range(collected) = {}
    BY DEF Init, Range
  <1> QED BY <1>1, <1>2 DEF Init, Marked

(* A worker that neither begins nor ends a write.                          *)
LEMMA UnwrittenKeepsMarked ==
    ASSUME TypeOK, Marked, NEW w \in Worker, pc[w] \in {"recv", "read", "fix"},
           pc'[w] # "store", pc'[w] = "send" => Written(file[w]) /\ file'[w] = file[w],
           \A v \in Worker : v # w => pc'[v] = pc[v] /\ file'[v] = file[v],
           errs \subseteq errs', UNCHANGED <<disk, collected, resultsOpen, outcome>>
    PROVE  Marked'
  BY DEF Marked, Written

(* The file a worker begins or ends a write of: it is nobody else's, and   *)
(* not collected yet.                                                      *)
LEMMA WriterIsAlone ==
    ASSUME OwnFiles, TypeOK, Holding, Apart, NEW w \in Worker, pc[w] \in Busy, NEW c,
           disk' = [disk EXCEPT ![OnDisk[file[w]]] = c]
    PROVE  /\ \A f \in Files : f # file[w] => disk'[OnDisk[f]] = disk[OnDisk[f]]
           /\ disk'[OnDisk[file[w]]] = c
           /\ \A v \in Worker : v # w => file[v] # file[w]
           /\ \A v \in Worker : pc[v] \in Busy => file[v] \in Files
           /\ file[w] \notin Range(collected)
           /\ Range(collected) \subseteq Files
  <1>1. /\ file[w] \in Files /\ file[w] # 0 /\ file[w] \in InHand
        /\ DOMAIN disk = {OnDisk[f] : f \in Files}
        /\ \A v \in Worker : pc[v] \in Busy => file[v] \in Files
    BY DEF TypeOK, Holding, Busy, InHand
  <1>2. Range(collected) \subseteq Files
    BY DEF TypeOK, Range
  <1>3. /\ file[w] \notin Range(collected)
        /\ \A v \in Worker : v # w => file[v] # file[w]
    BY <1>1 DEF Apart, OnceEach
  <1>4. /\ \A f \in Files : f # file[w] => disk'[OnDisk[f]] = disk[OnDisk[f]]
        /\ disk'[OnDisk[file[w]]] = c
    BY <1>1 DEF OwnFiles
  <1> QED BY <1>1, <1>2, <1>3, <1>4

LEMMA FixKeepsMarked ==
    ASSUME OwnFiles, TypeOK, Holding, Apart, Untouched, Marked, NEW w \in Worker, Fix(w)
    PROVE  Marked'
  <1>1. /\ pc[w] = "fix" /\ src[w] = "original" /\ file[w] \in Files
        /\ file \in [Worker -> Files \cup {0}] /\ pc \in [Worker -> Places]
        /\ UNCHANGED <<errs, collected, resultsOpen, outcome>>
    BY DEF Fix, TypeOK, Holding, Untouched, Busy
  <1>2. PICK r \in ResultsOf(file[w], src[w]) :
            \/ /\ r.changed /\ Write
               /\ disk' = [disk EXCEPT ![OnDisk[file[w]]] = "torn"]
               /\ pc' = [pc EXCEPT ![w] = "store"]
               /\ UNCHANGED file
            \/ /\ ~(r.changed /\ Write)
               /\ pc' = [pc EXCEPT ![w] = "send"]
               /\ UNCHANGED <<disk, file>>
            \/ /\ pc' = [pc EXCEPT ![w] = "recv"]
               /\ file' = [file EXCEPT ![w] = 0]
               /\ UNCHANGED disk
    BY DEF Fix
  <1>3. r.changed = (file[w] \in Fixable)
    <2>1. r = [changed |-> file[w] \in Fixable,
               reported |-> file[w] \in Fixable \cup Erroneous]
      BY <1>1, <1>2 DEF ResultsOf
    <2> QED BY <2>1
  <1>4. CASE /\ r.changed /\ Write
             /\ disk' = [disk EXCEPT ![OnDisk[file[w]]] = "torn"]
             /\ pc' = [pc EXCEPT ![w] = "store"]
             /\ UNCHANGED file
    <2>1. file[w] \in Fixable /\ Write
      BY <1>3, <1>4
    <2>2. pc'[w] = "store" /\ \A v \in Worker : v # w => pc'[v] = pc[v]
      BY <1>1, <1>4
    <2>3. pc[w] \in Busy
      BY <1>1 DEF Busy
    <2>4. /\ \A f \in Files : f # file[w] => disk'[OnDisk[f]] = disk[OnDisk[f]]
          /\ disk'[OnDisk[file[w]]] = "torn"
          /\ \A v \in Worker : v # w => file[v] # file[w]
          /\ \A v \in Worker : pc[v] \in Busy => file[v] \in Files
          /\ file[w] \notin Range(collected)
          /\ Range(collected) \subseteq Files
      BY <1>4, <2>3, WriterIsAlone
    <2> QED BY <1>1, <1>4, <2>1, <2>2, <2>4 DEF Marked, Written, Busy
  <1>5. CASE /\ ~(r.changed /\ Write)
             /\ pc' = [pc EXCEPT ![w] = "send"]
             /\ UNCHANGED <<disk, file>>
    <2>1. Written(file[w])
      BY <1>3, <1>5 DEF Written
    <2> QED BY <1>1, <1>5, <2>1, UnwrittenKeepsMarked
  <1>6. CASE /\ pc' = [pc EXCEPT ![w] = "recv"]
             /\ file' = [file EXCEPT ![w] = 0]
             /\ UNCHANGED disk
    BY <1>1, <1>6, UnwrittenKeepsMarked
  <1> QED BY <1>2, <1>4, <1>5, <1>6

LEMMA MarkedStep ==
    ASSUME OwnFiles
    PROVE  TypeOK /\ Holding /\ Apart /\ Untouched /\ Marked /\ [Next]_vars => Marked'
  <1> SUFFICES ASSUME TypeOK, Holding, Apart, Untouched, Marked, [Next]_vars PROVE Marked'
    OBVIOUS
  <1>1. file \in [Worker -> Files \cup {0}] /\ pc \in [Worker -> Places]
    BY DEF TypeOK
  <1>2. ASSUME NEW w \in Worker, Feed(w) \/ Read(w) \/ Leave(w) PROVE Marked'
    <2>1. /\ pc[w] \in {"recv", "read"} /\ pc'[w] \notin {"store", "send"}
          /\ \A v \in Worker : v # w => pc'[v] = pc[v] /\ file'[v] = file[v]
          /\ UNCHANGED <<errs, disk, collected, resultsOpen, outcome>>
      BY <1>1, <1>2 DEF Feed, Read, Leave
    <2> QED BY <2>1, UnwrittenKeepsMarked
  <1>3. ASSUME NEW w \in Worker, ReadFails(w) PROVE Marked'
    <2>1. /\ pc[w] = "read" /\ pc'[w] = "recv" /\ errs \subseteq errs'
          /\ \A v \in Worker : v # w => pc'[v] = pc[v] /\ file'[v] = file[v]
          /\ UNCHANGED <<disk, collected, resultsOpen, outcome>>
      BY <1>1, <1>3 DEF ReadFails, Fail
    <2> QED BY <2>1, UnwrittenKeepsMarked
  <1>4. ASSUME NEW w \in Worker, Store(w) PROVE Marked'
    <2>1. /\ pc[w] = "store" /\ file[w] \in Fixable /\ Write
          /\ src[w] = "original" /\ pc[w] \in Busy
          /\ pc'[w] = "send" /\ \A v \in Worker : v # w => pc'[v] = pc[v]
          /\ UNCHANGED <<file, errs, collected, resultsOpen, outcome>>
      BY <1>1, <1>4 DEF Store, Busy, Untouched, Marked
    <2>2. disk' = [disk EXCEPT ![OnDisk[file[w]]] = "fixed"]
      BY <1>4, <2>1 DEF Store
    <2>3. /\ \A f \in Files : f # file[w] => disk'[OnDisk[f]] = disk[OnDisk[f]]
          /\ disk'[OnDisk[file[w]]] = "fixed"
          /\ \A v \in Worker : v # w => file[v] # file[w]
          /\ \A v \in Worker : pc[v] \in Busy => file[v] \in Files
          /\ file[w] \notin Range(collected)
          /\ Range(collected) \subseteq Files
      BY <2>1, <2>2, WriterIsAlone
    <2> QED BY <2>1, <2>3 DEF Marked, Written, Busy
  <1>5. ASSUME NEW w \in Worker, StoreFails(w) PROVE Marked'
    <2>1. /\ pc[w] = "store" /\ pc'[w] = "recv" /\ errs' = errs \cup {file[w]}
          /\ \A v \in Worker : v # w => pc'[v] = pc[v] /\ file'[v] = file[v]
          /\ UNCHANGED <<disk, collected, resultsOpen, outcome>>
      BY <1>1, <1>5 DEF StoreFails, Fail
    <2> QED BY <2>1 DEF Marked, Written
  <1>6. ASSUME NEW w \in Worker, Send(w) PROVE Marked'
    <2>1. /\ pc[w] = "send" /\ pc'[w] = "recv" /\ file[w] \in Files
          /\ collected \in Seq(Files) /\ collected' = Append(collected, file[w])
          /\ \A v \in Worker : v # w => pc'[v] = pc[v] /\ file'[v] = file[v]
          /\ UNCHANGED <<disk, errs, resultsOpen, outcome>>
      BY <1>1, <1>6 DEF Send, TypeOK, Holding, Busy
    <2>2. Range(collected') = Range(collected) \cup {file[w]}
      BY <2>1, RangeAppend
    <2> QED BY <2>1, <2>2 DEF Marked, Written
  <1>7. ASSUME ClosePaths \/ Cancel \/ CloseResults \/ Return \/ UNCHANGED vars
        PROVE  Marked'
    <2>1. /\ UNCHANGED <<pc, file, disk, errs, collected>>
          /\ outcome' # "running" => ~resultsOpen'
      BY <1>7 DEF ClosePaths, Cancel, CloseResults, Return, vars, Marked
    <2> QED BY <2>1 DEF Marked, Written
  <1> QED
    BY <1>2, <1>3, <1>4, <1>5, <1>6, <1>7, FixKeepsMarked DEF Next, Step, Over

(* runner.go:169-178: where no two names stand for one file, a file that   *)
(* --fix was interrupted in is named by an error, and the files that were  *)
(* rewritten are exactly the collected ones that some rule changes.        *)
THEOREM FilesAreWhole ==
    ASSUME OwnFiles
    PROVE  Spec => []WholeFiles
  <1>1. TypeOK /\ Shut /\ Marked => WholeFiles
    <2> SUFFICES ASSUME TypeOK, Shut, Marked, outcome # "running", NEW f \in Files
                 PROVE  /\ disk[OnDisk[f]] = "torn" => f \in errs
                        /\ disk[OnDisk[f]] = "fixed" <=>
                               Write /\ f \in Range(collected) \cap Fixable
      BY DEF WholeFiles
    <2>1. \A w \in Worker : pc[w] = "gone"
      BY DEF Shut, Marked
    <2>2. Write /\ f \in Range(collected) \cap Fixable => disk[OnDisk[f]] = "fixed"
      BY DEF Marked, Written
    <2> QED BY <2>1, <2>2 DEF Marked
  <1>2. Spec => [](Untouched /\ Kept)
    BY UntouchedHolds
  <1>3. Spec => []Apart
    BY ApartInit, ApartStep, TypeInvariant, PTL DEF Spec
  <1>4. Init => Marked
    BY MarkedInit
  <1> QED BY <1>1, <1>2, <1>3, <1>4, MarkedStep, TypeInvariant, ShutInvariant, PTL DEF Spec
-----------------------------------------------------------------------------
(* The pool as a dispatcher: what is settled of the files handed out.      *)
Settled == Range(collected) \cup errs \cup (Handed \ (InHand \cup Reportable))

LEMMA FeedDispatches ==
    ASSUME TypeOK, Holding, Apart, NEW w \in Worker, Feed(w)
    PROVE  Dispatch!Next
  <1>1. /\ fed < Len(Found) /\ fed \in 0 .. Len(Found) /\ fed' = fed + 1
        /\ file[w] = 0 /\ file' = [file EXCEPT ![w] = NextPath]
        /\ file \in [Worker -> Files \cup {0}]
        /\ UNCHANGED <<errs, collected>>
    BY DEF Feed, TypeOK, Holding, Busy
  <1>2. /\ NextPath \in Files \ Handed /\ NextPath # 0
        /\ Handed' = Handed \cup {NextPath}
    BY <1>1, NextPathIsNew
  <1>3. InHand' = InHand \cup {NextPath}
    BY <1>1, <1>2, HandGrows
  <1>4. Settled' = Settled
    BY <1>1, <1>2, <1>3 DEF Settled, Apart
  <1> QED BY <1>2, <1>3, <1>4 DEF Dispatch!Next, Settled

(* A worker gives a file back: with an error, a result, or nothing to say. *)
LEMMA GivingBackDispatches ==
    ASSUME Apart, NEW f \in InHand, InHand' = InHand \ {f}, Handed' = Handed,
           Range(collected) \subseteq Range(collected'), errs \subseteq errs',
           Range(collected') \cup errs' \subseteq Range(collected) \cup errs \cup {f}
    PROVE  Dispatch!Next
  <1>1. Settled \subseteq Settled' /\ Settled' \ Settled \subseteq {f}
    BY DEF Settled
  <1>2. f \in InHand \ InHand'
    OBVIOUS
  <1> QED BY <1>1, <1>2 DEF Dispatch!Next, Settled

LEMMA DispatchStep ==
    TypeOK /\ Holding /\ Apart /\ [Next]_vars => [Dispatch!Next]_(Dispatch!vars)
  <1> SUFFICES ASSUME TypeOK, Holding, Apart, [Next]_vars
               PROVE  [Dispatch!Next]_(Dispatch!vars)
    OBVIOUS
  <1>1. ASSUME UNCHANGED <<fed, file, errs, collected>>
        PROVE  UNCHANGED Dispatch!vars
    <2>1. Handed' = Handed /\ InHand' = InHand
      BY <1>1 DEF Handed, InHand
    <2> QED BY <1>1, <2>1 DEF Dispatch!vars
  <1>2. ASSUME NEW w \in Worker, pc[w] \in Busy, UNCHANGED fed,
               file' = [file EXCEPT ![w] = 0],
               \/ UNCHANGED <<errs, collected>>
               \/ UNCHANGED collected /\ errs' = errs \cup {file[w]}
               \/ UNCHANGED errs /\ collected' = Append(collected, file[w])
        PROVE  Dispatch!Next
    <2>1. /\ file \in [Worker -> Files \cup {0}] /\ file[w] # 0
          /\ file[w] \in Files /\ collected \in Seq(Files)
          /\ \A u, v \in Worker : u # v /\ file[u] # 0 => file[u] # file[v]
      BY <1>2 DEF TypeOK, Holding, Apart, OnceEach
    <2>2. InHand' = InHand \ {file[w]} /\ file[w] \in InHand
      BY <1>2, <2>1, HandShrinks
    <2>3. Handed' = Handed
      BY <1>2 DEF Handed
    <2>4. Range(Append(collected, file[w])) = Range(collected) \cup {file[w]}
      BY <2>1, RangeAppend
    <2>5. /\ Range(collected) \subseteq Range(collected') /\ errs \subseteq errs'
          /\ Range(collected') \cup errs'
                 \subseteq Range(collected) \cup errs \cup {file[w]}
      BY <1>2, <2>4
    <2> QED BY <2>2, <2>3, <2>5, GivingBackDispatches
  <1>3. ASSUME NEW w \in Worker, ReadFails(w) \/ StoreFails(w) \/ Send(w)
        PROVE  Dispatch!Next
    BY <1>2, <1>3 DEF ReadFails, StoreFails, Fail, Send, Busy
  <1>4. ASSUME NEW w \in Worker, Fix(w)
        PROVE  Dispatch!Next \/ UNCHANGED Dispatch!vars
    <2>1. /\ UNCHANGED <<fed, errs, collected>> /\ pc[w] \in Busy
          /\ file' = file \/ file' = [file EXCEPT ![w] = 0]
      BY <1>4 DEF Fix, Busy
    <2> QED BY <1>1, <1>2, <2>1
  <1>5. ASSUME NEW w \in Worker, Read(w) \/ Store(w) \/ Leave(w)
        PROVE  UNCHANGED Dispatch!vars
    BY <1>1, <1>5 DEF Read, Store, Leave
  <1>6. ASSUME ClosePaths \/ Cancel \/ CloseResults \/ Return \/ UNCHANGED vars
        PROVE  UNCHANGED Dispatch!vars
    BY <1>1, <1>6 DEF ClosePaths, Cancel, CloseResults, Return, vars
  <1> QED
    BY <1>3, <1>4, <1>5, <1>6, FeedDispatches DEF Next, Step, Over

(* runner.go:67-107: the goroutines together are a dispatcher that hands   *)
(* each file out once and settles only what a worker holds.                *)
THEOREM PoolDispatches == Spec => DispatchSpec
  <1>1. Init => Dispatch!Init
    <2> SUFFICES ASSUME Init PROVE Dispatch!Init
      OBVIOUS
    <2>1. Handed = {} /\ InHand = {} /\ Range(collected) = {} /\ errs = {}
      BY DEF Init, Handed, InHand, Range
    <2> QED BY <2>1 DEF Dispatch!Init
  <1>2. Spec => []Apart
    BY ApartInit, ApartStep, TypeInvariant, PTL DEF Spec
  <1> QED
    BY <1>1, <1>2, TypeInvariant, DispatchStep, PTL
    DEF Spec, DispatchSpec, Dispatch!Spec
-----------------------------------------------------------------------------
(* Induction over 0 .. m, from the order of the naturals.                  *)

LEMMA LeastNatural ==
    ASSUME NEW S \in SUBSET Nat, S # {}
    PROVE  \E n \in S : \A m \in S : n <= m
  <1>1. \E n \in S : \A m \in S : ~ (<<m, n>> \in OpToRel(<, Nat))
    BY NatLessThanWellFounded, WFMin
  <1>2. PICK n \in S : \A m \in S : ~ (<<m, n>> \in OpToRel(<, Nat))
    BY <1>1
  <1>3. \A m \in S : ~ (m < n)
    BY <1>2 DEF OpToRel
  <1> QED BY <1>3

LEMMA Induction ==
    ASSUME NEW S, NEW m \in Nat, 0 \in S, \A n \in 0 .. m - 1 : n \in S => n + 1 \in S
    PROVE  0 .. m \subseteq S
  <1> SUFFICES ASSUME (0 .. m) \ S # {} PROVE FALSE
    OBVIOUS
  <1>0. (0 .. m) \ S \in SUBSET Nat
    OBVIOUS
  <1>1. PICK n \in (0 .. m) \ S : \A k \in (0 .. m) \ S : n <= k
    BY <1>0, LeastNatural
  <1>2. n - 1 \in 0 .. m - 1 /\ n - 1 \in S /\ (n - 1) + 1 = n
    BY <1>1
  <1> QED BY <1>1, <1>2
-----------------------------------------------------------------------------
(* Any list without a double can be put in order: what slices.SortFunc is  *)
(* asked for exists.                                                       *)

Once(s) == \A i, j \in 1 .. Len(s) : s[i] = s[j] => i = j

(* t lists the first n elements of s in order.                             *)
ListsFirst(t, n, s) ==
    /\ t \in [1 .. n -> Nat]
    /\ \A i, j \in 1 .. n : i < j => t[i] < t[j]
    /\ \A i \in 1 .. n : \E j \in 1 .. n : t[i] = s[j]
    /\ \A j \in 1 .. n : \E i \in 1 .. n : t[i] = s[j]

LEMMA Inserts ==
    ASSUME NEW s \in Seq(Nat), Once(s), NEW n \in Nat, n + 1 <= Len(s),
           NEW t, ListsFirst(t, n, s)
    PROVE  \E u : ListsFirst(u, n + 1, s)
  <1> DEFINE e == s[n + 1]
             K == {i \in 1 .. n : t[i] > e} \cup {n + 1}
  <1>1. K \in SUBSET Nat /\ K # {}
    OBVIOUS
  <1>2. PICK k \in K : \A i \in K : k <= i
    <2> HIDE DEF K
    <2> QED BY <1>1, LeastNatural
  <1>3. /\ k \in 1 .. n + 1 /\ e \in Nat
        /\ t \in [1 .. n -> Nat]
        /\ \A i, j \in 1 .. n : i < j => t[i] < t[j]
    <2>1. n + 1 \in 1 .. Len(s) /\ k \in 1 .. n + 1
      BY <1>2
    <2>2. e \in Nat
      BY <2>1
    <2> HIDE DEF e, K
    <2> QED BY <2>1, <2>2 DEF ListsFirst
  <1>4. ASSUME NEW i \in 1 .. n PROVE t[i] # e
    <2>1. PICK j \in 1 .. n : t[i] = s[j]
      BY DEF ListsFirst
    <2>2. j \in 1 .. Len(s) /\ n + 1 \in 1 .. Len(s) /\ j # n + 1
      OBVIOUS
    <2> QED BY <2>1, <2>2 DEF Once
  <1>5. \A i \in 1 .. n : i < k => t[i] < e
    BY <1>2, <1>3, <1>4
  <1>6. \A i \in 1 .. n : k <= i => t[i] > e
    <2> SUFFICES ASSUME NEW i \in 1 .. n, k <= i PROVE t[i] > e
      OBVIOUS
    <2>1. k \in 1 .. n /\ t[k] > e
      BY <1>2, <1>3
    <2>2. i = k \/ t[k] < t[i]
      BY <1>3, <2>1
    <2>3. t[k] \in Nat /\ t[i] \in Nat
      BY <1>3, <2>1
    <2> QED BY <1>3, <2>1, <2>2, <2>3
  <1> HIDE DEF e, K
  <1> DEFINE u == [i \in 1 .. n + 1 |-> IF i < k THEN t[i] ELSE IF i = k THEN e ELSE t[i - 1]]
  <1>7. ASSUME NEW i \in 1 .. n + 1
        PROVE  /\ u[i] \in Nat
               /\ i < k => i \in 1 .. n /\ u[i] = t[i]
               /\ i = k => u[i] = e
               /\ i > k => i - 1 \in 1 .. n /\ u[i] = t[i - 1]
    BY <1>3
  <1>8. u \in [1 .. n + 1 -> Nat]
    <2>1. u = [i \in 1 .. n + 1 |-> u[i]]
      OBVIOUS
    <2> HIDE DEF u
    <2> QED BY <1>7, <2>1
  <1> HIDE DEF u
  <1>9. ASSUME NEW i \in 1 .. n + 1, NEW j \in 1 .. n + 1, i < j PROVE u[i] < u[j]
    <2>1. CASE j < k
      BY <1>3, <1>7, <1>9, <2>1
    <2>2. CASE j = k
      BY <1>3, <1>5, <1>7, <1>9, <2>2
    <2>3. CASE i < k /\ k < j
      <3>1. t[i] < e /\ e < t[j - 1] /\ t[i] \in Nat /\ t[j - 1] \in Nat
        BY <1>3, <1>5, <1>6, <1>7, <2>3
      <3> QED BY <1>3, <1>7, <2>3, <3>1
    <2>4. CASE i = k
      <3>1. e < t[j - 1]
        BY <1>3, <1>6, <1>7, <1>9, <2>4
      <3> QED BY <1>7, <1>9, <2>4, <3>1
    <2>5. CASE k < i
      <3>1. i - 1 \in 1 .. n /\ j - 1 \in 1 .. n /\ i - 1 < j - 1
        BY <1>3, <1>7, <1>9, <2>5
      <3> QED BY <1>3, <1>7, <1>9, <2>5, <3>1
    <2> QED BY <1>3, <1>9, <2>1, <2>2, <2>3, <2>4, <2>5
  <1>10. ASSUME NEW i \in 1 .. n + 1 PROVE \E j \in 1 .. n + 1 : u[i] = s[j]
    <2>1. CASE i = k
      BY <1>7, <2>1 DEF e
    <2>2. CASE i # k
      <3>1. PICK m \in 1 .. n : u[i] = t[m]
        BY <1>3, <1>7, <2>2
      <3>2. PICK j \in 1 .. n : t[m] = s[j]
        BY DEF ListsFirst
      <3> QED BY <3>1, <3>2
    <2> QED BY <2>1, <2>2
  <1>11. ASSUME NEW j \in 1 .. n + 1 PROVE \E i \in 1 .. n + 1 : u[i] = s[j]
    <2>1. CASE j = n + 1
      BY <1>3, <1>7, <2>1 DEF e
    <2>2. CASE j \in 1 .. n
      <3>1. PICK m \in 1 .. n : t[m] = s[j]
        BY <2>2 DEF ListsFirst
      <3>2. CASE m < k
        <4>1. m \in 1 .. n + 1 /\ u[m] = t[m]
          BY <1>7, <3>2
        <4> QED BY <3>1, <4>1
      <3>3. CASE k <= m
        <4>1. m + 1 \in 1 .. n + 1 /\ m + 1 > k /\ (m + 1) - 1 = m
          BY <1>3, <3>3
        <4>2. u[m + 1] = t[m]
          BY <1>7, <4>1
        <4> QED BY <3>1, <4>1, <4>2
      <3> QED BY <1>3, <3>2, <3>3
    <2> QED BY <2>1, <2>2
  <1>12. ListsFirst(u, n + 1, s)
    BY <1>8, <1>9, <1>10, <1>11 DEF ListsFirst
  <1> QED BY <1>12

LEMMA ListsAll ==
    ASSUME NEW s \in Seq(Nat), Once(s)
    PROVE  \E t : ListsFirst(t, Len(s), s)
  <1> DEFINE S == {n \in 0 .. Len(s) : \E t : ListsFirst(t, n, s)}
  <1>1. 0 \in S
    <2>1. ListsFirst(<<>>, 0, s)
      BY DEF ListsFirst
    <2> QED BY <2>1
  <1>2. ASSUME NEW n \in 0 .. Len(s) - 1, n \in S PROVE n + 1 \in S
    <2>1. PICK t : ListsFirst(t, n, s)
      BY <1>2
    <2>2. n \in Nat /\ n + 1 <= Len(s) /\ n + 1 \in 0 .. Len(s)
      OBVIOUS
    <2>3. \E u : ListsFirst(u, n + 1, s)
      BY <2>1, <2>2, Inserts
    <2> QED BY <2>2, <2>3
  <1>3. Len(s) \in Nat /\ Len(s) \in 0 .. Len(s)
    OBVIOUS
  <1>4. 0 .. Len(s) \subseteq S
    <2> HIDE DEF S
    <2> QED BY <1>1, <1>2, <1>3, Induction
  <1> QED BY <1>3, <1>4

(* Sorting keeps the elements and puts them in order.                      *)
LEMMA Sorts ==
    ASSUME NEW s \in Seq(Nat), Once(s)
    PROVE  /\ DOMAIN ByPath(s) = 1 .. Len(s) /\ Len(ByPath(s)) = Len(s)
           /\ Range(ByPath(s)) = Range(s)
           /\ \A i, j \in 1 .. Len(s) : i < j => ByPath(s)[i] < ByPath(s)[j]
  <1> DEFINE D == DOMAIN s
             order == CHOOSE p \in Bijection(D, D) : SortsByPath(p, s)
  <1>1. D = 1 .. Len(s) /\ Len(s) \in Nat /\ \A i \in D : s[i] \in Nat
    OBVIOUS
  <1>2. PICK t : ListsFirst(t, Len(s), s)
    BY ListsAll
  <1>0. /\ \A i \in D : t[i] \in Nat /\ i \in Nat
        /\ \A i, j \in D : i < j => t[i] < t[j]
        /\ \A i \in D : \E j \in D : t[i] = s[j]
        /\ \A j \in D : \E i \in D : t[i] = s[j]
    <2> DEFINE m == Len(s)
    <2>1. /\ t \in [1 .. m -> Nat]
          /\ \A i, j \in 1 .. m : i < j => t[i] < t[j]
          /\ \A i \in 1 .. m : \E j \in 1 .. m : t[i] = s[j]
          /\ \A j \in 1 .. m : \E i \in 1 .. m : t[i] = s[j]
      BY <1>2 DEF ListsFirst
    <2>2. D = 1 .. m /\ m \in Nat
      BY <1>1
    <2> HIDE DEF D, m
    <2> QED BY <2>1, <2>2
  <1> HIDE DEF D
  <1> DEFINE p == [i \in D |-> CHOOSE j \in D : t[i] = s[j]]
  <1>3. ASSUME NEW i \in D PROVE p[i] \in D /\ t[i] = s[p[i]]
    <2>1. \E j \in D : t[i] = s[j]
      BY <1>0
    <2> QED BY <2>1
  <1>4. p \in [D -> D]
    BY <1>3
  <1> HIDE DEF p
  <1>5. ASSUME NEW i \in D, NEW j \in D, p[i] = p[j] PROVE i = j
    <2>1. t[i] = t[j]
      BY <1>3, <1>5
    <2>2. t[i] \in Nat /\ t[j] \in Nat /\ i \in Nat /\ j \in Nat
      BY <1>0
    <2>3. (i < j => t[i] < t[j]) /\ (j < i => t[j] < t[i])
      BY <1>0
    <2> QED BY <2>1, <2>2, <2>3
  <1>6. ASSUME NEW j \in D PROVE \E i \in D : p[i] = j
    <2>1. PICK i \in D : t[i] = s[j]
      BY <1>0
    <2>2. s[p[i]] = s[j] /\ p[i] \in D
      BY <1>3, <2>1
    <2> QED BY <1>1, <2>2 DEF Once
  <1>7. p \in Bijection(D, D)
    BY <1>4, <1>5, <1>6 DEF Bijection, Injection, Surjection, IsInjective
  <1>8. SortsByPath(p, s)
    <2> SUFFICES ASSUME NEW i \in D, NEW j \in D, i < j PROVE s[p[i]] <= s[p[j]]
      BY DEF SortsByPath, D
    <2>1. t[i] < t[j] /\ t[i] \in Nat /\ t[j] \in Nat
      BY <1>0
    <2> QED BY <1>3, <2>1
  <1>9. order \in Bijection(D, D) /\ SortsByPath(order, s)
    BY <1>7, <1>8
  <1>10. ByPath(s) = [i \in D |-> s[order[i]]]
    BY DEF ByPath, D
  <1> HIDE DEF order
  <1>11. /\ order \in [D -> D]
         /\ \A i, j \in D : order[i] = order[j] => i = j
         /\ \A j \in D : \E i \in D : order[i] = j
    BY <1>9 DEF Bijection, Injection, Surjection, IsInjective
  <1>12. DOMAIN ByPath(s) = 1 .. Len(s) /\ Len(ByPath(s)) = Len(s)
    <2>1. \A i \in 1 .. Len(s) : s[order[i]] \in Nat
      BY <1>1, <1>11
    <2>2. [i \in 1 .. Len(s) |-> s[order[i]]] \in Seq(Nat)
      BY <1>1, <2>1
    <2>3. ByPath(s) = [i \in 1 .. Len(s) |-> s[order[i]]]
      BY <1>1, <1>10
    <2> QED BY <1>1, <2>2, <2>3
  <1>13. Range(ByPath(s)) = Range(s)
    BY <1>10, <1>11 DEF Range, D
  <1>14. ASSUME NEW i \in D, NEW j \in D, i < j PROVE ByPath(s)[i] < ByPath(s)[j]
    <2>0. i # j
      BY <1>0, <1>14
    <2>1. order[i] \in D /\ order[j] \in D /\ order[i] # order[j]
      BY <1>11, <2>0
    <2>2. s[order[i]] # s[order[j]]
      BY <1>1, <2>1 DEF Once
    <2>3. s[order[i]] <= s[order[j]]
      BY <1>9, <1>14 DEF SortsByPath, D
    <2>4. s[order[i]] \in Nat /\ s[order[j]] \in Nat
      BY <1>1, <2>1
    <2> QED BY <1>10, <2>2, <2>3, <2>4
  <1> QED BY <1>1, <1>12, <1>13, <1>14
-----------------------------------------------------------------------------
(* What is sent, and so collected, has something to report.                *)
Telling ==
    /\ \A w \in Worker : pc[w] \in {"store", "send"} => file[w] \in Reportable
    /\ Range(collected) \subseteq Reportable

LEMMA TellingStep ==
    TypeOK /\ Holding /\ Untouched /\ Telling /\ [Next]_vars => Telling'
  <1> SUFFICES ASSUME TypeOK, Holding, Untouched, Telling, [Next]_vars PROVE Telling'
    OBVIOUS
  <1>1. file \in [Worker -> Files \cup {0}] /\ pc \in [Worker -> Places]
    BY DEF TypeOK
  <1>2. ASSUME NEW w \in Worker, pc'[w] \notin {"store", "send"} \/ pc[w] = "store",
               pc[w] = "store" => file'[w] = file[w] \/ pc'[w] \notin {"store", "send"},
               \A v \in Worker : v # w => pc'[v] = pc[v] /\ file'[v] = file[v],
               UNCHANGED collected
        PROVE  Telling'
    BY <1>2 DEF Telling
  <1>3. ASSUME NEW w \in Worker,
               Feed(w) \/ Read(w) \/ ReadFails(w) \/ Store(w) \/ StoreFails(w) \/ Leave(w)
        PROVE  Telling'
    <2>1. CASE Feed(w)
      BY <1>1, <1>2, <2>1 DEF Feed
    <2>2. CASE Read(w)
      BY <1>1, <1>2, <2>2 DEF Read
    <2>3. CASE ReadFails(w)
      BY <1>1, <1>2, <2>3 DEF ReadFails, Fail
    <2>4. CASE Store(w)
      BY <1>1, <1>2, <2>4 DEF Store
    <2>5. CASE StoreFails(w)
      BY <1>1, <1>2, <2>5 DEF StoreFails, Fail
    <2>6. CASE Leave(w)
      BY <1>1, <1>2, <2>6 DEF Leave
    <2> QED BY <1>3, <2>1, <2>2, <2>3, <2>4, <2>5, <2>6
  <1>4. ASSUME NEW w \in Worker, Fix(w) PROVE Telling'
    <2>1. pc[w] = "fix" /\ src[w] = "original" /\ UNCHANGED collected
      BY <1>4 DEF Fix, Untouched
    <2>2. PICK r \in ResultsOf(file[w], src[w]) :
              \/ r.changed /\ pc' = [pc EXCEPT ![w] = "store"] /\ UNCHANGED file
              \/ r.reported /\ pc' = [pc EXCEPT ![w] = "send"] /\ UNCHANGED file
              \/ pc' = [pc EXCEPT ![w] = "recv"] /\ file' = [file EXCEPT ![w] = 0]
      BY <1>4 DEF Fix
    <2>3. /\ r.changed = (file[w] \in Fixable)
          /\ r.reported = (file[w] \in Fixable \cup Erroneous)
      <3>1. r = [changed |-> file[w] \in Fixable,
                 reported |-> file[w] \in Fixable \cup Erroneous]
        BY <2>1, <2>2 DEF ResultsOf
      <3> QED BY <3>1
    <2>4. CASE (r.changed \/ r.reported) /\ UNCHANGED file
               /\ (pc' = [pc EXCEPT ![w] = "store"] \/ pc' = [pc EXCEPT ![w] = "send"])
      <3>1. file[w] \in Reportable
        BY <2>3, <2>4 DEF Reportable
      <3>2. \A v \in Worker : v # w => pc'[v] = pc[v]
        BY <1>1, <2>4
      <3> QED BY <2>1, <2>4, <3>1, <3>2 DEF Telling
    <2>5. CASE pc' = [pc EXCEPT ![w] = "recv"] /\ file' = [file EXCEPT ![w] = 0]
      BY <1>1, <1>2, <2>1, <2>5
    <2> QED BY <2>2, <2>4, <2>5
  <1>5. ASSUME NEW w \in Worker, Send(w) PROVE Telling'
    <2>1. /\ pc[w] = "send" /\ pc'[w] = "recv" /\ file[w] \in Files
          /\ collected \in Seq(Files) /\ collected' = Append(collected, file[w])
          /\ \A v \in Worker : v # w => pc'[v] = pc[v] /\ file'[v] = file[v]
      BY <1>1, <1>5 DEF Send, TypeOK, Holding, Busy
    <2>2. Range(collected') = Range(collected) \cup {file[w]}
      BY <2>1, RangeAppend
    <2> QED BY <2>1, <2>2 DEF Telling
  <1>6. ASSUME ClosePaths \/ Cancel \/ CloseResults \/ Return \/ UNCHANGED vars
        PROVE  Telling'
    <2>1. UNCHANGED <<pc, file, collected>>
      BY <1>6 DEF ClosePaths, Cancel, CloseResults, Return, vars
    <2> QED BY <2>1 DEF Telling
  <1> QED BY <1>3, <1>4, <1>5, <1>6 DEF Next, Step, Over

LEMMA CompleteStep ==
    TypeOK /\ Holding /\ Apart /\ Shut /\ Kept /\ Telling /\ CompleteAndSorted
        /\ [Next]_vars => CompleteAndSorted'
  <1> SUFFICES ASSUME TypeOK, Holding, Apart, Shut, Kept, Telling, CompleteAndSorted,
                      [Next]_vars
               PROVE  CompleteAndSorted'
    OBVIOUS
  <1>1. CASE Return /\ outcome' = "ok"
    <2>1. /\ ~resultsOpen /\ ~cancelled /\ errs = {}
          /\ returned' = ByPath(collected) /\ fed' = fed
      BY <1>1 DEF Return
    <2>2. fed = Len(Found) /\ Accounted
      BY <2>1, ShutIsAccounted
    <2>3. Range(collected) = Reportable
      BY <2>1, <2>2, FileAssumption DEF Accounted, Telling, Reportable
    <2>4. collected \in Seq(Nat) /\ Once(collected)
      <3>1. Files \subseteq Nat /\ collected \in Seq(Files)
        BY LenFound DEF Files, TypeOK
      <3>2. collected \in Seq(Nat)
        BY <3>1, SeqMonotonic
      <3> QED BY <3>2 DEF Apart, OnceEach, Once
    <2>5. /\ Len(returned') = Len(collected)
          /\ Range(returned') = Range(collected)
          /\ \A i, j \in 1 .. Len(collected) : i < j => returned'[i] < returned'[j]
      BY <2>1, <2>4, Sorts
    <2> QED BY <2>1, <2>2, <2>3, <2>5 DEF CompleteAndSorted, Reportable
  <1>2. CASE ~(Return /\ outcome' = "ok") /\ outcome' = "ok"
    <2>1. outcome = "ok" /\ UNCHANGED returned
      BY <1>2 DEF Next, Feed, Step, Read, ReadFails, Fix, Store, StoreFails, Send, Leave,
                  ClosePaths, Cancel, CloseResults, Return, Over, vars
    <2>2. fed = Len(Found) /\ fed \in Nat
      BY <2>1, LenFound DEF CompleteAndSorted
    <2>3. fed' = fed
      BY <2>2 DEF Next, Feed, Step, Read, ReadFails, Fix, Store, StoreFails, Send, Leave,
                  ClosePaths, Cancel, CloseResults, Return, Over, vars
    <2> QED BY <2>1, <2>2, <2>3 DEF CompleteAndSorted, Reportable
  <1> QED BY <1>1, <1>2 DEF CompleteAndSorted

(* runner.go:104-117: where no two names stand for one file, a run that    *)
(* returns without an error returns every file with something to report,   *)
(* no other one and none twice, in the order of the names, whatever order  *)
(* the goroutines finished in.                                             *)
THEOREM ListIsCompleteAndSorted ==
    ASSUME OwnFiles
    PROVE  Spec => []CompleteAndSorted
  <1>1. Init => Telling /\ CompleteAndSorted
    BY DEF Init, Telling, CompleteAndSorted, Range
  <1>2. Spec => []Apart
    BY ApartInit, ApartStep, TypeInvariant, PTL DEF Spec
  <1>3. Spec => [](Untouched /\ Kept)
    BY UntouchedHolds
  <1> QED
    BY <1>1, <1>2, <1>3, TypeInvariant, ShutInvariant, TellingStep, CompleteStep, PTL
    DEF Spec
-----------------------------------------------------------------------------
(* runner.go:67-107: a file is waiting, in a worker's hands, or settled,   *)
(* and never two of these: none is handed out again once it was taken, or  *)
(* worked on once it is settled.  A consequence of WorkDispatch alone.     *)
THEOREM JobsArePartitioned == Spec => []Dispatch!Partition
  <1>1. Dispatch!Init => Dispatch!Partition
    BY DEF Dispatch!Init, Dispatch!Partition
  <1>2. Dispatch!Partition /\ [Dispatch!Next]_(Dispatch!vars) => Dispatch!Partition'
    BY DEF Dispatch!Partition, Dispatch!Next, Dispatch!vars
  <1>3. DispatchSpec => []Dispatch!Partition
    BY <1>1, <1>2, PTL DEF DispatchSpec, Dispatch!Spec
  <1> QED BY <1>3, PoolDispatches
=============================================================================
