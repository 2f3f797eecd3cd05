---------------------------- MODULE LocalProofs -----------------------------
(***************************************************************************)
(* The safety of LocalWrite for any number of writers, files of any size   *)
(* and any history of the destination.                                     *)
(*                                                                         *)
(* NeverTorn speaks of the last entry of the history only, but a power     *)
(* loss may bring any unsynced earlier entry back: the inductive invariant *)
(* is about all of them (HistoryAt), and about what each step of a writer  *)
(* has established by then (FileAt, ResultAt).  SyncedSurvives needs the   *)
(* position of a publication to be known from the moment it happens until  *)
(* _sync_directory makes it lasting (PublishedAt).                         *)
(*                                                                         *)
(* The second part is about reading and about the type that a preview      *)
(* infers (LocalRead and Preview), for files and budgets of any size.      *)
(***************************************************************************)
EXTENDS LocalWrite, Preview, TLAPS

Entries == Writers \cup {"absent", "foreign"}
Staging == {"idle", "inspect", "create", "write", "finish"}
Early == Staging \cup {"ready", "publish"}

(* The staged file at each step; what was published is whole and on disk.  *)
FileAt(w) ==
    /\ data[w] <= written[w] /\ written[w] <= size[w]
    /\ pc[w] \in Staging => ~synced[w]
    /\ pc[w] = "finish" => written[w] = size[w]
    /\ pc[w] \in {"ready", "publish"} \/ pubAt[w] > 0 => synced[w] /\ data[w] = size[w]

(* The result is set last, and an error is never one after publication.    *)
ResultAt(w) ==
    /\ pc[w] \in Early => result[w] = "none" /\ pubAt[w] = 0
    /\ pc[w] = "sync" => result[w] = "none" /\ pubAt[w] > 0
    /\ pc[w] \in {"cleanup", "done"} => result[w] # "none"
    /\ result[w] = "ok" => pubAt[w] > 0
    /\ result[w] = "error" => pubAt[w] = 0

(* Where in the history a publication is.                                  *)
PublishedAt(w) ==
    /\ pc[w] = "sync" => pubAt[w] \in 1..Len(hist) /\ hist[pubAt[w]] = w
    /\ w \in Direct /\ dirSynced[w] => pubAt[w] \in 1..low /\ hist[pubAt[w]] = w

(* A stage exists only from its creation on; one that stays is known.      *)
StageAt(w) ==
    w \in stage => /\ pc[w] \notin {"idle", "inspect", "create"}
                   /\ pc[w] = "done" => leaked[w]

(* Every file of DataBridge's that the destination ever was is published.  *)
HistoryAt == \A i \in 1..Len(hist) : hist[i] \in Writers => pubAt[hist[i]] > 0

Consistent(w) == FileAt(w) /\ ResultAt(w) /\ PublishedAt(w) /\ StageAt(w)

IInv == TypeOK /\ HistoryAt /\ \A w \in Writers : Consistent(w)

USE DEF Staging, Early, SyncRoot

(* Initially nothing is staged or published.                               *)
LEMMA InitIInv == Init => IInv
<1> SUFFICES ASSUME Init PROVE IInv
  OBVIOUS
<1>1. TypeOK
  <2>0. ASSUME NEW v \in Entries PROVE <<v>> \in Seq(Entries) /\ Len(<<v>>) = 1
    OBVIOUS
  <2>1. hist \in Seq(Entries) /\ Len(hist) = 1
    BY <2>0 DEF Init, Entries
  <2>2. QED
    BY <2>1, MaxChunksAssumption, MaxHistoryAssumption DEF Init, TypeOK, Steps, Entries
<1>2. HistoryAt
  BY WritersAssumption DEF Init, HistoryAt
<1>3. \A w \in Writers : Consistent(w)
  BY DEF Init, Consistent, FileAt, ResultAt, PublishedAt, StageAt
<1>4. QED
  BY <1>1, <1>2, <1>3 DEF IInv

(* A change of the destination adds one entry to its history.              *)
LEMMA Recorded ==
    ASSUME TypeOK, NEW v \in Entries, Len(hist) < MaxHistory, Record(v)
    PROVE  /\ hist' \in Seq(Entries) /\ Len(hist') \in 1..MaxHistory
           /\ Len(hist') = Len(hist) + 1 /\ hist'[Len(hist) + 1] = v
           /\ \A i \in 1..Len(hist) : hist'[i] = hist[i]
BY MaxHistoryAssumption DEF TypeOK, Record, Entries

(* A power loss takes the entry back to an earlier one, never to one that  *)
(* precedes what is on disk.                                               *)
LEMMA TakenBack ==
    ASSUME TypeOK, NEW n \in low..Len(hist), hist' = SubSeq(hist, 1, n)
    PROVE  /\ hist' \in Seq(Entries) /\ Len(hist') = n /\ n \in 1..MaxHistory
           /\ \A i \in 1..n : hist'[i] = hist[i]
<1>1. hist \in Seq(Entries) /\ n \in 1..Len(hist) /\ Len(hist) \in 1..MaxHistory
  BY DEF TypeOK, Entries
<1>2. QED
  BY <1>1, MaxHistoryAssumption

(* Every step keeps the types.                                             *)
LEMMA NextTypeOK == ASSUME TypeOK, \A w \in Writers : Consistent(w), [Next]_vars PROVE TypeOK'
<1> USE MaxChunksAssumption, MaxHistoryAssumption DEF TypeOK, Steps, disk, sink, notes, Goto, Finish
<1>1. ASSUME NEW w \in Writers, Resolve(w) \/ Inspect(w) \/ Create(w) PROVE TypeOK'
  BY <1>1 DEF Resolve, Inspect, Create, Refuse
<1>2. ASSUME NEW w \in Writers, Write(w) PROVE TypeOK'
  <2>1. data[w] <= written[w] /\ written[w] <= size[w]
    BY DEF Consistent, FileAt
  <2>2. CASE UNCHANGED <<written, data>>
    BY <1>2, <2>2 DEF Write, Unwind
  <2>3. CASE /\ written[w] < size[w] /\ UNCHANGED <<pc, result>>
             /\ written' = [written EXCEPT ![w] = @ + 1] /\ data' = [data EXCEPT ![w] = @ + 1]
    <3>1. written[w] + 1 \in 0..MaxChunks /\ data[w] + 1 \in 0..MaxChunks
      BY <2>1, <2>3
    <3>2. QED
      BY <1>2, <2>3, <3>1 DEF Write
  <2>4. QED
    BY <1>2, <2>2, <2>3 DEF Write
<1>3. ASSUME NEW w \in Writers, FinishSink(w) \/ Exit(w) PROVE TypeOK'
  BY <1>3 DEF FinishSink, Persist, Exit, Unwind
<1>4. ASSUME NEW w \in Writers, Publish(w) PROVE TypeOK'
  <2>1. CASE Len(hist) < MaxHistory /\ Record(w)
    <3>1. /\ hist' \in Seq(Entries) /\ Len(hist') \in 1..MaxHistory /\ Len(hist') = Len(hist) + 1
      BY <2>1, Recorded DEF Entries
    <3>2. low' \in 1..Len(hist') /\ Len(hist) + 1 \in 0..MaxHistory
      BY <1>4, <3>1 DEF Publish
    <3>3. stage' \in SUBSET Writers /\ pubAt' \in [Writers -> 0..MaxHistory]
      BY <1>4, <3>2 DEF Publish
    <3>4. pc' \in [Writers -> Steps] /\ result' \in [Writers -> {"none", "ok", "error"}]
      BY <1>4 DEF Publish, Unwind
    <3>5. QED
      BY <1>4, <3>1, <3>2, <3>3, <3>4 DEF Publish, Entries
  <2>2. CASE UNCHANGED <<hist, stage, pubAt>>
    BY <1>4, <2>2 DEF Publish, Unwind
  <2>3. QED
    BY <1>4, <2>1, <2>2 DEF Publish
<1>5. ASSUME NEW w \in Writers, SyncDirectory(w) \/ CleanUp(w) PROVE TypeOK'
  <2>1. pc' \in [Writers -> Steps] /\ result' \in [Writers -> {"none", "ok", "error"}]
    BY <1>5 DEF SyncDirectory, CleanUp
  <2>2. low' \in 1..Len(hist') /\ UNCHANGED hist
    BY <1>5 DEF SyncDirectory, CleanUp
  <2>3. stage' \in SUBSET Writers
    BY <1>5 DEF SyncDirectory, CleanUp
  <2>4. dirSynced' \in [Writers -> BOOLEAN] /\ leaked' \in [Writers -> BOOLEAN]
    BY <1>5 DEF SyncDirectory, CleanUp
  <2>5. QED
    BY <1>5, <2>1, <2>2, <2>3, <2>4 DEF SyncDirectory, CleanUp
<1>6. CASE Foreign
  <2>1. hist' \in Seq(Entries) /\ Len(hist') \in 1..MaxHistory /\ Len(hist') = Len(hist) + 1
    <3>1. PICK v \in {"absent", "foreign"} : Record(v)
      BY <1>6 DEF Foreign
    <3>2. QED
      BY <1>6, <3>1, Recorded DEF Foreign, Entries
  <2>2. QED
    BY <1>6, <2>1 DEF Foreign, Entries
<1>7. CASE Kill
  BY <1>7 DEF Kill
<1>8. CASE PowerLoss
  <2>1. PICK n \in low..Len(hist) : hist' = SubSeq(hist, 1, n) /\ low' = n
    BY <1>8 DEF PowerLoss
  <2>2. hist' \in Seq(Entries) /\ Len(hist') = n /\ n \in 1..MaxHistory
    BY <2>1, TakenBack
  <2>3. QED
    BY <1>8, <2>1, <2>2 DEF PowerLoss, Entries
<1>9. CASE UNCHANGED vars
  BY <1>9 DEF vars
<1>10. QED
  BY <1>1, <1>2, <1>3, <1>4, <1>5, <1>6, <1>7, <1>8, <1>9 DEF Next, Step

(* What is true of a writer depends on its own part of the state, and on a *)
(* history that the others only add to.                                    *)
LEMMA Frame ==
    ASSUME NEW u \in Writers, TypeOK, TypeOK', Consistent(u),
           UNCHANGED <<pc[u], result[u], size[u], written[u], data[u], synced[u], pubAt[u],
                       dirSynced[u], leaked[u]>>,
           u \in stage' => u \in stage, low <= low', Len(hist) <= Len(hist'),
           \A i \in 1..Len(hist) : hist'[i] = hist[i]
    PROVE  Consistent(u)'
BY DEF TypeOK, Consistent, FileAt, ResultAt, PublishedAt, StageAt

(* Every step of a writer keeps the inductive invariant: for the writer    *)
(* itself because of where it is, for the others by Frame.                 *)
LEMMA StepIInv == ASSUME IInv, NEW w \in Writers, Step(w) PROVE IInv'
<1>0. TypeOK /\ HistoryAt /\ \A u \in Writers : Consistent(u)
  BY DEF IInv
<1>1. TypeOK'
  BY <1>0, NextTypeOK DEF Next
<1> USE <1>0, <1>1 DEF disk, sink, notes
<1>2. \A u \in Writers \ {w} : Consistent(u)'
  <2> SUFFICES ASSUME NEW u \in Writers, u # w PROVE Consistent(u)'
    OBVIOUS
  <2>1. UNCHANGED <<pc[u], result[u], size[u], written[u], data[u], synced[u], pubAt[u],
                    dirSynced[u], leaked[u]>>
    BY DEF Step, Resolve, Inspect, Create, Write, FinishSink, Persist, Exit, Publish, SyncDirectory,
           CleanUp, Goto, Finish, Unwind, Refuse, TypeOK
  <2>2. u \in stage' => u \in stage
    BY DEF Step, Resolve, Inspect, Create, Write, FinishSink, Exit, Publish, SyncDirectory, CleanUp
  <2>3. low <= low'
    BY DEF Step, Resolve, Inspect, Create, Write, FinishSink, Exit, Publish, SyncDirectory, CleanUp,
           TypeOK
  <2>4. Len(hist) <= Len(hist') /\ \A i \in 1..Len(hist) : hist'[i] = hist[i]
    <3>1. CASE UNCHANGED hist
      BY <3>1 DEF TypeOK
    <3>2. CASE Len(hist) < MaxHistory /\ Record(w)
      <4>1. w \in Entries /\ Len(hist) \in Nat
        BY DEF Entries, TypeOK
      <4>2. Len(hist') = Len(hist) + 1 /\ \A i \in 1..Len(hist) : hist'[i] = hist[i]
        BY <3>2, <4>1, Recorded
      <4>3. QED
        BY <4>1, <4>2
    <3>3. QED
      BY <3>1, <3>2 DEF Step, Resolve, Inspect, Create, Write, FinishSink, Exit, Publish,
         SyncDirectory, CleanUp
  <2>5. QED
    BY <2>1, <2>2, <2>3, <2>4, Frame
<1>3. Consistent(w)'
  <2> USE DEF TypeOK, Consistent, FileAt, ResultAt, PublishedAt, StageAt, Goto, Finish
  <2>1. CASE Resolve(w) \/ Inspect(w)
    BY <2>1 DEF Resolve, Inspect, Refuse
  <2>2. CASE Create(w)
    BY <2>2 DEF Create, Refuse
  <2>3. CASE Write(w)
    BY <2>3 DEF Write, Unwind
  <2>4. CASE FinishSink(w)
    BY <2>4 DEF FinishSink, Persist, Unwind
  <2>5. CASE Exit(w)
    BY <2>5 DEF Exit, Unwind
  <2>6. CASE Publish(w)
    <3>1. CASE Len(hist) < MaxHistory /\ Record(w)
      BY <2>6, <3>1, Recorded DEF Publish, Unwind, Entries
    <3>2. CASE Unwind(w) /\ UNCHANGED <<hist, stage, pubAt>>
      BY <2>6, <3>2 DEF Publish, Unwind
    <3>3. QED
      BY <2>6, <3>1, <3>2 DEF Publish
  <2>7. CASE SyncDirectory(w)
    BY <2>7 DEF SyncDirectory
  <2>8. CASE CleanUp(w)
    BY <2>8 DEF CleanUp
  <2>9. QED
    BY <2>1, <2>2, <2>3, <2>4, <2>5, <2>6, <2>7, <2>8 DEF Step
<1>4. HistoryAt'
  <2>1. CASE Publish(w)
    <3>1. CASE Len(hist) < MaxHistory /\ Record(w) /\ pubAt' = [pubAt EXCEPT ![w] = Len(hist) + 1]
      <4>1. w \in Entries /\ Len(hist) \in Nat
        BY DEF Entries, TypeOK
      <4>2. /\ Len(hist') = Len(hist) + 1 /\ hist'[Len(hist) + 1] = w
            /\ \A i \in 1..Len(hist) : hist'[i] = hist[i]
        BY <3>1, <4>1, Recorded
      <4>3. pubAt'[w] > 0 /\ \A u \in Writers : pubAt[u] > 0 => pubAt'[u] > 0
        BY <3>1, <4>1 DEF TypeOK
      <4>4. QED
        BY <4>1, <4>2, <4>3 DEF HistoryAt
    <3>2. CASE UNCHANGED <<hist, pubAt>>
      BY <3>2 DEF HistoryAt
    <3>3. QED
      BY <2>1, <3>1, <3>2 DEF Publish
  <2>2. CASE UNCHANGED <<hist, pubAt>>
    BY <2>2 DEF HistoryAt
  <2>3. QED
    BY <2>1, <2>2 DEF Step, Resolve, Inspect, Create, Write, FinishSink, Exit, SyncDirectory, CleanUp
<1>5. QED
  BY <1>2, <1>3, <1>4 DEF IInv

(* A power loss keeps what was synced, wherever it takes the entry back.   *)
LEMMA PowerLossIInv == ASSUME IInv, PowerLoss PROVE IInv'
<1>0. TypeOK /\ HistoryAt /\ \A u \in Writers : Consistent(u)
  BY DEF IInv
<1>1. TypeOK'
  BY <1>0, NextTypeOK DEF Next
<1>2. PICK n \in low..Len(hist) : hist' = SubSeq(hist, 1, n) /\ low' = n
  BY DEF PowerLoss
<1>3. Len(hist') = n /\ low <= n /\ n \in 1..Len(hist) /\ \A i \in 1..n : hist'[i] = hist[i]
  BY <1>0, <1>2, TakenBack DEF TypeOK
<1>4. HistoryAt'
  BY <1>0, <1>3 DEF HistoryAt, PowerLoss, TypeOK
<1>5. ASSUME NEW u \in Writers PROVE Consistent(u)'
  <2>1. /\ pc'[u] = IF pc[u] \in {"idle", "done"} THEN pc[u] ELSE "dead"
        /\ UNCHANGED <<result[u], size[u], written[u], synced[u], pubAt[u], dirSynced[u]>>
        /\ data'[u] \in Nat /\ data'[u] <= data[u] /\ (synced[u] => data'[u] = data[u])
        /\ u \in stage' => pc[u] \notin {"idle", "inspect", "create"}
    BY <1>0, <1>1 DEF PowerLoss, Dying, TypeOK
  <2>0. pc[u] # "idle" => leaked'[u]
    BY Zenon DEF PowerLoss
  <2>2. Consistent(u) /\ data[u] \in Nat /\ written[u] \in Nat /\ pubAt[u] \in Nat /\ low \in Nat
    BY <1>0 DEF TypeOK
  <2>3. FileAt(u)'
    BY <2>1, <2>2 DEF Consistent, FileAt
  <2>4. ResultAt(u)'
    BY <2>1, <2>2 DEF Consistent, ResultAt
  <2>5. PublishedAt(u)'
    BY <1>2, <1>3, <2>1, <2>2 DEF Consistent, PublishedAt
  <2>6. StageAt(u)'
    BY <2>0, <2>1 DEF StageAt
  <2>7. QED
    BY <2>3, <2>4, <2>5, <2>6 DEF Consistent
<1>6. QED
  BY <1>1, <1>4, <1>5 DEF IInv

(* Other programs and the end of the process keep the inductive invariant. *)
LEMMA NextIInv == IInv /\ [Next]_vars => IInv'
<1> SUFFICES ASSUME IInv, [Next]_vars PROVE IInv'
  OBVIOUS
<1>0. TypeOK /\ TypeOK' /\ HistoryAt /\ \A u \in Writers : Consistent(u)
  BY NextTypeOK DEF IInv
<1>1. CASE Foreign
  <2>1. PICK v \in {"absent", "foreign"} : Record(v)
    BY <1>1 DEF Foreign
  <2>2. /\ Len(hist') = Len(hist) + 1 /\ hist'[Len(hist) + 1] = v
        /\ \A i \in 1..Len(hist) : hist'[i] = hist[i]
    BY <1>0, <1>1, <2>1, Recorded DEF Foreign, Entries
  <2>3. Len(hist) \in Nat /\ low' = low /\ low \in Nat
    BY <1>0, <1>1 DEF Foreign, TypeOK
  <2>4. HistoryAt'
    BY <1>0, <1>1, <2>2, <2>3, WritersAssumption DEF HistoryAt, Foreign, notes
  <2>5. \A u \in Writers : Consistent(u)'
    BY <1>0, <1>1, <2>2, <2>3, Frame DEF Foreign, sink, notes
  <2>6. QED
    BY <1>0, <2>4, <2>5 DEF IInv
<1>2. CASE Kill
  <2>1. HistoryAt'
    BY <1>0, <1>2 DEF Kill, HistoryAt, disk, notes
  <2>2. \A u \in Writers : Consistent(u)'
    BY <1>0, <1>2 DEF Kill, Dying, disk, sink, notes, TypeOK, Consistent, FileAt, ResultAt,
       PublishedAt, StageAt
  <2>3. QED
    BY <1>0, <2>1, <2>2 DEF IInv
<1>3. CASE UNCHANGED vars
  <2>1. HistoryAt'
    BY <1>0, <1>3 DEF vars, HistoryAt
  <2>2. \A u \in Writers : Consistent(u)'
    BY <1>0, <1>3 DEF vars, Consistent, FileAt, ResultAt, PublishedAt, StageAt
  <2>3. QED
    BY <1>0, <2>1, <2>2 DEF IInv
<1>4. QED
  BY <1>1, <1>2, <1>3, StepIInv, PowerLossIInv DEF Next

(* The inductive invariant holds in every reachable state.                 *)
THEOREM Invariance == Spec => []IInv
BY InitIInv, NextIInv, PTL DEF Spec

(* The state stays within its types.                                       *)
THEOREM TypeCorrect == Spec => []TypeOK
<1>1. IInv => TypeOK
  BY DEF IInv
<1>2. QED
  BY <1>1, Invariance, PTL

(* A reader of the destination never finds a part of a file, whatever was  *)
(* killed and whatever a power loss took back.                             *)
THEOREM DestinationWhole == Spec => []NeverTorn
<1>1. IInv => NeverTorn
  <2> SUFFICES ASSUME IInv, dest \in Writers PROVE data[dest] = size[dest]
    BY DEF NeverTorn
  <2>1. Len(hist) \in 1..Len(hist)
    BY DEF IInv, TypeOK
  <2>2. pubAt[dest] > 0
    BY <2>1 DEF IInv, HistoryAt, dest, Last
  <2>3. QED
    BY <2>2 DEF IInv, Consistent, FileAt
<1>2. QED
  BY <1>1, Invariance, PTL

(* A write that returned has removed its stage unless the removal failed.  *)
THEOREM StageRemoved == Spec => []NoStageLeft
<1>1. IInv => NoStageLeft
  BY DEF IInv, TypeOK, Consistent, StageAt, NoStageLeft
<1>2. QED
  BY <1>1, Invariance, PTL

(* A publication that _sync_directory made lasting is never taken back.    *)
(* It concerns the writers whose root holds the entry: nothing is proved   *)
(* of the others, for whom it is false.                                    *)
THEOREM SyncLasts == Spec => []SyncedSurvives
<1>1. IInv => SyncedSurvives
  BY DirectAssumption DEF IInv, TypeOK, Consistent, PublishedAt, SyncedSurvives, Lasts
<1>2. QED
  BY <1>1, Invariance, PTL

(* No file was at the name that a write without overwrite has taken,       *)
(* anywhere in the history of the destination: os.link refuses a name in   *)
(* use, other programs and writers only add to the history, and a power    *)
(* loss leaves a beginning of it.                                          *)
THEOREM NameInUseKept == Spec => []NoClobber
<1>1. Init => NoClobber
  <2> SUFFICES ASSUME Init PROVE NoClobber
    OBVIOUS
  <2>1. Len(hist) = 1
    BY DEF Init
  <2>2. QED
    BY <2>1 DEF NoClobber
<1>2. IInv /\ NoClobber /\ [Next]_vars => NoClobber'
  <2> SUFFICES ASSUME IInv, NoClobber, [Next]_vars PROVE NoClobber'
    OBVIOUS
  <2>0. TypeOK /\ Len(hist) \in Nat \ {0}
    BY DEF IInv, TypeOK
  <2>1. UNCHANGED overwrite
    BY DEF Next, Step, Resolve, Inspect, Create, Write, FinishSink, Exit, Publish, SyncDirectory,
       CleanUp, Foreign, Kill, PowerLoss, vars
  <2>2. ASSUME NEW v \in Entries, Len(hist) < MaxHistory, Record(v),
               v \in Writers => overwrite[v] \/ dest = "absent"
        PROVE  NoClobber'
    <3>1. /\ Len(hist') = Len(hist) + 1 /\ hist'[Len(hist) + 1] = v
          /\ \A i \in 1..Len(hist) : hist'[i] = hist[i]
      BY <2>0, <2>2, Recorded
    <3>2. dest = hist[Len(hist)]
      BY DEF dest, Last
    <3>3. ASSUME NEW i \in 2..(Len(hist) + 1), hist'[i] \in Writers, ~overwrite[hist'[i]]
          PROVE  hist'[i - 1] = "absent"
      <4>1. i - 1 \in 1..Len(hist) /\ hist'[i - 1] = hist[i - 1]
        BY <2>0, <3>1
      <4>2. CASE i = Len(hist) + 1
        BY <2>0, <2>2, <3>1, <3>2, <3>3, <4>1, <4>2
      <4>3. CASE i \in 2..Len(hist)
        <5>1. hist'[i] = hist[i]
          BY <2>0, <3>1, <4>3
        <5>2. QED
          BY <3>3, <4>1, <4>3, <5>1 DEF NoClobber
      <4>4. QED
        BY <2>0, <4>2, <4>3
    <3>4. QED
      BY <2>1, <3>1, <3>3 DEF NoClobber
  <2>3. CASE UNCHANGED hist
    BY <2>1, <2>3 DEF NoClobber
  <2>4. CASE PowerLoss
    <3>1. PICK n \in low..Len(hist) : hist' = SubSeq(hist, 1, n)
      BY <2>4 DEF PowerLoss
    <3>2. Len(hist') = n /\ n \in 1..Len(hist) /\ \A i \in 1..n : hist'[i] = hist[i]
      BY <2>0, <3>1, TakenBack DEF TypeOK
    <3>3. ASSUME NEW i \in 2..n PROVE i \in 2..Len(hist) /\ i \in 1..n /\ i - 1 \in 1..n
      BY <2>0, <3>2
    <3>4. QED
      BY <2>1, <3>2, <3>3 DEF NoClobber
  <2>5. ASSUME NEW w \in Writers, Publish(w) PROVE NoClobber'
    BY <2>2, <2>3, <2>5 DEF Publish, Entries
  <2>6. CASE Foreign
    BY <2>2, <2>6, WritersAssumption DEF Foreign, Entries
  <2>7. QED
    BY <2>3, <2>4, <2>5, <2>6 DEF Next, Step, Resolve, Inspect, Create, Write, FinishSink, Exit,
       SyncDirectory, CleanUp, Kill, vars, disk
<1>3. QED
  BY <1>1, <1>2, Invariance, PTL DEF Spec

(* The parts of a write that the contract of a sink speaks of.             *)
Stored(w) == synced[w] /\ data[w] = size[w]
Told(w) == CASE result[w] = "none" -> "nothing"
             [] result[w] = "ok" -> "ok"
             [] OTHER -> "unchanged"

(* A step of w leaves these parts alone, or stores, or publishes, or ends  *)
(* the write of w.                                                         *)
Silent(w) == UNCHANGED <<Stored(w), pubAt[w], Told(w)>>
StoresOnly(w) == Stored(w)' /\ UNCHANGED <<pubAt[w], Told(w)>>
PublishesOnly(w) ==
    /\ Stored(w) /\ Told(w) = "nothing" /\ pubAt'[w] > 0
    /\ UNCHANGED <<Stored(w), Told(w)>>
Tells(w) ==
    /\ Told(w) = "nothing" /\ Told(w)' \in {"ok", "unchanged"} /\ UNCHANGED pubAt[w]
    /\ Told(w)' = "ok" => pubAt[w] > 0
    /\ Told(w)' = "unchanged" => ~(pubAt[w] > 0)
    /\ Stored(w)' \/ UNCHANGED Stored(w)

(* Every step of a writer is of one of these kinds for it ...              *)
LEMMA StepKind ==
    ASSUME IInv, NEW w \in Writers, Step(w)
    PROVE  Silent(w) \/ StoresOnly(w) \/ PublishesOnly(w) \/ Tells(w)
<1>0. TypeOK /\ Consistent(w)
  BY DEF IInv
<1> USE <1>0 DEF TypeOK, Consistent, FileAt, ResultAt, disk, sink, notes, Goto, Finish
<1>1. CASE UNCHANGED <<size, synced, data, pubAt>> /\ (Unwind(w) \/ Refuse(w)) /\ pc[w] \in Early
  BY <1>1 DEF Tells, Told, Stored, Unwind, Refuse
<1>2. CASE UNCHANGED <<size, synced, data, pubAt, result>>
  BY <1>2 DEF Silent, Told, Stored
<1>3. CASE Resolve(w) \/ Inspect(w) \/ Create(w) \/ Exit(w) \/ CleanUp(w)
  BY <1>1, <1>2, <1>3 DEF Resolve, Inspect, Create, Exit, CleanUp
<1>4. CASE Write(w)
  <2>1. CASE UNCHANGED <<pc, result>>
    BY <1>4, <2>1 DEF Write, Silent, Told, Stored
  <2>2. CASE UNCHANGED <<written, data>>
    BY <1>1, <1>2, <1>4, <2>2 DEF Write
  <2>3. QED
    BY <1>4, <2>1, <2>2 DEF Write
<1>5. CASE FinishSink(w)
  <2>1. CASE Persist(w) /\ UNCHANGED result
    BY <1>5, <2>1 DEF FinishSink, Persist, StoresOnly, Told, Stored
  <2>2. CASE Unwind(w)
    BY <1>5, <2>2 DEF FinishSink, Unwind, Tells, Told, Stored
  <2>3. QED
    BY <1>5, <2>1, <2>2 DEF FinishSink
<1>6. CASE Publish(w)
  <2>1. CASE UNCHANGED result /\ pubAt' = [pubAt EXCEPT ![w] = Len(hist) + 1]
    BY <1>6, <2>1 DEF Publish, PublishesOnly, Told, Stored
  <2>2. CASE Unwind(w) /\ UNCHANGED pubAt
    BY <1>1, <1>6, <2>2 DEF Publish
  <2>3. QED
    BY <1>6, <2>1, <2>2 DEF Publish
<1>7. CASE SyncDirectory(w)
  BY <1>7 DEF SyncDirectory, Tells, Told, Stored
<1>8. QED
  BY <1>3, <1>4, <1>5, <1>6, <1>7 DEF Step

(* ... and leaves the other writes alone.                                  *)
LEMMA OthersSilent ==
    ASSUME IInv, NEW w \in Writers, Step(w), NEW u \in Writers, u # w
    PROVE  Silent(u)
BY DEF IInv, TypeOK, Step, Resolve, Inspect, Create, Write, FinishSink, Persist, Exit, Publish,
       SyncDirectory, CleanUp, Goto, Finish, Unwind, Refuse, Silent, Stored, Told, sink, notes

(* Other programs, the end of the process and a power loss change nothing  *)
(* that the contract speaks of: what is synced stays stored.               *)
LEMMA WorldSilent ==
    ASSUME IInv, Foreign \/ Kill \/ PowerLoss \/ UNCHANGED vars, NEW u \in Writers
    PROVE  Silent(u)
<1>1. CASE Foreign \/ Kill \/ UNCHANGED vars
  BY <1>1 DEF Foreign, Kill, vars, sink, notes, Silent, Stored, Told
<1>2. CASE PowerLoss
  <2>1. UNCHANGED <<size, result, pubAt, synced>> /\ (synced[u] => data'[u] = data[u])
    BY <1>2 DEF PowerLoss
  <2>2. QED
    BY <2>1 DEF IInv, TypeOK, Silent, Stored, Told
<1>3. QED
  BY <1>1, <1>2

(* The local connector keeps the contract of Connector.write: only a file  *)
(* that is whole and synced becomes the destination, and a failure after   *)
(* the publication is no error.                                            *)
THEOREM Refinement == Spec => SinkImplemented
<1> DEFINE stored == [w \in Writers |-> Stored(w)]
           changed == [w \in Writers |-> pubAt[w] > 0]
           told == [w \in Writers |-> Told(w)]
<1>1. Init => Contract!Init
  <2> SUFFICES ASSUME Init PROVE Contract!Init
    OBVIOUS
  <2>1. stored \in [Writers -> BOOLEAN]
    <3>1. \A w \in Writers : Stored(w) = FALSE
      BY DEF Init, Stored
    <3>2. QED
      BY <3>1
  <2>2. changed = [w \in Writers |-> FALSE]
    <3>1. \A w \in Writers : (pubAt[w] > 0) = FALSE
      BY DEF Init
    <3>2. QED
      BY <3>1
  <2>3. told = [w \in Writers |-> "nothing"]
    BY DEF Init, Told
  <2>4. QED
    BY <2>1, <2>2, <2>3 DEF Contract!Init, Stored, Told
<1>2. IInv /\ [Next]_vars => [Contract!Next]_(Contract!vars)
  <2> SUFFICES ASSUME IInv, [Next]_vars
               PROVE  Contract!Next \/ UNCHANGED <<stored, changed, told>>
    BY DEF Contract!vars, Stored, Told
  <2>1. ASSUME \A u \in Writers : Silent(u) PROVE UNCHANGED <<stored, changed, told>>
    BY <2>1 DEF Silent
  <2>2. ASSUME NEW w \in Writers, Step(w)
        PROVE  Contract!Next \/ UNCHANGED <<stored, changed, told>>
    <3>1. \A u \in Writers \ {w} : Silent(u)
      BY <2>2, OthersSilent
    <3>2. CASE Silent(w)
      BY <2>1, <3>1, <3>2
    <3>3. CASE StoresOnly(w)
      <4>1. stored' = [stored EXCEPT ![w] = TRUE]
        BY <3>1, <3>3 DEF StoresOnly, Silent, Stored
      <4>2. UNCHANGED <<changed, told>>
        BY <3>1, <3>3 DEF StoresOnly, Silent
      <4>3. Contract!Store(w)
        BY <4>1, <4>2 DEF Contract!Store, Stored, Told
      <4>4. QED
        BY <4>3 DEF Contract!Next
    <3>4. CASE PublishesOnly(w)
      <4>1. changed' = [changed EXCEPT ![w] = TRUE]
        BY <3>1, <3>4 DEF PublishesOnly, Silent
      <4>2. UNCHANGED <<stored, told>>
        BY <3>1, <3>4 DEF PublishesOnly, Silent
      <4>3. stored[w] /\ told[w] = "nothing"
        BY <3>4 DEF PublishesOnly
      <4>4. Contract!Publish(w)
        BY <4>1, <4>2, <4>3 DEF Contract!Publish, Stored, Told
      <4>5. QED
        BY <4>4 DEF Contract!Next
    <3>5. CASE Tells(w)
      <4>0. PICK how \in {"ok", "unchanged"} : Told(w)' = how
        BY <3>5 DEF Tells
      <4>1. told[w] = "nothing" /\ told' = [told EXCEPT ![w] = how]
        BY <3>1, <3>5, <4>0 DEF Tells, Silent
      <4>2. UNCHANGED changed /\ changed'[w] = (pubAt[w] > 0)
        BY <3>1, <3>5 DEF Tells, Silent
      <4>3. stored' \in {stored, [stored EXCEPT ![w] = TRUE]}
        <5>1. CASE UNCHANGED Stored(w)
          BY <3>1, <5>1 DEF Silent
        <5>2. CASE Stored(w)'
          BY <3>1, <5>2 DEF Silent, Stored
        <5>3. QED
          BY <3>5, <5>1, <5>2 DEF Tells
      <4>4. Contract!Exit(w, how)
        BY <3>5, <4>0, <4>1, <4>2, <4>3 DEF Contract!Exit, Tells, Stored, Told
      <4>5. QED
        BY <4>4 DEF Contract!Next
    <3>6. QED
      BY <2>2, <3>2, <3>3, <3>4, <3>5, StepKind
  <2>3. QED
    BY <2>1, <2>2, WorldSilent DEF Next
<1>3. QED
  BY <1>1, <1>2, Invariance, PTL DEF Spec, SinkImplemented, Contract!Spec

----------------------------------------------------------------------------
(***************************************************************************)
(* LocalConnector.read and the preview of what it reads: the safety of     *)
(* Preview for files, budgets and chunks of any size and for any number of *)
(* rows.                                                                   *)
(*                                                                         *)
(* SourceContract says when the end of a file may be reported.  It is kept *)
(* because as long as the source reads, either the file still holds all    *)
(* that was promised of it or shrunk remembers that it did not, and nobody *)
(* ever takes more than that (ReadInv).  SchemaIsJoin says what the loop   *)
(* of _schema has found when it ends; at every turn of the loop, what is   *)
(* observed is the join of the values so far (SchemaInv).                  *)
(***************************************************************************)
(* What the source knows at each step of a read.                           *)
ReadInv ==
    /\ ReadTypeOK
    /\ readPc \in {"open", "done"} => ~descriptor
    /\ readPc = "open" => taken = 0
    /\ readPc \in {"open", "read"} => outcome = "none"
    /\ readPc = "read" => fileSize >= Target \/ shrunk
    /\ outcome = "end" => taken = Target
    /\ outcome = "changed" => shrunk

(* The type of a set of kinds, none of them "none".                        *)
Joined(type, kinds) ==
    IF kinds = {} THEN type = "none"
    ELSE IF kinds = {"integer", "float"} THEN type = "float"
    ELSE IF \E k \in kinds : kinds = {k} THEN type \in kinds ELSE type = "string"

(* What the loop of _schema has observed is the join of the values so far. *)
SchemaInv ==
    /\ values \in Seq(Types \cup {"none"})
    /\ observed \in Types \cup {"none"}
    /\ Joined(observed, Range(values) \ {"none"})
    /\ schema # "none" => schema = IF observed = "none" THEN "string" ELSE observed

(* The smaller of two sizes.                                               *)
LEMMA MinOfTwo ==
    ASSUME NEW a \in Nat, NEW b \in Nat
    PROVE  Min({a, b}) = IF a <= b THEN a ELSE b
<1> DEFINE m == IF a <= b THEN a ELSE b
<1>1. m \in {a, b} /\ \A y \in {a, b} : m <= y
  OBVIOUS
<1>2. \A x \in {a, b} : (\A y \in {a, b} : x <= y) => x = m
  OBVIOUS
<1> HIDE DEF m
<1>3. (CHOOSE x \in {a, b} : \A y \in {a, b} : x <= y) = m
  BY <1>1, <1>2
<1>4. QED
  BY <1>3 DEF m, Min

(* A bound on the smallest of three.                                       *)
LEMMA MinOfThree ==
    ASSUME NEW a \in Int, NEW b \in Int, NEW c \in Int
    PROVE  Min({a, b, c}) \in Int /\ Min({a, b, c}) <= b
<1>1. \E x \in {a, b, c} : \A y \in {a, b, c} : x <= y
  <2>1. CASE a <= b /\ a <= c
    BY <2>1
  <2>2. CASE b <= a /\ b <= c
    BY <2>2
  <2>3. CASE c <= a /\ c <= b
    BY <2>3
  <2>4. QED
    BY <2>1, <2>2, <2>3
<1>2. Min({a, b, c}) \in {a, b, c} /\ \A y \in {a, b, c} : Min({a, b, c}) <= y
  BY <1>1, Zenon DEF Min
<1>3. QED
  BY <1>2

(* What is promised of a file: a preview looks at no more than one unit    *)
(* beyond its budget.                                                      *)
LEMMA TargetIs ==
    ASSUME opened \in 0..MaxSize
    PROVE  /\ Target \in 0..MaxSize /\ Target <= opened
           /\ reader # "preview" => Target = opened
           /\ reader = "preview" => Target = IF opened <= Budget + 1 THEN opened ELSE Budget + 1
<1>1. PICK o \in 0..MaxSize : o = opened
  OBVIOUS
<1>2. o \in Nat /\ Budget + 1 \in Nat
  BY <1>1, ReadAssumption
<1>3. Min({o, Budget + 1}) = IF o <= Budget + 1 THEN o ELSE Budget + 1
  BY <1>2, MinOfTwo
<1>4. Target = IF reader = "preview" THEN Min({o, Budget + 1}) ELSE o
  BY <1>1 DEF Target
<1>5. QED
  BY <1>1, <1>2, <1>3, <1>4, ReadAssumption

(* One more value of a kind is joined by one step of Widen.                *)
LEMMA WidenJoins ==
    ASSUME NEW kinds \in SUBSET Types, NEW k \in Types, NEW type, Joined(type, kinds)
    PROVE  Widen(type, k) \in Types /\ Joined(Widen(type, k), kinds \cup {k})
<1> DEFINE all == kinds \cup {k}
<1>1. k # "none" /\ all # {}
  BY DEF Types
<1>2. CASE kinds = {}
  <2>1. Widen(type, k) = k /\ all = {k} /\ all # {"integer", "float"}
    BY <1>2 DEF Joined, Widen
  <2>2. QED
    BY <2>1 DEF Joined
<1>3. CASE \E j \in kinds : kinds = {j}
  <2>1. PICK j \in kinds : kinds = {j}
    BY <1>3
  <2>2. type = j /\ j # "none"
    BY <2>1 DEF Joined, Types
  <2>3. CASE k = j
    <3>1. Widen(type, k) = k /\ all = kinds
      BY <2>1, <2>2, <2>3 DEF Widen
    <3>2. QED
      BY <2>2, <2>3, <3>1
  <2>4. CASE k # j /\ {j, k} = {"integer", "float"}
    <3>1. Widen(type, k) = "float" /\ all = {"integer", "float"}
      BY <2>1, <2>2, <2>4 DEF Widen
    <3>2. QED
      BY <3>1 DEF Joined, Types
  <2>5. CASE k # j /\ {j, k} # {"integer", "float"}
    <3>1. Widen(type, k) = "string" /\ all = {j, k}
      BY <2>1, <2>2, <2>5 DEF Widen
    <3>2. ~\E x \in all : all = {x}
      BY <2>5, <3>1
    <3>3. QED
      BY <2>5, <3>1, <3>2 DEF Joined, Types
  <2>6. QED
    BY <2>3, <2>4, <2>5
<1>4. CASE kinds = {"integer", "float"}
  <2>1. type = "float"
    BY <1>4 DEF Joined
  <2>2. CASE k \in kinds
    <3>1. Widen(type, k) = "float" /\ all = kinds
      BY <1>4, <2>1, <2>2 DEF Widen
    <3>2. QED
      BY <1>4, <3>1 DEF Joined, Types
  <2>3. CASE k \notin kinds
    <3>1. Widen(type, k) = "string"
      BY <1>4, <2>1, <2>3 DEF Widen
    <3>2. all # {"integer", "float"} /\ ~\E x \in all : all = {x}
      BY <1>4, <2>3
    <3>3. QED
      BY <3>1, <3>2 DEF Joined, Types
  <2>4. QED
    BY <2>2, <2>3
<1>5. CASE kinds # {} /\ kinds # {"integer", "float"} /\ ~\E j \in kinds : kinds = {j}
  <2>1. type = "string"
    BY <1>5 DEF Joined
  <2>2. Widen(type, k) = "string"
    BY <2>1 DEF Widen
  <2>3. PICK i \in kinds, j \in kinds : i # j
    BY <1>5
  <2>4. ~\E x \in all : all = {x}
    BY <2>3
  <2>5. all # {"integer", "float"}
    BY <1>5, <2>3
  <2>6. QED
    BY <1>1, <2>2, <2>4, <2>5 DEF Joined, Types
<1>6. QED
  BY <1>2, <1>3, <1>4, <1>5

(* No file is open and nothing is observed initially.                      *)
LEMMA InitPreview == ASSUME PreviewInit PROVE ReadInv /\ SchemaInv
<1>1. opened \in 0..MaxSize /\ taken \in 0..MaxSize /\ fileSize \in 0..MaxSize
  BY ReadAssumption DEF PreviewInit, ReadInit
<1>2. Target \in 0..MaxSize
  BY <1>1, TargetIs
<1>3. taken \in 0..Target
  BY <1>2, ReadAssumption DEF PreviewInit, ReadInit
<1>4. descriptor \in BOOLEAN /\ shrunk \in BOOLEAN
  BY Zenon DEF PreviewInit, ReadInit
<1>5. ReadTypeOK
  BY <1>1, <1>3, <1>4 DEF PreviewInit, ReadInit, ReadTypeOK
<1>6. ReadInv
  BY <1>5 DEF ReadInv, PreviewInit, ReadInit
<1>7. values = <<>> /\ observed = "none" /\ schema = "none"
  BY DEF PreviewInit
<1>8. Range(values) = {}
  BY <1>7 DEF Range
<1>9. SchemaInv
  BY <1>7, <1>8 DEF SchemaInv, Joined
<1>10. QED
  BY <1>6, <1>9

(* What Target depends on.                                                 *)
LEMMA TargetKept ==
    ASSUME UNCHANGED <<reader, opened>> PROVE Target' = Target
<1>1. QED
  BY DEF Target, Min

(* The file is opened, or is not.                                          *)
LEMMA OpenStep == ASSUME ReadInv, Open PROVE ReadInv'
<1>1. /\ readPc = "open" /\ taken = 0 /\ outcome = "none" /\ ~descriptor
      /\ UNCHANGED <<reader, fileSize, taken, shrunk>>
  BY DEF ReadInv, Open
<1>2. opened' \in 0..MaxSize /\ opened' \in {opened, fileSize}
  BY <1>1 DEF ReadInv, ReadTypeOK, Open
<1>3. Target' \in 0..MaxSize /\ Target' <= opened'
  <2>1. PICK o \in 0..MaxSize : o = opened'
    BY <1>2
  <2>2. Min({o, Budget + 1}) = IF o <= Budget + 1 THEN o ELSE Budget + 1
    BY MinOfTwo, ReadAssumption
  <2>3. Target' = IF reader = "preview" THEN Min({o, Budget + 1}) ELSE o
    BY <1>1, <2>1 DEF Target, Min
  <2>4. QED
    BY <2>1, <2>2, <2>3, ReadAssumption
<1>4. taken' \in 0..Target'
  BY <1>1, <1>3
<1>5. CASE readPc' = "read" /\ opened' = fileSize /\ descriptor' = TRUE /\ UNCHANGED outcome
  <2>1. ReadTypeOK'
    BY <1>1, <1>2, <1>4, <1>5 DEF ReadInv, ReadTypeOK
  <2>2. fileSize' >= Target'
    BY <1>1, <1>3, <1>5 DEF ReadInv, ReadTypeOK
  <2>3. QED
    BY <1>1, <1>5, <2>1, <2>2 DEF ReadInv
<1>6. CASE readPc' = "done" /\ outcome' = "error" /\ UNCHANGED <<opened, descriptor>>
  <2>1. ReadTypeOK'
    BY <1>1, <1>2, <1>4, <1>6 DEF ReadInv, ReadTypeOK
  <2>2. QED
    BY <1>1, <1>6, <2>1 DEF ReadInv
<1>7. CASE readPc' = "close" /\ descriptor' = TRUE /\ outcome' = "error" /\ UNCHANGED opened
  <2>1. ReadTypeOK'
    BY <1>1, <1>2, <1>4, <1>7 DEF ReadInv, ReadTypeOK
  <2>2. QED
    BY <1>1, <1>7, <2>1 DEF ReadInv
<1>8. QED
  BY <1>5, <1>6, <1>7 DEF Open

(* One turn of the loop of _copy or _read_prefix.                          *)
LEMMA ReadStep == ASSUME ReadInv, Read PROVE ReadInv'
<1>1. /\ readPc = "read" /\ outcome = "none"
      /\ UNCHANGED <<reader, fileSize, opened, descriptor, shrunk>>
  BY DEF ReadInv, Read
<1>2. Target' = Target
  BY <1>1, TargetKept
<1>3. /\ Target \in Nat /\ taken \in 0..Target /\ opened \in 0..MaxSize /\ fileSize \in 0..MaxSize
      /\ reader \in {"copy", "preview"}
      /\ reader # "preview" => Target = opened
      /\ reader = "preview" => Target = IF opened <= Budget + 1 THEN opened ELSE Budget + 1
  BY TargetIs, ReadAssumption DEF ReadInv, ReadTypeOK
<1>4. CASE /\ Wanted > 0 /\ taken < Target /\ UNCHANGED <<readPc, outcome>>
           /\ \E n \in 1..Min({Wanted, Target - taken, fileSize - taken}) : taken' = taken + n
  <2>1. PICK n \in 1..Min({Wanted, Target - taken, fileSize - taken}) : taken' = taken + n
    BY <1>4
  <2>2. Wanted \in Nat
    BY <1>3, <1>4, ReadAssumption DEF Wanted
  <2>3. PICK w \in Nat, d \in Nat, f \in Int :
          w = Wanted /\ d = Target - taken /\ f = fileSize - taken
    BY <1>3, <1>4, <2>2
  <2>4. Min({w, d, f}) \in Int /\ Min({w, d, f}) <= d
    BY MinOfThree
  <2>5. taken' \in 0..Target'
    BY <1>2, <1>3, <2>1, <2>3, <2>4
  <2>6. ReadTypeOK'
    BY <1>1, <1>4, <2>5 DEF ReadInv, ReadTypeOK
  <2>7. QED
    BY <1>1, <1>2, <1>4, <2>6 DEF ReadInv
<1>5. CASE /\ taken < Target /\ fileSize <= taken
           /\ readPc' = "close" /\ outcome' = "changed" /\ UNCHANGED taken
  <2>1. ReadTypeOK'
    BY <1>1, <1>2, <1>5 DEF ReadInv, ReadTypeOK
  <2>2. shrunk
    <3>1. ~(fileSize >= Target)
      BY <1>3, <1>5
    <3>2. QED
      BY <1>1, <3>1 DEF ReadInv
  <2>3. QED
    BY <1>1, <1>2, <1>5, <2>1, <2>2 DEF ReadInv
<1>6. CASE readPc' = "close" /\ outcome' = "error" /\ UNCHANGED taken
  <2>1. ReadTypeOK'
    BY <1>1, <1>2, <1>6 DEF ReadInv, ReadTypeOK
  <2>2. QED
    BY <1>1, <1>6, <2>1 DEF ReadInv
<1>7. CASE (Wanted = 0 \/ taken = Target) /\ readPc' = "close" /\ outcome' = "end" /\ UNCHANGED taken
  <2>1. taken = Target
    BY <1>3, <1>7, ReadAssumption DEF Wanted
  <2>2. ReadTypeOK'
    BY <1>1, <1>2, <1>7 DEF ReadInv, ReadTypeOK
  <2>3. QED
    BY <1>1, <1>2, <1>7, <2>1, <2>2 DEF ReadInv
<1>8. QED
  BY <1>4, <1>5, <1>6, <1>7 DEF Read

(* The end of the read, and other programs.                                *)
LEMMA CloseStep == ASSUME ReadInv, Close \/ Resize PROVE ReadInv'
<1>1. Target' = Target
  BY TargetKept DEF Close, Resize
<1>2. CASE Close
  <2>1. /\ readPc' = "done" /\ fileSize' = 0 /\ readPc = "close"
        /\ UNCHANGED <<reader, opened, taken, outcome, shrunk>>
    BY <1>2 DEF Close
  <2>2. descriptor' = FALSE /\ descriptor' \in BOOLEAN /\ shrunk' \in BOOLEAN
    BY <1>2, Zenon DEF ReadInv, ReadTypeOK, Close
  <2>3. fileSize' \in 0..MaxSize
    BY <2>1, ReadAssumption
  <2>4. ReadTypeOK'
    BY <1>1, <2>1, <2>2, <2>3 DEF ReadInv, ReadTypeOK
  <2>5. QED
    BY <1>1, <2>1, <2>2, <2>4 DEF ReadInv
<1>3. CASE Resize
  <2>1. /\ readPc \in {"open", "read"} /\ fileSize' \in 0..MaxSize
        /\ shrunk' = (shrunk \/ (readPc = "read" /\ fileSize' < Target))
        /\ UNCHANGED <<reader, readPc, opened, taken, descriptor, outcome>>
    BY <1>3 DEF Resize
  <2>2. shrunk' \in BOOLEAN
    BY <2>1
  <2>3. ReadTypeOK'
    BY <1>1, <2>1, <2>2 DEF ReadInv, ReadTypeOK
  <2>4. Target \in Nat
    BY TargetIs, ReadAssumption DEF ReadInv, ReadTypeOK
  <2>5. readPc = "read" => fileSize' >= Target \/ shrunk'
    <3>1. readPc = "read" /\ fileSize' < Target => shrunk'
      BY <2>1, Zenon
    <3>2. fileSize' < Target \/ fileSize' >= Target
      BY <2>1, <2>4
    <3>3. QED
      BY <3>1, <3>2
  <2>6. QED
    BY <1>1, <2>1, <2>3, <2>5 DEF ReadInv
<1>4. QED
  BY <1>2, <1>3

(* The steps of the preview around the read.                               *)
LEMMA AroundRead ==
    ASSUME ReadInv, RefuseSuffix \/ Undecodable \/ Parse PROVE ReadInv'
<1>1. UNCHANGED <<reader, fileSize, opened, taken, descriptor>>
  BY DEF RefuseSuffix, Undecodable, Parse
<1>2. Target' = Target
  BY <1>1, TargetKept
<1>3. CASE RefuseSuffix
  <2>1. readPc = "open" /\ readPc' = "done" /\ outcome' = "error" /\ UNCHANGED shrunk
    BY <1>3 DEF RefuseSuffix
  <2>2. ReadTypeOK'
    BY <1>1, <1>2, <2>1 DEF ReadInv, ReadTypeOK
  <2>3. QED
    BY <1>1, <2>1, <2>2 DEF ReadInv
<1>4. CASE Undecodable
  <2>1. readPc = "done" /\ UNCHANGED <<readPc, shrunk>> /\ outcome' = "error"
    BY <1>4 DEF Undecodable, IsRead
  <2>2. ReadTypeOK'
    BY <1>1, <1>2, <2>1 DEF ReadInv, ReadTypeOK
  <2>3. QED
    BY <1>1, <2>1, <2>2 DEF ReadInv
<1>5. CASE Parse
  <2>1. readPc = "done" /\ outcome = "end" /\ UNCHANGED <<readPc, outcome>>
    BY <1>5 DEF Parse, IsRead
  <2>2. shrunk' \in BOOLEAN
    BY <1>5, Zenon DEF Parse
  <2>3. ReadTypeOK'
    BY <1>1, <1>2, <2>1, <2>2 DEF ReadInv, ReadTypeOK
  <2>4. QED
    BY <1>1, <1>2, <2>1, <2>3 DEF ReadInv
<1>6. QED
  BY <1>3, <1>4, <1>5

(* _schema looks at one more value.                                        *)
LEMMA ObserveStep == ASSUME SchemaInv, Observe PROVE SchemaInv'
<1>1. PICK kind \in Types \cup {"none"} :
        /\ values' = Append(values, kind)
        /\ observed' = IF kind = "none" THEN observed ELSE Widen(observed, kind)
  BY DEF Observe
<1>2. schema = "none" /\ schema' = "none"
  BY DEF Observe
<1>3. PICK v \in Seq(Types \cup {"none"}) : v = values
  BY DEF SchemaInv
<1> DEFINE w == Append(v, kind)
<1>4. /\ w \in Seq(Types \cup {"none"}) /\ Len(v) \in Nat
      /\ DOMAIN w = 1..Len(v) + 1 /\ DOMAIN v = 1..Len(v)
      /\ w[Len(v) + 1] = kind /\ \A i \in 1..Len(v) : w[i] = v[i] /\ v[i] \in Types \cup {"none"}
  OBVIOUS
<1> HIDE DEF w
<1>5. Range(w) = Range(v) \cup {kind}
  <2>1. \A i \in 1..Len(v) + 1 : i \in 1..Len(v) \/ i = Len(v) + 1
    BY <1>4
  <2>2. Len(v) + 1 \in 1..Len(v) + 1 /\ \A i \in 1..Len(v) : i \in 1..Len(v) + 1
    BY <1>4
  <2>3. QED
    BY <1>4, <2>1, <2>2 DEF Range
<1> DEFINE kinds == Range(v) \ {"none"}
<1>6. kinds \in SUBSET Types
  BY <1>4 DEF Range
<1>7. Joined(observed, kinds)
  BY <1>3 DEF SchemaInv
<1>8. Range(values') \ {"none"} = IF kind = "none" THEN kinds ELSE kinds \cup {kind}
  BY <1>1, <1>3, <1>5 DEF w
<1>9. observed' \in Types \cup {"none"} /\ Joined(observed', Range(values') \ {"none"})
  <2>1. CASE kind = "none"
    BY <1>1, <1>7, <1>8, <2>1 DEF SchemaInv
  <2>2. CASE kind # "none"
    <3>1. PICK o : o = observed
      OBVIOUS
    <3>2. Widen(o, kind) \in Types /\ Joined(Widen(o, kind), kinds \cup {kind})
      BY <1>6, <1>7, <2>2, <3>1, WidenJoins
    <3>3. observed' = Widen(o, kind)
      BY <1>1, <2>2, <3>1
    <3>4. QED
      BY <1>8, <2>2, <3>2, <3>3
  <2>3. QED
    BY <2>1, <2>2
<1>10. values' \in Seq(Types \cup {"none"})
  BY <1>1, <1>3, <1>4 DEF w
<1>11. (Range(values))' = Range(values')
  BY DEF Range
<1>12. QED
  BY <1>2, <1>9, <1>10, <1>11 DEF SchemaInv, Joined

(* Steps that do not touch what _schema knows.                             *)
LEMMA SchemaKept == ASSUME SchemaInv, UNCHANGED <<values, observed, schema>> PROVE SchemaInv'
<1>1. (Range(values))' = Range(values)
  BY DEF Range
<1>2. QED
  BY <1>1 DEF SchemaInv, Joined

(* The loop of _schema is over.                                            *)
LEMMA InferStep == ASSUME SchemaInv, Infer PROVE SchemaInv'
<1>1. /\ UNCHANGED <<values, observed>> /\ schema' = IF observed = "none" THEN "string" ELSE observed
  BY DEF Infer
<1>2. (Range(values))' = Range(values)
  BY <1>1 DEF Range
<1>3. QED
  BY <1>1, <1>2 DEF SchemaInv, Joined

PreviewInv == ReadInv /\ SchemaInv /\ format \in {"csv", "json", "other"}

(* The inductive invariant holds in every reachable state, whatever        *)
(* happens to the file and whatever it holds.                              *)
THEOREM PreviewInvariance == PreviewSpec => []PreviewInv
<1>1. PreviewInit => PreviewInv
  BY InitPreview DEF PreviewInv, PreviewInit
<1>2. ASSUME PreviewInv, [PreviewNext]_previewVars PROVE PreviewInv'
  <2>1. format' \in {"csv", "json", "other"}
    <3>1. UNCHANGED format
      BY <1>2 DEF PreviewNext, RefuseSuffix, ReadFile, Undecodable, Parse, Observe, Infer, previewVars
    <3>2. QED
      BY <1>2, <3>1 DEF PreviewInv
  <2>2. CASE RefuseSuffix \/ Undecodable \/ Parse
    <3>1. UNCHANGED <<values, observed, schema>>
      BY <2>2 DEF RefuseSuffix, Undecodable, Parse, parseVars, schemaVars
    <3>2. QED
      BY <1>2, <2>1, <2>2, <3>1, AroundRead, SchemaKept DEF PreviewInv
  <2>3. CASE ReadFile
    <3>1. UNCHANGED <<values, observed, schema>> /\ ReadNext
      BY <2>3 DEF ReadFile, parseVars, schemaVars
    <3>2. ReadInv'
      BY <1>2, <3>1, OpenStep, ReadStep, CloseStep DEF PreviewInv, ReadNext
    <3>3. QED
      BY <1>2, <2>1, <3>1, <3>2, SchemaKept DEF PreviewInv
  <2>4. ASSUME UNCHANGED readVars PROVE ReadInv'
    <3>1. UNCHANGED <<reader, readPc, fileSize, opened, taken, descriptor, outcome, shrunk>>
      BY <2>4 DEF readVars
    <3>2. Target' = Target
      BY <3>1, TargetKept
    <3>3. QED
      BY <1>2, <3>1, <3>2 DEF PreviewInv, ReadInv, ReadTypeOK
  <2>5. CASE Observe
    BY <1>2, <2>1, <2>4, <2>5, ObserveStep DEF PreviewInv, Observe
  <2>6. CASE Infer
    BY <1>2, <2>1, <2>4, <2>6, InferStep DEF PreviewInv, Infer
  <2>7. CASE UNCHANGED previewVars
    BY <1>2, <2>1, <2>4, <2>7, SchemaKept DEF PreviewInv, previewVars, readVars
  <2>8. QED
    BY <1>2, <2>2, <2>3, <2>5, <2>6, <2>7 DEF PreviewNext
<1>3. QED
  BY <1>1, <1>2, PTL DEF PreviewSpec

(* The state of the read and of the inference stays within its types.      *)
THEOREM PreviewTypes == PreviewSpec => []PreviewTypeOK
<1>1. PreviewInv => PreviewTypeOK
  BY DEF PreviewInv, ReadInv, SchemaInv, PreviewTypeOK, Types
<1>2. QED
  BY <1>1, PreviewInvariance, PTL

(* LocalConnector.read: the end of a file is reported only to a caller     *)
(* that has all that was promised of it, a change only of a file that was  *)
(* shorter, and a preview that reached the end knows whether there is more *)
(* of the file than its budget, whatever other programs do to the file.    *)
THEOREM SourceKeepsContract == PreviewSpec => []SourceContract
<1>1. PreviewInv => SourceContract
  <2>1. SUFFICES ASSUME PreviewInv, readPc = "done" PROVE SourceContract
    BY DEF SourceContract
  <2>2. ~descriptor /\ (outcome = "end" => taken = Target) /\ (outcome = "changed" => shrunk)
    BY <2>1 DEF PreviewInv, ReadInv
  <2>3. reader = "preview" /\ outcome = "end" => (taken > Budget <=> opened > Budget)
    <3>1. opened \in 0..MaxSize
      BY <2>1 DEF PreviewInv, ReadInv, ReadTypeOK
    <3>2. reader = "preview" => Target = IF opened <= Budget + 1 THEN opened ELSE Budget + 1
      BY <3>1, TargetIs
    <3>3. QED
      BY <2>2, <3>1, <3>2, ReadAssumption
  <2>4. QED
    BY <2>2, <2>3 DEF SourceContract, AtLimit
<1>2. QED
  BY <1>1, PreviewInvariance, PTL

(* _schema: the type of a field is the join of the types of its values,    *)
(* for any number of rows and in whatever order they come.                 *)
THEOREM SchemaJoins == PreviewSpec => []SchemaIsJoin
<1>1. PreviewInv => SchemaIsJoin
  BY DEF PreviewInv, SchemaInv, Joined, SchemaIsJoin, Types
<1>2. QED
  BY <1>1, PreviewInvariance, PTL

=============================================================================
