------------------------- MODULE CommandQueueProofs -------------------------
(***************************************************************************)
(* For any number of jobs, targets, partitions and members and any number  *)
(* of faults: a job reported as completed has its target, unless somebody  *)
(* else undoes that, also when jobs for one booking run at once; commands  *)
(* are lost only to faults, and how many; the depth counter is clamped;    *)
(* and without faults the status of an accepted job tells the truth.       *)
(***************************************************************************)
EXTENDS CommandQueue, FiniteSetTheorems, TLAPS

\* The commands of a job are in one partition.
LogOK ==
  \A p \in Partitions : \A i \in 1 .. Len(log[p]) : PartitionOf[log[p][i].job] = p

\* A reader at work has a message of its partition; one that may write it again
\* has attempts left; one that sells and charges does so for a purchase that
\* has not been reported completed; one that charges or is about to report
\* success has got the target.
ReaderOK(p) ==
  /\ stage[p] \notin {"off", "fetch"} =>
       msg[p] \in Message /\ pos[p] > 0 /\ PartitionOf[msg[p].job] = p
  /\ stage[p] = "retry" => msg[p].attempt < MaxRetries
  /\ stage[p] \in {"sell", "charge", "revert"} =>
       IsPurchase(msg[p].job) /\ jobStatus[msg[p].job] # "completed"
  /\ stage[p] \in {"charge", "complete"} => Granted(msg[p].job)

\* What is held is taken, for its holder, and a seat is held once; a booking
\* whose sale has been undone cannot be sold again.
ClaimsOK ==
  /\ \A r \in Targets : holders[r] # {} => target[r] = "taken"
  /\ \A r \in Targets : \A j \in holders[r] : TargetOf[j] = r
  /\ \A r \in Targets \ Bookings : \A i, j \in holders[r] : i = j
  /\ \A j \in undone : IsPurchase(j) => target[TargetOf[j]] = "gone"

CompletedGranted == \A j \in Jobs : jobStatus[j] = "completed" => Granted(j)

IInv ==
  /\ TypeOK
  /\ LogOK
  /\ \A p \in Partitions : ReaderOK(p)
  /\ ClaimsOK
  /\ CompletedGranted

\* Nothing is completed at first.
LEMMA InitIInv == Init => IInv
<1> SUFFICES ASSUME Init PROVE IInv
  OBVIOUS
<1>1. TypeOK
  <2>1. request \in [Jobs -> {"absent", "none", "write", "bump", "accepted",
                              "refused"}]
    BY DEF Init
  <2> QED BY <2>1, QueueAssumption
      DEF Init, TypeOK, NoOffset, FirstOffset, Stage, NoMessage
<1>2. LogOK /\ \A p \in Partitions : ReaderOK(p)
  BY DEF Init, LogOK, ReaderOK
<1>3. ClaimsOK /\ CompletedGranted
  BY DEF Init, ClaimsOK, CompletedGranted
<1> QED BY <1>1, <1>2, <1>3 DEF IInv

\* Appending a command to its partition keeps the log in order.
LEMMA WriteType ==
  ASSUME log \in [Partitions -> Seq(Message)], LogOK,
         NEW j \in Jobs, NEW k \in 0..MaxRetries, Write(j, k)
  PROVE  log' \in [Partitions -> Seq(Message)] /\ LogOK'
<1> DEFINE p == PartitionOf[j]
           m == [job |-> j, attempt |-> k]
<1>1. p \in Partitions /\ m \in Message /\ PartitionOf[m.job] = p
  BY QueueAssumption DEF Message
<1>2. /\ log'[p] = Append(log[p], m)
      /\ \A q \in Partitions \ {p} : log'[q] = log[q]
  BY <1>1 DEF Write
<1>3. log[p] \in Seq(Message)
  BY <1>1
<1> HIDE DEF p, m
<1>4. Append(log[p], m) \in Seq(Message)
  BY <1>1, <1>3
<1>5. log' \in [Partitions -> Seq(Message)]
  BY <1>1, <1>4 DEF Write, p, m
<1>6. \A i \in 1 .. Len(Append(log[p], m)) :
        \/ i \in 1 .. Len(log[p]) /\ Append(log[p], m)[i] = log[p][i]
        \/ Append(log[p], m)[i] = m
  BY <1>1, <1>3
<1>7. LogOK'
  <2> SUFFICES ASSUME NEW q \in Partitions, NEW i \in 1 .. Len(log'[q])
               PROVE  PartitionOf[log'[q][i].job] = q
    BY DEF LogOK
  <2>1. CASE q = p
    <3>1. \A n \in 1 .. Len(log[p]) : PartitionOf[log[p][n].job] = p
      BY <1>1 DEF LogOK
    <3>2. log'[q] = Append(log[p], m) /\ i \in 1 .. Len(Append(log[p], m))
      BY <1>2, <2>1
    <3> QED BY <1>1, <1>6, <2>1, <3>1, <3>2
  <2>2. CASE q # p
    BY <1>2, <2>2 DEF LogOK
  <2> QED BY <2>1, <2>2
<1> QED BY <1>5, <1>7

\* Without a claim or a claim undone no job gets or loses its target.
LEMMA ClaimsUnchanged ==
  ASSUME UNCHANGED claims
  PROVE  /\ UNCHANGED <<target, holders, undone>>
         /\ ClaimsOK => ClaimsOK'
         /\ \A j \in Jobs : Granted(j)' <=> Granted(j)
<1> QED BY DEF claims, ClaimsOK, Granted

\* Nobody but those in by loses a target that is undone.
LEMMA UndoKeepsGranted ==
  ASSUME IInv, NEW r \in Targets, NEW s \in {"open", "taken", "gone"},
         NEW by \in SUBSET Jobs, Undo(r, s, by),
         r \in Bookings => s = "gone" \/ target[r] = "open"
  PROVE  /\ target' \in [Targets -> {"open", "taken", "gone"}]
         /\ holders' \in [Targets -> SUBSET Jobs] /\ undone' \subseteq Jobs
         /\ ClaimsOK'
         /\ \A j \in Jobs \ by : Granted(j) => Granted(j)'
<1> USE DEF Undo
<1>1. /\ target \in [Targets -> {"open", "taken", "gone"}]
      /\ holders \in [Targets -> SUBSET Jobs] /\ undone \subseteq Jobs
      /\ ClaimsOK
      /\ \A j \in Jobs : TargetOf[j] \in Targets
  BY QueueAssumption DEF IInv, TypeOK
<1>2. /\ target' \in [Targets -> {"open", "taken", "gone"}]
      /\ holders' \in [Targets -> SUBSET Jobs] /\ undone' \subseteq Jobs
  BY <1>1
<1>3. /\ holders'[r] = {} /\ target'[r] = s
      /\ \A q \in Targets \ {r} : holders'[q] = holders[q] /\ target'[q] = target[q]
  BY <1>1
<1>4. ASSUME NEW j \in undone', IsPurchase(j) PROVE target'[TargetOf[j]] = "gone"
  <2>1. CASE j \in undone
    <3>1. target[TargetOf[j]] = "gone" /\ TargetOf[j] \in Targets
          /\ TargetOf[j] \in Bookings
      BY <1>1, <1>4, <2>1 DEF ClaimsOK, IsPurchase
    <3> QED BY <1>3, <3>1
  <2>2. CASE j \in holders[r]
    <3>1. TargetOf[j] = r /\ target[r] = "taken" /\ r \in Bookings
      BY <1>1, <1>4, <2>2 DEF ClaimsOK, IsPurchase
    <3> QED BY <1>3, <3>1
  <2> QED BY <2>1, <2>2
<1>5. ClaimsOK'
  <2>1. \A q \in Targets : holders'[q] # {} => target'[q] = "taken"
    BY <1>1, <1>3 DEF ClaimsOK
  <2>2. \A q \in Targets : \A j \in holders'[q] : TargetOf[j] = q
    BY <1>1, <1>3 DEF ClaimsOK
  <2>3. \A q \in Targets \ Bookings : \A i, j \in holders'[q] : i = j
    BY <1>1, <1>3 DEF ClaimsOK
  <2>4. \A j \in undone' : IsPurchase(j)' => target'[TargetOf[j]] = "gone"
    BY <1>4 DEF IsPurchase
  <2> QED BY <2>1, <2>2, <2>3, <2>4 DEF ClaimsOK
<1>6. ASSUME NEW j \in Jobs \ by, Granted(j) PROVE Granted(j)'
  <2>1. CASE TargetOf[j] = r
    BY <1>6, <2>1 DEF Granted
  <2>2. CASE TargetOf[j] # r
    BY <1>1, <1>3, <1>6, <2>2 DEF Granted
  <2> QED BY <2>1, <2>2
<1> QED BY <1>2, <1>5, <1>6

\* A claim takes no target from anybody.
LEMMA ClaimKeepsGranted ==
  ASSUME IInv, NEW j \in Jobs, Claim(j),
         \/ target[TargetOf[j]] = "open"
         \/ target[TargetOf[j]] = "taken" /\ IsPurchase(j)
  PROVE  /\ target' \in [Targets -> {"open", "taken", "gone"}]
         /\ holders' \in [Targets -> SUBSET Jobs] /\ undone' \subseteq Jobs
         /\ ClaimsOK'
         /\ Granted(j)' /\ \A i \in Jobs : Granted(i) => Granted(i)'
<1> DEFINE r == TargetOf[j]
<1> USE DEF Claim
<1>1. /\ target \in [Targets -> {"open", "taken", "gone"}]
      /\ holders \in [Targets -> SUBSET Jobs] /\ undone \subseteq Jobs
      /\ ClaimsOK
      /\ \A i \in Jobs : TargetOf[i] \in Targets
  BY QueueAssumption DEF IInv, TypeOK
<1>2. /\ target' \in [Targets -> {"open", "taken", "gone"}]
      /\ holders' \in [Targets -> SUBSET Jobs] /\ undone' \subseteq Jobs
  BY <1>1
<1>3. /\ holders'[r] = holders[r] \cup {j} /\ target'[r] = "taken"
      /\ \A q \in Targets \ {r} : holders'[q] = holders[q] /\ target'[q] = target[q]
  BY <1>1
<1>4. ASSUME NEW i \in undone', IsPurchase(i) PROVE target'[TargetOf[i]] = "gone"
  <2>1. target[TargetOf[i]] = "gone" /\ TargetOf[i] \in Targets
    BY <1>1, <1>4 DEF ClaimsOK
  <2> QED BY <1>3, <2>1
<1>5. ClaimsOK'
  <2>1. \A q \in Targets : holders'[q] # {} => target'[q] = "taken"
    BY <1>1, <1>3 DEF ClaimsOK
  <2>2. \A q \in Targets : \A i \in holders'[q] : TargetOf[i] = q
    BY <1>1, <1>3 DEF ClaimsOK
  <2>3. ASSUME NEW q \in Targets \ Bookings PROVE \A i, k \in holders'[q] : i = k
    <3>1. CASE q = r
      <4>1. holders[r] = {}
        BY <1>1, <2>3, <3>1 DEF ClaimsOK, IsPurchase
      <4> QED BY <1>3, <3>1, <4>1
    <3>2. CASE q # r
      BY <1>1, <1>3, <3>2 DEF ClaimsOK
    <3> QED BY <3>1, <3>2
  <2>4. \A i \in undone' : IsPurchase(i)' => target'[TargetOf[i]] = "gone"
    BY <1>4 DEF IsPurchase
  <2> QED BY <2>1, <2>2, <2>3, <2>4 DEF ClaimsOK
<1>6. Granted(j)'
  BY <1>3 DEF Granted
<1>7. ASSUME NEW i \in Jobs, Granted(i) PROVE Granted(i)'
  <2>1. holders[TargetOf[i]] \subseteq holders'[TargetOf[i]]
    BY <1>1, <1>3
  <2>2. i \in undone => i = j \/ i \in undone'
    OBVIOUS
  <2> QED BY <1>6, <1>7, <2>1, <2>2 DEF Granted
<1> QED BY <1>2, <1>5, <1>6, <1>7

\* A step that takes no target from a job and reports none completed, and
\* changes no reader.
LEMMA ReadersKept ==
  ASSUME IInv, UNCHANGED <<stage, msg, pos>>,
         \A j \in Jobs : (Granted(j) => Granted(j)')
                         /\ (jobStatus'[j] = "completed" => jobStatus[j] = "completed")
  PROVE  (\A p \in Partitions : ReaderOK(p)') /\ CompletedGranted'
<1>1. ASSUME NEW p \in Partitions PROVE ReaderOK(p)'
  <2>1. ReaderOK(p)
    BY DEF IInv
  <2>2. stage[p] \notin {"off", "fetch"} => msg[p].job \in Jobs
    BY <2>1 DEF ReaderOK, Message
  <2> QED BY <2>1, <2>2 DEF ReaderOK, IsPurchase
<1>2. CompletedGranted'
  BY DEF IInv, CompletedGranted
<1> QED BY <1>1, <1>2

\* A request writes a command of its own job only, and no status but pending.
LEMMA RequestIInv ==
  ASSUME IInv, NEW j \in Jobs, EnqueueJob(j) \/ Enqueue(j) \/ EnqueueFails(j)
  PROVE  IInv'
<1> USE DEF EnqueueJob, Enqueue, WriteCommand, CountCommand, EnqueueFails,
            Fault, SetJobStatus, store, topics, group, reader
<1>1. log' \in [Partitions -> Seq(Message)] /\ LogOK'
  <2>1. CASE Write(j, 0)
    BY <2>1, WriteType, QueueAssumption DEF IInv, TypeOK
  <2>2. CASE UNCHANGED log
    BY <2>2 DEF IInv, TypeOK, LogOK
  <2> QED BY <2>1, <2>2
<1>2. UNCHANGED claims
  OBVIOUS
<1>3. /\ UNCHANGED <<target, holders, undone>> /\ ClaimsOK'
      /\ \A i \in Jobs : Granted(i)' <=> Granted(i)
  BY <1>2, ClaimsUnchanged DEF IInv
<1>4. TypeOK'
  <2>1. depth' \in Int
    BY DEF IInv, TypeOK
  <2>2. request' \in [Jobs -> {"absent", "none", "write", "bump", "accepted",
                               "refused"}]
    <3>1. \E r \in {"write", "bump", "accepted", "refused"} :
            request' = [request EXCEPT ![j] = r]
      OBVIOUS
    <3> QED BY <3>1 DEF IInv, TypeOK
  <2>3. jobStatus' \in [Jobs -> {"none", "pending", "retrying", "completed",
                                 "dead_lettered"}]
    BY DEF IInv, TypeOK
  <2>4. faults' \in [FaultKinds -> Nat]
    BY DEF IInv, TypeOK, FaultKinds
  <2> QED BY <1>1, <1>3, <2>1, <2>2, <2>3, <2>4 DEF IInv, TypeOK
<1>5. \A i \in Jobs : jobStatus'[i] = "completed" => jobStatus[i] = "completed"
  BY DEF IInv, TypeOK
<1>6. (\A p \in Partitions : ReaderOK(p)') /\ CompletedGranted'
  BY <1>3, <1>5, ReadersKept
<1> QED BY <1>1, <1>3, <1>4, <1>6 DEF IInv

\* What others do to a target undoes what jobs have got, and is known of them.
LEMMA TargetIInv ==
  ASSUME IInv, NEW r \in Targets, TargetChanges(r)
  PROVE  IInv'
<1> USE DEF TargetChanges, store, topics, group, reader
<1>1. /\ target' \in [Targets -> {"open", "taken", "gone"}]
      /\ holders' \in [Targets -> SUBSET Jobs] /\ undone' \subseteq Jobs
      /\ ClaimsOK'
      /\ \A j \in Jobs : Granted(j) => Granted(j)'
  <2>1. PICK s \in {"open", "taken", "gone"} :
          Undo(r, s, {}) /\ (r \in Bookings => s = "gone" \/ target[r] = "open")
    OBVIOUS
  <2> QED BY <2>1, UndoKeepsGranted
<1>2. UNCHANGED <<request, store, topics, group, reader, faults>>
  OBVIOUS
<1>3. TypeOK'
  BY <1>1, <1>2 DEF IInv, TypeOK
<1>4. LogOK'
  BY <1>2 DEF IInv, LogOK
<1>5. (\A p \in Partitions : ReaderOK(p)') /\ CompletedGranted'
  BY <1>1, <1>2, ReadersKept
<1> QED BY <1>1, <1>3, <1>4, <1>5 DEF IInv

\* The partitions other than p, and the jobs, are not disturbed by a step of
\* the reader of p, which may take its target from its own job only.
LEMMA OtherReaders ==
  ASSUME IInv, NEW p \in Partitions,
         \A q \in Partitions : q # p =>
           stage'[q] = stage[q] /\ msg'[q] = msg[q] /\ pos'[q] = pos[q],
         \A j \in Jobs : PartitionOf[j] # p =>
           (Granted(j) => Granted(j)') /\ jobStatus'[j] = jobStatus[j],
         ReaderOK(p)'
  PROVE  \A q \in Partitions : ReaderOK(q)'
<1> SUFFICES ASSUME NEW q \in Partitions, q # p PROVE ReaderOK(q)'
  OBVIOUS
<1>1. ReaderOK(q)
  BY DEF IInv
<1>2. stage[q] \notin {"off", "fetch"} =>
        msg[q].job \in Jobs /\ PartitionOf[msg[q].job] # p
  BY <1>1 DEF ReaderOK, Message
<1> QED BY <1>1, <1>2 DEF ReaderOK, IsPurchase

\* A member is given a partition without a status being written.
LEMMA AssignIInv ==
  ASSUME IInv, NEW m \in Members, NEW p \in Partitions, Assign(m, p)
  PROVE  IInv'
<1> USE DEF Assign, store, topics, group, reader
<1>1. UNCHANGED claims
  OBVIOUS
<1>2. /\ UNCHANGED <<target, holders, undone>> /\ ClaimsOK'
      /\ \A i \in Jobs : Granted(i)' <=> Granted(i)
  BY <1>1, ClaimsUnchanged DEF IInv
<1>3. TypeOK'
  <2>1. owner' \in [Partitions -> Members \cup {NoMember}]
    BY DEF IInv, TypeOK
  <2>2. stage' \in [Partitions -> Stage]
    BY DEF IInv, TypeOK, Stage
  <2>3. pos' \in [Partitions -> Nat]
    <3>1. (IF committed[p] < 0 THEN 0 ELSE committed[p]) \in Nat
      BY DEF IInv, TypeOK
    <3> QED BY <3>1 DEF IInv, TypeOK
  <2>4. current' \in [Partitions -> Int]
    BY DEF IInv, TypeOK, FirstOffset
  <2> QED BY <1>2, <2>1, <2>2, <2>3, <2>4 DEF IInv, TypeOK
<1>4. ReaderOK(p)'
  <2>1. CASE m \in Readers
    BY <2>1 DEF IInv, TypeOK, ReaderOK
  <2>2. CASE m \notin Readers
    BY <1>2, <2>2 DEF IInv, TypeOK, ReaderOK, Granted
  <2> QED BY <2>1, <2>2
<1>5. \A q \in Partitions : ReaderOK(q)'
  <2>1. \A q \in Partitions : q # p =>
          stage'[q] = stage[q] /\ msg'[q] = msg[q] /\ pos'[q] = pos[q]
    BY DEF IInv, TypeOK
  <2> QED BY <1>2, <1>4, <2>1, OtherReaders
<1>6. CompletedGranted' /\ LogOK'
  BY <1>2 DEF IInv, CompletedGranted, LogOK
<1> QED BY <1>2, <1>3, <1>5, <1>6 DEF IInv

\* The end of a generation, and the commit that follows it.
LEMMA GenerationIInv ==
  ASSUME IInv, NEW p \in Partitions, EndGeneration(p) \/ CommitOffsets(p)
  PROVE  IInv'
<1> USE DEF EndGeneration, CommitOffsets, Leave, Fault, NextOffset, store,
            topics, group, reader
<1>1. UNCHANGED claims
  OBVIOUS
<1>2. /\ UNCHANGED <<target, holders, undone>> /\ ClaimsOK'
      /\ \A i \in Jobs : Granted(i)' <=> Granted(i)
  BY <1>1, ClaimsUnchanged DEF IInv
<1>3. TypeOK'
  <2>1. CASE EndGeneration(p)
    <3>1. ended' \in [Partitions -> BOOLEAN]
      BY <2>1 DEF IInv, TypeOK
    <3>2. faults' \in [FaultKinds -> Nat]
      BY <2>1 DEF IInv, TypeOK, FaultKinds
    <3> QED BY <1>2, <2>1, <3>1, <3>2 DEF IInv, TypeOK
  <2>2. CASE CommitOffsets(p)
    <3>1. owner' \in [Partitions -> Members \cup {NoMember}]
      BY <2>2 DEF IInv, TypeOK
    <3>2. stage' \in [Partitions -> Stage]
      BY <2>2 DEF IInv, TypeOK, Stage
    <3>3. pos' \in [Partitions -> Nat]
      BY <2>2 DEF IInv, TypeOK
    <3>4. current' \in [Partitions -> Int]
      BY <2>2 DEF IInv, TypeOK, FirstOffset
    <3>5. msg' \in [Partitions -> Message \cup {NoMessage}]
      BY <2>2 DEF IInv, TypeOK
    <3>6. ended' \in [Partitions -> BOOLEAN]
      BY <2>2 DEF IInv, TypeOK
    <3>7. committed' \in [Partitions -> Int]
      BY <2>2 DEF IInv, TypeOK
    <3>8. abandoned' \in [Partitions -> SUBSET Nat]
      BY <2>2 DEF IInv, TypeOK
    <3> QED BY <1>2, <2>2, <3>1, <3>2, <3>3, <3>4, <3>5, <3>6, <3>7, <3>8
        DEF IInv, TypeOK
  <2> QED BY <2>1, <2>2
<1>4. \A q \in Partitions : ReaderOK(q)'
  <2>1. CASE EndGeneration(p)
    BY <1>2, <2>1, ReadersKept
  <2>2. CASE CommitOffsets(p)
    <3>1. ReaderOK(p)'
      BY <2>2 DEF IInv, TypeOK, ReaderOK
    <3>2. \A q \in Partitions : q # p =>
            stage'[q] = stage[q] /\ msg'[q] = msg[q] /\ pos'[q] = pos[q]
      BY <2>2 DEF IInv, TypeOK
    <3> QED BY <1>2, <2>2, <3>1, <3>2, OtherReaders
  <2> QED BY <2>1, <2>2
<1>5. CompletedGranted' /\ LogOK'
  BY <1>2 DEF IInv, CompletedGranted, LogOK
<1> QED BY <1>2, <1>3, <1>4, <1>5 DEF IInv

\* A member that dies writes no status.
LEMMA CrashIInv ==
  ASSUME IInv, NEW m \in Members, Crash(m)
  PROVE  IInv'
<1> USE DEF Crash, Fault, store, topics, group, reader
<1>1. UNCHANGED claims
  OBVIOUS
<1>2. /\ UNCHANGED <<target, holders, undone>> /\ ClaimsOK'
      /\ \A i \in Jobs : Granted(i)' <=> Granted(i)
  BY <1>1, ClaimsUnchanged DEF IInv
<1>3. TypeOK'
  <2>1. owner' \in [Partitions -> Members \cup {NoMember}]
    BY DEF IInv, TypeOK
  <2>2. stage' \in [Partitions -> Stage]
    BY DEF IInv, TypeOK, Stage
  <2>3. pos' \in [Partitions -> Nat]
    BY DEF IInv, TypeOK
  <2>4. current' \in [Partitions -> Int]
    BY DEF IInv, TypeOK, FirstOffset
  <2>5. msg' \in [Partitions -> Message \cup {NoMessage}]
    BY DEF IInv, TypeOK
  <2>6. ended' \in [Partitions -> BOOLEAN]
    BY DEF IInv, TypeOK
  <2>7. faults' \in [FaultKinds -> Nat]
    BY DEF IInv, TypeOK, FaultKinds
  <2>8. abandoned' \in [Partitions -> SUBSET Nat]
    BY DEF IInv, TypeOK
  <2> QED BY <1>2, <2>1, <2>2, <2>3, <2>4, <2>5, <2>6, <2>7, <2>8 DEF IInv, TypeOK
<1>4. ASSUME NEW q \in Partitions PROVE ReaderOK(q)'
  <2>1. CASE owner[q] = m
    BY <2>1 DEF ReaderOK
  <2>2. CASE owner[q] # m
    <3>1. stage'[q] = stage[q] /\ msg'[q] = msg[q] /\ pos'[q] = pos[q]
      BY <2>2
    <3>2. ReaderOK(q) /\ (stage[q] \notin {"off", "fetch"} => msg[q].job \in Jobs)
      BY DEF IInv, ReaderOK, Message
    <3> QED BY <1>2, <3>1, <3>2 DEF ReaderOK, IsPurchase
  <2> QED BY <2>1, <2>2
<1>5. CompletedGranted' /\ LogOK'
  BY <1>2 DEF IInv, CompletedGranted, LogOK
<1> QED BY <1>2, <1>3, <1>4, <1>5 DEF IInv

\* What the end of a handler does to the types of what it changes.
LEMMA DoneType ==
  ASSUME TypeOK, NEW p \in Partitions, NEW d \in BOOLEAN, Done(p, d), pos[p] > 0
  PROVE  /\ stage' \in [Partitions -> Stage]
         /\ msg' \in [Partitions -> Message \cup {NoMessage}]
         /\ handled' \in [Partitions -> SUBSET Nat]
         /\ abandoned' \in [Partitions -> SUBSET Nat]
<1>1. stage' \in [Partitions -> Stage]
  BY DEF TypeOK, Done, Goto, Stage
<1>2. msg' \in [Partitions -> Message \cup {NoMessage}]
  BY DEF TypeOK, Done
<1>3. Offset(p) \in Nat
  BY DEF TypeOK, Offset
<1>4. handled' \in [Partitions -> SUBSET Nat]
  BY <1>3 DEF TypeOK, Done
<1>5. abandoned' \in [Partitions -> SUBSET Nat]
  BY <1>3 DEF TypeOK, Done
<1> QED BY <1>1, <1>2, <1>4, <1>5

\* A message is read with the offset it has in the log.
LEMMA ReadMessageIInv ==
  ASSUME IInv, NEW p \in Partitions, ReadMessage(p)
  PROVE  IInv'
<1> USE DEF ReadMessage, Goto, store, topics, group
<1>1. log[p][pos[p] + 1] \in Message /\ PartitionOf[log[p][pos[p] + 1].job] = p
  <2>1. log[p] \in Seq(Message) /\ pos[p] + 1 \in 1..Len(log[p])
    BY DEF IInv, TypeOK
  <2> QED BY <2>1 DEF IInv, LogOK
<1>2. UNCHANGED claims
  OBVIOUS
<1>3. /\ UNCHANGED <<target, holders, undone>> /\ ClaimsOK'
      /\ \A i \in Jobs : Granted(i)' <=> Granted(i)
  BY <1>2, ClaimsUnchanged DEF IInv
<1>4. TypeOK'
  <2>1. stage' \in [Partitions -> Stage]
    BY DEF IInv, TypeOK, Stage
  <2>2. msg' \in [Partitions -> Message \cup {NoMessage}]
    BY <1>1 DEF IInv, TypeOK
  <2>3. pos' \in [Partitions -> Nat]
    BY DEF IInv, TypeOK
  <2> QED BY <1>3, <2>1, <2>2, <2>3 DEF IInv, TypeOK
<1>5. \A q \in Partitions : ReaderOK(q)'
  <2>1. stage'[p] = "process" /\ msg'[p] = log[p][pos[p] + 1] /\ pos'[p] > 0
    BY DEF IInv, TypeOK
  <2>2. ReaderOK(p)'
    BY <1>1, <2>1 DEF ReaderOK
  <2>3. \A q \in Partitions : q # p =>
          stage'[q] = stage[q] /\ msg'[q] = msg[q] /\ pos'[q] = pos[q]
    BY DEF IInv, TypeOK
  <2> QED BY <1>3, <2>2, <2>3, OtherReaders
<1>6. CompletedGranted' /\ LogOK'
  BY <1>3 DEF IInv, CompletedGranted, LogOK
<1> QED BY <1>3, <1>4, <1>5, <1>6 DEF IInv

\* A failing call is counted, if it is one.
LEMMA FailureType ==
  ASSUME TypeOK, UNCHANGED faults \/ Fault("failure")
  PROVE  faults' \in [FaultKinds -> Nat]
<1>1. CASE UNCHANGED faults
  BY <1>1 DEF TypeOK
<1>2. CASE Fault("failure")
  BY <1>2 DEF TypeOK, Fault, FaultKinds
<1> QED BY <1>1, <1>2

\* The steps of a handler in which the booking service works for a job.
ServiceSteps(p) ==
  \/ ProcessJob(p) \/ SellBooking(p) \/ ChargeBooking(p) \/ RevertPurchase(p)
  \/ ProcessFails(p)

\* Where these steps lead, and what they do to the job's target.
ServiceStep(p, j, s) ==
  /\ stage[p] \in {"process", "sell", "charge", "revert"}
  /\ Goto(p, s)
  /\ UNCHANGED faults \/ Fault("failure")
  /\ \/ UNCHANGED claims
     \/ /\ stage[p] \in {"process", "sell"} /\ s = "fail"
        /\ target[TargetOf[j]] = "open" /\ Undo(TargetOf[j], "taken", {})
     \/ /\ stage[p] = "process" /\ s = "complete" /\ ~IsPurchase(j)
        /\ target[TargetOf[j]] = "open" /\ Claim(j)
     \/ /\ stage[p] = "sell" /\ s = "charge"
        /\ target[TargetOf[j]] # "gone" /\ Claim(j)
     \/ /\ stage[p] = "revert" /\ s = "fail"
        /\ Undo(TargetOf[j], "gone", {j})
  /\ s = "complete" => stage[p] = "charge" \/ (stage[p] = "process" /\ Claim(j))
  /\ s = "charge" => stage[p] = "sell" /\ Claim(j)
  /\ s = "revert" => stage[p] = "charge"
  /\ s = "sell" =>
       stage[p] = "process" /\ IsPurchase(j) /\ target[TargetOf[j]] = "open"
  /\ UNCHANGED <<request, store, topics, group, pos, current, msg, ended,
                 handled, abandoned>>

LEMMA ServiceStepsAre ==
  ASSUME NEW p \in Partitions, ServiceSteps(p)
  PROVE  \E s \in {"fail", "sell", "charge", "revert", "complete"} :
           ServiceStep(p, msg[p].job, s)
<1>1. CASE ProcessJob(p)
  <2>1. Outcome(msg[p].job) \in {"fail", "sell", "complete"}
    BY DEF Outcome
  <2>2. ServiceStep(p, msg[p].job, Outcome(msg[p].job))
    BY <1>1 DEF ProcessJob, ServiceStep, Outcome
  <2> QED BY <2>1, <2>2
<1>2. CASE SellBooking(p)
  BY <1>2 DEF SellBooking, ServiceStep
<1>3. CASE ChargeBooking(p)
  BY <1>3 DEF ChargeBooking, ServiceStep
<1>4. CASE RevertPurchase(p)
  BY <1>4 DEF RevertPurchase, ServiceStep
<1>5. CASE ProcessFails(p)
  BY <1>5 DEF ProcessFails, ServiceStep
<1> QED BY <1>1, <1>2, <1>3, <1>4, <1>5 DEF ServiceSteps

\* A job takes its target only when nobody has it, or when it joins the sale of
\* a booking, and loses it only when it has not been reported completed.
LEMMA ServiceIInv ==
  ASSUME IInv, NEW p \in Partitions, ServiceSteps(p)
  PROVE  IInv'
<1>1. PICK s \in {"fail", "sell", "charge", "revert", "complete"} :
        ServiceStep(p, msg[p].job, s)
  BY ServiceStepsAre
<1> USE DEF ServiceStep
<1>2. PICK j \in Jobs :
        /\ msg[p].job = j /\ msg[p] \in Message /\ pos[p] > 0 /\ PartitionOf[j] = p
        /\ TargetOf[j] \in Targets /\ TypeOK /\ ClaimsOK
  BY <1>1, QueueAssumption DEF IInv, ReaderOK, Message
<1>3. /\ UNCHANGED <<request, jobStatus, depth, log, dlq, committed, owner,
                     pos, current, msg, ended, handled, abandoned>>
      /\ stage' = [stage EXCEPT ![p] = s]
  BY <1>1 DEF store, topics, group, Goto
<1>4. stage[p] \in {"sell", "charge", "revert"} =>
        IsPurchase(j) /\ jobStatus[j] # "completed"
  BY <1>2 DEF IInv, ReaderOK
<1>5. /\ target' \in [Targets -> {"open", "taken", "gone"}]
      /\ holders' \in [Targets -> SUBSET Jobs] /\ undone' \subseteq Jobs
      /\ ClaimsOK'
      /\ \A i \in Jobs \ {j} : Granted(i) => Granted(i)'
      /\ stage[p] # "revert" /\ Granted(j) => Granted(j)'
      /\ Claim(j) => Granted(j)'
  <2>1. CASE UNCHANGED claims
    <3>1. Claim(j) => Granted(j)'
      BY <1>2 DEF Claim, TypeOK, Granted
    <3> QED BY <1>2, <2>1, <3>1, ClaimsUnchanged DEF TypeOK
  <2>2. CASE /\ target[TargetOf[j]] = "open" /\ Undo(TargetOf[j], "taken", {})
    <3>1. Claim(j) => Granted(j)'
      BY <1>2 DEF Claim, TypeOK, Granted
    <3> QED BY <1>2, <2>2, <3>1, UndoKeepsGranted
  <2>3. CASE /\ Claim(j) /\ target[TargetOf[j]] # "gone"
             /\ target[TargetOf[j]] = "open" \/ stage[p] = "sell"
    <3>1. \/ target[TargetOf[j]] = "open"
          \/ target[TargetOf[j]] = "taken" /\ IsPurchase(j)
      BY <1>2, <1>4, <2>3 DEF TypeOK
    <3> QED BY <1>2, <2>3, <3>1, ClaimKeepsGranted
  <2>4. CASE stage[p] = "revert" /\ Undo(TargetOf[j], "gone", {j})
    <3>1. Claim(j) => Granted(j)'
      BY <1>2 DEF Claim, TypeOK, Granted
    <3> QED BY <1>2, <2>4, <3>1, UndoKeepsGranted
  <2> QED BY <1>1, <1>2, <2>1, <2>2, <2>3, <2>4
<1>6. TypeOK'
  <2>1. stage' \in [Partitions -> Stage]
    BY <1>2, <1>3 DEF TypeOK, Stage
  <2>2. faults' \in [FaultKinds -> Nat]
    BY <1>1, <1>2, FailureType
  <2> QED BY <1>2, <1>3, <1>5, <2>1, <2>2 DEF TypeOK
<1>7. s = "sell" => jobStatus[j] # "completed"
  <2> SUFFICES ASSUME s = "sell", Granted(j) PROVE FALSE
    BY <1>2 DEF IInv, CompletedGranted
  <2>1. IsPurchase(j) /\ target[TargetOf[j]] = "open"
    BY <1>1, <1>2
  <2> QED BY <1>2, <2>1 DEF Granted, ClaimsOK
<1>8. ReaderOK(p)'
  <2>1. stage'[p] = s /\ msg'[p] = msg[p] /\ pos'[p] = pos[p] /\ jobStatus' = jobStatus
    BY <1>2, <1>3 DEF TypeOK
  <2>2. s \in {"charge", "complete"} => Granted(j)'
    <3>1. stage[p] = "charge" => Granted(j)
      BY <1>2 DEF IInv, ReaderOK
    <3> QED BY <1>1, <1>2, <1>5, <3>1
  <2>3. s \in {"sell", "charge", "revert"} =>
          IsPurchase(j) /\ jobStatus[j] # "completed"
    BY <1>1, <1>2, <1>4, <1>7
  <2> QED BY <1>2, <2>1, <2>2, <2>3 DEF ReaderOK, IsPurchase
<1>9. \A q \in Partitions : ReaderOK(q)'
  <2>1. \A q \in Partitions : q # p =>
          stage'[q] = stage[q] /\ msg'[q] = msg[q] /\ pos'[q] = pos[q]
    BY <1>2, <1>3 DEF TypeOK
  <2>2. \A i \in Jobs : PartitionOf[i] # p =>
          (Granted(i) => Granted(i)') /\ jobStatus'[i] = jobStatus[i]
    BY <1>2, <1>3, <1>5
  <2> QED BY <1>8, <2>1, <2>2, OtherReaders
<1>10. CompletedGranted'
  <2> SUFFICES ASSUME NEW i \in Jobs, jobStatus[i] = "completed", Granted(i)
               PROVE  Granted(i)'
    BY <1>3 DEF IInv, CompletedGranted
  <2> QED BY <1>4, <1>5
<1>11. LogOK'
  BY <1>3 DEF IInv, LogOK
<1> QED BY <1>5, <1>6, <1>9, <1>10, <1>11 DEF IInv

\* Only a job that has got its target is reported completed.
LEMMA CompleteIInv ==
  ASSUME IInv, NEW p \in Partitions, CompleteJob(p)
  PROVE  IInv'
<1> USE DEF CompleteJob, SetJobStatus, Fault, Goto, topics, group
<1>1. msg[p].job \in Jobs /\ Granted(msg[p].job) /\ PartitionOf[msg[p].job] = p
  BY DEF IInv, ReaderOK, Message
<1>2. UNCHANGED claims
  OBVIOUS
<1>3. /\ UNCHANGED <<target, holders, undone>> /\ ClaimsOK'
      /\ \A i \in Jobs : Granted(i)' <=> Granted(i)
  BY <1>2, ClaimsUnchanged DEF IInv
<1>4. TypeOK'
  <2>1. stage' \in [Partitions -> Stage]
    BY DEF IInv, TypeOK, Stage
  <2>2. jobStatus' \in [Jobs -> {"none", "pending", "retrying", "completed",
                                 "dead_lettered"}]
    BY <1>1 DEF IInv, TypeOK
  <2>3. faults' \in [FaultKinds -> Nat]
    BY DEF IInv, TypeOK, FaultKinds
  <2> QED BY <1>3, <2>1, <2>2, <2>3 DEF IInv, TypeOK
<1>5. \A i \in Jobs \ {msg[p].job} : jobStatus'[i] = jobStatus[i]
  BY DEF IInv, TypeOK
<1>6. \A q \in Partitions : ReaderOK(q)'
  <2>1. ReaderOK(p)'
    BY DEF IInv, TypeOK, ReaderOK
  <2>2. \A q \in Partitions : q # p =>
          stage'[q] = stage[q] /\ msg'[q] = msg[q] /\ pos'[q] = pos[q]
    BY DEF IInv, TypeOK
  <2> QED BY <1>1, <1>3, <1>5, <2>1, <2>2, OtherReaders
<1>7. CompletedGranted' /\ LogOK'
  BY <1>1, <1>3, <1>5 DEF IInv, CompletedGranted, LogOK
<1> QED BY <1>3, <1>4, <1>6, <1>7 DEF IInv

\* Counting a job that is done writes no status.
LEMMA CountIInv ==
  ASSUME IInv, NEW p \in Partitions,
         Acknowledge(p) \/ Clamp(p) \/ CountRetry(p)
  PROVE  IInv'
<1> USE DEF Acknowledge, Clamp, CountRetry, Goto, topics, group
<1>1. /\ stage[p] \notin {"off", "fetch"} /\ msg[p] \in Message /\ pos[p] > 0
      /\ PartitionOf[msg[p].job] = p
  BY DEF IInv, ReaderOK
<1>2. Done(p, TRUE) \/ (Goto(p, "clamp") /\ UNCHANGED <<msg, handled, abandoned>>)
  OBVIOUS
<1>3. UNCHANGED claims /\ UNCHANGED <<jobStatus, log, pos>>
  OBVIOUS
<1>4. /\ UNCHANGED <<target, holders, undone>> /\ ClaimsOK'
      /\ \A i \in Jobs : Granted(i)' <=> Granted(i)
  BY <1>3, ClaimsUnchanged DEF IInv
<1>5. TypeOK'
  <2>1. /\ stage' \in [Partitions -> Stage]
        /\ msg' \in [Partitions -> Message \cup {NoMessage}]
        /\ handled' \in [Partitions -> SUBSET Nat]
        /\ abandoned' \in [Partitions -> SUBSET Nat]
    <3>1. CASE \E d \in BOOLEAN : Done(p, d)
      BY <1>1, <3>1, DoneType DEF IInv
    <3>2. CASE UNCHANGED <<msg, handled, abandoned>> /\ \E s \in Stage : Goto(p, s)
      BY <3>2 DEF IInv, TypeOK
    <3> QED BY <1>2, <3>1, <3>2 DEF Stage
  <2>2. depth' \in Int
    <3>1. depth' \in {depth, depth + 1, depth - 1, 0}
      OBVIOUS
    <3> QED BY <3>1 DEF IInv, TypeOK
  <2>3. current' \in [Partitions -> Int]
    <3>1. \/ UNCHANGED current
          \/ current' = [current EXCEPT ![p] = Offset(p)]
      OBVIOUS
    <3>2. Offset(p) \in Int
      BY DEF IInv, TypeOK, Offset
    <3> QED BY <3>1, <3>2 DEF IInv, TypeOK
  <2>4. faults' \in [FaultKinds -> Nat]
    <3>1. UNCHANGED faults \/ Fault("failure")
      OBVIOUS
    <3> QED BY <3>1, FailureType DEF IInv
  <2> QED BY <1>4, <2>1, <2>2, <2>3, <2>4 DEF IInv, TypeOK
<1>6. \A q \in Partitions : ReaderOK(q)'
  <2>1. ReaderOK(p)'
    BY <1>1, <1>2, <1>3 DEF IInv, TypeOK, ReaderOK, Done
  <2>2. \A q \in Partitions : q # p =>
          stage'[q] = stage[q] /\ msg'[q] = msg[q] /\ pos'[q] = pos[q]
    BY <1>2, <1>3 DEF IInv, TypeOK, Done
  <2> QED BY <1>3, <1>4, <2>1, <2>2, OtherReaders
<1>7. CompletedGranted' /\ LogOK'
  BY <1>3, <1>4 DEF IInv, CompletedGranted, LogOK
<1> QED BY <1>4, <1>5, <1>6, <1>7 DEF IInv

\* A failed job gets another status than completed, and is retried only as
\* long as it has attempts left.
LEMMA FailureIInv ==
  ASSUME IInv, NEW p \in Partitions,
         HandleJobFailure(p) \/ WriteRetry(p) \/ WriteDeadLetter(p)
  PROVE  IInv'
<1> USE DEF HandleJobFailure, WriteRetry, WriteDeadLetter, SetJobStatus, Goto,
            store, topics, group
<1>1. /\ stage[p] \notin {"off", "fetch"} /\ msg[p] \in Message /\ pos[p] > 0
      /\ PartitionOf[msg[p].job] = p
  BY DEF IInv, ReaderOK
<1>2. \/ \E d \in BOOLEAN : Done(p, d)
      \/ Goto(p, "requeued") /\ UNCHANGED <<msg, handled, abandoned>>
      \/ Goto(p, "retry") /\ msg[p].attempt < MaxRetries
         /\ UNCHANGED <<msg, handled, abandoned>>
      \/ Goto(p, "bury") /\ UNCHANGED <<msg, handled, abandoned>>
  OBVIOUS
<1>3. msg[p].job \in Jobs /\ msg[p].attempt \in 0..MaxRetries
  BY <1>1 DEF Message
<1>4. UNCHANGED claims /\ UNCHANGED pos
  OBVIOUS
<1>5. /\ UNCHANGED <<target, holders, undone>> /\ ClaimsOK'
      /\ \A i \in Jobs : Granted(i)' <=> Granted(i)
  BY <1>4, ClaimsUnchanged DEF IInv
<1>6. log' \in [Partitions -> Seq(Message)] /\ LogOK'
  <2>1. CASE WriteRetry(p) /\ Write(msg[p].job, msg[p].attempt + 1)
    <3>1. msg[p].attempt + 1 \in 0..MaxRetries
      BY <2>1, <1>3, QueueAssumption DEF IInv, ReaderOK
    <3> QED BY <2>1, <3>1, <1>3, WriteType DEF IInv, TypeOK
  <2>2. CASE UNCHANGED log
    BY <2>2 DEF IInv, TypeOK, LogOK
  <2> QED BY <2>1, <2>2
<1>7. TypeOK'
  <2>1. /\ stage' \in [Partitions -> Stage]
        /\ msg' \in [Partitions -> Message \cup {NoMessage}]
        /\ handled' \in [Partitions -> SUBSET Nat]
        /\ abandoned' \in [Partitions -> SUBSET Nat]
    <3>1. CASE \E d \in BOOLEAN : Done(p, d)
      BY <1>1, <3>1, DoneType DEF IInv
    <3>2. CASE UNCHANGED <<msg, handled, abandoned>> /\ \E s \in Stage : Goto(p, s)
      BY <3>2 DEF IInv, TypeOK
    <3> QED BY <1>2, <3>1, <3>2 DEF Stage
  <2>2. jobStatus' \in [Jobs -> {"none", "pending", "retrying", "completed",
                                 "dead_lettered"}]
    BY <1>3 DEF IInv, TypeOK
  <2>3. dlq' \subseteq Jobs
    BY <1>3 DEF IInv, TypeOK
  <2>4. faults' \in [FaultKinds -> Nat]
    <3>1. UNCHANGED faults \/ Fault("failure")
      OBVIOUS
    <3> QED BY <3>1, FailureType DEF IInv
  <2>5. UNCHANGED <<request, depth, committed, owner, pos, current, ended>>
    OBVIOUS
  <2> QED BY <1>5, <1>6, <2>1, <2>2, <2>3, <2>4, <2>5 DEF IInv, TypeOK
<1>8. \A i \in Jobs : /\ jobStatus'[i] = "completed" => jobStatus[i] = "completed"
                      /\ i # msg[p].job => jobStatus'[i] = jobStatus[i]
  BY <1>3 DEF IInv, TypeOK
<1>9. \A q \in Partitions : ReaderOK(q)'
  <2>1. ReaderOK(p)'
    BY <1>1, <1>2, <1>4 DEF IInv, TypeOK, ReaderOK, Done
  <2>2. \A q \in Partitions : q # p =>
          stage'[q] = stage[q] /\ msg'[q] = msg[q] /\ pos'[q] = pos[q]
    BY <1>2, <1>4 DEF IInv, TypeOK, Done
  <2> QED BY <1>1, <1>5, <1>8, <2>1, <2>2, OtherReaders
<1>10. CompletedGranted'
  BY <1>5, <1>8 DEF IInv, CompletedGranted
<1> QED BY <1>5, <1>6, <1>7, <1>9, <1>10 DEF IInv

\* The invariant holds throughout.
LEMMA IInvHolds == Spec => []IInv
<1>1. IInv /\ [Next]_vars => IInv'
  <2> SUFFICES ASSUME IInv, [Next]_vars PROVE IInv'
    OBVIOUS
  <2>1. CASE UNCHANGED vars
    <3>1. UNCHANGED <<request, jobStatus, depth, log, dlq, target, holders, undone,
                      committed, owner, stage, pos, current, msg, ended, handled,
                      abandoned, faults>>
      BY <2>1 DEF vars, store, topics, claims, group, reader
    <3>2. UNCHANGED claims
      BY <3>1 DEF claims
    <3>3. ClaimsOK' /\ \A i \in Jobs : Granted(i)' <=> Granted(i)
      BY <3>2, ClaimsUnchanged DEF IInv
    <3>4. (\A p \in Partitions : ReaderOK(p)') /\ CompletedGranted'
      BY <3>1, <3>3, ReadersKept
    <3>5. TypeOK' /\ LogOK'
      BY <3>1 DEF IInv, TypeOK, LogOK
    <3> QED BY <3>3, <3>4, <3>5 DEF IInv
  <2>2. ASSUME NEW j \in Jobs, EnqueueJob(j) \/ Enqueue(j) \/ EnqueueFails(j)
        PROVE  IInv'
    BY <2>2, RequestIInv
  <2>3. ASSUME NEW p \in Partitions, NEW m \in Members, Assign(m, p)
        PROVE  IInv'
    BY <2>3, AssignIInv
  <2>4. ASSUME NEW p \in Partitions, Read(p) \/ ProcessFails(p) PROVE IInv'
    BY <2>4, ReadMessageIInv, ServiceIInv, CompleteIInv, CountIInv, FailureIInv
       DEF Read, ServiceSteps
  <2>5. ASSUME NEW p \in Partitions, EndGeneration(p) \/ CommitOffsets(p)
        PROVE  IInv'
    BY <2>5, GenerationIInv
  <2>6. ASSUME NEW m \in Members, Crash(m) PROVE IInv'
    BY <2>6, CrashIInv
  <2>7. ASSUME NEW r \in Targets, TargetChanges(r) PROVE IInv'
    BY <2>7, TargetIInv
  <2> QED BY <2>1, <2>2, <2>3, <2>4, <2>5, <2>6, <2>7 DEF Next
<1> QED BY InitIInv, <1>1, PTL DEF Spec

\* Every variable keeps its type: no command has more attempts than allowed.
THEOREM QueueTypeCorrect == Spec => []TypeOK
<1>1. IInv => TypeOK
  BY DEF IInv
<1> QED BY IInvHolds, <1>1, PTL

\* A job reported as completed has its target, whatever is redelivered, retried
\* or lost and whoever else sells the same booking, until somebody else undoes
\* that: no two jobs that hold one seat are both reported completed.
THEOREM CompletedJobsHoldTargets == Spec => []CompletedHoldsTarget
<1>1. IInv => CompletedHoldsTarget
  <2> SUFFICES ASSUME IInv, NEW j \in Jobs, jobStatus[j] = "completed", j \notin undone
               PROVE  /\ target[TargetOf[j]] = "taken" /\ j \in holders[TargetOf[j]]
                      /\ IsPurchase(j) \/ holders[TargetOf[j]] = {j}
    BY DEF CompletedHoldsTarget
  <2>1. TargetOf[j] \in Targets /\ j \in holders[TargetOf[j]] /\ ClaimsOK
    BY QueueAssumption DEF IInv, CompletedGranted, Granted
  <2> QED BY <2>1 DEF ClaimsOK, IsPurchase
<1> QED BY IInvHolds, <1>1, PTL

------------------------------------------------------------------------------
(* Skipped commands.                                                       *)

\* The offset at which the reader of p has started its generation.
Start(p) == IF committed[p] < 0 THEN 0 ELSE committed[p]

\* A reader has dealt with all it has read since its start or has given it up,
\* but for the message it handles, and will commit what it has read, or, when
\* it has read nothing, one offset more.
ProgressOK(p) ==
  /\ committed[p] >= NoOffset
  /\ stage[p] # "off" =>
       /\ Start(p) <= pos[p]
       /\ stage[p] # "fetch" => Start(p) < pos[p]
       /\ \A k \in Start(p) .. pos[p] - 1 :
            \/ k \in handled[p] \cup abandoned[p]
            \/ stage[p] # "fetch" /\ k = Offset(p)
       /\ \/ current[p] = IF committed[p] < 0 THEN FirstOffset ELSE committed[p]
          \/ current[p] \in Start(p) .. pos[p] - 1

\* The commands of p that are lost and that nobody has given up.
Lost(p) == Skipped(p) \ abandoned[p]

\* The end of a generation is counted before it costs a command.
LossesOK(p) ==
  Cardinality(Lost(p)) + (IF ended[p] THEN 1 ELSE 0) <= faults["rebalance"]

SkipsOK == \A p \in Partitions : ProgressOK(p) /\ LossesOK(p)

\* The lost commands can be counted.
LEMMA LostIsFinite ==
  ASSUME TypeOK, NEW p \in Partitions
  PROVE  IsFiniteSet(Lost(p)) /\ Cardinality(Lost(p)) \in Nat
<1>1. committed[p] \in Int
  BY DEF TypeOK
<1>2. IsFiniteSet(0 .. committed[p] - 1)
  BY <1>1, FS_Interval
<1>3. IsFiniteSet(Lost(p))
  BY <1>2, FS_Subset DEF Lost, Skipped
<1> QED BY <1>3, FS_CardinalityType

\* Losses do not grow when no more is lost and no generation ends.
LEMMA NoMoreLosses ==
  ASSUME TypeOK, TypeOK', NEW p \in Partitions, LossesOK(p), Lost(p)' \subseteq Lost(p),
         ended'[p] => ended[p], faults'["rebalance"] >= faults["rebalance"]
  PROVE  LossesOK(p)'
<1>1. Cardinality(Lost(p)') <= Cardinality(Lost(p))
  BY LostIsFinite, FS_Subset
<1>2. Cardinality(Lost(p)') \in Nat /\ Cardinality(Lost(p)) \in Nat
  BY LostIsFinite, FS_Subset, FS_CardinalityType
<1>3. faults["rebalance"] \in Nat /\ faults'["rebalance"] \in Nat
  BY DEF TypeOK, FaultKinds
<1>4. Cardinality(Lost(p))' = Cardinality(Lost(p)')
  OBVIOUS
<1> QED BY <1>1, <1>2, <1>3, <1>4 DEF LossesOK

\* Nothing is read or committed at first.
LEMMA InitSkipsOK == Init => SkipsOK
<1> SUFFICES ASSUME Init, NEW p \in Partitions PROVE ProgressOK(p) /\ LossesOK(p)
  BY DEF SkipsOK
<1>1. committed[p] = -1 /\ stage[p] = "off" /\ ended[p] = FALSE
  BY DEF Init, NoOffset
<1>2. Lost(p) = {}
  BY <1>1 DEF Lost, Skipped
<1>3. Cardinality(Lost(p)) = 0
  BY <1>2, FS_EmptySet
<1>4. faults["rebalance"] = 0
  BY DEF Init, FaultKinds
<1> QED BY <1>1, <1>3, <1>4 DEF ProgressOK, LossesOK, NoOffset

\* A step that leaves partition p alone.
LEMMA SkipsElsewhere ==
  ASSUME TypeOK, TypeOK', NEW p \in Partitions, ProgressOK(p), LossesOK(p),
         committed'[p] = committed[p], stage'[p] = stage[p], pos'[p] = pos[p],
         current'[p] = current[p], ended'[p] = ended[p], handled'[p] = handled[p],
         abandoned'[p] = abandoned[p], faults'["rebalance"] >= faults["rebalance"]
  PROVE  ProgressOK(p)' /\ LossesOK(p)'
<1>1. ProgressOK(p)'
  BY DEF ProgressOK, Start, Offset
<1>2. Lost(p)' = Lost(p)
  BY DEF Lost, Skipped
<1> QED BY <1>1, <1>2, NoMoreLosses

\* What a step of the reader of p between two messages may do.
ReaderSteps(p) ==
  /\ UNCHANGED <<committed, pos, ended>>
  /\ stage[p] \notin {"off", "fetch"} /\ stage'[p] # "off"
  /\ \A q \in Partitions \ {p} :
       /\ stage'[q] = stage[q] /\ current'[q] = current[q]
       /\ handled'[q] = handled[q] /\ abandoned'[q] = abandoned[q]
  /\ current'[p] \in {current[p], Offset(p)}
  /\ handled[p] \subseteq handled'[p]
  /\ handled[p] \cup abandoned[p] \subseteq handled'[p] \cup abandoned'[p]
  /\ stage'[p] = "fetch" => Offset(p) \in handled'[p] \cup abandoned'[p]
  /\ faults'["rebalance"] = faults["rebalance"]

\* The reader keeps account of what it has dealt with and what it gives up.
LEMMA ReaderKeepsSkipsOK ==
  ASSUME IInv, IInv', SkipsOK, NEW p \in Partitions, ReaderSteps(p)
  PROVE  SkipsOK'
<1>1. TypeOK /\ TypeOK'
  BY DEF IInv
<1>2. faults["rebalance"] \in Nat /\ faults'["rebalance"] >= faults["rebalance"]
  BY <1>1 DEF TypeOK, ReaderSteps, FaultKinds
<1>3. ASSUME NEW q \in Partitions, q # p PROVE ProgressOK(q)' /\ LossesOK(q)'
  BY <1>1, <1>2, <1>3, SkipsElsewhere DEF ReaderSteps, SkipsOK
<1>4. ProgressOK(p)'
  <2>1. /\ committed[p] \in Int /\ pos[p] \in Nat /\ current[p] \in Int
        /\ pos[p] > 0
    BY <1>1 DEF TypeOK, IInv, ReaderOK, ReaderSteps
  <2>2. ProgressOK(p)
    BY DEF SkipsOK
  <2>3. ASSUME NEW k \in Start(p) .. pos[p] - 1
        PROVE  \/ k \in handled'[p] \cup abandoned'[p]
               \/ stage'[p] # "fetch" /\ k = Offset(p)
    BY <2>2, <2>3 DEF ProgressOK, ReaderSteps
  <2>4. current'[p] = current[p] \/ current'[p] \in Start(p) .. pos[p] - 1
    <3>1. Offset(p) \in Start(p) .. pos[p] - 1
      BY <2>1, <2>2 DEF ProgressOK, ReaderSteps, Offset, Start
    <3> QED BY <3>1 DEF ReaderSteps
  <2> QED BY <2>1, <2>2, <2>3, <2>4 DEF ProgressOK, ReaderSteps, Start, Offset
<1>5. LossesOK(p)'
  <2>1. Lost(p)' \subseteq Lost(p)
    BY DEF Lost, Skipped, ReaderSteps
  <2> QED BY <1>1, <1>2, <2>1, NoMoreLosses DEF SkipsOK, ReaderSteps
<1> QED BY <1>3, <1>4, <1>5 DEF SkipsOK

\* The steps of a reader between two messages are such steps.
LEMMA HandlingSteps ==
  ASSUME IInv, NEW p \in Partitions,
         \/ ServiceSteps(p) \/ CompleteJob(p) \/ Acknowledge(p) \/ Clamp(p)
         \/ HandleJobFailure(p) \/ WriteRetry(p) \/ CountRetry(p)
         \/ WriteDeadLetter(p)
  PROVE  ReaderSteps(p)
<1>1. TypeOK
  BY DEF IInv
<1> USE DEF ServiceSteps, ProcessJob, SellBooking, ChargeBooking, RevertPurchase,
            ProcessFails, CompleteJob, Acknowledge, Clamp, HandleJobFailure,
            WriteRetry, CountRetry, WriteDeadLetter
<1>2. \/ UNCHANGED faults
      \/ Fault("failure")
  OBVIOUS
<1>3. faults'["rebalance"] = faults["rebalance"]
  BY <1>1, <1>2 DEF Fault, TypeOK, FaultKinds
<1>4. \/ \E d \in BOOLEAN : Done(p, d)
      \/ \E s \in Stage \ {"off", "fetch"} :
           Goto(p, s) /\ UNCHANGED <<handled, abandoned>>
  BY DEF Outcome, Stage
<1>5. /\ UNCHANGED <<committed, pos, ended>>
      /\ stage[p] \notin {"off", "fetch"}
      /\ UNCHANGED current \/ current' = [current EXCEPT ![p] = Offset(p)]
  BY DEF group
<1>6. CASE \E d \in BOOLEAN : Done(p, d)
  BY <1>1, <1>3, <1>5, <1>6 DEF ReaderSteps, Done, Goto, TypeOK
<1>7. CASE \E s \in Stage \ {"off", "fetch"} :
             Goto(p, s) /\ UNCHANGED <<handled, abandoned>>
  BY <1>1, <1>3, <1>5, <1>7 DEF ReaderSteps, Goto, TypeOK
<1> QED BY <1>4, <1>6, <1>7

\* A reader goes on to its next message when it is done with the one before.
LEMMA ReadMessageSkipsOK ==
  ASSUME IInv, IInv', SkipsOK, NEW p \in Partitions, ReadMessage(p)
  PROVE  SkipsOK'
<1>1. TypeOK /\ TypeOK' /\ faults'["rebalance"] >= faults["rebalance"]
  BY SMTT(30) DEF IInv, ReadMessage, TypeOK, FaultKinds
<1>2. ASSUME NEW q \in Partitions, q # p PROVE ProgressOK(q)' /\ LossesOK(q)'
  <2>1. /\ UNCHANGED <<committed, current, ended, handled, abandoned>>
        /\ stage'[q] = stage[q] /\ pos'[q] = pos[q]
    BY <1>1, <1>2 DEF ReadMessage, Goto, group, TypeOK
  <2> QED BY <1>1, <2>1, SkipsElsewhere DEF SkipsOK
<1>3. ProgressOK(p)'
  <2>1. /\ committed[p] \in Int /\ pos[p] \in Nat /\ current[p] \in Int
        /\ stage[p] = "fetch" /\ stage'[p] = "process" /\ pos'[p] = pos[p] + 1
        /\ UNCHANGED <<committed, current, handled, abandoned>>
    BY <1>1 DEF ReadMessage, Goto, group, TypeOK
  <2>2. ProgressOK(p)
    BY DEF SkipsOK
  <2>3. ASSUME NEW k \in Start(p) .. pos'[p] - 1, k # pos[p]
        PROVE  k \in handled[p] \cup abandoned[p]
    BY <2>1, <2>2, <2>3 DEF ProgressOK, Start
  <2> QED BY <2>1, <2>2, <2>3 DEF ProgressOK, Start, Offset
<1>4. LossesOK(p)'
  <2>1. Lost(p)' = Lost(p) /\ ended' = ended
    BY DEF Lost, Skipped, ReadMessage, group
  <2> QED BY <1>1, <2>1, NoMoreLosses DEF SkipsOK
<1> QED BY <1>2, <1>3, <1>4 DEF SkipsOK

\* A reader starts at the offset that is committed.
LEMMA AssignSkipsOK ==
  ASSUME IInv, IInv', SkipsOK, NEW m \in Members, NEW p \in Partitions, Assign(m, p)
  PROVE  SkipsOK'
<1>1. TypeOK /\ TypeOK' /\ faults'["rebalance"] >= faults["rebalance"]
  <2>1. UNCHANGED faults /\ TypeOK /\ TypeOK'
    BY DEF IInv, Assign
  <2>2. faults["rebalance"] \in Nat
    BY <2>1 DEF TypeOK, FaultKinds
  <2> QED BY <2>1, <2>2
<1>2. ASSUME NEW q \in Partitions PROVE ProgressOK(q)' /\ LossesOK(q)'
  <2>1. UNCHANGED <<committed, ended, handled, abandoned>>
    BY DEF Assign
  <2>2. LossesOK(q)'
    <3>1. Lost(q)' = Lost(q)
      BY <2>1 DEF Lost, Skipped
    <3> QED BY <1>1, <2>1, <3>1, NoMoreLosses DEF SkipsOK
  <2>3. CASE q # p \/ m \notin Readers
    <3>1. stage'[q] = stage[q] /\ pos'[q] = pos[q] /\ current'[q] = current[q]
      BY <1>1, <2>3, SMTT(30) DEF Assign, TypeOK
    <3> QED BY <1>1, <2>1, <3>1, SkipsElsewhere DEF SkipsOK
  <2>4. CASE q = p /\ m \in Readers
    <3>1. /\ stage'[p] = "fetch" /\ pos'[p] = Start(p)
          /\ current'[p] = IF committed[p] < 0 THEN FirstOffset ELSE committed[p]
      BY <1>1, <2>4 DEF Assign, TypeOK, Start
    <3>2. committed[p] \in Int /\ committed[p] >= NoOffset
      BY <1>1 DEF TypeOK, SkipsOK, ProgressOK
    <3>3. ProgressOK(p)'
      BY <2>1, <3>1, <3>2 DEF ProgressOK, Start
    <3> QED BY <2>2, <2>4, <3>3
  <2> QED BY <2>3, <2>4
<1> QED BY <1>2 DEF SkipsOK

\* The end of a generation may cost its partition one command, ...
LEMMA EndGenerationSkipsOK ==
  ASSUME IInv, IInv', SkipsOK, NEW p \in Partitions, EndGeneration(p)
  PROVE  SkipsOK'
<1>1. TypeOK /\ TypeOK'
  BY DEF IInv
<1>2. /\ faults["rebalance"] \in Nat /\ faults'["rebalance"] = faults["rebalance"] + 1
      /\ UNCHANGED <<committed, stage, pos, current, handled, abandoned>>
      /\ ended' = [ended EXCEPT ![p] = TRUE]
  BY <1>1 DEF EndGeneration, Fault, TypeOK, FaultKinds, group
<1>3. ASSUME NEW q \in Partitions PROVE ProgressOK(q)' /\ LossesOK(q)'
  <2>1. CASE q # p
    <3>1. /\ ended'[q] = ended[q] /\ stage'[q] = stage[q] /\ pos'[q] = pos[q]
          /\ current'[q] = current[q] /\ handled'[q] = handled[q]
          /\ abandoned'[q] = abandoned[q] /\ committed'[q] = committed[q]
      BY <1>1, <1>2, <2>1 DEF TypeOK
    <3>2. ProgressOK(q) /\ LossesOK(q) /\ faults'["rebalance"] >= faults["rebalance"]
      BY <1>2 DEF SkipsOK
    <3> QED BY <1>1, <3>1, <3>2, SkipsElsewhere
  <2>2. CASE q = p
    <3>1. ProgressOK(p)'
      BY <1>2 DEF SkipsOK, ProgressOK, Start, Offset
    <3>2. Lost(p)' = Lost(p)
      BY <1>2 DEF Lost, Skipped
    <3>3. ~ended[p]
      BY DEF EndGeneration
    <3>4. Cardinality(Lost(p)) <= faults["rebalance"] /\ Cardinality(Lost(p)) \in Nat
      BY <1>1, <1>2, <3>3, LostIsFinite DEF SkipsOK, LossesOK
    <3>5. LossesOK(p)'
      BY <1>2, <3>2, <3>4 DEF LossesOK
    <3> QED BY <2>2, <3>1, <3>5
  <2> QED BY <2>1, <2>2
<1> QED BY <1>3 DEF SkipsOK

\* ... namely the one at which a reader has started that has read nothing.
LEMMA CommitSkipsOK ==
  ASSUME IInv, IInv', SkipsOK, NEW p \in Partitions, CommitOffsets(p)
  PROVE  SkipsOK'
<1>1. TypeOK /\ TypeOK'
  BY DEF IInv
<1>2. /\ UNCHANGED <<handled, faults>>
      /\ ended[p] /\ stage[p] \in {"off", "fetch"}
      /\ stage'[p] = "off" /\ ended'[p] = FALSE
      /\ abandoned'[p] = {k \in abandoned[p] : k < committed'[p]}
      /\ \/ stage[p] = "fetch" /\ committed'[p] = current[p] + 1
         \/ committed'[p] = committed[p]
  BY <1>1 DEF CommitOffsets, Leave, NextOffset, TypeOK
<1>3. faults["rebalance"] \in Nat
  BY <1>1 DEF TypeOK, FaultKinds
<1>4. ASSUME NEW q \in Partitions, q # p PROVE ProgressOK(q)' /\ LossesOK(q)'
  <2>1. /\ stage'[q] = stage[q] /\ pos'[q] = pos[q] /\ current'[q] = current[q]
        /\ ended'[q] = ended[q] /\ handled'[q] = handled[q]
        /\ abandoned'[q] = abandoned[q] /\ committed'[q] = committed[q]
    BY <1>1, <1>4 DEF CommitOffsets, Leave, TypeOK
  <2>2. ProgressOK(q) /\ LossesOK(q) /\ faults'["rebalance"] >= faults["rebalance"]
    BY <1>2, <1>3 DEF SkipsOK
  <2> QED BY <1>1, <2>1, <2>2, SkipsElsewhere
<1>5. /\ ProgressOK(p) /\ committed[p] \in Int /\ current[p] \in Int /\ pos[p] \in Nat
  BY <1>1 DEF SkipsOK, TypeOK
<1>6. ProgressOK(p)'
  BY <1>2, <1>5 DEF ProgressOK, Start, NoOffset, FirstOffset
<1>7. Lost(p)' \subseteq Lost(p) \cup {committed[p]}
  <2>1. ASSUME NEW k \in Lost(p)', k \notin Lost(p), k # committed[p] PROVE FALSE
    <3>1. /\ k \in 0 .. committed'[p] - 1
          /\ k \notin handled[p] /\ k \notin abandoned[p]
      BY <1>1, <1>2, <2>1 DEF Lost, Skipped, TypeOK
    <3>2. committed[p] <= k /\ k \in Int
      BY <1>5, <2>1, <3>1 DEF Lost, Skipped
    <3>3. stage[p] = "fetch" /\ committed'[p] = current[p] + 1 /\ k <= current[p]
      BY <1>2, <1>5, <3>1, <3>2
    <3>4. current[p] \in Start(p) .. pos[p] - 1
      BY <1>5, <2>1, <3>1, <3>2, <3>3 DEF ProgressOK, FirstOffset
    <3>5. k \in Start(p) .. pos[p] - 1
      BY <1>5, <3>1, <3>2, <3>3, <3>4 DEF Start
    <3> QED BY <1>5, <3>1, <3>3, <3>5 DEF ProgressOK
  <2> QED BY <2>1
<1>8. LossesOK(p)'
  <2>1. /\ IsFiniteSet(Lost(p)) /\ Cardinality(Lost(p)) \in Nat
        /\ Cardinality(Lost(p)) + 1 <= faults["rebalance"]
    BY <1>1, <1>2, <1>3, LostIsFinite DEF SkipsOK, LossesOK
  <2>2. /\ IsFiniteSet(Lost(p) \cup {committed[p]})
        /\ Cardinality(Lost(p) \cup {committed[p]}) <= Cardinality(Lost(p)) + 1
        /\ Cardinality(Lost(p) \cup {committed[p]}) \in Nat
    <3>1. /\ IsFiniteSet(Lost(p) \cup {committed[p]})
          /\ \/ Cardinality(Lost(p) \cup {committed[p]}) = Cardinality(Lost(p))
             \/ Cardinality(Lost(p) \cup {committed[p]}) = Cardinality(Lost(p)) + 1
      BY <2>1, FS_AddElement
    <3> QED BY <2>1, <3>1
  <2>3. Cardinality(Lost(p)') <= Cardinality(Lost(p) \cup {committed[p]})
    BY <1>7, <2>2, FS_Subset
  <2>4. Cardinality(Lost(p)') \in Nat
    BY <1>7, <2>2, FS_Subset, FS_CardinalityType
  <2>5. Cardinality(Lost(p))' = Cardinality(Lost(p)')
    OBVIOUS
  <2> QED BY <1>2, <1>3, <2>1, <2>2, <2>3, <2>4, <2>5 DEF LossesOK
<1> QED BY <1>4, <1>6, <1>8 DEF SkipsOK

\* A member that dies commits nothing.
LEMMA CrashSkipsOK ==
  ASSUME IInv, IInv', SkipsOK, NEW m \in Members, Crash(m)
  PROVE  SkipsOK'
<1>1. TypeOK /\ TypeOK' /\ faults'["rebalance"] = faults["rebalance"]
      /\ faults["rebalance"] \in Nat
  BY DEF IInv, Crash, Fault, TypeOK, FaultKinds
<1>2. ASSUME NEW q \in Partitions PROVE ProgressOK(q)' /\ LossesOK(q)'
  <2>1. UNCHANGED <<committed, handled>>
    BY DEF Crash
  <2>2. CASE owner[q] # m
    <3>1. /\ stage'[q] = stage[q] /\ pos'[q] = pos[q] /\ current'[q] = current[q]
          /\ ended'[q] = ended[q]
      BY <2>2 DEF Crash
    <3>2. abandoned'[q] = abandoned[q]
      BY <2>2, <1>1 DEF Crash, TypeOK
    <3> QED BY <1>1, <2>1, <3>1, <3>2, SkipsElsewhere DEF SkipsOK
  <2>3. CASE owner[q] = m
    <3>1. /\ stage'[q] = "off" /\ ended'[q] = FALSE
          /\ abandoned'[q] = {k \in abandoned[q] : k < committed[q]}
      BY <2>3 DEF Crash
    <3>2. ProgressOK(q)'
      BY <2>1, <3>1 DEF SkipsOK, ProgressOK
    <3>3. Lost(q)' \subseteq Lost(q)
      <4>1. committed[q] \in Int
        BY <1>1 DEF TypeOK
      <4> QED BY <2>1, <3>1, <4>1 DEF Lost, Skipped
    <3>4. LossesOK(q)'
      BY <1>1, <3>1, <3>3, NoMoreLosses DEF SkipsOK
    <3> QED BY <3>2, <3>4
  <2> QED BY <2>2, <2>3
<1> QED BY <1>2 DEF SkipsOK

\* Requests and others neither read nor commit.
LEMMA RequestSkipsOK ==
  ASSUME IInv, IInv', SkipsOK,
         UNCHANGED <<committed, stage, pos, current, ended, handled, abandoned>>,
         faults'["rebalance"] = faults["rebalance"]
  PROVE  SkipsOK'
<1>1. TypeOK /\ TypeOK' /\ faults["rebalance"] \in Nat
  BY DEF IInv, TypeOK, FaultKinds
<1> QED BY <1>1, SkipsElsewhere DEF SkipsOK

\* However generations end, members die and calls fail: but for one command
\* for each generation that ends, what CommitOffsets commits has been handled,
\* or its handler has given it up.
THEOREM CommandsSkippedByFaults == Spec => []SkipsBounded
<1>1. IInv /\ IInv' /\ SkipsOK /\ [Next]_vars => SkipsOK'
  <2> SUFFICES ASSUME IInv, IInv', SkipsOK, [Next]_vars PROVE SkipsOK'
    OBVIOUS
  <2>1. CASE UNCHANGED vars
    BY <2>1, RequestSkipsOK DEF vars, group, reader
  <2>2. ASSUME NEW j \in Jobs, EnqueueJob(j) \/ Enqueue(j) \/ EnqueueFails(j)
        PROVE  SkipsOK'
    <3>1. UNCHANGED <<group, reader>>
      BY <2>2 DEF EnqueueJob, Enqueue, WriteCommand, CountCommand, EnqueueFails
    <3>2. UNCHANGED faults \/ Fault("failure")
      BY <2>2 DEF EnqueueJob, Enqueue, WriteCommand, CountCommand, EnqueueFails
    <3>3. faults'["rebalance"] = faults["rebalance"]
      BY <3>2 DEF Fault, IInv, TypeOK, FaultKinds
    <3> QED BY <3>1, <3>3, RequestSkipsOK DEF group, reader
  <2>3. ASSUME NEW p \in Partitions, NEW m \in Members, Assign(m, p)
        PROVE  SkipsOK'
    BY <2>3, AssignSkipsOK
  <2>4. ASSUME NEW p \in Partitions, Read(p) \/ ProcessFails(p) PROVE SkipsOK'
    BY <2>4, ReadMessageSkipsOK, HandlingSteps, ReaderKeepsSkipsOK
       DEF Read, ServiceSteps
  <2>5. ASSUME NEW p \in Partitions, EndGeneration(p) PROVE SkipsOK'
    BY <2>5, EndGenerationSkipsOK
  <2>6. ASSUME NEW p \in Partitions, CommitOffsets(p) PROVE SkipsOK'
    BY <2>6, CommitSkipsOK
  <2>7. ASSUME NEW m \in Members, Crash(m) PROVE SkipsOK'
    BY <2>7, CrashSkipsOK
  <2>8. ASSUME NEW r \in Targets, TargetChanges(r) PROVE SkipsOK'
    <3>1. UNCHANGED <<group, reader, faults>>
      BY <2>8 DEF TargetChanges
    <3> QED BY <3>1, RequestSkipsOK DEF group, reader
  <2> QED BY <2>1, <2>2, <2>3, <2>4, <2>5, <2>6, <2>7, <2>8 DEF Next
<1>2. IInv /\ SkipsOK => SkipsBounded
  <2> SUFFICES ASSUME IInv, SkipsOK, NEW p \in Partitions
               PROVE  Cardinality(Lost(p)) <= faults["rebalance"]
    BY DEF SkipsBounded, Lost
  <2>1. Cardinality(Lost(p)) \in Nat /\ faults["rebalance"] \in Nat
    BY LostIsFinite DEF IInv, TypeOK, FaultKinds
  <2> QED BY <2>1 DEF SkipsOK, LossesOK
<1> QED BY IInvHolds, InitSkipsOK, <1>1, <1>2, PTL DEF Spec

------------------------------------------------------------------------------
(* The depth counter.                                                      *)

\* The readers that are about to clamp the counter.
Clamping == {p \in Partitions : stage[p] = "clamp"}

\* A partition without an owner has no reader.
OwnersOK == \A p \in Partitions : owner[p] = NoMember => stage[p] = "off"

DepthInv == OwnersOK /\ DepthClamped

\* The readers of some partitions can be counted, and a member that dies takes
\* at most all of them with it.
LEMMA PartitionsAreFinite ==
  ASSUME NEW S \in SUBSET Partitions
  PROVE  /\ IsFiniteSet(S) /\ Cardinality(S) \in Nat
         /\ Cardinality(Partitions) \in Nat
         /\ Cardinality(S) <= Cardinality(Partitions)
<1> QED BY QueueAssumption, FS_Subset, FS_CardinalityType

\* What the counter may lack is a natural number.
LEMMA AllowanceType ==
  ASSUME TypeOK
  PROVE  /\ faults["failure"] \in Nat /\ faults["crash"] \in Nat
         /\ Cardinality(Partitions) * faults["crash"] \in Nat
<1>1. faults["failure"] \in Nat /\ faults["crash"] \in Nat
  BY DEF TypeOK, FaultKinds
<1>2. Cardinality(Partitions) \in Nat
  BY PartitionsAreFinite
<1>3. \A m, n \in Nat : m * n \in Nat
  OBVIOUS
<1>4. Cardinality(Partitions) * faults["crash"] \in Nat
  BY <1>1, <1>2, <1>3
<1> QED BY <1>1, <1>4

\* The counter does not fall and no clamp is forgotten, or the counter is not
\* negative, or a clamp that is forgotten is counted as a failure.
LEMMA DepthKept ==
  ASSUME TypeOK, TypeOK', DepthClamped, faults'["crash"] = faults["crash"],
         \/ depth' >= 0
         \/ depth' >= depth /\ faults'["failure"] >= faults["failure"]
              /\ Clamping' = Clamping
         \/ /\ depth' >= depth - 1 /\ faults'["failure"] >= faults["failure"]
            /\ \E p \in Partitions : p \notin Clamping /\ Clamping' = Clamping \cup {p}
         \/ /\ depth' >= depth /\ faults'["failure"] = faults["failure"] + 1
            /\ \E p \in Clamping : Clamping' = Clamping \ {p}
  PROVE  DepthClamped'
<1> DEFINE c == Cardinality(Clamping)
           d == Cardinality(Clamping')
           a == Cardinality(Partitions) * faults["crash"]
<1>1. /\ depth \in Int /\ depth' \in Int
      /\ faults["failure"] \in Nat /\ faults'["failure"] \in Nat
      /\ Cardinality(Partitions) * faults'["crash"] = a
  BY DEF TypeOK, FaultKinds
<1>2. a \in Nat
  BY AllowanceType
<1>3. c \in Nat /\ d \in Nat /\ IsFiniteSet(Clamping)
  BY PartitionsAreFinite DEF Clamping
<1>4. depth + c + faults["failure"] + a >= 0
  BY DEF DepthClamped, Clamping
<1>5. \/ depth' >= 0
      \/ depth' >= depth /\ faults'["failure"] >= faults["failure"] /\ d = c
      \/ depth' >= depth - 1 /\ faults'["failure"] >= faults["failure"] /\ d = c + 1
      \/ depth' >= depth /\ faults'["failure"] = faults["failure"] + 1 /\ d = c - 1
  <2>1. ASSUME NEW p, p \notin Clamping PROVE Cardinality(Clamping \cup {p}) = c + 1
    BY <1>3, <2>1, FS_AddElement
  <2>2. ASSUME NEW p \in Clamping PROVE Cardinality(Clamping \ {p}) = c - 1
    BY <1>3, <2>2, FS_RemoveElement
  <2> QED BY <2>1, <2>2
<1>6. depth' + d + faults'["failure"] + a >= 0
  <2> HIDE DEF c, d, a
  <2> QED BY <1>1, <1>2, <1>3, <1>4, <1>5
<1> QED BY <1>1, <1>6 DEF DepthClamped, Clamping

\* A request counts its command, or the call fails.
LEMMA RequestDepth ==
  ASSUME IInv, IInv', DepthInv, NEW j \in Jobs,
         EnqueueJob(j) \/ Enqueue(j) \/ EnqueueFails(j)
  PROVE  DepthInv'
<1>1. TypeOK /\ TypeOK'
  BY DEF IInv
<1>2. /\ UNCHANGED <<stage, owner>> /\ depth' \in {depth, depth + 1}
      /\ UNCHANGED faults \/ Fault("failure")
  BY DEF EnqueueJob, Enqueue, WriteCommand, CountCommand, EnqueueFails, store,
         group, reader
<1>3. /\ faults'["failure"] >= faults["failure"] /\ faults'["crash"] = faults["crash"]
      /\ depth' >= depth
  BY <1>1, <1>2 DEF Fault, TypeOK, FaultKinds
<1>4. Clamping' = Clamping
  BY <1>2 DEF Clamping
<1> QED BY <1>1, <1>2, <1>3, <1>4, DepthKept DEF DepthInv, OwnersOK

\* Only a partition without a reader is assigned.
LEMMA GroupDepth ==
  ASSUME IInv, IInv', DepthInv, NEW p \in Partitions,
         \/ \E m \in Members : Assign(m, p)
         \/ EndGeneration(p) \/ CommitOffsets(p)
  PROVE  DepthInv'
<1>1. TypeOK /\ TypeOK'
  BY DEF IInv
<1>2. /\ UNCHANGED depth
      /\ UNCHANGED faults \/ Fault("rebalance")
      /\ UNCHANGED stage
         \/ \E s \in {"off", "fetch"} : stage' = [stage EXCEPT ![p] = s]
      /\ stage' = stage \/ stage[p] \in {"off", "fetch"}
      /\ \/ UNCHANGED owner /\ UNCHANGED stage
         \/ stage'[p] = "off" /\ owner' = [owner EXCEPT ![p] = NoMember]
         \/ \E m \in Members : owner' = [owner EXCEPT ![p] = m]
  BY <1>1 DEF Assign, EndGeneration, CommitOffsets, Leave, store, group, DepthInv,
     OwnersOK, TypeOK
<1>3. /\ faults'["failure"] = faults["failure"] /\ faults'["crash"] = faults["crash"]
      /\ faults["failure"] \in Nat /\ depth \in Int
  BY <1>1, <1>2 DEF Fault, TypeOK, FaultKinds
<1>4. Clamping' = Clamping
  BY <1>1, <1>2 DEF Clamping, TypeOK
<1>5. DepthClamped'
  <2>1. depth' >= depth /\ faults'["failure"] >= faults["failure"]
    BY <1>2, <1>3
  <2> QED BY <1>1, <1>3, <1>4, <2>1, DepthKept DEF DepthInv
<1>6. OwnersOK'
  <2> SUFFICES ASSUME NEW q \in Partitions, owner'[q] = NoMember
               PROVE  stage'[q] = "off"
    BY DEF OwnersOK
  <2>1. CASE q = p
    BY <1>1, <1>2, <2>1, QueueAssumption DEF DepthInv, OwnersOK, TypeOK
  <2>2. CASE q # p
    <3>1. owner'[q] = owner[q] /\ stage'[q] = stage[q]
      BY <1>1, <1>2, <2>2 DEF TypeOK
    <3> QED BY <3>1 DEF DepthInv, OwnersOK
  <2> QED BY <2>1, <2>2
<1> QED BY <1>5, <1>6 DEF DepthInv

\* A member that dies may leave the counter to nobody.
LEMMA CrashDepth ==
  ASSUME IInv, IInv', DepthInv, NEW m \in Members, Crash(m)
  PROVE  DepthInv'
<1> DEFINE n == Cardinality(Partitions)
           c == Cardinality(Clamping)
           d == Cardinality(Clamping')
           k == faults["crash"]
<1>1. TypeOK /\ TypeOK'
  BY DEF IInv
<1>2. /\ UNCHANGED depth /\ depth \in Int
      /\ faults'["failure"] = faults["failure"] /\ faults["failure"] \in Nat
      /\ faults'["crash"] = k + 1 /\ k \in Nat
  BY <1>1 DEF Crash, Fault, TypeOK, FaultKinds, store
<1>3. n * k \in Nat
  BY <1>1, AllowanceType
<1>4. n \in Nat /\ c \in Nat /\ c <= n /\ d \in Nat
  BY PartitionsAreFinite DEF Clamping
<1>5. depth + c + faults["failure"] + n * k >= 0
  BY DEF DepthInv, DepthClamped, Clamping
<1>6. depth + d + faults["failure"] + n * (k + 1) >= 0
  <2> HIDE DEF n, c, d, k
  <2>1. n * (k + 1) = n * k + n
    BY <1>2, <1>4
  <2> QED BY <1>2, <1>3, <1>4, <1>5, <2>1
<1>7. DepthClamped'
  BY <1>2, <1>6 DEF DepthClamped, Clamping
<1>8. OwnersOK'
  BY <1>1 DEF DepthInv, OwnersOK, Crash, TypeOK
<1> QED BY <1>7, <1>8 DEF DepthInv

\* A reader that finds the counter negative is about to clamp it.
LEMMA ReaderDepth ==
  ASSUME IInv, IInv', DepthInv, NEW p \in Partitions, Read(p) \/ ProcessFails(p)
  PROVE  DepthInv'
<1>1. TypeOK /\ TypeOK' /\ depth \in Int /\ depth' \in Int
  BY DEF IInv, TypeOK
<1>2. UNCHANGED faults \/ Fault("failure")
  BY DEF Read, ReadMessage, ProcessJob, SellBooking, ChargeBooking, RevertPurchase,
         ProcessFails, CompleteJob, Acknowledge, Clamp, HandleJobFailure,
         WriteRetry, CountRetry, WriteDeadLetter
<1>3. /\ faults'["failure"] >= faults["failure"] /\ faults'["crash"] = faults["crash"]
      /\ Fault("failure") => faults'["failure"] = faults["failure"] + 1
  BY <1>1, <1>2 DEF Fault, TypeOK, FaultKinds
<1>4. /\ UNCHANGED owner /\ stage[p] # "off"
      /\ \E s \in Stage : stage' = [stage EXCEPT ![p] = s]
  BY DEF Read, ReadMessage, ProcessJob, SellBooking, ChargeBooking, RevertPurchase,
         ProcessFails, CompleteJob, Acknowledge, Clamp, HandleJobFailure,
         WriteRetry, CountRetry, WriteDeadLetter, Done, Goto, Outcome, Stage, group
<1>5. OwnersOK'
  BY <1>1, <1>4 DEF DepthInv, OwnersOK, TypeOK
<1>6. CASE Clamp(p)
  <2>1. stage[p] = "clamp" /\ stage' = [stage EXCEPT ![p] = "fetch"]
    BY <1>6 DEF Clamp, Done, Goto
  <2>2. p \in Clamping /\ Clamping' = Clamping \ {p}
    BY <1>1, <2>1 DEF Clamping, TypeOK
  <2>3. \/ depth' = 0
        \/ depth' = depth /\ Fault("failure")
    BY <1>6 DEF Clamp
  <2>4. \/ depth' >= 0
        \/ depth' >= depth /\ faults'["failure"] = faults["failure"] + 1
    <3>1. CASE depth' = 0
      BY <3>1
    <3>2. CASE depth' = depth /\ Fault("failure")
      BY <1>1, <3>2 DEF Fault, TypeOK, FaultKinds
    <3> QED BY <2>3, <3>1, <3>2
  <2>5. DepthClamped'
    BY <1>1, <1>3, <2>2, <2>4, DepthKept DEF DepthInv
  <2> QED BY <1>5, <2>5 DEF DepthInv
<1>7. CASE Acknowledge(p) /\ stage' = [stage EXCEPT ![p] = "clamp"]
           /\ depth' = depth - 1
  <2>1. stage[p] = "ack" /\ depth' >= depth - 1
    BY <1>1, <1>7 DEF Acknowledge
  <2>2. p \notin Clamping /\ Clamping' = Clamping \cup {p}
    BY <1>1, <1>7, <2>1 DEF Clamping, TypeOK
  <2>3. DepthClamped'
    BY <1>1, <1>3, <2>1, <2>2, DepthKept DEF DepthInv
  <2> QED BY <1>5, <2>3 DEF DepthInv
<1>8. CASE /\ stage[p] # "clamp"
           /\ \E s \in Stage \ {"clamp"} : stage' = [stage EXCEPT ![p] = s]
           /\ depth' >= 0 \/ depth' >= depth
  <2>1. Clamping' = Clamping
    BY <1>1, <1>8 DEF Clamping, TypeOK
  <2>2. DepthClamped'
    BY <1>1, <1>3, <1>8, <2>1, DepthKept DEF DepthInv
  <2> QED BY <1>5, <2>2 DEF DepthInv
<1>9. CASE Acknowledge(p)
  <2>1. \/ /\ depth' = depth - 1 /\ depth - 1 < 0
           /\ stage' = [stage EXCEPT ![p] = "clamp"]
        \/ /\ depth' = depth - 1 /\ ~(depth - 1 < 0)
           /\ stage' = [stage EXCEPT ![p] = "fetch"]
        \/ depth' = depth /\ stage' = [stage EXCEPT ![p] = "fetch"]
    BY <1>9 DEF Acknowledge, ClampNeeded, Done, Goto
  <2>2. stage[p] # "clamp" /\ "fetch" \in Stage \ {"clamp"}
    BY <1>9 DEF Acknowledge, Stage
  <2>3. CASE depth' = depth - 1 /\ ~(depth - 1 < 0)
             /\ stage' = [stage EXCEPT ![p] = "fetch"]
    <3>1. depth' >= 0
      BY <1>1, <2>3
    <3> QED BY <1>8, <2>2, <2>3, <3>1
  <2>4. CASE depth' = depth /\ stage' = [stage EXCEPT ![p] = "fetch"]
    <3>1. depth' >= depth
      BY <1>1, <2>4
    <3> QED BY <1>8, <2>2, <2>4, <3>1
  <2> QED BY <1>7, <1>9, <2>1, <2>3, <2>4
<1>10. CASE ReadMessage(p) \/ ServiceSteps(p) \/ CompleteJob(p)
            \/ HandleJobFailure(p) \/ WriteRetry(p) \/ CountRetry(p)
            \/ WriteDeadLetter(p)
  <2>1. depth' \in {depth, depth + 1} /\ stage[p] # "clamp"
    BY <1>10
       DEF ReadMessage, ServiceSteps, ProcessJob, SellBooking, ChargeBooking,
           RevertPurchase, ProcessFails, CompleteJob, store, HandleJobFailure,
           WriteRetry, CountRetry, WriteDeadLetter
  <2>2. \E s \in Stage \ {"clamp"} : stage' = [stage EXCEPT ![p] = s]
    BY <1>10
       DEF ReadMessage, ServiceSteps, ProcessJob, SellBooking, ChargeBooking,
           RevertPurchase, ProcessFails, CompleteJob, Done, Goto, HandleJobFailure,
           WriteRetry, CountRetry, WriteDeadLetter, Outcome, Stage
  <2>3. depth' >= depth
    BY <1>1, <2>1
  <2> QED BY <1>8, <2>1, <2>2, <2>3
<1> QED BY <1>6, <1>9, <1>10 DEF Read, ServiceSteps

\* The depth that is reported is negative only for as long as a reader is about
\* to clamp it, but for one at most for each call that fails and for each
\* reader that dies.
THEOREM DepthStaysClamped == Spec => []DepthClamped
<1>1. Init => DepthInv
  <2> SUFFICES ASSUME Init PROVE DepthInv
    OBVIOUS
  <2>1. OwnersOK
    BY DEF Init, OwnersOK
  <2>2. depth = 0 /\ TypeOK
    BY InitIInv DEF Init, IInv
  <2>3. DepthClamped
    BY <2>2, PartitionsAreFinite, AllowanceType DEF DepthClamped
  <2> QED BY <2>1, <2>3 DEF DepthInv
<1>2. IInv /\ IInv' /\ DepthInv /\ [Next]_vars => DepthInv'
  <2> SUFFICES ASSUME IInv, IInv', DepthInv, [Next]_vars PROVE DepthInv'
    OBVIOUS
  <2>1. CASE UNCHANGED vars
    BY <2>1 DEF vars, store, group, reader, DepthInv, OwnersOK, DepthClamped
  <2>2. ASSUME NEW j \in Jobs, EnqueueJob(j) \/ Enqueue(j) \/ EnqueueFails(j)
        PROVE  DepthInv'
    BY <2>2, RequestDepth
  <2>3. ASSUME NEW p \in Partitions,
               \/ \E m \in Members : Assign(m, p)
               \/ EndGeneration(p) \/ CommitOffsets(p)
        PROVE  DepthInv'
    BY <2>3, GroupDepth
  <2>4. ASSUME NEW p \in Partitions, Read(p) \/ ProcessFails(p) PROVE DepthInv'
    BY <2>4, ReaderDepth
  <2>5. ASSUME NEW m \in Members, Crash(m) PROVE DepthInv'
    BY <2>5, CrashDepth
  <2>6. ASSUME NEW r \in Targets, TargetChanges(r) PROVE DepthInv'
    BY <2>6 DEF TargetChanges, store, group, reader, DepthInv, OwnersOK, DepthClamped
  <2> QED BY <2>1, <2>2, <2>3, <2>4, <2>5, <2>6 DEF Next
<1>3. DepthInv => DepthClamped
  BY DEF DepthInv
<1> QED BY IInvHolds, <1>1, <1>2, <1>3, PTL DEF Spec

------------------------------------------------------------------------------
(* The status of a job, as long as nothing fails.                          *)

NoFaults == \A f \in FaultKinds : faults[f] = 0

\* The partitions and their messages, when no generation has ended.
PartitionOK(p) ==
  /\ committed[p] = NoOffset /\ ~ended[p]
  /\ pos[p] <= Len(log[p]) /\ (stage[p] = "off" => pos[p] = 0)
  /\ owner[p] = NoMember => stage[p] = "off"

\* The places in its partition at which the job's command is still to be read.
Unread(j) ==
  {i \in pos[PartitionOf[j]] + 1 .. Len(log[PartitionOf[j]]) :
     log[PartitionOf[j]][i].job = j}

\* What the reader of its partition does with the job: nothing any more once
\* the command has been written again.
Handling(j) ==
  IF /\ stage[PartitionOf[j]] \notin {"off", "fetch", "requeued"}
     /\ msg[PartitionOf[j]].job = j
  THEN stage[PartitionOf[j]] ELSE "nothing"

Resolved(j) ==
  \/ Granted(j) /\ jobStatus[j] = "completed"
  \/ ~Granted(j) /\ jobStatus[j] = "dead_lettered" /\ j \in dlq

\* A job has no command yet, or one that is to be read, or one that is handled
\* or it is resolved; it has got its target from the moment it succeeds.
JobOK(j) ==
  \/ /\ request[j] \in {"absent", "none", "write"}
     /\ Unread(j) = {} /\ Handling(j) = "nothing" /\ ~Granted(j)
  \/ /\ request[j] \in {"bump", "accepted"}
     /\ (\E i \in Nat : Unread(j) = {i}) /\ Handling(j) = "nothing" /\ ~Granted(j)
  \/ /\ request[j] \in {"bump", "accepted"} /\ Unread(j) = {}
     /\ \/ Handling(j) \in {"process", "sell", "fail", "retry"} /\ ~Granted(j)
        \/ Handling(j) = "bury" /\ ~Granted(j) /\ jobStatus[j] = "dead_lettered"
        \/ Handling(j) \in {"charge", "complete"} /\ Granted(j)
        \/ Handling(j) \in {"ack", "clamp"} /\ Granted(j) /\ jobStatus[j] = "completed"
        \/ Handling(j) = "nothing" /\ Resolved(j)

JobsOK == (\A p \in Partitions : PartitionOK(p)) /\ (\A j \in Jobs : JobOK(j))

\* A claim grants its target to one job, and nothing that is undone matters.
LEMMA GrantedExactly ==
  ASSUME IInv, NEW j \in Jobs
  PROVE  /\ Claim(j) => Granted(j)' /\ \A i \in Jobs \ {j} : Granted(i)' <=> Granted(i)
         /\ \A r \in Targets, s \in {"open", "taken", "gone"} :
              Undo(r, s, {}) => \A i \in Jobs : Granted(i)' <=> Granted(i)
<1>1. /\ holders \in [Targets -> SUBSET Jobs]
      /\ \A i \in Jobs : TargetOf[i] \in Targets
      /\ \A r \in Targets : \A i \in holders[r] : TargetOf[i] = r
  BY QueueAssumption DEF IInv, TypeOK, ClaimsOK
<1>2. ASSUME Claim(j)
      PROVE  Granted(j)' /\ \A i \in Jobs \ {j} : Granted(i)' <=> Granted(i)
  BY <1>1, <1>2 DEF Claim, Granted
<1>3. ASSUME NEW r \in Targets, NEW s \in {"open", "taken", "gone"}, Undo(r, s, {}),
             NEW i \in Jobs
      PROVE  Granted(i)' <=> Granted(i)
  <2>1. CASE TargetOf[i] = r
    BY <1>1, <1>3, <2>1 DEF Undo, Granted
  <2>2. CASE TargetOf[i] # r
    BY <1>1, <1>3, <2>2 DEF Undo, Granted
  <2> QED BY <2>1, <2>2
<1> QED BY <1>2, <1>3

\* A step in which no call fails and no generation ends.
LEMMA FaultlessStep ==
  ASSUME TypeOK, NoFaults',
         \/ UNCHANGED faults
         \/ \E f \in FaultKinds : Fault(f)
  PROVE  NoFaults /\ UNCHANGED faults
<1>1. ASSUME NEW f \in FaultKinds, Fault(f)
      PROVE  FALSE
  <2>1. faults'[f] = faults[f] + 1 /\ faults[f] \in Nat
    BY <1>1 DEF Fault, TypeOK, FaultKinds
  <2>2. faults'[f] = 0
    BY DEF NoFaults
  <2> QED BY <2>1, <2>2
<1>2. UNCHANGED faults
  BY <1>1
<1> QED BY <1>2 DEF NoFaults

\* There is nothing to read at first.
LEMMA InitJobsOK == Init => JobsOK
<1> SUFFICES ASSUME Init PROVE JobsOK
  OBVIOUS
<1>1. ASSUME NEW p \in Partitions PROVE PartitionOK(p)
  BY DEF Init, PartitionOK
<1>2. ASSUME NEW j \in Jobs PROVE JobOK(j)
  <2>1. PartitionOf[j] \in Partitions /\ TargetOf[j] \in Targets /\ NoJob # j
    BY QueueAssumption
  <2>2. Unread(j) = {}
    BY <2>1 DEF Init, Unread
  <2>3. Handling(j) = "nothing" /\ ~Granted(j) /\ request[j] \in {"absent", "none"}
    BY <2>1 DEF Init, Handling, Granted
  <2> QED BY <2>2, <2>3 DEF JobOK
<1> QED BY <1>1, <1>2 DEF JobsOK

\* A job whose command, status and target nobody touches.
LEMMA JobUndisturbed ==
  ASSUME NEW j \in Jobs, JobOK(j), request'[j] = request[j],
         Unread(j)' = Unread(j), Handling(j)' = Handling(j),
         Granted(j)' <=> Granted(j), jobStatus'[j] = jobStatus[j],
         j \in dlq => j \in dlq'
  PROVE  JobOK(j)'
<1>1. Resolved(j) => Resolved(j)'
  BY DEF Resolved
<1> QED BY <1>1 DEF JobOK

\* Writing a command of job j leaves it to be read, and no other job's.
LEMMA WriteUnread ==
  ASSUME TypeOK, NEW j \in Jobs, NEW k, Write(j, k), UNCHANGED pos,
         PartitionOK(PartitionOf[j])
  PROVE  /\ Unread(j)' = Unread(j) \cup {Len(log[PartitionOf[j]]) + 1}
         /\ \A i \in Jobs \ {j} : Unread(i)' = Unread(i)
         /\ \A p \in Partitions : Len(log'[p]) >= Len(log[p])
<1> DEFINE p == PartitionOf[j]
           m == [job |-> j, attempt |-> k]
<1>1. p \in Partitions /\ m.job = j
  BY QueueAssumption
<1>2. \A q \in Partitions : Len(log[q]) \in Nat /\ pos[q] \in Nat
  BY DEF TypeOK
<1>3. /\ log'[p] = Append(log[p], m)
      /\ \A q \in Partitions \ {p} : log'[q] = log[q]
  BY <1>1 DEF Write, TypeOK
<1>4. /\ Len(log'[p]) = Len(log[p]) + 1
      /\ \A n \in 1 .. Len(log[p]) : log'[p][n] = log[p][n]
      /\ log'[p][Len(log[p]) + 1] = m
  <2>1. log[p] \in Seq(Message)
    BY <1>1 DEF TypeOK
  <2> HIDE DEF p, m
  <2> QED BY <1>3, <2>1
<1>5. pos[p] <= Len(log[p])
  BY DEF PartitionOK
<1>6. ASSUME NEW i \in Jobs, i # j PROVE Unread(i)' = Unread(i)
  <2>1. CASE PartitionOf[i] = p
    <3> DEFINE L == Len(log[p])
    <3>1. Unread(i)' = {n \in pos[p] + 1 .. L + 1 : log'[p][n].job = i}
      BY <1>4, <2>1 DEF Unread
    <3>2. Unread(i) = {n \in pos[p] + 1 .. L : log[p][n].job = i}
      BY <2>1 DEF Unread
    <3>3. \A n \in pos[p] + 1 .. L : log'[p][n] = log[p][n]
      BY <1>1, <1>2, <1>4
    <3>4. log'[p][L + 1].job # i /\ L \in Nat /\ pos[p] \in Nat
      BY <1>1, <1>2, <1>4, <1>6
    <3> HIDE DEF p, m, L
    <3>5. \A n \in pos[p] + 1 .. L + 1 : n = L + 1 \/ n \in pos[p] + 1 .. L
      BY <3>4
    <3>6. \A n \in pos[p] + 1 .. L : n \in pos[p] + 1 .. L + 1
      BY <3>4
    <3> QED BY <3>1, <3>2, <3>3, <3>4, <3>5, <3>6
  <2>2. CASE PartitionOf[i] # p
    <3>1. PartitionOf[i] \in Partitions
      BY QueueAssumption
    <3>2. log'[PartitionOf[i]] = log[PartitionOf[i]]
      BY <1>3, <2>2, <3>1
    <3> QED BY <3>2 DEF Unread
  <2> QED BY <2>1, <2>2
<1>7. Unread(j)' = Unread(j) \cup {Len(log[PartitionOf[j]]) + 1}
  <2> DEFINE L == Len(log[p])
  <2>1. Unread(j)' = {n \in pos[p] + 1 .. L + 1 : log'[p][n].job = j}
    BY <1>4 DEF Unread
  <2>2. Unread(j) = {n \in pos[p] + 1 .. L : log[p][n].job = j}
    BY DEF Unread
  <2>3. \A n \in pos[p] + 1 .. L : log'[p][n] = log[p][n]
    BY <1>1, <1>2, <1>4
  <2>4. log'[p][L + 1].job = j /\ L \in Nat /\ pos[p] \in Nat /\ pos[p] <= L
    BY <1>1, <1>2, <1>4, <1>5
  <2>5. Unread(j)' = Unread(j) \cup {L + 1}
    <3> HIDE DEF p, m, L
    <3>1. \A n : n \in pos[p] + 1 .. L + 1 <=> n = L + 1 \/ n \in pos[p] + 1 .. L
      BY <2>4
    <3> QED BY <2>1, <2>2, <2>3, <2>4, <3>1
  <2> QED BY <2>5
<1>8. \A q \in Partitions : Len(log'[q]) >= Len(log[q])
  BY <1>1, <1>2, <1>3, <1>4
<1> QED BY <1>6, <1>7, <1>8

\* What a step of the reader of p that handles job j leaves alone.
HandlingOnly(p, j) ==
  /\ UNCHANGED <<request, committed, owner, pos, ended>>
  /\ stage[p] \notin {"off", "fetch"} /\ msg[p].job = j
  /\ \/ msg'[p] = msg[p] /\ stage'[p] \notin {"off", "fetch"}
     \/ msg'[p] = NoMessage /\ stage'[p] = "fetch"
  /\ \A q \in Partitions \ {p} : stage'[q] = stage[q] /\ msg'[q] = msg[q]
  /\ UNCHANGED log \/ \E k \in Nat : Write(j, k)
  /\ \A i \in Jobs \ {j} : jobStatus'[i] = jobStatus[i] /\ (Granted(i)' <=> Granted(i))
  /\ dlq \subseteq dlq'

\* Such a step disturbs no other job.
LEMMA HandlingKeepsOthers ==
  ASSUME IInv, JobsOK, NEW p \in Partitions, NEW j \in Jobs, HandlingOnly(p, j),
         JobOK(j)'
  PROVE  JobsOK'
<1>1. PartitionOf[j] = p /\ PartitionOK(p) /\ TypeOK
  BY DEF IInv, ReaderOK, JobsOK, HandlingOnly
<1>2. /\ \A i \in Jobs \ {j} : Unread(i)' = Unread(i)
      /\ \A q \in Partitions : Len(log'[q]) >= Len(log[q])
  <2>1. CASE UNCHANGED log
    <3>1. \A q \in Partitions : Len(log[q]) \in Nat
      BY <1>1 DEF TypeOK
    <3> QED BY <2>1, <3>1 DEF Unread, HandlingOnly
  <2>2. CASE \E k \in Nat : Write(j, k)
    <3>1. PICK k \in Nat : Write(j, k)
      BY <2>2
    <3>2. UNCHANGED pos
      BY DEF HandlingOnly
    <3> QED BY <1>1, <3>1, <3>2, WriteUnread
  <2> QED BY <2>1, <2>2 DEF HandlingOnly
<1>3. ASSUME NEW q \in Partitions PROVE PartitionOK(q)'
  <2>1. PartitionOK(q)
    BY DEF JobsOK
  <2>2. Len(log[q]) \in Nat /\ pos[q] \in Nat /\ Len(log'[q]) >= Len(log[q])
    BY <1>1, <1>2 DEF TypeOK
  <2>3. /\ committed'[q] = NoOffset /\ ~ended'[q]
        /\ owner'[q] = NoMember => stage'[q] = "off"
        /\ stage'[q] = "off" => pos'[q] = 0
    BY <2>1, <1>1 DEF PartitionOK, HandlingOnly
  <2>4. pos'[q] <= Len(log'[q])
    <3>1. pos'[q] = pos[q] /\ pos[q] <= Len(log[q])
      BY <2>1 DEF PartitionOK, HandlingOnly
    <3> QED BY <2>2, <3>1
  <2> QED BY <2>3, <2>4 DEF PartitionOK
<1>4. ASSUME NEW i \in Jobs, i # j PROVE JobOK(i)'
  <2>1. Handling(i)' = Handling(i)
    <3>1. PartitionOf[i] \in Partitions /\ NoJob # i
      BY QueueAssumption
    <3>2. CASE PartitionOf[i] = p
      <4>1. msg[p].job # i /\ msg'[p].job # i
        BY <1>4, <3>1 DEF HandlingOnly, NoMessage
      <4> QED BY <3>2, <4>1 DEF Handling
    <3>3. CASE PartitionOf[i] # p
      BY <3>1, <3>3 DEF HandlingOnly, Handling
    <3> QED BY <3>2, <3>3
  <2>2. JobOK(i)
    BY DEF JobsOK
  <2>3. /\ request'[i] = request[i] /\ jobStatus'[i] = jobStatus[i]
        /\ (Granted(i)' <=> Granted(i)) /\ (i \in dlq => i \in dlq')
    BY <1>4 DEF HandlingOnly
  <2>4. Unread(i)' = Unread(i)
    BY <1>2, <1>4
  <2> QED BY <2>1, <2>2, <2>3, <2>4, JobUndisturbed
<1> QED BY <1>3, <1>4 DEF JobsOK

\* Nothing that handles a job moves its commands but writing it again.
LEMMA HandlingUnread ==
  ASSUME NEW p \in Partitions, NEW j \in Jobs, HandlingOnly(p, j), UNCHANGED log
  PROVE  Unread(j)' = Unread(j)
<1> QED BY DEF Unread, HandlingOnly

\* What is known of the job that a reader handles.
LEMMA HandledJob ==
  ASSUME IInv, JobsOK, NEW p \in Partitions, stage[p] \notin {"off", "fetch"}
  PROVE  \E j \in Jobs :
           /\ msg[p].job = j /\ PartitionOf[j] = p /\ JobOK(j) /\ ~ended[p]
           /\ msg[p] \in Message /\ NoMessage.job # j
           /\ Handling(j) = IF stage[p] = "requeued" THEN "nothing" ELSE stage[p]
<1>1. msg[p] \in Message /\ msg[p].job \in Jobs
  BY DEF IInv, ReaderOK, Message
<1>2. PartitionOK(p) /\ PartitionOf[msg[p].job] = p /\ JobOK(msg[p].job)
  BY <1>1 DEF IInv, ReaderOK, JobsOK
<1>3. Handling(msg[p].job) = IF stage[p] = "requeued" THEN "nothing" ELSE stage[p]
  BY <1>2 DEF Handling
<1>4. NoMessage.job # msg[p].job /\ ~ended[p]
  BY <1>1, <1>2, QueueAssumption DEF NoMessage, PartitionOK
<1> QED BY <1>1, <1>2, <1>3, <1>4

\* The service works for the job, which gets its target or fails for good
\* reason; nothing is reverted.
LEMMA ServiceJobsOK ==
  ASSUME IInv, IInv', JobsOK, NEW p \in Partitions, UNCHANGED faults,
         ProcessJob(p) \/ SellBooking(p) \/ ChargeBooking(p) \/ RevertPurchase(p)
  PROVE  JobsOK'
<1>1. /\ TypeOK /\ TypeOK' /\ ~Fault("failure")
      /\ stage[p] \in {"process", "sell", "charge", "revert"}
  BY DEF IInv, ProcessJob, SellBooking, ChargeBooking, RevertPurchase, Fault, TypeOK,
     FaultKinds
<1>2. PICK j \in Jobs :
        /\ msg[p].job = j /\ PartitionOf[j] = p /\ JobOK(j)
        /\ Handling(j) = stage[p]
  BY <1>1, HandledJob
<1>3. /\ request[j] \in {"bump", "accepted"} /\ Unread(j) = {} /\ stage[p] # "revert"
      /\ stage[p] = "charge" <=> Granted(j)
  BY <1>1, <1>2 DEF JobOK
<1>4. \E s \in {"fail", "sell", "charge", "complete"} :
        /\ Goto(p, s)
        /\ \/ UNCHANGED claims /\ s \in {"fail", "sell"} /\ stage[p] # "charge"
           \/ Claim(j) /\ s \in {"charge", "complete"} /\ stage[p] # "charge"
           \/ UNCHANGED claims /\ s = "complete" /\ stage[p] = "charge"
  <2>1. CASE ProcessJob(p)
    BY <1>2, <2>1 DEF ProcessJob, Outcome
  <2>2. CASE SellBooking(p)
    BY <1>2, <2>2 DEF SellBooking
  <2>3. CASE ChargeBooking(p)
    BY <1>1, <2>3 DEF ChargeBooking
  <2>4. CASE RevertPurchase(p)
    BY <1>3, <2>4 DEF RevertPurchase
  <2> QED BY <2>1, <2>2, <2>3, <2>4
<1>5. /\ UNCHANGED <<request, jobStatus, log, dlq, committed, owner, pos, msg, ended>>
  BY DEF ProcessJob, SellBooking, ChargeBooking, RevertPurchase, store, topics, group
<1>6. PICK s \in {"fail", "sell", "charge", "complete"} :
        /\ Goto(p, s)
        /\ \A i \in Jobs \ {j} : Granted(i)' <=> Granted(i)
        /\ Granted(j)' <=> s \in {"charge", "complete"}
  <2>1. PICK s \in {"fail", "sell", "charge", "complete"} :
          /\ Goto(p, s)
          /\ \/ UNCHANGED claims /\ s \in {"fail", "sell"} /\ stage[p] # "charge"
             \/ Claim(j) /\ s \in {"charge", "complete"} /\ stage[p] # "charge"
             \/ UNCHANGED claims /\ s = "complete" /\ stage[p] = "charge"
    BY <1>4
  <2>2. CASE UNCHANGED claims
    <3>1. \A i \in Jobs : Granted(i)' <=> Granted(i)
      BY <2>2, ClaimsUnchanged
    <3>2. Granted(j)' <=> s \in {"charge", "complete"}
      BY <1>3, <2>1, <3>1, GrantedExactly
    <3> QED BY <2>1, <3>1, <3>2
  <2>3. CASE Claim(j) /\ s \in {"charge", "complete"}
    BY <2>1, <2>3, GrantedExactly
  <2> QED BY <2>1, <2>2, <2>3
<1>7. HandlingOnly(p, j)
  BY <1>1, <1>2, <1>5, <1>6 DEF HandlingOnly, Goto, TypeOK
<1>8. JobOK(j)'
  <2>1. Unread(j)' = {} /\ request'[j] = request[j]
    BY <1>3, <1>5, <1>7, HandlingUnread
  <2>2. Handling(j)' = s
    BY <1>1, <1>2, <1>5, <1>6 DEF Handling, Goto, TypeOK
  <2> QED BY <1>3, <1>6, <2>1, <2>2 DEF JobOK
<1> QED BY <1>7, <1>8, HandlingKeepsOthers

\* The outcome of a success is recorded and counted.
LEMMA SuccessJobsOK ==
  ASSUME IInv, IInv', JobsOK, NEW p \in Partitions, UNCHANGED faults,
         CompleteJob(p) \/ Acknowledge(p) \/ Clamp(p)
  PROVE  JobsOK'
<1>1. TypeOK /\ TypeOK' /\ stage[p] \in {"complete", "ack", "clamp"}
  BY DEF IInv, CompleteJob, Acknowledge, Clamp
<1>2. PICK j \in Jobs :
        /\ msg[p].job = j /\ PartitionOf[j] = p /\ JobOK(j) /\ ~ended[p]
        /\ Handling(j) = stage[p] /\ NoMessage.job # j
  BY <1>1, HandledJob
<1>3. /\ request[j] \in {"bump", "accepted"} /\ Unread(j) = {} /\ Granted(j)
      /\ stage[p] # "complete" => jobStatus[j] = "completed"
  BY <1>1, <1>2 DEF JobOK
<1>4. ~Fault("failure")
  BY <1>1 DEF Fault, TypeOK, FaultKinds
<1>5. /\ UNCHANGED <<holders, undone, log, dlq, request>>
      /\ jobStatus' = [jobStatus EXCEPT ![j] = "completed"]
      /\ stage'[p] \in {"ack", "clamp", "fetch"}
      /\ stage'[p] = "fetch" => msg'[p] = NoMessage
      /\ stage'[p] # "fetch" => msg'[p] = msg[p]
  BY <1>1, <1>2, <1>3, <1>4
     DEF CompleteJob, Acknowledge, Clamp, SetJobStatus, Done, Goto, topics, claims, TypeOK
<1>6. HandlingOnly(p, j)
  <2>1. \A i \in Jobs \ {j} : jobStatus'[i] = jobStatus[i] /\ (Granted(i)' <=> Granted(i))
    BY <1>1, <1>5 DEF TypeOK, Granted
  <2>2. \A q \in Partitions \ {p} : stage'[q] = stage[q] /\ msg'[q] = msg[q]
    <3>1. CASE \E d \in BOOLEAN : Done(p, d)
      BY <1>1, <3>1 DEF Done, Goto, TypeOK
    <3>2. CASE UNCHANGED msg /\ \E s \in Stage : Goto(p, s)
      BY <1>1, <3>2 DEF Goto, TypeOK
    <3>3. \/ \E d \in BOOLEAN : Done(p, d)
          \/ UNCHANGED msg /\ \E s \in Stage : Goto(p, s)
      BY DEF CompleteJob, Acknowledge, Clamp, Stage
    <3> QED BY <3>1, <3>2, <3>3
  <2>3. UNCHANGED <<request, committed, owner, pos, ended>>
    BY DEF CompleteJob, Acknowledge, Clamp, group
  <2> QED BY <1>1, <1>2, <1>5, <2>1, <2>2, <2>3 DEF HandlingOnly
<1>7. JobOK(j)'
  <2>1. Unread(j)' = {} /\ request'[j] = request[j] /\ Granted(j)'
    BY <1>3, <1>5, <1>6, HandlingUnread DEF Granted
  <2>2. jobStatus'[j] = "completed"
    BY <1>1, <1>5 DEF TypeOK
  <2>3. Handling(j)' = IF stage'[p] = "fetch" THEN "nothing" ELSE stage'[p]
    BY <1>2, <1>5 DEF Handling
  <2> QED BY <1>3, <1>5, <2>1, <2>2, <2>3 DEF JobOK, Resolved
<1> QED BY <1>6, <1>7, HandlingKeepsOthers

\* A failed job is written again, or ends in the dead-letter topic.
LEMMA FailureJobsOK ==
  ASSUME IInv, IInv', JobsOK, NEW p \in Partitions, UNCHANGED faults,
         HandleJobFailure(p) \/ WriteDeadLetter(p) \/ CountRetry(p)
  PROVE  JobsOK'
<1>1. TypeOK /\ TypeOK' /\ stage[p] \in {"fail", "bury", "requeued"}
  BY DEF IInv, HandleJobFailure, WriteDeadLetter, CountRetry
<1>2. PICK j \in Jobs :
        /\ msg[p].job = j /\ PartitionOf[j] = p /\ JobOK(j) /\ ~ended[p]
        /\ Handling(j) = IF stage[p] = "requeued" THEN "nothing" ELSE stage[p]
        /\ NoMessage.job # j
  BY <1>1, HandledJob
<1>4. ~Fault("failure")
  BY <1>1 DEF Fault, TypeOK, FaultKinds
<1>5. /\ UNCHANGED <<holders, undone, log, request, committed, owner, pos, ended>>
      /\ \A i \in Jobs \ {j} : jobStatus'[i] = jobStatus[i]
      /\ \/ stage[p] = "fail" /\ stage'[p] = "retry" /\ UNCHANGED <<msg, dlq>>
         \/ /\ stage[p] = "fail" /\ stage'[p] = "bury" /\ UNCHANGED <<msg, dlq>>
            /\ jobStatus'[j] = "dead_lettered"
         \/ /\ stage[p] = "bury" /\ stage'[p] = "fetch" /\ UNCHANGED jobStatus
            /\ dlq' = dlq \cup {j} /\ msg'[p] = NoMessage
         \/ /\ stage[p] = "requeued" /\ stage'[p] = "fetch"
            /\ UNCHANGED <<dlq, jobStatus>> /\ msg'[p] = NoMessage
  <2>1. CASE HandleJobFailure(p)
    BY <1>1, <1>2, <1>4, <2>1
       DEF HandleJobFailure, SetJobStatus, Done, Goto, topics, claims, group, TypeOK
  <2>2. CASE WriteDeadLetter(p)
    BY <1>1, <1>2, <1>4, <2>2
       DEF WriteDeadLetter, Done, Goto, store, claims, group, TypeOK
  <2>3. CASE CountRetry(p)
    BY <1>1, <1>2, <2>3 DEF CountRetry, Done, Goto, topics, claims, group, TypeOK
  <2> QED BY <2>1, <2>2, <2>3
<1>6. HandlingOnly(p, j)
  <2>1. \A i \in Jobs \ {j} : jobStatus'[i] = jobStatus[i] /\ (Granted(i)' <=> Granted(i))
    BY <1>5 DEF Granted
  <2>2. \A q \in Partitions \ {p} : stage'[q] = stage[q] /\ msg'[q] = msg[q]
    <3>1. CASE \E d \in BOOLEAN : Done(p, d)
      BY <1>1, <3>1 DEF Done, Goto, TypeOK
    <3>2. CASE UNCHANGED msg /\ \E s \in Stage : Goto(p, s)
      BY <1>1, <3>2 DEF Goto, TypeOK
    <3>3. \/ \E d \in BOOLEAN : Done(p, d)
          \/ UNCHANGED msg /\ \E s \in Stage : Goto(p, s)
      BY DEF HandleJobFailure, WriteDeadLetter, CountRetry, Stage
    <3> QED BY <3>1, <3>2, <3>3
  <2> QED BY <1>1, <1>2, <1>5, <2>1, <2>2 DEF HandlingOnly
<1>7. JobOK(j)'
  <2>1. Unread(j)' = Unread(j) /\ request'[j] = request[j] /\ (Granted(j)' <=> Granted(j))
    BY <1>5, <1>6, HandlingUnread DEF Granted
  <2>2. Handling(j)' = IF stage'[p] = "fetch" THEN "nothing" ELSE stage'[p]
    BY <1>2, <1>5 DEF Handling
  <2>3. CASE stage[p] = "requeued"
    <3>1. Handling(j)' = Handling(j) /\ jobStatus'[j] = jobStatus[j] /\ dlq' = dlq
      BY <1>2, <1>5, <2>2, <2>3
    <3> QED BY <1>2, <2>1, <3>1, JobUndisturbed
  <2>4. CASE stage[p] = "fail"
    <3>1. request[j] \in {"bump", "accepted"} /\ Unread(j) = {} /\ ~Granted(j)
      BY <1>2, <2>4 DEF JobOK
    <3> QED BY <1>5, <2>1, <2>2, <2>4, <3>1 DEF JobOK
  <2>5. CASE stage[p] = "bury"
    <3>1. /\ request[j] \in {"bump", "accepted"} /\ Unread(j) = {} /\ ~Granted(j)
          /\ jobStatus[j] = "dead_lettered"
      BY <1>2, <2>5 DEF JobOK
    <3> QED BY <1>5, <2>1, <2>2, <2>5, <3>1 DEF JobOK, Resolved
  <2> QED BY <1>1, <2>3, <2>4, <2>5
<1> QED BY <1>6, <1>7, HandlingKeepsOthers

\* The command that is written again is the only one of its job.
LEMMA WriteRetryJobsOK ==
  ASSUME IInv, IInv', JobsOK, NEW p \in Partitions, UNCHANGED faults, WriteRetry(p)
  PROVE  JobsOK'
<1>1. TypeOK /\ TypeOK' /\ stage[p] = "retry"
  BY DEF IInv, WriteRetry
<1>2. PICK j \in Jobs :
        /\ msg[p].job = j /\ PartitionOf[j] = p /\ JobOK(j) /\ ~ended[p]
        /\ Handling(j) = "retry" /\ msg[p] \in Message
  BY <1>1, HandledJob
<1>3. ~Fault("failure")
  BY <1>1 DEF Fault, TypeOK, FaultKinds
<1>4. /\ \E k \in Nat : Write(j, k)
      /\ stage' = [stage EXCEPT ![p] = "requeued"]
      /\ UNCHANGED <<msg, request, jobStatus, dlq, holders, undone, committed, owner, pos, ended>>
  <2>1. msg[p].attempt + 1 \in Nat
    BY <1>2, QueueAssumption DEF Message
  <2> QED BY <1>2, <1>3, <2>1 DEF WriteRetry, Goto, store, claims, group
<1>5. HandlingOnly(p, j)
  BY <1>1, <1>2, <1>4 DEF HandlingOnly, Granted, TypeOK
<1>6. JobOK(j)'
  <2>1. request[j] \in {"bump", "accepted"} /\ Unread(j) = {} /\ ~Granted(j)
    BY <1>2 DEF JobOK
  <2>2. PartitionOK(PartitionOf[j])
    BY <1>2 DEF JobsOK
  <2>3. PICK k \in Nat : Write(j, k)
    BY <1>4
  <2>4. Unread(j)' = Unread(j) \cup {Len(log[PartitionOf[j]]) + 1}
    BY <1>1, <1>4, <2>2, <2>3, WriteUnread
  <2>5. Len(log[PartitionOf[j]]) + 1 \in Nat
    BY <1>1, <1>2 DEF TypeOK
  <2>6. \E i \in Nat : Unread(j)' = {i}
    BY <2>1, <2>4, <2>5
  <2>7. Handling(j)' = "nothing" /\ ~Granted(j)' /\ request'[j] = request[j]
    BY <1>1, <1>2, <1>4, <2>1 DEF Handling, Granted, TypeOK
  <2> QED BY <2>1, <2>6, <2>7 DEF JobOK
<1> QED BY <1>5, <1>6, HandlingKeepsOthers

\* The reader takes the one command of a job that is to be read.
LEMMA ReadMessageJobsOK ==
  ASSUME IInv, IInv', JobsOK, NEW p \in Partitions, ReadMessage(p)
  PROVE  JobsOK'
<1> DEFINE n == pos[p] + 1
<1>1. /\ TypeOK /\ TypeOK' /\ PartitionOK(p)
      /\ pos[p] \in Nat /\ Len(log[p]) \in Nat /\ log[p] \in Seq(Message)
  <2>1. TypeOK /\ TypeOK' /\ PartitionOK(p)
    BY DEF IInv, JobsOK
  <2>2. log[p] \in Seq(Message) /\ pos[p] \in Nat
    BY <2>1 DEF TypeOK
  <2> QED BY <2>1, <2>2
<1>2. /\ UNCHANGED <<request, jobStatus, log, dlq, holders, undone, committed, owner, ended>>
      /\ stage[p] = "fetch" /\ pos[p] < Len(log[p])
      /\ stage'[p] = "process" /\ msg'[p] = log[p][n] /\ pos'[p] = n
      /\ \A q \in Partitions \ {p} :
           stage'[q] = stage[q] /\ msg'[q] = msg[q] /\ pos'[q] = pos[q]
  BY <1>1 DEF ReadMessage, Goto, store, topics, claims, group, TypeOK
<1>3. n \in 1 .. Len(log[p]) /\ n \in pos[p] + 1 .. Len(log[p])
  BY <1>1, <1>2
<1>4. log[p][n].job \in Jobs /\ PartitionOf[log[p][n].job] = p
  <2>1. log[p][n] \in Message
    BY <1>1, <1>3
  <2> QED BY <1>1, <1>3, <2>1 DEF IInv, LogOK, Message
<1>5. ASSUME NEW q \in Partitions PROVE PartitionOK(q)'
  <2>1. PartitionOK(q)
    BY DEF JobsOK
  <2>2. CASE q = p
    BY <1>1, <1>2, <1>3, <2>1, <2>2 DEF PartitionOK
  <2>3. CASE q # p
    BY <1>2, <2>1, <2>3 DEF PartitionOK
  <2> QED BY <2>2, <2>3
<1>6. ASSUME NEW j \in Jobs PROVE JobOK(j)'
  <2>1. JobOK(j) /\ PartitionOf[j] \in Partitions
    BY QueueAssumption DEF JobsOK
  <2>2. (Granted(j)' <=> Granted(j)) /\ request'[j] = request[j] /\ jobStatus'[j] = jobStatus[j]
    BY <1>2 DEF Granted
  <2>3. CASE PartitionOf[j] # p
    <3>1. Unread(j)' = Unread(j) /\ Handling(j)' = Handling(j)
      BY <1>2, <2>1, <2>3 DEF Unread, Handling
    <3> QED BY <1>2, <2>1, <2>2, <3>1, JobUndisturbed
  <2>4. CASE PartitionOf[j] = p /\ log[p][n].job # j
    <3>1. Unread(j)' = {k \in n + 1 .. Len(log[p]) : log[p][k].job = j}
      BY <1>2, <2>4 DEF Unread
    <3>2. Unread(j) = {k \in n .. Len(log[p]) : log[p][k].job = j}
      BY <2>4 DEF Unread
    <3>3. Unread(j)' = Unread(j)
      <4>1. n \in Nat /\ Len(log[p]) \in Nat /\ log[p][n].job # j
        BY <1>1, <2>4
      <4> HIDE DEF n
      <4>2. \A k : k \in n .. Len(log[p]) <=> k \in n + 1 .. Len(log[p])
                                               \/ (k = n /\ n <= Len(log[p]))
        BY <4>1
      <4> QED BY <3>1, <3>2, <4>1, <4>2
    <3>4. Handling(j)' = Handling(j)
      BY <1>2, <2>4 DEF Handling
    <3> QED BY <1>2, <2>1, <2>2, <3>3, <3>4, JobUndisturbed
  <2>5. CASE PartitionOf[j] = p /\ log[p][n].job = j
    <3>1. n \in Unread(j)
      BY <1>3, <2>5 DEF Unread
    <3>2. /\ request[j] \in {"bump", "accepted"} /\ ~Granted(j)
          /\ \E i \in Nat : Unread(j) = {i}
      BY <1>2, <2>1, <2>5, <3>1 DEF JobOK, Handling
    <3>3. Unread(j) = {n}
      BY <3>1, <3>2
    <3>4. Unread(j)' = {}
      <4>1. Unread(j)' = {k \in n + 1 .. Len(log[p]) : log[p][k].job = j}
        BY <1>2, <2>5 DEF Unread
      <4>2. Unread(j) = {k \in n .. Len(log[p]) : log[p][k].job = j}
        BY <2>5 DEF Unread
      <4>3. n \in Nat /\ Len(log[p]) \in Nat
        BY <1>1
      <4> HIDE DEF n
      <4>4. \A k \in n + 1 .. Len(log[p]) : k \in n .. Len(log[p]) /\ k # n
        BY <4>3
      <4> QED BY <3>3, <4>1, <4>2, <4>4
    <3>5. Handling(j)' = "process"
      BY <1>2, <2>5 DEF Handling
    <3> QED BY <2>2, <3>2, <3>4, <3>5 DEF JobOK
  <2> QED BY <2>3, <2>4, <2>5
<1> QED BY <1>5, <1>6 DEF JobsOK

\* A reader starts at the beginning of its partition.
LEMMA AssignJobsOK ==
  ASSUME IInv, IInv', JobsOK, NEW m \in Members, NEW p \in Partitions, Assign(m, p)
  PROVE  JobsOK'
<1>1. TypeOK /\ TypeOK' /\ m # NoMember
  BY QueueAssumption DEF IInv
<1>2. /\ UNCHANGED <<request, jobStatus, log, dlq, holders, undone, committed, ended, msg>>
      /\ stage[p] = "off" /\ pos[p] = 0 /\ stage'[p] \in {"off", "fetch"}
      /\ owner'[p] = m /\ pos'[p] = 0
      /\ \A q \in Partitions \ {p} :
           stage'[q] = stage[q] /\ owner'[q] = owner[q] /\ pos'[q] = pos[q]
  BY <1>1 DEF Assign, store, topics, claims, TypeOK, JobsOK, PartitionOK, NoOffset
<1>3. ASSUME NEW q \in Partitions PROVE PartitionOK(q)'
  <2>1. PartitionOK(q)
    BY DEF JobsOK
  <2>2. CASE q = p
    BY <1>1, <1>2, <2>1, <2>2 DEF PartitionOK
  <2>3. CASE q # p
    BY <1>2, <2>1, <2>3 DEF PartitionOK
  <2> QED BY <2>2, <2>3
<1>4. ASSUME NEW j \in Jobs PROVE JobOK(j)'
  <2>1. JobOK(j) /\ PartitionOf[j] \in Partitions
    BY QueueAssumption DEF JobsOK
  <2>2. Unread(j)' = Unread(j) /\ Handling(j)' = Handling(j) /\ (Granted(j)' <=> Granted(j))
    <3>1. pos'[PartitionOf[j]] = pos[PartitionOf[j]]
      BY <1>2, <2>1
    <3>2. Handling(j)' = Handling(j)
      BY <1>2, <2>1 DEF Handling
    <3> QED BY <1>2, <3>1, <3>2 DEF Unread, Granted
  <2> QED BY <1>2, <2>1, <2>2, JobUndisturbed
<1> QED BY <1>3, <1>4 DEF JobsOK

\* A request writes the command of its job once.
LEMMA RequestJobsOK ==
  ASSUME IInv, IInv', JobsOK, NEW j \in Jobs, UNCHANGED faults,
         EnqueueJob(j) \/ Enqueue(j) \/ EnqueueFails(j)
  PROVE  JobsOK'
<1>1. TypeOK /\ TypeOK' /\ JobOK(j) /\ PartitionOK(PartitionOf[j])
  BY QueueAssumption DEF IInv, JobsOK
<1>2. ~Fault("failure")
  BY <1>1 DEF Fault, TypeOK, FaultKinds
<1>3. /\ UNCHANGED <<dlq, holders, undone, committed, owner, stage, pos, msg, ended>>
      /\ UNCHANGED log \/ Write(j, 0)
      /\ \A i \in Jobs \ {j} : request'[i] = request[i] /\ jobStatus'[i] = jobStatus[i]
  BY <1>1, <1>2 DEF EnqueueJob, Enqueue, WriteCommand, CountCommand, EnqueueFails,
     SetJobStatus, store, topics, claims, group, reader, TypeOK
<1>4. \A i \in Jobs : Handling(i)' = Handling(i) /\ (Granted(i)' <=> Granted(i))
  BY <1>3 DEF Handling, Granted
<1>5. /\ \A i \in Jobs \ {j} : Unread(i)' = Unread(i)
      /\ \A q \in Partitions : Len(log'[q]) >= Len(log[q])
  <2>1. CASE UNCHANGED log
    <3>1. \A q \in Partitions : Len(log[q]) \in Nat
      BY <1>1 DEF TypeOK
    <3> QED BY <1>3, <2>1, <3>1 DEF Unread
  <2>2. CASE Write(j, 0)
    BY <1>1, <1>3, <2>2, WriteUnread
  <2> QED BY <1>3, <2>1, <2>2
<1>6. ASSUME NEW q \in Partitions PROVE PartitionOK(q)'
  <2>1. PartitionOK(q)
    BY DEF JobsOK
  <2>2. Len(log[q]) \in Nat /\ pos[q] \in Nat /\ Len(log'[q]) >= Len(log[q])
    BY <1>1, <1>5 DEF TypeOK
  <2>3. pos'[q] <= Len(log'[q])
    <3>1. pos'[q] = pos[q] /\ pos[q] <= Len(log[q])
      BY <1>3, <2>1 DEF PartitionOK
    <3>2. Len(log'[q]) \in Nat
      BY <1>1 DEF TypeOK
    <3> QED BY <2>2, <3>1, <3>2
  <2> QED BY <1>3, <2>1, <2>3 DEF PartitionOK
<1>7. ASSUME NEW i \in Jobs, i # j PROVE JobOK(i)'
  <2>1. JobOK(i) /\ Unread(i)' = Unread(i) /\ request'[i] = request[i]
        /\ jobStatus'[i] = jobStatus[i]
    BY <1>3, <1>5, <1>7 DEF JobsOK
  <2> QED BY <1>3, <1>4, <2>1, JobUndisturbed
<1>8. JobOK(j)'
  <2>1. CASE EnqueueJob(j)
    <3>1. request[j] = "none" /\ request'[j] = "write" /\ log' = log
      BY <1>1, <2>1 DEF EnqueueJob, topics, TypeOK
    <3>2. Unread(j)' = Unread(j)
      BY <1>3, <3>1 DEF Unread
    <3> QED BY <1>1, <1>4, <3>1, <3>2 DEF JobOK
  <2>2. CASE WriteCommand(j)
    <3>1. request[j] = "write" /\ request'[j] = "bump" /\ Write(j, 0)
      BY <1>1, <2>2 DEF WriteCommand, TypeOK
    <3>2. Unread(j)' = Unread(j) \cup {Len(log[PartitionOf[j]]) + 1}
      BY <1>1, <1>3, <3>1, WriteUnread
    <3>3. Len(log[PartitionOf[j]]) + 1 \in Nat
      BY <1>1, QueueAssumption DEF TypeOK
    <3>4. Unread(j) = {} /\ Handling(j) = "nothing" /\ ~Granted(j)
      BY <1>1, <3>1 DEF JobOK
    <3>5. \E i \in Nat : Unread(j)' = {i}
      BY <3>2, <3>3, <3>4
    <3> QED BY <1>4, <3>1, <3>4, <3>5 DEF JobOK
  <2>3. CASE CountCommand(j)
    <3>1. request[j] = "bump" /\ request'[j] = "accepted" /\ log' = log
          /\ jobStatus' = jobStatus
      BY <1>1, <2>3 DEF CountCommand, topics, TypeOK
    <3>2. Unread(j)' = Unread(j)
      BY <1>3, <3>1 DEF Unread
    <3>3. Resolved(j)' <=> Resolved(j)
      BY <1>3, <1>4, <3>1 DEF Resolved
    <3> QED BY <1>1, <1>4, <3>1, <3>2, <3>3 DEF JobOK
  <2>4. ~EnqueueFails(j)
    BY <1>2 DEF EnqueueFails
  <2> QED BY <2>1, <2>2, <2>3, <2>4 DEF Enqueue
<1> QED BY <1>6, <1>7, <1>8 DEF JobsOK

\* What others do to a target leaves what is known of the jobs.
LEMMA TargetJobsOK ==
  ASSUME IInv, JobsOK, NEW r \in Targets, TargetChanges(r)
  PROVE  JobsOK'
<1>1. UNCHANGED <<request, jobStatus, dlq, stage, msg, pos, log, committed, ended,
                  owner>>
  BY DEF TargetChanges, store, topics, group, reader
<1>2. \E s \in {"open", "taken", "gone"} : Undo(r, s, {})
  BY DEF TargetChanges
<1>3. ASSUME NEW j \in Jobs PROVE JobOK(j)'
  <2>1. Unread(j)' = Unread(j) /\ Handling(j)' = Handling(j)
    BY <1>1 DEF Unread, Handling
  <2>2. Granted(j)' <=> Granted(j)
    BY <1>2, GrantedExactly
  <2> QED BY <1>1, <2>1, <2>2, JobUndisturbed DEF JobsOK
<1>4. \A p \in Partitions : PartitionOK(p)'
  BY <1>1 DEF JobsOK, PartitionOK
<1> QED BY <1>3, <1>4 DEF JobsOK

\* When the queue is quiet, no call has failed, no member has died and no
\* generation has ended, every accepted job is completed if it got its target,
\* in whatever partitions the commands for that target are, and whatever else
\* has become of it, and otherwise dead-lettered.
THEOREM StatusesAreTruthful == Spec => []StatusTruthful
<1> DEFINE Inv == NoFaults => JobsOK
<1>1. IInv /\ IInv' /\ Inv /\ [Next]_vars => Inv'
  <2> SUFFICES ASSUME IInv, IInv', Inv, [Next]_vars, NoFaults' PROVE JobsOK'
    OBVIOUS
  <2>1. CASE UNCHANGED vars
    <3>1. NoFaults /\ UNCHANGED <<request, jobStatus, dlq, stage, msg, pos, log,
                                  holders, undone, committed, ended, owner>>
      BY <2>1 DEF vars, store, group, reader, topics, claims, NoFaults
    <3>2. JobsOK /\ \A j \in Jobs : /\ Unread(j)' = Unread(j)
                                    /\ Handling(j)' = Handling(j)
                                    /\ (Granted(j)' <=> Granted(j))
      BY <3>1 DEF Unread, Handling, Granted
    <3>3. \A p \in Partitions : PartitionOK(p)'
      BY <3>1, <3>2 DEF JobsOK, PartitionOK
    <3>4. ASSUME NEW j \in Jobs PROVE JobOK(j)'
      BY <3>1, <3>2, JobUndisturbed DEF JobsOK
    <3> QED BY <3>3, <3>4 DEF JobsOK
  <2>2. CASE Next
    <3>1. \/ UNCHANGED faults
          \/ \E f \in FaultKinds : Fault(f)
      <4>1. \/ UNCHANGED faults \/ Fault("failure")
            \/ Fault("rebalance") \/ Fault("crash")
        BY <2>2
           DEF Next, EnqueueJob, Enqueue, WriteCommand, CountCommand, EnqueueFails,
               Assign, EndGeneration, CommitOffsets, Crash, TargetChanges, Read,
               ReadMessage, ProcessJob, SellBooking, ChargeBooking, RevertPurchase,
               ProcessFails, CompleteJob, Acknowledge, Clamp, HandleJobFailure,
               WriteRetry, CountRetry, WriteDeadLetter
      <4> QED BY <4>1 DEF FaultKinds
    <3>2. NoFaults /\ UNCHANGED faults /\ JobsOK
      BY <3>1, FaultlessStep DEF IInv
    <3>3. \A f \in FaultKinds : ~Fault(f)
      BY <3>2 DEF Fault, IInv, TypeOK
    <3>4. ASSUME NEW j \in Jobs, EnqueueJob(j) \/ Enqueue(j) \/ EnqueueFails(j)
          PROVE  JobsOK'
      BY <3>2, <3>4, RequestJobsOK
    <3>5. ASSUME NEW p \in Partitions, NEW m \in Members, Assign(m, p)
          PROVE  JobsOK'
      BY <3>2, <3>5, AssignJobsOK
    <3>6. ASSUME NEW p \in Partitions, Read(p)
          PROVE  JobsOK'
      BY <3>2, <3>6, ReadMessageJobsOK, ServiceJobsOK, SuccessJobsOK, FailureJobsOK,
         WriteRetryJobsOK DEF Read
    <3>7. ASSUME NEW p \in Partitions PROVE ~ProcessFails(p) /\ ~EndGeneration(p)
      BY <3>3 DEF ProcessFails, EndGeneration, FaultKinds
    <3>8. ASSUME NEW p \in Partitions PROVE ~CommitOffsets(p)
      BY <3>2 DEF CommitOffsets, JobsOK, PartitionOK
    <3>9. ASSUME NEW m \in Members PROVE ~Crash(m)
      BY <3>3 DEF Crash, FaultKinds
    <3>10. ASSUME NEW r \in Targets, TargetChanges(r) PROVE JobsOK'
      BY <3>2, <3>10, TargetJobsOK
    <3> QED BY <2>2, <3>4, <3>5, <3>6, <3>7, <3>8, <3>9, <3>10 DEF Next
  <2> QED BY <2>1, <2>2
<1>2. IInv /\ Inv => StatusTruthful
  <2> SUFFICES ASSUME IInv, Inv, Quiet, \A f \in FaultKinds : faults[f] = 0,
                      NEW j \in Jobs, request[j] = "accepted"
               PROVE  Resolved(j)
    BY DEF StatusTruthful, Resolved, Granted
  <2>1. JobOK(j) /\ PartitionOf[j] \in Partitions
    BY QueueAssumption DEF IInv, TypeOK, NoFaults, JobsOK
  <2>2. Handling(j) = "nothing"
    BY <2>1 DEF Handling, Quiet
  <2>3. Unread(j) = {}
    <3>1. Len(log[PartitionOf[j]]) \in Nat
      BY <2>1 DEF IInv, TypeOK
    <3> QED BY <2>1, <3>1 DEF Unread, Quiet
  <2> QED BY <2>1, <2>2, <2>3 DEF JobOK
<1>3. Init => Inv
  BY InitJobsOK
<1> QED BY IInvHolds, <1>1, <1>2, <1>3, PTL DEF Spec
==============================================================================
