--------------------------- MODULE IndexerProofs ---------------------------
(***************************************************************************)
(* The indexer forgets nothing, for any paths, contents and rules and any  *)
(* number of edits, errors and crashes.                                    *)
(*                                                                         *)
(* What makes it true is that hints are taken in between two batches only: *)
(* whatever the task saw before a change, the hint of that change is still *)
(* in the channel when the task writes what it saw.  Rules weigh more than *)
(* files: an indexed path that is ignored needs a walk, a look will not    *)
(* do, for sync_path does not ask the rules about a path the index knows.  *)
(***************************************************************************)
EXTENDS Indexer, TLAPS

-----------------------------------------------------------------------------
(* The invariant *)

\* A change of p that the task has not heard of is in the channel.
Noticed(p) == {p, Root} \cap hints # {}

\* A change of the rules about p that no walk has seen is in the channel, or it
\* came by a file that is not watched.
RulesNoticed(p) == Root \in hints \/ p \in unheard

\* A daemon that is down has nothing in hand; a path is in hand in the stages
\* that take paths one by one only; a batch alone carries a rescan with it.
Order ==
  /\ ~up => task = Idle
  /\ task.stage = "idle" => task = Idle
  /\ sync # NoSync => /\ task.stage \in {"present", "missing", "scanning", "request"}
                      /\ sync.path \in Paths /\ sync.step # "none"
  /\ task.rescan => task.stage \in {"partition", "present", "missing"}
  /\ task.stage = "missing" => task.todo \subseteq task.missing
  /\ task.stage = "scanning" => task.todo \subseteq task.discovered
  /\ task.stage = "sweeping" => task.todo \cap task.discovered = {}

\* What the task believes of the paths of its batch or walk was so, and what
\* changed since is noticed.
Beliefs ==
  /\ task.stage \in {"partition", "present", "missing"} =>
       \A p \in task.missing : disk[p] = Absent \/ Noticed(p) \/ p \in failed
  /\ task.stage \in {"scanning", "sweeping"} =>
       \A p \in Paths :
         IF p \in task.discovered
         THEN /\ disk[p] # Absent \/ Noticed(p)
              /\ p \in ignored => RulesNoticed(p)
         ELSE p \notin Discoverable \/ Noticed(p) \/ GivenUp(p)

\* The same of the path in hand: what was read is the file, and a file about
\* to be indexed that the rules exclude was indexed before.
InHand ==
  /\ sync.step = "read" => disk[sync.path] # Absent \/ Noticed(sync.path)
  /\ sync.step \in {"compare", "write"} =>
       sync.text \in Contents /\ (sync.text = disk[sync.path] \/ Noticed(sync.path))
  /\ sync.step = "tombstone" => disk[sync.path] = Absent \/ Noticed(sync.path)
  /\ sync.step \in {"read", "compare", "write"} /\ sync.path \in ignored =>
       index[sync.path] # Absent \/ RulesNoticed(sync.path)

\* An indexed path that is ignored will be met by a walk, unless its rules
\* changed unheard.
RulesApply ==
  \A p \in ignored : index[p] # Absent => RescanPending \/ ScanPending(p) \/ p \in unheard

IInv == TypeOK /\ Order /\ Beliefs /\ InHand /\ RulesApply /\ NothingForgotten

-----------------------------------------------------------------------------
(* The types *)

LEMMA InitInv == Init => IInv
<1> SUFFICES ASSUME Init PROVE IInv
  OBVIOUS
<1>1. TypeOK
  <2>1. Idle.stage = "idle" /\ Idle \in
          [stage : Stages, todo : SUBSET Paths, missing : SUBSET Paths,
           present : SUBSET Paths, created : SUBSET (Paths \X Contents),
           discovered : SUBSET Paths, rescan : BOOLEAN]
    BY DEF Idle, Stages
  <2>2. NoSync \in Sync
    BY DEF NoSync, Sync, Steps, File
  <2>3. DOMAIN held = {} /\ held \in [DOMAIN held -> Int]
    BY DEF Init
  <2>4. 0 \in 0..MaxEdits /\ 0 \in 0..MaxFaults
    BY IndexerAssumption
  <2>5. index \in [Paths -> File] /\ opener \in [Openers -> Sync]
    BY <2>2 DEF Init, File
  <2>6. QED
    BY <2>1, <2>2, <2>3, <2>4, <2>5 DEF Init, TypeOK
<1>2. Order /\ Beliefs /\ InHand
  BY DEF Init, Idle, NoSync, Order, Beliefs, InHand
<1>3. RulesApply /\ NothingForgotten
  BY DEF Init, RulesApply, NothingForgotten, RescanPending
<1>4. QED
  BY <1>1, <1>2, <1>3 DEF IInv

Tasks == [stage : Stages, todo : SUBSET Paths, missing : SUBSET Paths,
          present : SUBSET Paths, created : SUBSET (Paths \X Contents),
          discovered : SUBSET Paths, rescan : BOOLEAN]

\* The parts of the state a step may build anew have their types.
LEMMA Parts ==
  /\ Idle \in Tasks /\ Walking \in Tasks
  /\ NoSync \in Sync
  /\ \A p \in Paths : Start(p, "judge") \in Sync /\ Start(p, "read") \in Sync
                      /\ Start(p, "tombstone") \in Sync
  /\ \A file \in File : Size(file) \in Int
<1>1. Idle \in Tasks
  BY DEF Idle, Tasks, Stages
<1>2. Walking \in Tasks
  BY <1>1 DEF Walking, Tasks, Stages
<1>3. NoSync \in Sync
  BY DEF NoSync, Sync, Steps, File
<1>4. \A p \in Paths : Start(p, "judge") \in Sync /\ Start(p, "read") \in Sync
                       /\ Start(p, "tombstone") \in Sync
  BY DEF Start, Sync, Steps, File
<1>5. \A file \in File : Size(file) \in Int
  BY IndexerAssumption DEF Size, File
<1>6. QED
  BY <1>1, <1>2, <1>3, <1>4, <1>5

LEMMA UsersType ==
  ASSUME TypeOK, Users
  PROVE  TypeOK'
<1>1. edits' \in 0..MaxEdits
  <2>1. Changed
    BY DEF Users, Edit, Move, SetRules
  <2>2. MaxEdits \in Nat /\ edits \in 0..MaxEdits
    BY IndexerAssumption DEF TypeOK
  <2>3. QED
    BY <2>1, <2>2 DEF Changed
<1>2. ASSUME NEW p \in Paths, NEW file \in File, Edit(p, file)
      PROVE  TypeOK'
  BY <1>1, <1>2 DEF Edit, Hinted, log, TypeOK
<1>3. ASSUME NEW p \in Paths, NEW q \in Paths, Move(p, q)
      PROVE  TypeOK'
  <2>1. disk' \in [Paths -> File]
    BY <1>3 DEF Move, TypeOK, File
  <2>2. hints' \subseteq Paths \cup {Root}
    BY <1>3 DEF Move, Hinted, TypeOK
  <2>3. QED
    BY <1>1, <1>3, <2>1, <2>2 DEF Move, log, TypeOK
<1>4. ASSUME NEW paths \in SUBSET Paths, NEW watched \in BOOLEAN, SetRules(paths, watched)
      PROVE  TypeOK'
  <2>1. hints' \subseteq Paths \cup {Root} /\ unheard' \subseteq Paths
    BY <1>4 DEF SetRules, Hinted, TypeOK
  <2>2. QED
    BY <1>1, <1>4, <2>1 DEF SetRules, TypeOK
<1>5. QED
  BY <1>2, <1>3, <1>4 DEF Users

\* The daemon's steps between two batches.
Between ==
  \/ Boot \/ Crash
  \/ \E hint \in Paths \cup {Root} : Intake(hint)
  \/ \E quiet \in SUBSET DOMAIN held, rescan \in BOOLEAN : Due(quiet, rescan)
  \/ Rescan
  \/ \E p \in Paths : IndexPath(p)

LEMMA BetweenType ==
  ASSUME TypeOK, Between
  PROVE  TypeOK'
<1>1. CASE Boot \/ Rescan
  BY <1>1, Parts DEF Boot, Rescan, log, TypeOK, Tasks
<1>2. CASE Crash
  <2>1. faults' \in 0..MaxFaults
    BY <1>2, IndexerAssumption DEF Crash, Trouble, TypeOK
  <2>2. DOMAIN held' = {} /\ held' \in [DOMAIN held' -> Int]
    BY <1>2 DEF Crash
  <2>3. QED
    BY <1>2, <2>1, <2>2, Parts DEF Crash, TypeOK, Tasks
<1>3. ASSUME NEW hint \in Paths \cup {Root}, Intake(hint)
      PROVE  TypeOK'
  <2>1. CASE hint = Root
    BY <1>3, <2>1 DEF Intake, log, TypeOK
  <2>2. CASE hint # Root
    <3>1. hint \in Paths /\ Size(disk[hint]) \in Int
      BY <1>3, <2>2, Parts DEF TypeOK
    <3>2. held' = [p \in DOMAIN held \cup {hint} |->
                     IF p = hint THEN Size(disk[p]) ELSE held[p]]
      BY <1>3, <2>2 DEF Intake
    <3>3. DOMAIN held' \subseteq Paths /\ held' \in [DOMAIN held' -> Int]
      BY <3>1, <3>2 DEF TypeOK
    <3>4. QED
      BY <1>3, <2>2, <3>3 DEF Intake, log, TypeOK
  <2>3. QED
    BY <2>1, <2>2
<1>4. ASSUME NEW quiet \in SUBSET DOMAIN held, NEW rescan \in BOOLEAN, Due(quiet, rescan)
      PROVE  TypeOK'
  <2>1. \A p \in Paths : Size(disk[p]) \in Int
    BY Parts DEF TypeOK
  <2>2. held' = [p \in (DOMAIN held \ quiet) \cup Growing(quiet) |->
                   IF p \in quiet THEN Size(disk[p]) ELSE held[p]]
    BY <1>4 DEF Due, StillHeld
  <2>3. DOMAIN held' \subseteq Paths /\ held' \in [DOMAIN held' -> Int]
    BY <2>1, <2>2 DEF TypeOK, Growing
  <2>4. task' \in Tasks
    BY <1>4, Parts DEF Due, TypeOK, Tasks, Stages
  <2>5. rescan_held' \in BOOLEAN
    BY <1>4 DEF Due
  <2>6. QED
    BY <1>4, <2>3, <2>4, <2>5 DEF Due, TypeOK, Tasks
<1>5. ASSUME NEW p \in Paths, IndexPath(p)
      PROVE  TypeOK'
  <2>1. task' \in Tasks
    BY <1>5, Parts DEF IndexPath, Tasks, Stages
  <2>2. QED
    BY <1>5, <2>1, Parts DEF IndexPath, TypeOK, Tasks
<1>6. QED
  BY <1>1, <1>2, <1>3, <1>4, <1>5 DEF Between

\* Until it walks again the task forgets no path it gave up on.
LEMMA WorkLog ==
  ASSUME TypeOK, Order, Work
  PROVE  /\ failed' \subseteq Paths /\ unheard' \subseteq Paths /\ faults' \in 0..MaxFaults
         /\ task.stage # "walk" => failed \subseteq failed' /\ unheard \subseteq unheard'
<1> DEFINE Fine == /\ failed' \subseteq Paths /\ unheard' \subseteq Paths
                   /\ faults' \in 0..MaxFaults
                   /\ task.stage # "walk" => failed \subseteq failed' /\ unheard \subseteq unheard'
<1>1. /\ failed \subseteq Paths /\ unheard \subseteq Paths /\ faults \in 0..MaxFaults
      /\ task \in Tasks
  BY DEF TypeOK, Tasks
<1>2. Trouble => faults' \in 0..MaxFaults
  BY <1>1, IndexerAssumption DEF Trouble
<1>3. UNCHANGED log => Fine
  BY <1>1 DEF log
<1>4. ASSUME NEW paths \in SUBSET Paths, Err(paths)
      PROVE  Fine
  BY <1>1, <1>2, <1>4 DEF Err
<1>5. Err({}) => Fine
  BY <1>4
<1>6. ASSUME NEW p \in Paths, Partition(p) \/ SyncNext(p) \/ Scan(p) \/ Sweep(p)
      PROVE  Fine
  BY <1>3, <1>4, <1>5, <1>6 DEF Partition, SyncNext, Scan, Sweep
<1>7. ASSUME NEW p \in Paths, NEW entry \in task.created, Rename(p, entry)
      PROVE  Fine
  BY <1>3, <1>5, <1>7 DEF Rename
<1>8. CASE Walk
  BY <1>1, <1>2, <1>8 DEF Walk, Discoverable
<1>9. CASE RescanFails
  <2>1. task.todo \subseteq Paths
    BY <1>1 DEF Tasks
  <2>2. QED
    BY <1>1, <1>2, <1>9, <2>1 DEF RescanFails
<1>10. CASE Fail
  BY <1>4, <1>10 DEF Fail, Order
<1>11. CASE StageDone \/ Judge \/ Read \/ Compare \/ Write \/ Tombstone
  BY <1>3, <1>5, <1>11 DEF StageDone, Judge, Read, Compare, Write, Tombstone
<1>12. QED
  BY <1>6, <1>7, <1>8, <1>9, <1>10, <1>11 DEF Work

LEMMA WorkType ==
  ASSUME TypeOK, Order, InHand, Work
  PROVE  TypeOK'
<1>a. task \in Tasks /\ sync \in Sync /\ index \in [Paths -> File] /\ disk \in [Paths -> File]
  BY DEF TypeOK, Tasks
<1>b. sync.step # "none" => sync.path \in Paths
  BY DEF Order, NoSync
<1>c. ASSUME task' \in Tasks, sync' \in Sync, index' \in [Paths -> File],
             UNCHANGED <<disk, ignored, up, hints, held, rescan_held, opener, edits>>
      PROVE  TypeOK'
  BY <1>c, WorkLog DEF TypeOK, Tasks
<1>1. ASSUME NEW p \in Paths, Partition(p)
      PROVE  TypeOK'
  <2>1. task' \in Tasks
    <3>1. /\ task.todo \ {p} \in SUBSET Paths
          /\ task.present \cup {p} \in SUBSET Paths /\ task.missing \cup {p} \in SUBSET Paths
      BY <1>1, <1>a DEF Tasks
    <3>2. \/ task' = [task EXCEPT !.todo = task.todo \ {p}, !.present = task.present \cup {p}]
          \/ task' = [task EXCEPT !.todo = task.todo \ {p}, !.missing = task.missing \cup {p}]
      BY <1>1 DEF Partition
    <3>3. QED
      BY <1>a, <3>1, <3>2 DEF Tasks
  <2>2. QED
    BY <1>1, <1>a, <1>c, <2>1 DEF Partition
<1>2. ASSUME NEW p \in Paths, SyncNext(p) \/ Scan(p)
      PROVE  TypeOK'
  <2>1. task' \in Tasks
    BY <1>2, <1>a DEF SyncNext, Scan, Tasks
  <2>2. QED
    BY <1>2, <1>a, <1>c, <2>1, Parts DEF SyncNext, Scan
<1>3. ASSUME NEW p \in Paths, Sweep(p)
      PROVE  TypeOK'
  <2>1. task' \in Tasks
    BY <1>3, <1>a DEF Sweep, Tasks
  <2>2. QED
    BY <1>3, <1>a, <1>c, <2>1 DEF Sweep, File
<1>4. ASSUME NEW p \in Paths, NEW entry \in task.created, Rename(p, entry)
      PROVE  TypeOK'
  <2>1. task' \in Tasks
    BY <1>4, <1>a DEF Rename, Tasks
  <2>2. sync' \in Sync /\ index' \in [Paths -> File]
    BY <1>4, <1>a, Parts DEF Rename, File
  <2>3. QED
    BY <1>4, <1>c, <2>1, <2>2 DEF Rename
<1>5. CASE StageDone
  <2>1. task' \in Tasks
    <3>1. task' = NextStage
      BY <1>5 DEF StageDone
    <3>2. task.missing \in SUBSET Paths /\ task.present \in SUBSET Paths
      BY <1>a DEF Tasks
    <3>3. {p \in Paths : index[p] # Absent} \ task.discovered \in SUBSET Paths
      OBVIOUS
    <3>4. QED
      BY <3>1, <3>2, <3>3, <1>a, Parts DEF NextStage, Tasks, Stages
  <2>2. QED
    BY <1>5, <1>a, <1>c, <2>1 DEF StageDone
<1>6. CASE Walk
  <2>1. task' \in Tasks
    <3>1. PICK found \in SUBSET Paths :
            task' = [task EXCEPT !.stage = "scanning", !.discovered = found, !.todo = found]
      BY <1>6 DEF Walk, Discoverable
    <3>2. QED
      BY <1>a, <3>1 DEF Tasks, Stages
  <2>2. QED
    BY <1>6, <1>a, <1>c, <2>1 DEF Walk
<1>7. CASE Judge
  <2>1. Verdict(sync.path) \in Sync
    BY <1>7, <1>b, Parts DEF Judge, Verdict
  <2>2. QED
    BY <1>7, <1>a, <1>c, <2>1 DEF Judge
<1>8. CASE Read
  <2>1. sync' \in Sync
    BY <1>8, <1>a, <1>b, Parts DEF Read, Sync, Steps
  <2>2. QED
    BY <1>8, <1>a, <1>c, <2>1 DEF Read
<1>9. CASE Compare
  <2>1. sync' \in Sync
    BY <1>9, <1>a, Parts DEF Compare, Sync, Steps
  <2>2. QED
    BY <1>9, <1>a, <1>c, <2>1 DEF Compare
<1>10. CASE Write
  <2>1. sync.path \in Paths /\ sync.text \in Contents
    BY <1>10, <1>b DEF Write, InHand
  <2>2. task' \in Tasks
    BY <1>10, <1>a, <2>1 DEF Write, Tasks
  <2>3. index' \in [Paths -> File]
    BY <1>10, <1>a, <2>1 DEF Write, File
  <2>4. QED
    BY <1>10, <1>c, <2>2, <2>3, Parts DEF Write
<1>11. CASE Tombstone
  BY <1>11, <1>a, <1>c, Parts DEF Tombstone, File
<1>12. CASE RescanFails
  BY <1>12, <1>a, <1>c, Parts DEF RescanFails
<1>13. CASE Fail
  BY <1>13, <1>a, <1>c, Parts DEF Fail
<1>14. QED
  BY <1>1, <1>2, <1>3, <1>4, <1>5, <1>6, <1>7, <1>8, <1>9, <1>10, <1>11, <1>12, <1>13 DEF Work

-----------------------------------------------------------------------------
(* Users *)

\* Whoever changes what p should be in the index is noticed, if anybody is
\* there to notice.
LEMMA UsersAreNoticed ==
  ASSUME TypeOK, Users
  PROVE  /\ hints \subseteq hints'
         /\ up => \A p \in Paths : disk'[p] = disk[p] \/ Noticed(p)'
         /\ up => \A p \in Paths : (p \in ignored' <=> p \in ignored) \/ RulesNoticed(p)'
         /\ unheard \subseteq unheard'
         /\ UNCHANGED <<index, up, held, rescan_held, task, sync, opener, failed>>
<1>1. ASSUME NEW p \in Paths, NEW file \in File, Edit(p, file)
      PROVE  /\ hints \subseteq hints'
             /\ up => \A q \in Paths : disk'[q] = disk[q] \/ Noticed(q)'
             /\ ignored' = ignored
             /\ UNCHANGED <<index, up, held, rescan_held, task, sync, opener, failed, unheard>>
  BY <1>1 DEF Edit, Hinted, Noticed, TypeOK, log
<1>2. ASSUME NEW p \in Paths, NEW q \in Paths, Move(p, q)
      PROVE  /\ hints \subseteq hints'
             /\ up => \A r \in Paths : disk'[r] = disk[r] \/ Noticed(r)'
             /\ ignored' = ignored
             /\ UNCHANGED <<index, up, held, rescan_held, task, sync, opener, failed, unheard>>
  BY <1>2 DEF Move, Hinted, Noticed, TypeOK, log
<1>3. ASSUME NEW paths \in SUBSET Paths, NEW watched \in BOOLEAN, SetRules(paths, watched)
      PROVE  /\ hints \subseteq hints'
             /\ up => \A p \in Paths : (p \in ignored' <=> p \in ignored) \/ RulesNoticed(p)'
             /\ disk' = disk
             /\ unheard \subseteq unheard'
             /\ UNCHANGED <<index, up, held, rescan_held, task, sync, opener, failed>>
  BY <1>3 DEF SetRules, Hinted, RulesNoticed
<1>4. QED
  BY <1>1, <1>2, <1>3 DEF Users

LEMMA UsersKeep ==
  ASSUME IInv, Users
  PROVE  Order' /\ Beliefs' /\ InHand' /\ RulesApply' /\ NothingForgotten'
<1>1. TypeOK /\ Order /\ Beliefs /\ InHand /\ RulesApply /\ NothingForgotten
  BY DEF IInv
<1>2. /\ hints \subseteq hints'
      /\ up => \A p \in Paths : disk'[p] = disk[p] \/ Noticed(p)'
      /\ up => \A p \in Paths : (p \in ignored' <=> p \in ignored) \/ RulesNoticed(p)'
      /\ unheard \subseteq unheard'
      /\ UNCHANGED <<index, up, held, rescan_held, task, sync, opener, failed>>
  BY <1>1, UsersAreNoticed
<1>3. \A p \in Paths : /\ Noticed(p) => Noticed(p)'
                       /\ RulesNoticed(p) => RulesNoticed(p)'
                       /\ GivenUp(p) => GivenUp(p)'
  BY <1>2 DEF Noticed, RulesNoticed, GivenUp
<1>4. Order'
  BY <1>1, <1>2 DEF Order
<1>5. CASE ~up
  <2>1. task' = Idle /\ sync' = NoSync /\ ~up'
    BY <1>1, <1>2, <1>5 DEF Order, Idle
  <2>2. Beliefs' /\ InHand'
    BY <2>1 DEF Beliefs, InHand, Idle, NoSync
  <2>3. RulesApply' /\ NothingForgotten'
    BY <2>1 DEF RulesApply, NothingForgotten, RescanPending
  <2>4. QED
    BY <1>4, <2>2, <2>3
<1>6. CASE up
  <2>1. \A p \in Paths : /\ disk'[p] = disk[p] \/ Noticed(p)'
                         /\ (p \in ignored' <=> p \in ignored) \/ RulesNoticed(p)'
    BY <1>2, <1>6
  <2>2. \A p \in Paths : RulesNoticed(p)' => Noticed(p)' \/ GivenUp(p)'
    BY DEF Noticed, RulesNoticed, GivenUp
  <2>3. \A p \in Paths : p \in Discoverable' =>
                           p \in Discoverable \/ Noticed(p)' \/ GivenUp(p)'
    BY <2>1, <2>2 DEF Discoverable
  <2>4. Beliefs'
    BY <1>1, <1>2, <1>3, <2>1, <2>2, <2>3 DEF Beliefs, TypeOK
  <2>5. InHand'
    <3>1. sync.step # "none" => sync.path \in Paths
      BY <1>1 DEF Order, NoSync
    <3>2. QED
      BY <1>1, <1>2, <1>3, <2>1, <2>2, <3>1 DEF InHand
  <2>6. RulesApply'
    <3>1. ignored' \subseteq Paths
      BY <1>1, UsersType DEF TypeOK
    <3>2. QED
      BY <1>1, <1>2, <2>1, <3>1 DEF RulesApply, RescanPending, ScanPending, RulesNoticed
  <2>7. NothingForgotten'
    <3>1. \A p \in Paths : Target(p)' = Target(p) \/ Noticed(p)' \/ GivenUp(p)'
      BY <2>1, <2>2 DEF Target, Discoverable
    <3>2. \A p \in Paths : Noticed(p)' => RescanPending' \/ LookPending(p)'
      BY DEF Noticed, RescanPending, LookPending
    <3>3. \A p \in Paths : /\ RescanPending => RescanPending'
                           /\ LookPending(p) => LookPending(p)'
                           /\ ScanPending(p) => ScanPending(p)'
      BY <1>2 DEF RescanPending, LookPending, ScanPending
    <3>4. QED
      BY <1>1, <1>2, <1>3, <3>1, <3>2, <3>3 DEF NothingForgotten
  <2>8. QED
    BY <1>4, <2>4, <2>5, <2>6, <2>7
<1>7. QED
  BY <1>5, <1>6

-----------------------------------------------------------------------------
(* Between two batches *)

LEMMA BetweenKeep ==
  ASSUME IInv, Between
  PROVE  Order' /\ Beliefs' /\ InHand' /\ RulesApply' /\ NothingForgotten'
<1>1. TypeOK /\ Order /\ Beliefs /\ InHand /\ RulesApply /\ NothingForgotten
  BY DEF IInv
<1>a. ASSUME task = Idle
      PROVE  sync = NoSync
  BY <1>1, <1>a DEF Order, Idle
<1>2. CASE Boot \/ Rescan
  <2>1. /\ task' = Walking /\ sync' = NoSync /\ up'
    BY <1>1, <1>2, <1>a DEF Boot, Rescan, Order
  <2>2. task'.stage = "walk" /\ task'.rescan = FALSE
    BY <2>1 DEF Walking, Idle
  <2>3. QED
    BY <2>1, <2>2 DEF Order, Beliefs, InHand, RulesApply, NothingForgotten, RescanPending, NoSync
<1>3. CASE Crash
  <2>1. task' = Idle /\ sync' = NoSync /\ ~up'
    BY <1>3 DEF Crash
  <2>2. QED
    BY <2>1 DEF Order, Beliefs, InHand, RulesApply, NothingForgotten, RescanPending, Idle, NoSync
<1>4. ASSUME NEW hint \in Paths \cup {Root}, Intake(hint)
      PROVE  Order' /\ Beliefs' /\ InHand' /\ RulesApply' /\ NothingForgotten'
  <2>1. /\ up /\ task = Idle /\ sync = NoSync
        /\ hints' = hints \ {hint}
        /\ UNCHANGED <<disk, ignored, index, up, task, sync, failed, unheard>>
    BY <1>1, <1>4, <1>a DEF Intake, Order, log
  <2>2. Order' /\ Beliefs' /\ InHand'
    BY <2>1 DEF Order, Beliefs, InHand, Idle, NoSync
  <2>3. hint = Root => rescan_held' /\ held' = held
    BY <1>4 DEF Intake
  <2>4. hint # Root => rescan_held' = rescan_held /\ DOMAIN held' = DOMAIN held \cup {hint}
    BY <1>4 DEF Intake
  <2>5. RescanPending => RescanPending'
    BY <2>1, <2>3, <2>4 DEF RescanPending
  <2>6. \A p \in Paths : LookPending(p) => LookPending(p)'
    <3>1. Root \notin Paths
      BY IndexerAssumption
    <3>2. QED
      BY <2>1, <2>3, <2>4, <3>1 DEF LookPending
  <2>7. \A p \in Paths : ~ScanPending(p)
    BY <2>1 DEF ScanPending, Idle
  <2>8. RulesApply' /\ NothingForgotten'
    BY <1>1, <2>1, <2>5, <2>6, <2>7
    DEF RulesApply, NothingForgotten, Target, Discoverable, GivenUp, TypeOK
  <2>9. QED
    BY <2>2, <2>8
<1>5. ASSUME NEW quiet \in SUBSET DOMAIN held, NEW rescan \in BOOLEAN, Due(quiet, rescan)
      PROVE  Order' /\ Beliefs' /\ InHand' /\ RulesApply' /\ NothingForgotten'
  <2>1. /\ up /\ task = Idle /\ sync = NoSync
        /\ rescan_held' = (rescan_held /\ ~rescan)
        /\ failed' = failed \ (quiet \ Growing(quiet))
        /\ UNCHANGED <<disk, ignored, index, up, hints, sync, unheard>>
    BY <1>1, <1>5, <1>a DEF Due, Order
  <2>2. /\ task'.stage = "partition" /\ task'.todo = quiet \ Growing(quiet)
        /\ task'.missing = {} /\ task'.rescan = rescan
    BY <1>5 DEF Due, Idle
  <2>3. Order' /\ Beliefs' /\ InHand'
    BY <2>1, <2>2 DEF Order, Beliefs, InHand, NoSync
  <2>4. RescanPending => RescanPending'
    BY <2>1, <2>2 DEF RescanPending, Idle
  <2>5. \A p \in Paths : LookPending(p) => LookPending(p)'
    <3>1. DOMAIN held' = (DOMAIN held \ quiet) \cup Growing(quiet)
      BY <1>5 DEF Due, StillHeld
    <3>2. QED
      BY <2>1, <2>2, <3>1 DEF LookPending, Idle
  <2>6. \A p \in Paths : ~ScanPending(p)
    BY <2>1 DEF ScanPending, Idle
  <2>7. \A p \in Paths : GivenUp(p) => GivenUp(p)' \/ LookPending(p)'
    BY <2>1, <2>2 DEF GivenUp, LookPending
  <2>8. RulesApply' /\ NothingForgotten'
    BY <1>1, <2>1, <2>4, <2>5, <2>6, <2>7
    DEF RulesApply, NothingForgotten, Target, Discoverable, TypeOK
  <2>9. QED
    BY <2>3, <2>8
<1>6. ASSUME NEW p \in Paths, IndexPath(p)
      PROVE  Order' /\ Beliefs' /\ InHand' /\ RulesApply' /\ NothingForgotten'
  <2>1. /\ up /\ task = Idle /\ sync = NoSync
        /\ sync' = Start(p, "judge")
        /\ failed' = failed \ {p}
        /\ UNCHANGED <<disk, ignored, index, up, hints, held, rescan_held, unheard>>
    BY <1>1, <1>6, <1>a DEF IndexPath, Order
  <2>2. task'.stage = "request" /\ task'.todo = {} /\ task'.rescan = FALSE
    BY <1>6 DEF IndexPath, Idle
  <2>3. Order' /\ Beliefs' /\ InHand'
    BY <2>1, <2>2 DEF Order, Beliefs, InHand, Start
  <2>4. RescanPending => RescanPending'
    BY <2>1, <2>2 DEF RescanPending, Idle
  <2>5. NoPath \notin Paths
    BY IndexerAssumption
  <2>6. \A q \in Paths : LookPending(q) => LookPending(q)'
    BY <2>1, <2>2, <2>5 DEF LookPending, Idle, NoSync
  <2>7. \A q \in Paths : ~ScanPending(q)
    BY <2>1 DEF ScanPending, Idle
  <2>8. \A q \in Paths : GivenUp(q) => GivenUp(q)' \/ LookPending(q)'
    BY <2>1 DEF GivenUp, LookPending, Start
  <2>9. RulesApply' /\ NothingForgotten'
    BY <1>1, <2>1, <2>4, <2>6, <2>7, <2>8
    DEF RulesApply, NothingForgotten, Target, Discoverable, TypeOK
  <2>10. QED
    BY <2>3, <2>9
<1>7. QED
  BY <1>2, <1>3, <1>4, <1>5, <1>6 DEF Between

-----------------------------------------------------------------------------
(* The work of the task *)

\* Only a daemon that is up works, and its work changes neither the files nor
\* what is still to be heard of them.
LEMMA WorkFrame ==
  ASSUME IInv, Work
  PROVE  /\ up /\ task.stage # "idle"
         /\ UNCHANGED <<disk, ignored, up, hints, held, rescan_held>>
         /\ \A p : Noticed(p)' = Noticed(p)
         /\ Discoverable' = Discoverable
         /\ \A p \in Paths : Target(p)' = Target(p)
         /\ task.stage # "walk" =>
              \A p : /\ (p \in failed => p \in failed') /\ (p \in unheard => p \in unheard')
                     /\ (GivenUp(p) => GivenUp(p)') /\ (RulesNoticed(p) => RulesNoticed(p)')
<1>1. Order
  BY DEF IInv
<1>2. task.stage # "idle"
  <2>1. CASE sync # NoSync
    BY <1>1, <2>1 DEF Order
  <2>2. CASE sync = NoSync
    BY <2>2 DEF Work, Partition, SyncNext, Scan, Sweep, Rename, StageDone, Walk,
                RescanFails, Judge, Read, Compare, Write, Tombstone, Fail, NoSync
  <2>3. QED
    BY <2>1, <2>2
<1>3. up
  BY <1>1, <1>2 DEF Order, Idle
<1>4. UNCHANGED <<disk, ignored, up, hints, held, rescan_held>>
  BY DEF Work, Partition, SyncNext, Scan, Sweep, Rename, StageDone, Walk,
         RescanFails, Judge, Read, Compare, Write, Tombstone, Fail
<1>5. task.stage # "walk" => failed \subseteq failed' /\ unheard \subseteq unheard'
  BY <1>1, WorkLog DEF IInv
<1>6. QED
  BY <1>2, <1>3, <1>4, <1>5 DEF Noticed, Discoverable, Target, GivenUp, RulesNoticed

\* A path leaves the batch for a set of its own, or for the hand.
LEMMA BatchKeep ==
  ASSUME IInv, Work, NEW p \in Paths, Partition(p) \/ SyncNext(p)
  PROVE  Order' /\ Beliefs' /\ InHand' /\ RulesApply' /\ NothingForgotten'
<1>1. TypeOK /\ Order /\ Beliefs /\ InHand /\ RulesApply /\ NothingForgotten
  BY DEF IInv
<1>2. /\ up /\ task.stage # "idle"
      /\ UNCHANGED <<disk, ignored, up, hints, held, rescan_held>>
      /\ \A q : Noticed(q)' = Noticed(q)
      /\ Discoverable' = Discoverable
      /\ \A q \in Paths : Target(q)' = Target(q)
      /\ task.stage # "walk" =>
           \A q : /\ (q \in failed => q \in failed') /\ (q \in unheard => q \in unheard')
                  /\ (GivenUp(q) => GivenUp(q)') /\ (RulesNoticed(q) => RulesNoticed(q)')
  BY WorkFrame
<1>a. task \in Tasks /\ NoPath \notin Paths
  BY <1>1, IndexerAssumption DEF TypeOK, Tasks
<1>3. CASE Partition(p)
  <2>1. /\ task.stage = "partition" /\ p \in task.todo
        /\ task'.stage = "partition" /\ task'.rescan = task.rescan
        /\ task'.todo = task.todo \ {p}
        /\ \/ task'.present = task.present \cup {p} /\ task'.missing = task.missing
           \/ /\ task'.missing = task.missing \cup {p} /\ task'.present = task.present
              /\ disk[p] = Absent \/ p \in failed'
        /\ UNCHANGED <<index, sync>>
    BY <1>3, <1>a DEF Partition, Err, Tasks
  <2>2. Order' /\ InHand'
    BY <1>1, <1>2, <2>1 DEF Order, InHand, Idle
  <2>3. Beliefs'
    BY <1>1, <1>2, <2>1 DEF Beliefs
  <2>4. RescanPending' = RescanPending
    BY <1>2, <2>1 DEF RescanPending
  <2>5. \A q \in Paths : LookPending(q) => LookPending(q)'
    BY <1>2, <2>1 DEF LookPending
  <2>6. \A q \in Paths : ~ScanPending(q)
    BY <2>1 DEF ScanPending
  <2>7. RulesApply' /\ NothingForgotten'
    BY <1>1, <1>2, <2>1, <2>4, <2>5, <2>6 DEF RulesApply, NothingForgotten, TypeOK
  <2>8. QED
    BY <2>2, <2>3, <2>7
<1>4. CASE SyncNext(p)
  <2>1. /\ task.stage \in {"present", "missing"} /\ p \in task.todo
        /\ sync = NoSync /\ sync' = Start(p, "judge")
        /\ task'.stage = task.stage /\ task'.rescan = task.rescan
        /\ task'.todo = task.todo \ {p}
        /\ task'.present = task.present /\ task'.missing = task.missing
        /\ UNCHANGED index
    BY <1>4, <1>a DEF SyncNext, Tasks
  <2>2. Order' /\ InHand'
    BY <1>1, <1>2, <2>1 DEF Order, InHand, Start
  <2>3. Beliefs'
    BY <1>1, <1>2, <2>1 DEF Beliefs
  <2>4. RescanPending' = RescanPending
    BY <1>2, <2>1 DEF RescanPending
  <2>5. \A q \in Paths : LookPending(q) => LookPending(q)'
    BY <1>2, <1>a, <2>1 DEF LookPending, NoSync, Start
  <2>6. \A q \in Paths : ~ScanPending(q)
    BY <2>1 DEF ScanPending
  <2>7. RulesApply' /\ NothingForgotten'
    BY <1>1, <1>2, <2>1, <2>4, <2>5, <2>6 DEF RulesApply, NothingForgotten, TypeOK
  <2>8. QED
    BY <2>2, <2>3, <2>7
<1>5. QED
  BY <1>3, <1>4

\* A missing path whose content moved: it is tombstoned because it was missing,
\* and if a file is there again the hint of it is still to be heard.
LEMMA RenameKeep ==
  ASSUME IInv, Work, NEW p \in Paths, NEW entry \in task.created, Rename(p, entry)
  PROVE  Order' /\ Beliefs' /\ InHand' /\ RulesApply' /\ NothingForgotten'
<1>1. TypeOK /\ Order /\ Beliefs /\ InHand /\ RulesApply /\ NothingForgotten
  BY DEF IInv
<1>2. /\ up /\ task.stage # "idle"
      /\ UNCHANGED <<disk, ignored, up, hints, held, rescan_held>>
      /\ \A q : Noticed(q)' = Noticed(q)
      /\ Discoverable' = Discoverable
      /\ \A q \in Paths : Target(q)' = Target(q)
      /\ task.stage # "walk" =>
           \A q : /\ (q \in failed => q \in failed') /\ (q \in unheard => q \in unheard')
                  /\ (GivenUp(q) => GivenUp(q)') /\ (RulesNoticed(q) => RulesNoticed(q)')
  BY WorkFrame
<1>a. task \in Tasks /\ NoPath \notin Paths /\ index \in [Paths -> File]
  BY <1>1, IndexerAssumption DEF TypeOK, Tasks
<1>3. /\ task.stage = "missing" /\ p \in task.todo /\ sync = NoSync
      /\ task'.stage = "missing" /\ task'.rescan = task.rescan
      /\ task'.todo = task.todo \ {p}
      /\ task'.present = task.present /\ task'.missing = task.missing
      /\ \/ index' = [index EXCEPT ![p] = Absent] /\ sync' = NoSync
         \/ sync' = Start(p, "judge") /\ index' = index
  BY <1>a DEF Rename, Tasks
<1>4. Order' /\ InHand'
  BY <1>1, <1>2, <1>3 DEF Order, InHand, Start, NoSync
<1>5. Beliefs'
  BY <1>1, <1>2, <1>3 DEF Beliefs
<1>6. RescanPending' = RescanPending
  BY <1>2, <1>3 DEF RescanPending
<1>7. \A q \in Paths : ~ScanPending(q)
  BY <1>3 DEF ScanPending
<1>8. RulesApply'
  BY <1>1, <1>2, <1>3, <1>6, <1>7, <1>a DEF RulesApply, TypeOK
<1>9. NothingForgotten'
  <2>1. \A q \in Paths \ {p} : LookPending(q) => LookPending(q)'
    BY <1>2, <1>3, <1>a DEF LookPending, NoSync, Start
  <2>2. \A q \in Paths \ {p} : index'[q] = index[q]
    BY <1>3, <1>a
  <2>3. index'[p] = Target(p) \/ Noticed(p) \/ LookPending(p)' \/ GivenUp(p)'
    <3>1. CASE sync' = Start(p, "judge")
      BY <3>1 DEF LookPending, Start
    <3>2. CASE index' = [index EXCEPT ![p] = Absent]
      <4>1. index'[p] = Absent /\ p \in task.missing
        BY <1>1, <1>3, <1>a, <3>2 DEF Order
      <4>2. disk[p] = Absent \/ Noticed(p) \/ GivenUp(p)
        BY <1>1, <1>3, <4>1 DEF Beliefs, GivenUp
      <4>3. disk[p] = Absent => Target(p) = Absent
        BY DEF Target
      <4>4. GivenUp(p) => GivenUp(p)'
        BY <1>2, <1>3
      <4>5. QED
        BY <4>1, <4>2, <4>3, <4>4
    <3>3. QED
      BY <1>3, <3>1, <3>2
  <2>4. Noticed(p) => RescanPending' \/ LookPending(p)'
    BY <1>2 DEF Noticed, RescanPending, LookPending
  <2>5. \A q \in Paths : (GivenUp(q) => GivenUp(q)') /\ Target(q)' = Target(q)
    BY <1>2, <1>3
  <2>6. QED
    BY <1>1, <1>6, <1>7, <2>1, <2>2, <2>3, <2>4, <2>5 DEF NothingForgotten
<1>10. QED
  BY <1>4, <1>5, <1>8, <1>9

\* No stage ends with a path it should have come to.
LEMMA StageKeep ==
  ASSUME IInv, Work, StageDone
  PROVE  Order' /\ Beliefs' /\ InHand' /\ RulesApply' /\ NothingForgotten'
<1>1. TypeOK /\ Order /\ Beliefs /\ InHand /\ RulesApply /\ NothingForgotten
  BY DEF IInv
<1>2. /\ up /\ task.stage # "idle"
      /\ UNCHANGED <<disk, ignored, up, hints, held, rescan_held>>
      /\ \A q : Noticed(q)' = Noticed(q)
      /\ Discoverable' = Discoverable
      /\ \A q \in Paths : Target(q)' = Target(q)
      /\ task.stage # "walk" =>
           \A q : /\ (q \in failed => q \in failed') /\ (q \in unheard => q \in unheard')
                  /\ (GivenUp(q) => GivenUp(q)') /\ (RulesNoticed(q) => RulesNoticed(q)')
  BY WorkFrame
<1>a. task \in Tasks /\ NoPath \notin Paths
  BY <1>1, IndexerAssumption DEF TypeOK, Tasks
<1>3. /\ task.stage \notin {"idle", "walk"}
      /\ task.todo = {} /\ sync = NoSync
      /\ task' = NextStage /\ sync' = NoSync /\ index' = index
  BY DEF StageDone
<1>4. InHand'
  BY <1>3 DEF InHand, NoSync
<1>5. CASE task.stage \in {"partition", "present"}
  <2>1. /\ task'.stage = IF task.stage = "partition" THEN "present" ELSE "missing"
        /\ task'.todo = IF task.stage = "partition" THEN task.present ELSE task.missing
        /\ task'.present = task.present /\ task'.missing = task.missing
        /\ task'.rescan = task.rescan
    BY <1>3, <1>5, <1>a DEF NextStage, Tasks
  <2>2. Order' /\ Beliefs'
    BY <1>1, <1>2, <1>3, <1>5, <2>1 DEF Order, Beliefs
  <2>3. RescanPending' = RescanPending
    BY <1>2, <1>5, <2>1 DEF RescanPending
  <2>4. \A q \in Paths : LookPending(q) => LookPending(q)'
    BY <1>2, <1>3, <1>5, <2>1 DEF LookPending
  <2>5. \A q \in Paths : ~ScanPending(q)
    BY <1>5 DEF ScanPending
  <2>6. RulesApply' /\ NothingForgotten'
    BY <1>1, <1>2, <1>3, <2>3, <2>4, <2>5 DEF RulesApply, NothingForgotten, TypeOK
  <2>7. QED
    BY <1>4, <2>2, <2>6
<1>6. CASE task.stage = "missing" /\ task.rescan
  <2>1. task' = Walking
    BY <1>3, <1>6 DEF NextStage
  <2>2. QED
    BY <1>2, <1>3, <1>4, <2>1
    DEF Walking, Idle, Order, Beliefs, RulesApply, NothingForgotten, RescanPending
<1>7. CASE task.stage = "scanning"
  <2>1. /\ task'.stage = "sweeping" /\ task'.rescan = task.rescan
        /\ task'.todo = {q \in Paths : index[q] # Absent} \ task.discovered
        /\ task'.discovered = task.discovered
    BY <1>3, <1>7, <1>a DEF NextStage, Tasks
  <2>2. Order' /\ Beliefs'
    BY <1>1, <1>2, <1>3, <1>7, <2>1 DEF Order, Beliefs
  <2>3. RescanPending' = RescanPending
    BY <1>2, <1>7, <2>1 DEF RescanPending
  <2>4. \A q \in Paths : LookPending(q) => LookPending(q)'
    BY <1>2, <1>3, <1>7, <2>1 DEF LookPending
  <2>5. \A q \in Paths : ScanPending(q) /\ index[q] # Absent => ScanPending(q)'
    BY <1>3, <1>7, <2>1 DEF ScanPending
  <2>6. RulesApply'
    BY <1>1, <1>2, <1>3, <2>3, <2>5 DEF RulesApply, TypeOK
  <2>7. \A q \in Paths : ScanPending(q) /\ index[q] = Absent =>
                           index[q] = Target(q) \/ Noticed(q) \/ GivenUp(q)
    BY <1>1, <1>3, <1>7 DEF ScanPending, Beliefs, Target
  <2>8. \A q \in Paths : Noticed(q) => RescanPending \/ LookPending(q)
    BY DEF Noticed, RescanPending, LookPending
  <2>9. NothingForgotten'
    BY <1>1, <1>2, <1>3, <2>3, <2>4, <2>5, <2>7, <2>8 DEF NothingForgotten
  <2>10. QED
    BY <1>4, <2>2, <2>6, <2>9
<1>8. CASE task.stage \in {"sweeping", "request"} \/ (task.stage = "missing" /\ ~task.rescan)
  <2>1. task' = Idle
    BY <1>3, <1>8 DEF NextStage
  <2>2. Order' /\ Beliefs'
    BY <1>3, <2>1 DEF Order, Beliefs, Idle
  <2>3. \A q \in Paths : ~ScanPending(q)
    BY <1>3, <1>8 DEF ScanPending
  <2>4. RescanPending => RescanPending'
    BY <1>1, <1>2, <1>8, <2>1 DEF RescanPending, Idle, Order
  <2>5. \A q \in Paths : LookPending(q) => LookPending(q)'
    BY <1>2, <1>3, <1>8, <2>1 DEF LookPending, Idle
  <2>6. QED
    BY <1>1, <1>2, <1>3, <1>4, <2>2, <2>3, <2>4, <2>5 DEF RulesApply, NothingForgotten, TypeOK
<1>9. task.stage \in Stages
  BY <1>a DEF Tasks
<1>10. CASE task.stage = "missing"
  BY <1>6, <1>8, <1>10
<1>11. task.stage \in {"partition", "present", "missing", "scanning", "sweeping", "request"}
  BY <1>3, <1>9 DEF Stages
<1>12. CASE task.stage \in {"sweeping", "request"}
  BY <1>8, <1>12
<1>13. QED
  BY <1>5, <1>7, <1>10, <1>11, <1>12

\* A walk meets every path: what it finds is scanned, the rest is swept, what it
\* skips is given up.
LEMMA WalkKeep ==
  ASSUME IInv, Work, Walk
  PROVE  Order' /\ Beliefs' /\ InHand' /\ RulesApply' /\ NothingForgotten'
<1>1. TypeOK /\ Order /\ Beliefs /\ InHand /\ RulesApply /\ NothingForgotten
  BY DEF IInv
<1>2. /\ up /\ task.stage # "idle"
      /\ UNCHANGED <<disk, ignored, up, hints, held, rescan_held>>
      /\ \A q : Noticed(q)' = Noticed(q)
      /\ Discoverable' = Discoverable
      /\ \A q \in Paths : Target(q)' = Target(q)
      /\ task.stage # "walk" =>
           \A q : /\ (q \in failed => q \in failed') /\ (q \in unheard => q \in unheard')
                  /\ (GivenUp(q) => GivenUp(q)') /\ (RulesNoticed(q) => RulesNoticed(q)')
  BY WorkFrame
<1>a. task \in Tasks /\ NoPath \notin Paths /\ index \in [Paths -> File] /\ sync \in Sync
  BY <1>1, IndexerAssumption DEF TypeOK, Tasks
<1>3. /\ task.stage = "walk" /\ task'.stage = "scanning"
      /\ task'.discovered = Discoverable \ failed' /\ task'.todo = Discoverable \ failed'
      /\ task'.rescan = task.rescan
      /\ sync' = sync /\ index' = index
  BY <1>a DEF Walk, Tasks
<1>4. sync = NoSync /\ ~task.rescan
  BY <1>1, <1>3 DEF Order
<1>5. Order' /\ InHand'
  BY <1>2, <1>3, <1>4 DEF Order, InHand, NoSync
<1>6. Beliefs'
  BY <1>2, <1>3 DEF Beliefs, Discoverable, GivenUp
<1>7. \A q \in Paths : ScanPending(q)'
  BY <1>3 DEF ScanPending
<1>8. RulesApply' /\ NothingForgotten'
  BY <1>1, <1>2, <1>7 DEF RulesApply, NothingForgotten, TypeOK
<1>9. QED
  BY <1>5, <1>6, <1>8

\* A rescan that fails gives up the paths it had still to come to.
LEMMA RescanFailsKeep ==
  ASSUME IInv, Work, RescanFails
  PROVE  Order' /\ Beliefs' /\ InHand' /\ RulesApply' /\ NothingForgotten'
<1>1. TypeOK /\ Order /\ Beliefs /\ InHand /\ RulesApply /\ NothingForgotten
  BY DEF IInv
<1>2. /\ up /\ task.stage # "idle"
      /\ UNCHANGED <<disk, ignored, up, hints, held, rescan_held>>
      /\ \A q : Noticed(q)' = Noticed(q)
      /\ Discoverable' = Discoverable
      /\ \A q \in Paths : Target(q)' = Target(q)
  BY WorkFrame
<1>3. /\ task.stage \in {"walk", "sweeping"} /\ task' = Idle
      /\ sync' = sync /\ index' = index /\ failed' = failed
      /\ unheard' = unheard \cup (IF task.stage = "walk" THEN Paths ELSE task.todo)
  BY DEF RescanFails
<1>4. sync = NoSync /\ ~task.rescan
  BY <1>1, <1>3 DEF Order
<1>5. Order' /\ Beliefs' /\ InHand'
  BY <1>3, <1>4 DEF Order, Beliefs, InHand, Idle, NoSync
<1>6. CASE task.stage = "walk"
  <2>1. \A q \in Paths : q \in unheard'
    BY <1>3, <1>6
  <2>2. RulesApply'
    <3>1. ignored' = ignored /\ ignored \subseteq Paths
      BY <1>1, <1>2 DEF TypeOK
    <3>2. QED
      BY <2>1, <3>1 DEF RulesApply
  <2>3. NothingForgotten'
    BY <2>1 DEF NothingForgotten, GivenUp
  <2>4. QED
    BY <1>5, <2>2, <2>3
<1>7. CASE task.stage = "sweeping"
  <2>1. RescanPending => RescanPending'
    BY <1>2, <1>3, <1>4, <1>7 DEF RescanPending, Idle
  <2>2. \A q \in Paths : /\ LookPending(q) => LookPending(q)'
                         /\ ScanPending(q) => q \in unheard'
                         /\ q \in unheard => q \in unheard'
    BY <1>2, <1>3, <1>7 DEF LookPending, ScanPending
  <2>3. RulesApply'
    BY <1>1, <1>2, <1>3, <2>1, <2>2 DEF RulesApply, TypeOK
  <2>4. \A q \in Paths : ScanPending(q) \/ GivenUp(q) => GivenUp(q)'
    BY <1>3, <2>2 DEF GivenUp
  <2>5. \A q \in Paths : index'[q] = index[q] /\ Target(q)' = Target(q)
    BY <1>2, <1>3
  <2>6. NothingForgotten'
    <3> SUFFICES ASSUME NEW q \in Paths, index'[q] # Target(q)'
                 PROVE  RescanPending' \/ LookPending(q)' \/ ScanPending(q)' \/ GivenUp(q)'
      BY DEF NothingForgotten
    <3>1. index[q] # Target(q)
      BY <2>5
    <3>2. RescanPending \/ LookPending(q) \/ ScanPending(q) \/ GivenUp(q)
      BY <1>1, <3>1 DEF NothingForgotten
    <3>3. QED
      BY <2>1, <2>2, <2>4, <3>2
  <2>7. QED
    BY <1>5, <2>3, <2>6
<1>8. QED
  BY <1>3, <1>5, <1>6, <1>7

LEMMA ScanKeep ==
  ASSUME IInv, Work, NEW p \in Paths, Scan(p)
  PROVE  Order' /\ Beliefs' /\ InHand' /\ RulesApply' /\ NothingForgotten'
<1>1. TypeOK /\ Order /\ Beliefs /\ InHand /\ RulesApply /\ NothingForgotten
  BY DEF IInv
<1>2. /\ up /\ task.stage # "idle"
      /\ UNCHANGED <<disk, ignored, up, hints, held, rescan_held>>
      /\ \A q : Noticed(q)' = Noticed(q)
      /\ Discoverable' = Discoverable
      /\ \A q \in Paths : Target(q)' = Target(q)
      /\ task.stage # "walk" =>
           \A q : /\ (q \in failed => q \in failed') /\ (q \in unheard => q \in unheard')
                  /\ (GivenUp(q) => GivenUp(q)') /\ (RulesNoticed(q) => RulesNoticed(q)')
  BY WorkFrame
<1>a. task \in Tasks /\ NoPath \notin Paths /\ index \in [Paths -> File] /\ sync \in Sync
  BY <1>1, IndexerAssumption DEF TypeOK, Tasks
<1>3. /\ task.stage = "scanning" /\ sync = NoSync /\ p \in task.todo
      /\ task'.stage = "scanning" /\ task'.discovered = task.discovered
      /\ task'.todo = task.todo \ {p} /\ task'.rescan = task.rescan
      /\ sync' = Start(p, "read") /\ index' = index
  BY <1>a DEF Scan, Tasks
<1>4. p \in task.discovered
  BY <1>1, <1>3 DEF Order
<1>5. (disk[p] # Absent \/ Noticed(p)) /\ (p \in ignored => RulesNoticed(p))
  BY <1>1, <1>3, <1>4 DEF Beliefs
<1>6. Order' /\ Beliefs'
  BY <1>1, <1>2, <1>3 DEF Order, Beliefs, Start
<1>7. InHand'
  BY <1>2, <1>3, <1>5 DEF InHand, Start
<1>8. RescanPending' = RescanPending
  BY <1>2, <1>3 DEF RescanPending
<1>9. \A q \in Paths \ {p} : ScanPending(q) => ScanPending(q)'
  BY <1>3 DEF ScanPending
<1>10. RulesApply'
  BY <1>1, <1>2, <1>3, <1>5, <1>8, <1>9 DEF RulesApply, RescanPending, RulesNoticed, TypeOK
<1>11. \A q \in Paths : LookPending(q) => LookPending(q)'
  BY <1>2, <1>3, <1>a DEF LookPending, NoSync, Start
<1>12. LookPending(p)'
  BY <1>3 DEF LookPending, Start
<1>13. NothingForgotten'
  BY <1>1, <1>2, <1>3, <1>8, <1>9, <1>11, <1>12 DEF NothingForgotten
<1>14. QED
  BY <1>6, <1>7, <1>10, <1>13

\* A path swept away was not there, or is noticed, or given up.
LEMMA SweepKeep ==
  ASSUME IInv, Work, NEW p \in Paths, Sweep(p)
  PROVE  Order' /\ Beliefs' /\ InHand' /\ RulesApply' /\ NothingForgotten'
<1>1. TypeOK /\ Order /\ Beliefs /\ InHand /\ RulesApply /\ NothingForgotten
  BY DEF IInv
<1>2. /\ up /\ task.stage # "idle"
      /\ UNCHANGED <<disk, ignored, up, hints, held, rescan_held>>
      /\ \A q : Noticed(q)' = Noticed(q)
      /\ Discoverable' = Discoverable
      /\ \A q \in Paths : Target(q)' = Target(q)
      /\ task.stage # "walk" =>
           \A q : /\ (q \in failed => q \in failed') /\ (q \in unheard => q \in unheard')
                  /\ (GivenUp(q) => GivenUp(q)') /\ (RulesNoticed(q) => RulesNoticed(q)')
  BY WorkFrame
<1>a. task \in Tasks /\ NoPath \notin Paths /\ index \in [Paths -> File] /\ sync \in Sync
  BY <1>1, IndexerAssumption DEF TypeOK, Tasks
<1>3. /\ task.stage = "sweeping" /\ p \in task.todo
      /\ task'.stage = "sweeping" /\ task'.discovered = task.discovered
      /\ task'.todo = task.todo \ {p} /\ task'.rescan = task.rescan
      /\ sync' = sync /\ index' = [index EXCEPT ![p] = Absent]
  BY <1>a DEF Sweep, Tasks
<1>4. sync = NoSync
  BY <1>1, <1>3 DEF Order
<1>5. Order' /\ Beliefs' /\ InHand'
  BY <1>1, <1>2, <1>3, <1>4 DEF Order, Beliefs, InHand, NoSync
<1>6. RescanPending' = RescanPending
  BY <1>2, <1>3 DEF RescanPending
<1>7. \A q \in Paths : /\ q # p /\ ScanPending(q) => ScanPending(q)'
                       /\ LookPending(q) => LookPending(q)'
                       /\ q # p => index'[q] = index[q]
  BY <1>2, <1>3, <1>a DEF ScanPending, LookPending
<1>8. RulesApply'
  BY <1>1, <1>2, <1>3, <1>6, <1>7, <1>a DEF RulesApply, TypeOK
<1>9. index'[p] = Target(p) \/ Noticed(p) \/ GivenUp(p)
  BY <1>1, <1>3, <1>a DEF Order, Beliefs, Target
<1>10. Noticed(p) => RescanPending' \/ LookPending(p)'
  BY <1>2 DEF Noticed, RescanPending, LookPending
<1>11. \A q \in Paths : (GivenUp(q) => GivenUp(q)') /\ Target(q)' = Target(q)
  BY <1>2, <1>3
<1>12. NothingForgotten'
  BY <1>1, <1>6, <1>7, <1>9, <1>10, <1>11 DEF NothingForgotten
<1>13. QED
  BY <1>5, <1>8, <1>12

-----------------------------------------------------------------------------
(* The path in hand *)

\* What has to be shown of a step with the path p in hand that leaves the task
\* where it is: p is right afterwards, or still in hand, noticed or given up, and
\* stays under the rules.
LEMMA HandKeep ==
  ASSUME IInv, Work, NEW p \in Paths, sync.path = p,
         UNCHANGED <<task.stage, task.todo, task.missing, task.present,
                     task.discovered, task.rescan>>,
         task' \in Tasks, sync' \in Sync,
         index' = index \/ \E file \in File : index' = [index EXCEPT ![p] = file],
         sync' = NoSync \/ (sync'.path = p /\ sync'.step # "none"),
         InHand',
         index'[p] = Target(p) \/ p \in ignored \/ Noticed(p) \/ sync'.path = p \/ p \in failed',
         p \in ignored /\ index'[p] # Absent => index[p] # Absent \/ RulesNoticed(p)
  PROVE  Order' /\ Beliefs' /\ InHand' /\ RulesApply' /\ NothingForgotten'
<1>1. TypeOK /\ Order /\ Beliefs /\ InHand /\ RulesApply /\ NothingForgotten
  BY DEF IInv
<1>2. /\ up /\ task.stage # "idle"
      /\ UNCHANGED <<disk, ignored, up, hints, held, rescan_held>>
      /\ \A q : Noticed(q)' = Noticed(q)
      /\ Discoverable' = Discoverable
      /\ \A q \in Paths : Target(q)' = Target(q)
      /\ task.stage # "walk" =>
           \A q : /\ (q \in failed => q \in failed') /\ (q \in unheard => q \in unheard')
                  /\ (GivenUp(q) => GivenUp(q)') /\ (RulesNoticed(q) => RulesNoticed(q)')
  BY WorkFrame
<1>a. task \in Tasks /\ NoPath \notin Paths /\ index \in [Paths -> File] /\ sync \in Sync
  BY <1>1, IndexerAssumption DEF TypeOK, Tasks
<1>3. sync # NoSync /\ task.stage # "walk"
  BY <1>1, <1>a DEF Order, NoSync
<1>4. /\ task'.stage = task.stage /\ task'.todo = task.todo
      /\ task'.missing = task.missing /\ task'.present = task.present
      /\ task'.discovered = task.discovered /\ task'.rescan = task.rescan
  OBVIOUS
<1>5. Order'
  BY <1>1, <1>2, <1>3, <1>4 DEF Order, Idle
<1>6. Beliefs'
  BY <1>1, <1>2, <1>3, <1>4 DEF Beliefs
<1>7. RescanPending' = RescanPending /\ \A q \in Paths : ScanPending(q)' = ScanPending(q)
  BY <1>2, <1>4 DEF RescanPending, ScanPending
<1>8. \A q \in Paths \ {p} : index'[q] = index[q] /\ (LookPending(q) => LookPending(q)')
  BY <1>2, <1>4, <1>a DEF LookPending
<1>9. RulesApply'
  BY <1>1, <1>2, <1>3, <1>7, <1>8 DEF RulesApply, RescanPending, RulesNoticed, TypeOK
<1>10. Noticed(p) \/ sync'.path = p => RescanPending' \/ LookPending(p)'
  BY <1>2 DEF Noticed, RescanPending, LookPending
<1>11. p \in ignored /\ index'[p] # Target(p) =>
        RescanPending' \/ ScanPending(p)' \/ GivenUp(p)'
  BY <1>2, <1>9 DEF RulesApply, Target, Discoverable, GivenUp
<1>12. p \in failed' => GivenUp(p)'
  BY DEF GivenUp
<1>13. NothingForgotten'
  BY <1>1, <1>2, <1>3, <1>7, <1>8, <1>10, <1>11, <1>12 DEF NothingForgotten
<1>14. QED
  BY <1>5, <1>6, <1>9, <1>13

LEMMA SyncKeep ==
  ASSUME IInv, Work, Judge \/ Read \/ Compare \/ Write \/ Tombstone \/ Fail
  PROVE  Order' /\ Beliefs' /\ InHand' /\ RulesApply' /\ NothingForgotten'
<1>1. TypeOK /\ Order /\ Beliefs /\ InHand /\ RulesApply /\ NothingForgotten
  BY DEF IInv
<1>2. /\ up /\ task.stage # "idle"
      /\ UNCHANGED <<disk, ignored, up, hints, held, rescan_held>>
      /\ \A q : Noticed(q)' = Noticed(q)
      /\ Discoverable' = Discoverable
      /\ \A q \in Paths : Target(q)' = Target(q)
      /\ task.stage # "walk" =>
           \A q : /\ (q \in failed => q \in failed') /\ (q \in unheard => q \in unheard')
                  /\ (GivenUp(q) => GivenUp(q)') /\ (RulesNoticed(q) => RulesNoticed(q)')
  BY WorkFrame
<1>a. task \in Tasks /\ NoPath \notin Paths /\ index \in [Paths -> File] /\ sync \in Sync
  BY <1>1, IndexerAssumption DEF TypeOK, Tasks
<1> DEFINE p == sync.path
<1>3. p \in Paths
  BY <1>1 DEF Order, NoSync, Judge, Read, Compare, Write, Tombstone, Fail
<1>4. TypeOK'
  BY <1>1, WorkType
<1>b. task' \in Tasks /\ sync' \in Sync
  BY <1>4 DEF TypeOK, Tasks
<1>c. Target(p) = Absent \/ Target(p) = disk[p]
  BY DEF Target
<1>e. task.stage # "walk"
  BY <1>1 DEF Order, NoSync, Judge, Read, Compare, Write, Tombstone, Fail
<1>d. p \notin ignored => Target(p) = disk[p]
  BY <1>3 DEF Target, Discoverable
<1>5. CASE Judge
  <2>1. sync' = Verdict(p) /\ task' = task /\ index' = index
    BY <1>5 DEF Judge
  <2>2. \/ /\ sync' = Start(p, "read") /\ disk[p] # Absent
           /\ p \in ignored => index[p] # Absent
        \/ sync' = Start(p, "tombstone") /\ disk[p] = Absent
        \/ /\ sync' = NoSync /\ index[p] = Absent
           /\ disk[p] = Absent \/ p \in ignored
    BY <2>1 DEF Verdict
  <2>3. InHand'
    BY <1>2, <2>1, <2>2 DEF InHand, Start, NoSync
  <2>4. sync' = NoSync \/ (sync'.path = p /\ sync'.step # "none")
    BY <2>2 DEF Start
  <2>5. index'[p] = Target(p) \/ p \in ignored \/ sync'.path = p
    BY <1>d, <2>1, <2>2 DEF Start
  <2>6. QED
    BY <1>3, <1>b, <2>1, <2>3, <2>4, <2>5, HandKeep
<1>6. CASE Read
  <2>1. task' = task /\ index' = index /\ sync.step = "read"
        /\ sync' = IF disk[p] = Absent THEN NoSync
                   ELSE [sync EXCEPT !.step = "compare", !.text = disk[p]]
    BY <1>6 DEF Read
  <2>2. CASE disk[p] = Absent
    <3>1. sync' = NoSync /\ Noticed(p)
      BY <1>1, <2>1, <2>2 DEF InHand
    <3>2. InHand'
      BY <3>1 DEF InHand, NoSync
    <3>3. QED
      BY <1>3, <1>b, <2>1, <3>1, <3>2, HandKeep
  <2>3. CASE disk[p] # Absent
    <3>1. /\ sync'.path = p /\ sync'.step = "compare" /\ sync'.text = disk[p]
          /\ disk[p] \in Contents
      BY <1>1, <1>3, <1>a, <2>1, <2>3 DEF Sync, TypeOK, File
    <3>2. InHand'
      BY <1>1, <1>2, <1>e, <2>1, <3>1 DEF InHand
    <3>3. QED
      BY <1>3, <1>b, <2>1, <3>1, <3>2, HandKeep
  <2>4. QED
    BY <2>2, <2>3
<1>7. CASE Compare
  <2>1. task' = task /\ index' = index /\ sync.step = "compare"
        /\ sync' = IF index[p] = sync.text THEN NoSync ELSE [sync EXCEPT !.step = "write"]
    BY <1>7 DEF Compare
  <2>2. sync.text = disk[p] \/ Noticed(p)
    BY <1>1, <2>1 DEF InHand
  <2>3. CASE index[p] = sync.text
    <3>1. sync' = NoSync
      BY <2>1, <2>3
    <3>2. InHand'
      BY <3>1 DEF InHand, NoSync
    <3>3. index'[p] = Target(p) \/ p \in ignored \/ Noticed(p)
      BY <1>d, <2>1, <2>2, <2>3
    <3>4. QED
      BY <1>3, <1>b, <2>1, <3>1, <3>2, <3>3, HandKeep
  <2>4. CASE index[p] # sync.text
    <3>1. sync'.path = p /\ sync'.step = "write" /\ sync'.text = sync.text
      BY <1>a, <2>1, <2>4 DEF Sync
    <3>2. InHand'
      BY <1>1, <1>2, <1>e, <2>1, <3>1 DEF InHand
    <3>3. QED
      BY <1>3, <1>b, <2>1, <3>1, <3>2, HandKeep
  <2>5. QED
    BY <2>3, <2>4
<1>8. CASE Write
  <2>1. /\ sync.step = "write" /\ sync' = NoSync
        /\ index' = [index EXCEPT ![p] = sync.text]
        /\ sync.text \in File
    BY <1>8, <1>a DEF Write, Sync
  <2>2. UNCHANGED <<task.stage, task.todo, task.missing, task.present,
                    task.discovered, task.rescan>>
    BY <1>8, <1>a DEF Write, Tasks
  <2>3. InHand'
    BY <2>1 DEF InHand, NoSync
  <2>4. sync.text = disk[p] \/ Noticed(p)
    BY <1>1, <2>1 DEF InHand
  <2>5. p \in ignored => index[p] # Absent \/ RulesNoticed(p)
    BY <1>1, <2>1 DEF InHand
  <2>6. index'[p] = sync.text
    BY <1>3, <1>a, <2>1
  <2>7. index'[p] = Target(p) \/ p \in ignored \/ Noticed(p)
    BY <1>d, <2>4, <2>6
  <2>8. QED
    BY <1>3, <1>b, <2>1, <2>2, <2>3, <2>5, <2>7, HandKeep
<1>9. CASE Tombstone
  <2>1. /\ sync.step = "tombstone" /\ sync' = NoSync /\ task' = task
        /\ index' = [index EXCEPT ![p] = Absent] /\ Absent \in File
    BY <1>9 DEF Tombstone, File
  <2>2. InHand'
    BY <2>1 DEF InHand, NoSync
  <2>3. index'[p] = Absent
    BY <1>3, <1>a, <2>1
  <2>4. index'[p] = Target(p) \/ Noticed(p)
    BY <1>1, <1>c, <2>1, <2>3 DEF InHand
  <2>5. QED
    BY <1>3, <1>b, <2>1, <2>2, <2>3, <2>4, HandKeep
<1>10. CASE Fail
  <2>1. sync' = NoSync /\ task' = task /\ index' = index /\ p \in failed'
    BY <1>10 DEF Fail, Err
  <2>2. InHand'
    BY <2>1 DEF InHand, NoSync
  <2>3. QED
    BY <1>3, <1>b, <2>1, <2>2, HandKeep
<1>11. QED
  BY <1>5, <1>6, <1>7, <1>8, <1>9, <1>10

-----------------------------------------------------------------------------

\* No `mda open` holds a text it has read.
Alone == \A o \in Openers : opener[o] = NoSync

\* Every step of the daemon and the users keeps the invariant.
LEMMA StepInv ==
  ASSUME IInv, Alone, Alone', [Next]_vars
  PROVE  IInv'
<1>1. TypeOK /\ Order /\ InHand
  BY DEF IInv
<1>2. CASE Users
  BY <1>1, <1>2, UsersType, UsersKeep DEF IInv
<1>3. CASE Between
  BY <1>1, <1>3, BetweenType, BetweenKeep DEF IInv
<1>4. CASE Work
  <2>1. TypeOK'
    BY <1>1, <1>4, WorkType
  <2>2. Order' /\ Beliefs' /\ InHand' /\ RulesApply' /\ NothingForgotten'
    BY <1>4, BatchKeep, RenameKeep, StageKeep, WalkKeep, RescanFailsKeep,
       ScanKeep, SweepKeep, SyncKeep
    DEF Work
  <2>3. QED
    BY <2>1, <2>2 DEF IInv
<1>5. ASSUME NEW o \in Openers, OpenWrite(o) \/ \E p \in Paths : OpenRead(o, p)
      PROVE  FALSE
  <2>1. ~OpenWrite(o)
    BY DEF Alone, OpenWrite
  <2>2. ASSUME NEW p \in Paths, OpenRead(o, p)
        PROVE  FALSE
    <3>1. opener'[o].step = "write"
      BY <1>1, <2>2 DEF OpenRead, TypeOK
    <3>2. QED
      BY <3>1 DEF Alone, NoSync
  <2>3. QED
    BY <1>5, <2>1, <2>2
<1>6. CASE UNCHANGED vars
  BY <1>6 DEF vars, daemon, IInv, TypeOK, Order, Beliefs, InHand, RulesApply, NothingForgotten,
              Noticed, RulesNoticed, GivenUp, Target, Discoverable, log,
              RescanPending, LookPending, ScanPending
<1>7. QED
  BY <1>2, <1>3, <1>4, <1>5, <1>6 DEF Next, Between

\* Whatever users do to whatever number of files and rules, whatever events are
\* lost and however often the daemon meets an error or is killed: as long as
\* nobody runs `mda open`, a path the index has wrong is still to be looked at, or
\* an error on it, a failed rescan or a rule changed under .git came between
\* (daemon/mod.rs, indexer_loop and apply_batch).
THEOREM IndexerForgetsNothing == Spec /\ []Alone => []NothingForgotten
<1>1. IInv /\ Alone /\ Alone' /\ [Next]_vars => IInv'
  BY StepInv
<1>2. IInv => NothingForgotten
  BY DEF IInv
<1>3. QED
  BY <1>1, <1>2, InitInv, PTL DEF Spec

=============================================================================
