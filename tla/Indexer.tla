------------------------------ MODULE Indexer ------------------------------
(***************************************************************************)
(* How the index follows the file system (daemon/mod.rs, daemon/watch.rs,  *)
(* pipeline.rs): the daemon's indexer task, fed by watcher hints through   *)
(* the debouncer, and `mda open` writing from processes of its own.        *)
(*                                                                         *)
(* The indexer applies one batch, rescan or client request at a time, and  *)
(* each path it touches is stat'ed, read, compared and written in separate *)
(* steps while users go on editing.  A hint only says "look here".  An     *)
(* error on a path (the store, the disk, a parse) is logged and the path   *)
(* dropped: nobody tries again.                                            *)
(*                                                                         *)
(* Abstractions: index[p] is the content of the live document at p, Absent *)
(* when there is none (Store models the rows behind it).  The hint channel *)
(* is a set, since pushing a path twice is pushing it once.  Time is left  *)
(* out: any held entries may be the ones that went quiet, and files of one *)
(* batch or walk come in any order.  Every file is Markdown.               *)
(***************************************************************************)
EXTENDS Integers, FiniteSets, Functions

CONSTANTS Paths, Contents, Absent, NoPath,
          Root,        \* the hint to rescan the root
          SizeOf,      \* size of a content, for the debouncer
          Openers,     \* processes that may run `mda open`
          MaxEdits,    \* bound: changes made by users
          MaxFaults    \* bound: errors the daemon meets, its crashes and stops

ASSUME IndexerAssumption ==
  /\ Absent \notin Contents
  /\ Root \notin Paths
  /\ NoPath \notin Paths
  /\ SizeOf \in [Contents -> Nat]
  /\ {MaxEdits, MaxFaults} \subseteq Nat

VARIABLES disk,         \* what users see at each path
          ignored,      \* paths excluded by ignore rules
          index,        \* the store
          up,           \* the daemon runs and its watcher is armed
          hints,        \* the watcher's channel
          held,         \* Debouncer.entries: path -> size at its last hint
          rescan_held,  \* Debouncer.rescan_at is set
          task,         \* the batch or rescan in hand
          sync,         \* the path in hand
          opener,       \* `mda open` of each process
          failed,       \* history: paths whose last batch, walk or request met an error
          unheard,      \* history: paths whose rules changed since the last walk and no
                        \* hint said so, or that a failed rescan left out
          edits, faults

daemon == <<up, hints, held, rescan_held, task, sync>>

log == <<failed, unheard, faults>>

vars == <<disk, ignored, index, up, hints, held, rescan_held, task, sync,
          opener, failed, unheard, edits, faults>>

-----------------------------------------------------------------------------

File == Contents \cup {Absent}

\* walk::discover: what is there and no rule excludes.
Discoverable == {p \in Paths : disk[p] # Absent /\ p \notin ignored}

\* What the index should hold for p: what the walker would find there.
Target(p) == IF p \in Discoverable THEN disk[p] ELSE Absent

Size(file) == IF file = Absent THEN -1 ELSE SizeOf[file]

Idle == [stage |-> "idle", todo |-> {}, missing |-> {}, present |-> {},
         created |-> {}, discovered |-> {}, rescan |-> FALSE]

NoSync == [path |-> NoPath, step |-> "none", text |-> Absent]

Start(p, step) == [path |-> p, step |-> step, text |-> Absent]

\* rescan: index_root starts with a walk.
Walking == [Idle EXCEPT !.stage = "walk"]

-----------------------------------------------------------------------------
(* Users *)

\* A watcher that is armed turns every change into a hint, or loses it and
\* says so with a rescan hint.
Hinted(paths) == IF up THEN {hints \cup paths, hints \cup {Root}} ELSE {hints}

Changed == edits < MaxEdits /\ edits' = edits + 1

Edit(p, file) ==
  /\ Changed
  /\ disk[p] # file
  /\ disk' = [disk EXCEPT ![p] = file]
  /\ hints' \in Hinted({p})
  /\ UNCHANGED <<ignored, index, up, held, rescan_held, task, sync, opener, log>>

Move(p, q) ==
  /\ Changed
  /\ p # q
  /\ disk[p] # Absent
  /\ disk' = [disk EXCEPT ![p] = Absent, ![q] = disk[p]]
  /\ hints' \in Hinted({p, q})
  /\ UNCHANGED <<ignored, index, up, held, rescan_held, task, sync, opener, log>>

\* An ignore file is edited: a structural hint.  The watcher drops all that
\* happens under .git, while the walk goes by .git/info/exclude too.
SetRules(paths, watched) ==
  /\ Changed
  /\ paths # ignored
  /\ ignored' = paths
  /\ IF watched THEN hints' \in Hinted({Root}) ELSE UNCHANGED hints
  /\ unheard' = IF up /\ ~watched
                THEN unheard \cup (paths \ ignored) \cup (ignored \ paths) ELSE unheard
  /\ UNCHANGED <<disk, index, up, held, rescan_held, task, sync, opener, failed, faults>>

-----------------------------------------------------------------------------
(* Errors *)

Trouble == faults < MaxFaults /\ faults' = faults + 1

\* An error that costs the paths the look they were due.
Err(paths) == Trouble /\ failed' = failed \cup paths /\ UNCHANGED unheard

-----------------------------------------------------------------------------
(* The daemon comes and goes *)

\* run: the watcher is armed, then indexer_loop begins with a rescan.
Boot ==
  /\ ~up
  /\ up' = TRUE
  /\ task' = Walking
  /\ UNCHANGED <<disk, ignored, index, hints, held, rescan_held, sync, opener, log, edits>>

\* A crash at any point, or a stop between two batches: what the daemon had in
\* memory is gone.
Crash ==
  /\ up
  /\ Trouble
  /\ up' = FALSE
  /\ hints' = {} /\ held' = <<>> /\ rescan_held' = FALSE
  /\ task' = Idle /\ sync' = NoSync
  /\ failed' = {} /\ unheard' = {}
  /\ UNCHANGED <<disk, ignored, index, opener, edits>>

-----------------------------------------------------------------------------
(* The debouncer *)

\* classify, then Debouncer::push or push_rescan.
Intake(hint) ==
  /\ up /\ task.stage = "idle"
  /\ hint \in hints
  /\ hints' = hints \ {hint}
  /\ IF hint = Root
     THEN rescan_held' = TRUE /\ UNCHANGED held
     ELSE /\ held' = [p \in DOMAIN held \cup {hint} |->
                        IF p = hint THEN Size(disk[p]) ELSE held[p]]
          /\ UNCHANGED rescan_held
  /\ UNCHANGED <<disk, ignored, index, up, task, sync, opener, log, edits>>

\* Of the quiet entries, those whose size moved since their last hint.
Growing(quiet) == {p \in quiet : Size(disk[p]) # held[p]}

\* What due leaves in the debouncer: growing entries, with their new size.
StillHeld(quiet) ==
  [p \in (DOMAIN held \ quiet) \cup Growing(quiet) |->
     IF p \in quiet THEN Size(disk[p]) ELSE held[p]]

\* Debouncer::due releases a batch.
Due(quiet, rescan) ==
  /\ up /\ task.stage = "idle"
  /\ quiet # {} \/ rescan
  /\ rescan => rescan_held
  /\ rescan_held' = (rescan_held /\ ~rescan)
  /\ held' = StillHeld(quiet)
  /\ task' = [Idle EXCEPT !.stage = "partition", !.todo = quiet \ Growing(quiet),
                          !.rescan = rescan]
  /\ failed' = failed \ (quiet \ Growing(quiet))
  /\ UNCHANGED <<disk, ignored, index, up, hints, sync, opener, unheard, edits, faults>>

-----------------------------------------------------------------------------
(* apply_batch *)

\* p.exists() for one path of the batch; it is false if the stat fails.
Partition(p) ==
  /\ task.stage = "partition" /\ p \in task.todo
  /\ \/ /\ disk[p] # Absent
        /\ task' = [task EXCEPT !.todo = @ \ {p}, !.present = @ \cup {p}]
        /\ UNCHANGED log
     \/ /\ IF disk[p] = Absent THEN UNCHANGED log ELSE Err({p})
        /\ task' = [task EXCEPT !.todo = @ \ {p}, !.missing = @ \cup {p}]
  /\ UNCHANGED <<disk, ignored, index, up, hints, held, rescan_held, sync, opener, edits>>

\* The next path of a batch's present files, then of its missing ones; there,
\* one whose stored hash cannot be read is not taken for renamed.
SyncNext(p) ==
  /\ \/ task.stage = "present" /\ UNCHANGED log
     \/ /\ task.stage = "missing"
        /\ IF index[p] \in {c[2] : c \in task.created} THEN Err({}) ELSE UNCHANGED log
  /\ sync = NoSync /\ p \in task.todo
  /\ sync' = Start(p, "judge")
  /\ task' = [task EXCEPT !.todo = @ \ {p}]
  /\ UNCHANGED <<disk, ignored, index, up, hints, held, rescan_held, opener, edits>>

\* A missing path whose content a file created in this batch has: note_rename
\* tombstones it.  The created file is claimed even if it is gone by now
\* (note_rename returns false) or note_rename fails, and the path is synced
\* like any other.
Rename(p, entry) ==
  /\ task.stage = "missing"
  /\ sync = NoSync /\ p \in task.todo
  /\ entry \in task.created /\ index[p] = entry[2]
  /\ task' = [task EXCEPT !.todo = @ \ {p}, !.created = @ \ {entry}]
  /\ LET to_is_live == index[entry[1]] # Absent /\ entry[1] # p
     IN  \/ /\ to_is_live
            /\ index' = [index EXCEPT ![p] = Absent]
            /\ UNCHANGED <<sync, log>>
         \/ /\ IF to_is_live THEN Err({}) ELSE UNCHANGED log
            /\ sync' = Start(p, "judge")
            /\ UNCHANGED index
  /\ UNCHANGED <<disk, ignored, up, hints, held, rescan_held, opener, edits>>

\* Mutant: a batch that had paths forgets the rescan it carried.
MutNextStage ==
  CASE task.stage = "partition" -> [task EXCEPT !.stage = "present", !.todo = task.present]
    [] task.stage = "present"   -> [task EXCEPT !.stage = "missing", !.todo = task.missing]
    [] task.stage = "missing"   -> IF task.rescan /\ task.present = {} THEN Walking ELSE Idle
    [] task.stage = "scanning"  -> [task EXCEPT !.stage = "sweeping",
                                     !.todo = {p \in Paths : index[p] # Absent} \ task.discovered]
    [] OTHER                    -> Idle

\* Present files, then missing ones, then the rescan; and in a rescan, the
\* files found, then the live documents not found.
NextStage ==
  CASE task.stage = "partition" -> [task EXCEPT !.stage = "present", !.todo = task.present]
    [] task.stage = "present"   -> [task EXCEPT !.stage = "missing", !.todo = task.missing]
    [] task.stage = "missing"   -> IF task.rescan THEN Walking ELSE Idle
    [] task.stage = "scanning"  -> [task EXCEPT !.stage = "sweeping",
                                     !.todo = {p \in Paths : index[p] # Absent} \ task.discovered]
    [] OTHER                    -> Idle

StageDone ==
  /\ task.stage \notin {"idle", "walk"}
  /\ task.todo = {} /\ sync = NoSync
  /\ task' = NextStage
  /\ UNCHANGED <<disk, ignored, index, up, hints, held, rescan_held, sync, opener,
                 log, edits>>

-----------------------------------------------------------------------------
(* index_root *)

\* The walk skips, with a warning, what it cannot read.
Walk ==
  /\ task.stage = "walk"
  /\ \E skipped \in SUBSET Discoverable :
       /\ IF skipped = {} THEN UNCHANGED faults ELSE Trouble
       /\ failed' = skipped
       /\ task' = [task EXCEPT !.stage = "scanning",
                               !.discovered = Discoverable \ skipped,
                               !.todo = Discoverable \ skipped]
  /\ unheard' = {}
  /\ UNCHANGED <<disk, ignored, index, up, hints, held, rescan_held, sync, opener, edits>>

\* An error of the walk, or of the store while paths are swept, ends the rescan.
RescanFails ==
  /\ task.stage \in {"walk", "sweeping"}
  /\ Trouble
  /\ unheard' = unheard \cup (IF task.stage = "walk" THEN Paths ELSE task.todo)
  /\ task' = Idle
  /\ UNCHANGED <<disk, ignored, index, up, hints, held, rescan_held, sync, opener,
                 failed, edits>>

Scan(p) ==
  /\ task.stage = "scanning"
  /\ sync = NoSync /\ p \in task.todo
  /\ sync' = Start(p, "read")
  /\ task' = [task EXCEPT !.todo = @ \ {p}]
  /\ UNCHANGED <<disk, ignored, index, up, hints, held, rescan_held, opener, log, edits>>

\* Mutant: a file that is still there is not tombstoned.
MutSweep(p) ==
  /\ task.stage = "sweeping" /\ p \in task.todo
  /\ index' = [index EXCEPT ![p] = IF disk[p] = Absent THEN Absent ELSE @]
  /\ task' = [task EXCEPT !.todo = @ \ {p}]
  /\ UNCHANGED <<disk, ignored, up, hints, held, rescan_held, sync, opener, log, edits>>

\* Tombstoned for not having been discovered; the disk is not asked again.
Sweep(p) ==
  /\ task.stage = "sweeping" /\ p \in task.todo
  /\ index' = [index EXCEPT ![p] = Absent]
  /\ task' = [task EXCEPT !.todo = @ \ {p}]
  /\ UNCHANGED <<disk, ignored, up, hints, held, rescan_held, sync, opener, log, edits>>

-----------------------------------------------------------------------------
(* sync_path and index_file, one path *)

\* What the stat and the stored hash say is to be done with p: only a file the
\* index does not know has to pass the walker's rules.
Verdict(p) ==
  IF disk[p] # Absent
  THEN IF index[p] = Absent /\ p \in ignored THEN NoSync ELSE Start(p, "read")
  ELSE IF index[p] # Absent THEN Start(p, "tombstone") ELSE NoSync

Judge ==
  /\ sync.step = "judge"
  /\ sync' = Verdict(sync.path)
  /\ UNCHANGED <<disk, ignored, index, up, hints, held, rescan_held, task, opener,
                 log, edits>>

\* parse_file; a file that is gone by now is logged and skipped.
Read ==
  /\ sync.step = "read"
  /\ sync' = IF disk[sync.path] = Absent THEN NoSync
             ELSE [sync EXCEPT !.step = "compare", !.text = disk[sync.path]]
  /\ UNCHANGED <<disk, ignored, index, up, hints, held, rescan_held, task, opener,
                 log, edits>>

\* index_parsed: the same content is not written again.
Compare ==
  /\ sync.step = "compare"
  /\ sync' = IF index[sync.path] = sync.text THEN NoSync ELSE [sync EXCEPT !.step = "write"]
  /\ UNCHANGED <<disk, ignored, index, up, hints, held, rescan_held, task, opener,
                 log, edits>>

\* upsert_document; a batch remembers the documents it created, unless their
\* hash cannot be read back.
Write ==
  /\ sync.step = "write"
  /\ index' = [index EXCEPT ![sync.path] = sync.text]
  /\ LET created == task.stage = "present" /\ index[sync.path] = Absent
     IN  \/ /\ task' = IF created
                       THEN [task EXCEPT !.created = @ \cup {<<sync.path, sync.text>>}]
                       ELSE task
            /\ UNCHANGED log
         \/ created /\ Err({}) /\ UNCHANGED task
  /\ sync' = NoSync
  /\ UNCHANGED <<disk, ignored, up, hints, held, rescan_held, opener, edits>>

Tombstone ==
  /\ sync.step = "tombstone"
  /\ index' = [index EXCEPT ![sync.path] = Absent]
  /\ sync' = NoSync
  /\ UNCHANGED <<disk, ignored, up, hints, held, rescan_held, task, opener, log, edits>>

\* Any of these steps meets an error: sync_path or index_file returns it, it is
\* logged or answered, and the next path is taken.
Fail ==
  /\ sync # NoSync
  /\ Err({sync.path})
  /\ sync' = NoSync
  /\ UNCHANGED <<disk, ignored, index, up, hints, held, rescan_held, task, opener, edits>>

-----------------------------------------------------------------------------
(* Requests of clients (handle_cmd) *)

IndexPath(p) ==
  /\ up /\ task.stage = "idle"
  /\ task' = [Idle EXCEPT !.stage = "request"]
  /\ sync' = Start(p, "judge")
  /\ failed' = failed \ {p}
  /\ UNCHANGED <<disk, ignored, index, up, hints, held, rescan_held, opener, unheard,
                 edits, faults>>

Rescan ==
  /\ up /\ task.stage = "idle"
  /\ task' = Walking
  /\ UNCHANGED <<disk, ignored, index, up, hints, held, rescan_held, sync, opener,
                 log, edits>>

-----------------------------------------------------------------------------
(* `mda open` in another process (open_section) *)

\* The section's document is live; its file is read, and found stale.
OpenRead(o, p) ==
  /\ opener[o] = NoSync
  /\ index[p] # Absent /\ disk[p] \notin {Absent, index[p]}
  /\ opener' = [opener EXCEPT ![o] = [path |-> p, step |-> "write", text |-> disk[p]]]
  /\ UNCHANGED <<disk, ignored, index, daemon, log, edits>>

\* index_parsed writes what was read.
OpenWrite(o) ==
  /\ opener[o] # NoSync
  /\ index' = [index EXCEPT ![opener[o].path] = opener[o].text]
  /\ opener' = [opener EXCEPT ![o] = NoSync]
  /\ UNCHANGED <<disk, ignored, daemon, log, edits>>

-----------------------------------------------------------------------------

\* Some files, an empty index, no daemon.
Init ==
  /\ disk \in [Paths -> File]
  /\ ignored = {}
  /\ index = [p \in Paths |-> Absent]
  /\ up = FALSE
  /\ hints = {} /\ held = <<>> /\ rescan_held = FALSE
  /\ task = Idle /\ sync = NoSync
  /\ opener = [o \in Openers |-> NoSync]
  /\ failed = {} /\ unheard = {}
  /\ edits = 0 /\ faults = 0

Users ==
  \/ \E p \in Paths, file \in File : Edit(p, file)
  \/ \E p, q \in Paths : Move(p, q)
  \/ \E paths \in SUBSET Paths, watched \in BOOLEAN : SetRules(paths, watched)

\* What the indexer task does with the work it has.
Work ==
  \/ \E p \in Paths :
       \/ Partition(p) \/ SyncNext(p) \/ Scan(p) \/ Sweep(p)
       \/ \E entry \in task.created : Rename(p, entry)
  \/ StageDone \/ Walk \/ RescanFails
  \/ Judge \/ Read \/ Compare \/ Write \/ Tombstone \/ Fail

Next ==
  \/ Users
  \/ Boot \/ Crash
  \/ \E hint \in Paths \cup {Root} : Intake(hint)
  \/ \E quiet \in SUBSET DOMAIN held, rescan \in BOOLEAN : Due(quiet, rescan)
  \/ Work
  \/ Rescan
  \/ \E p \in Paths : IndexPath(p)
  \/ \E o \in Openers : OpenWrite(o) \/ \E p \in Paths : OpenRead(o, p)

Spec == Init /\ [][Next]_vars

\* The task goes on with what it has, takes in hints and, when the deadlines
\* of the entries left in the debouncer have passed, releases them.  select! is
\* fair between ready branches.  Nobody has to edit, ask or start.
Fairness ==
  /\ WF_vars(Work)
  /\ SF_vars(\E hint \in Paths \cup {Root} : Intake(hint))
  /\ SF_vars(Due(DOMAIN held, rescan_held))

FairSpec == Spec /\ Fairness

-----------------------------------------------------------------------------
(* Correctness *)

Stages == {"idle", "partition", "present", "missing", "walk", "scanning",
           "sweeping", "request"}

Steps == {"none", "judge", "read", "compare", "write", "tombstone"}

Sync == [path : Paths \cup {NoPath}, step : Steps, text : File]

TypeOK ==
  /\ disk \in [Paths -> File] /\ index \in [Paths -> File]
  /\ ignored \subseteq Paths
  /\ up \in BOOLEAN /\ rescan_held \in BOOLEAN
  /\ hints \subseteq Paths \cup {Root}
  /\ DOMAIN held \subseteq Paths /\ held \in [DOMAIN held -> Int]
  /\ task \in [stage : Stages, todo : SUBSET Paths, missing : SUBSET Paths,
               present : SUBSET Paths, created : SUBSET (Paths \X Contents),
               discovered : SUBSET Paths, rescan : BOOLEAN]
  /\ sync \in Sync /\ opener \in [Openers -> Sync]
  /\ failed \subseteq Paths /\ unheard \subseteq Paths
  /\ edits \in 0..MaxEdits /\ faults \in 0..MaxFaults

\* A rescan that has not walked yet is on its way.
RescanPending ==
  ~up \/ Root \in hints \/ rescan_held \/ task.rescan \/ task.stage = "walk"

\* A look at p that has not been taken yet is on its way.
LookPending(p) ==
  \/ p \in hints \/ p \in DOMAIN held
  \/ task.stage = "partition" /\ p \in task.todo
  \/ task.stage \in {"partition", "present"} /\ p \in task.present \cup task.missing
       /\ (task.stage = "present" /\ p \in task.present => p \in task.todo)
  \/ task.stage = "missing" /\ p \in task.todo
  \/ sync.path = p

\* The rescan in hand will still come to p.
ScanPending(p) ==
  \/ task.stage = "scanning" /\ (p \in task.todo \/ p \notin task.discovered)
  \/ task.stage = "sweeping" /\ p \in task.todo

\* What the code knowingly or unknowingly gives up on until p is looked at again:
\* an error dropped it, or its rules changed behind the watcher's back.
GivenUp(p) == p \in failed \cup unheard

\* Nothing else is forgotten: where the index differs from what a walk would
\* find, a look or a rescan is still due, or an error on this very path, a failed
\* rescan or a rule changed under .git stands between.  No order of edits, moves,
\* watched rule changes, lost events, debouncing, half-done batches, errors on
\* other paths and crashes leaves the index wrong and the daemon content.
NothingForgotten ==
  \A p \in Paths : index[p] # Target(p) =>
    RescanPending \/ LookPending(p) \/ ScanPending(p) \/ GivenUp(p)

Settled == \A p \in Paths : index[p] = Target(p) \/ GivenUp(p)

\* A daemon that stays up ends with the index the files call for, but for the
\* paths it gave up on: the failed ones until they are hinted at or asked for
\* again, and all of them until the next rescan or start.
Converges == <>[]up => <>[]Settled

\* "`mda open` from another shell writes through its own connection; [the
\* transactions] make that safe" (docs/design/daemon.md): once it is done, what
\* it wrote is the file, or somebody is still to look.
OpenIsSafe ==
  (\A o \in Openers : opener[o] = NoSync) /\ ignored = {} => NothingForgotten

=============================================================================
