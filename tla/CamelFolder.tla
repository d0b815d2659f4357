------------------------------ MODULE CamelFolder ------------------------------
(***************************************************************************)
(* Change events of a folder: camel/camel-folder.c (freeze, thaw, the      *)
(* class handler of "changed" with the filter jobs it queues) and the      *)
(* listener that keeps a list of messages, mail/message-list.c.            *)
(*                                                                         *)
(* Any thread changes the folder and emits "changed".  The class handler   *)
(* runs first: while the folder is frozen it moves the changes to a batch  *)
(* and stops the emission; if there is mail to filter or junk to learn it  *)
(* freezes the folder, moves the changes to the batch and queues a job for *)
(* the one thread of the session, which thaws the folder when it is done.  *)
(* An emission that gets through reaches the listener, in whose thread it  *)
(* is looked at later.                                                     *)
(***************************************************************************)
EXTENDS CamelFolderChangeInfo, Integers, Sequences, FiniteSets

CONSTANTS
  Threads,     \* threads that change, freeze and thaw the folder
  Session,     \* the thread of session->priv->thread_pool
  NoJob,
  Filters,     \* CAMEL_FOLDER_FILTER_RECENT or _JUNK, with a filter driver
  Hides,       \* the list hides junk or deleted messages
  Races,       \* rare orders allowed: "redraw"
  MaxChanges   \* bound: changes to messages in a behaviour

Job == [recents : SUBSET Uids, learn : SUBSET Uids]

ASSUME FolderAssumption ==
  /\ Session \notin Threads
  /\ IsFiniteSet(Threads)
  /\ NoJob \notin Job
  /\ {Filters, Hides} \subseteq BOOLEAN
  /\ Races \subseteq {"redraw"}
  /\ MaxChanges \in Nat

VARIABLES
  content,   \* the uids in folder->summary
  learn,     \* those with CAMEL_MESSAGE_JUNK_LEARN
  frozen,    \* priv->frozen
  batch,     \* priv->changed_frozen
  pc,        \* where a thread is in an emission
  info,      \* the changes a thread collects or emits
  todo,      \* the changed uids whose flags folder_changed has yet to read
  resetting, \* those it has read the learn flag of and not reset it
  learnt,    \* its arrays junk and notjunk
  holders,   \* threads that froze the folder and have yet to thaw it (ghost)
  jobs, job, \* queued filter jobs and the one that runs
  events,    \* emissions on their way to the main thread
  regen,     \* ml->regen: "none", "asked" for or "read", with
  uids,      \* the uids the job read from the folder
  view,      \* uid_nodemap: the uids in the list
  changes,   \* changes made so far (bound)
  known,     \* uids that have been reported as recent (ghost)
  handed,    \* times a message was handed to the filters, up to 2 (ghost)
  unlearnt   \* marks for learning less reports to the junk plugin, down to
             \* -1 (ghost)

folderVars == <<content, learn, changes, known>>
batchVars  == <<frozen, batch, holders>>
emitVars   == <<pc, info, todo, resetting, learnt>>
jobVars    == <<jobs, job, handed, unlearnt>>
listVars   == <<events, regen, uids, view>>
vars       == <<folderVars, batchVars, emitVars, jobVars, listVars>>

Emitters == Threads \cup {Session}

FolderType ==
  /\ content \subseteq Uids /\ learn \subseteq content /\ known \subseteq Uids
  /\ changes \in 0..MaxChanges

BatchType ==
  /\ frozen \in Nat /\ holders \subseteq Threads
  /\ batch \in ChangeInfo /\ Filed(batch)

InfoType == info \in [Emitters -> ChangeInfo] /\ \A t \in Emitters : Filed(info[t])

EmitType ==
  /\ pc \in [Emitters -> {"idle", "collecting", "emitting", "inspecting", "launched"}]
  /\ todo \in [Emitters -> SUBSET Uids]
  /\ resetting \in [Emitters -> SUBSET Uids]
  /\ learnt \in [Emitters -> SUBSET Uids]

JobType ==
  /\ jobs \in Seq(Job) /\ job \in Job \cup {NoJob}
  /\ handed \in [Uids -> 0..2] /\ unlearnt \in [Uids -> Nat \cup {-1}]

ListType ==
  /\ events \in Seq(ChangeInfo)
  /\ regen \in {"none", "asked", "read"}
  /\ uids \subseteq Uids /\ view \subseteq Uids

TypeOK == FolderType /\ BatchType /\ InfoType /\ EmitType /\ JobType /\ ListType

Init ==
  /\ content = {} /\ learn = {} /\ known = {} /\ changes = 0
  /\ frozen = 0 /\ batch = NoChanges /\ holders = {}
  /\ pc = [t \in Emitters |-> "idle"]
  /\ info = [t \in Emitters |-> NoChanges]
  /\ todo = [t \in Emitters |-> {}]
  /\ resetting = [t \in Emitters |-> {}]
  /\ learnt = [t \in Emitters |-> {}]
  /\ jobs = <<>> /\ job = NoJob
  /\ events = <<>> /\ regen = "none" /\ uids = {} /\ view = {}
  /\ handed = [u \in Uids |-> 0] /\ unlearnt = [u \in Uids |-> 0]

--------------------------------------------------------------------------------
(* Changes to the folder *)

\* The session's thread touches the folder only in a filter job.
MayChange(t) == changes < MaxChanges /\ (t = Session => job # NoJob)

\* A provider collects what it does to the folder and reports it at once.
Collect(t, newInfo) ==
  /\ pc[t] \in {"idle", "collecting"}
  /\ MayChange(t)
  /\ changes' = changes + 1
  /\ pc' = [pc EXCEPT ![t] = "collecting"]
  /\ info' = [info EXCEPT ![t] = newInfo]
  /\ UNCHANGED <<batchVars, todo, resetting, learnt, jobVars, listVars>>

\* A message that comes for the first time may be recent: new holds its uid or
\* nothing.  A search folder may bring one back under its uid.
AddMessage(t, u, new) ==
  /\ u \notin content
  /\ content' = content \cup {u}
  /\ new \subseteq {u} \ known
  /\ known' = known \cup new
  /\ Collect(t, RecentUids(AddUids(info[t], {u}), new))
  /\ UNCHANGED learn

RemoveMessage(t, u) ==
  /\ u \in content
  /\ content' = content \ {u}
  /\ learn' = learn \ {u}
  /\ Collect(t, RemoveUids(info[t], {u}))
  /\ UNCHANGED known

\* camel_folder_changed of what was collected.
Emit(t) ==
  /\ pc[t] = "collecting"
  /\ pc' = [pc EXCEPT ![t] = "emitting"]
  /\ UNCHANGED <<folderVars, batchVars, info, todo, resetting, learnt, jobVars, listVars>>

\* info_set_flags: a change of the flags emits itself; the user may ask for
\* the message to be learnt as junk or as not junk.
SetFlags(t, u, forLearning) ==
  /\ pc[t] = "idle"
  /\ MayChange(t)
  /\ u \in content
  /\ forLearning => u \notin learn
  /\ learn' = IF forLearning THEN learn \cup {u} ELSE learn
  /\ unlearnt' = [unlearnt EXCEPT ![u] = IF forLearning THEN @ + 1 ELSE @]
  /\ changes' = changes + 1
  /\ pc' = [pc EXCEPT ![t] = "emitting"]
  /\ info' = [info EXCEPT ![t] = ChangeUids(NoChanges, {u})]
  /\ UNCHANGED <<content, known, batchVars, todo, resetting, learnt, jobs, job, handed, listVars>>

--------------------------------------------------------------------------------
(* folder_changed, the class handler *)

\* The end of an emission: the emitter frees or clears its changes.
Finish(t) ==
  /\ pc' = [pc EXCEPT ![t] = "idle"]
  /\ info' = [info EXCEPT ![t] = NoChanges]
  /\ learnt' = [learnt EXCEPT ![t] = {}]

\* Frozen: the batch takes the changes and the emission stops.
Hold(t) ==
  /\ pc[t] = "emitting"
  /\ frozen > 0
  /\ batch' = Cat(batch, info[t])
  /\ Finish(t)
  /\ UNCHANGED <<folderVars, frozen, holders, todo, resetting, jobVars, listVars>>

Inspect(t) ==
  /\ pc[t] = "emitting"
  /\ frozen = 0
  /\ pc' = [pc EXCEPT ![t] = "inspecting"]
  /\ todo' = [todo EXCEPT ![t] = info[t].changed]
  /\ UNCHANGED <<folderVars, batchVars, info, resetting, learnt, jobVars, listVars>>

\* The flags of one message are read; the learn flag is reset in a second
\* call, and the message learnt either way.
ReadFlags(t, u) ==
  /\ pc[t] = "inspecting"
  /\ u \in todo[t] /\ resetting[t] = {}
  /\ todo' = [todo EXCEPT ![t] = @ \ {u}]
  /\ resetting' = [resetting EXCEPT ![t] = {u} \cap learn]
  /\ UNCHANGED <<folderVars, batchVars, pc, info, learnt, jobVars, listVars>>

\* Mutant: the learn flag stays set.
ResetFlagKeeps(t) ==
  /\ resetting[t] # {}
  /\ resetting' = [resetting EXCEPT ![t] = {}]
  /\ learnt' = [learnt EXCEPT ![t] = @ \cup resetting[t]]
  /\ UNCHANGED <<folderVars, batchVars, pc, info, todo, jobVars, listVars>>

ResetFlag(t) ==
  /\ resetting[t] # {}
  /\ learn' = learn \ resetting[t]
  /\ resetting' = [resetting EXCEPT ![t] = {}]
  /\ learnt' = [learnt EXCEPT ![t] = @ \cup resetting[t]]
  /\ UNCHANGED <<content, changes, known, batchVars, pc, info, todo, jobVars, listVars>>

Inspected(t) == pc[t] = "inspecting" /\ todo[t] \cup resetting[t] = {}

Recents(t) == IF Filters THEN info[t].filter ELSE {}

\* There is nothing to do: the other handlers of the signal run.  The list
\* copies the changes and sends them to the main thread.
Deliver(t) ==
  /\ Inspected(t)
  /\ Recents(t) \cup learnt[t] = {}
  /\ events' = Append(events, info[t])
  /\ Finish(t)
  /\ UNCHANGED <<folderVars, batchVars, todo, resetting, jobVars, regen, uids, view>>

\* A job is made up and the folder frozen for it.
Launch(t) ==
  /\ Inspected(t)
  /\ Recents(t) \cup learnt[t] # {}
  /\ frozen' = frozen + 1
  /\ pc' = [pc EXCEPT ![t] = "launched"]
  /\ UNCHANGED <<folderVars, batch, holders, info, todo, resetting, learnt, jobVars, listVars>>

\* Mutant: uid_filter is not emptied once its messages are in a job.
RetainAgain(t) ==
  /\ pc[t] = "launched"
  /\ batch' = Cat(batch, info[t])
  /\ jobs' = Append(jobs, [recents |-> Recents(t), learn |-> learnt[t]])
  /\ Finish(t)
  /\ UNCHANGED <<folderVars, frozen, holders, todo, resetting, job, handed, unlearnt, listVars>>

\* The batch keeps the changes while the job runs; the job is queued.
Retain(t) ==
  /\ pc[t] = "launched"
  /\ batch' = Cat(batch, [info[t] EXCEPT !.filter = @ \ Recents(t)])
  /\ jobs' = Append(jobs, [recents |-> Recents(t), learn |-> learnt[t]])
  /\ Finish(t)
  /\ UNCHANGED <<folderVars, frozen, holders, todo, resetting, job, handed, unlearnt, listVars>>

--------------------------------------------------------------------------------
(* Freeze and thaw, filter jobs *)

\* One freeze for each thread is enough to have them overlap.
Freeze(t) ==
  /\ pc[t] = "idle" /\ t \notin holders
  /\ frozen' = frozen + 1
  /\ holders' = holders \cup {t}
  /\ UNCHANGED <<folderVars, batch, emitVars, jobVars, listVars>>

\* Mutant: the count is looked at before it is lowered.
LetGoEarly(t) ==
  /\ frozen > 0
  /\ frozen' = frozen - 1
  /\ IF frozen = 0 /\ Changed(batch)
     THEN /\ info' = [info EXCEPT ![t] = batch]
          /\ batch' = NoChanges
          /\ pc' = [pc EXCEPT ![t] = "emitting"]
     ELSE UNCHANGED <<info, batch, pc>>

\* folder_thaw: the last one to thaw emits the batch, after the lock.
LetGo(t) ==
  /\ frozen > 0
  /\ frozen' = frozen - 1
  /\ IF frozen = 1 /\ Changed(batch)
     THEN /\ info' = [info EXCEPT ![t] = batch]
          /\ batch' = NoChanges
          /\ pc' = [pc EXCEPT ![t] = "emitting"]
     ELSE UNCHANGED <<info, batch, pc>>

Thaw(t) ==
  /\ pc[t] = "idle" /\ t \in holders
  /\ holders' = holders \ {t}
  /\ LetGo(t)
  /\ UNCHANGED <<folderVars, todo, resetting, learnt, jobVars, listVars>>

\* filter_filter: reports to the junk plugin and runs the filters; a message
\* that has vanished is passed over.
RunJob ==
  /\ jobs # <<>> /\ job = NoJob /\ pc[Session] = "idle"
  /\ job' = Head(jobs)
  /\ jobs' = Tail(jobs)
  /\ handed' = [u \in Uids |-> IF u \in Head(jobs).recents /\ handed[u] < 2
                               THEN handed[u] + 1 ELSE handed[u]]
  /\ unlearnt' = [u \in Uids |-> IF u \in Head(jobs).learn \cap content /\ unlearnt[u] >= 0
                                 THEN unlearnt[u] - 1 ELSE unlearnt[u]]
  /\ UNCHANGED <<folderVars, batchVars, emitVars, listVars>>

\* Mutant: a job ends without thawing the folder.
EndJobFrozen ==
  /\ job # NoJob /\ pc[Session] = "idle"
  /\ job' = NoJob
  /\ UNCHANGED <<folderVars, batchVars, emitVars, jobs, handed, unlearnt, listVars>>

\* filter_free: the job is over and lets go of its freeze.
EndJob ==
  /\ job # NoJob /\ pc[Session] = "idle"
  /\ job' = NoJob
  /\ LetGo(Session)
  /\ UNCHANGED <<folderVars, holders, todo, resetting, learnt, jobs, handed, unlearnt, listVars>>

--------------------------------------------------------------------------------
(* The list of messages, in the main thread *)

\* mail_folder_hide_by_flag: a changed message that the list does not have
\* is an addition.
ToList(i) == i.added \cup (IF Hides THEN (i.changed \cap content) \ view ELSE {})

\* A reading that is under way is without a message that only changed.
Overtaken(i) == regen = "read" /\ ~((i.changed \cap content) \cap view \subseteq uids)

\* main_folder_changed: additions and removals have the list read the folder
\* again and cancel a reading that is under way; changes redraw their rows.
\* Without the race redraw this is not all that happens to a message that has
\* come back since the folder was read.
MainFolderChanged ==
  /\ events # <<>>
  /\ events' = Tail(events)
  /\ IF ToList(Head(events)) \cup Head(events).removed = {}
     THEN (Overtaken(Head(events)) => "redraw" \in Races) /\ UNCHANGED <<regen, uids>>
     ELSE regen' = "asked" /\ uids' = {}
  /\ UNCHANGED <<folderVars, batchVars, emitVars, jobVars, view>>

\* regen_list_exec, in a thread of its own.
RegenExec ==
  /\ regen = "asked"
  /\ regen' = "read"
  /\ uids' = content
  /\ UNCHANGED <<folderVars, batchVars, emitVars, jobVars, events, view>>

\* regen_list_done, in the main thread.
RegenDone ==
  /\ regen = "read"
  /\ regen' = "none"
  /\ view' = uids
  /\ uids' = {}
  /\ UNCHANGED <<folderVars, batchVars, emitVars, jobVars, events>>

--------------------------------------------------------------------------------

\* The steps of an emission that has begun.
EmissionStep(t) ==
  \/ Emit(t)
  \/ Hold(t) \/ Inspect(t) \/ ResetFlag(t) \/ Deliver(t) \/ Launch(t) \/ Retain(t)
  \/ \E u \in Uids : ReadFlags(t, u)

Change(t) ==
  \E u \in Uids :
    \/ \E new \in SUBSET {u} : AddMessage(t, u, new)
    \/ RemoveMessage(t, u)
    \/ \E forLearning \in BOOLEAN : SetFlags(t, u, forLearning)

Next ==
  \/ \E t \in Emitters : EmissionStep(t) \/ Change(t)
  \/ \E t \in Threads : Freeze(t) \/ Thaw(t)
  \/ RunJob \/ EndJob
  \/ MainFolderChanged \/ RegenExec \/ RegenDone

Spec == Init /\ [][Next]_vars

\* Threads run on and the session's pool works its jobs off; nobody has to
\* change a folder, and a thread thaws in its own time.
FairSpec ==
  /\ Spec
  /\ \A t \in Emitters : WF_vars(EmissionStep(t))
  /\ WF_vars(RunJob) /\ WF_vars(EndJob)
  /\ WF_vars(MainFolderChanged) /\ WF_vars(RegenExec) /\ WF_vars(RegenDone)

--------------------------------------------------------------------------------
(* Properties *)

\* Nothing is on its way: no emission, freeze, job, event or re-reading.
Quiet ==
  /\ \A t \in Emitters : pc[t] = "idle"
  /\ frozen = 0 /\ jobs = <<>> /\ job = NoJob
  /\ events = <<>> /\ regen = "none"

\* A batch waits only as long as someone is bound to thaw the folder, however
\* freezes, thaws, jobs and emissions overlap (folder_thaw, folder_changed).
NothingHeldBack == Changed(batch) => frozen > 0

\* The count of freezes is that of the thaws still to come: of threads, of
\* jobs that are queued or running and of emissions about to queue one
\* (folder_freeze, folder_thaw, folder_changed, filter_free).
Launched == {t \in Emitters : pc[t] = "launched"}

FreezesBalanced ==
  frozen = Cardinality(holders) + Cardinality(Launched)
           + Len(jobs) + (IF job = NoJob THEN 0 ELSE 1)

\* Each message that is reported as recent goes through the filters once:
\* never twice, although its changes are emitted again when its job thaws the
\* folder, and it has done so when everything is quiet (folder_changed).
FilteredOnce ==
  Filters => \A u \in Uids :
    /\ handed[u] <= 1
    /\ Quiet /\ u \in known => handed[u] = 1

\* A mark for learning is reported to the junk plugin at most once
\* (folder_changed: "reset junk learn flag so that we don't process it again").
\* No run has it: two emissions at a time break it (README).
ReportedOnce == \A u \in Uids : unlearnt[u] >= 0

\* When everything is quiet the list misses no message of the folder, in
\* whatever order changes were made, held back, retained and emitted
\* (change_info_cat, folder_changed, main_folder_changed).
ListMissesNothing == Quiet => content \subseteq view

\* When everything is quiet the list shows the messages of the folder and no
\* others: thawing "emits any pending folder_changed signals".
ListFollowsFolder == Quiet => view = content

\* Filtering and learning come to an end: the emission of a job's thaw does
\* not launch a job again and again, once nobody else keeps the folder frozen.
SettlesDown == <>[](holders = {}) => <>[]Quiet
================================================================================
