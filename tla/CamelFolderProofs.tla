--------------------------- MODULE CamelFolderProofs ---------------------------
(***************************************************************************)
(* Proofs about CamelFolderChangeInfo and CamelFolder: one list of changes *)
(* stands for two, freezes and thaws balance, no batch of changes is held  *)
(* back without a thaw to come, mail is filtered once, and the list misses *)
(* no message.                                                             *)
(***************************************************************************)
EXTENDS CamelFolder, FiniteSetTheorems, SequenceTheorems, TLAPS

--------------------------------------------------------------------------------
(* Changes *)

\* camel_folder_change_info_add_uid and its siblings make change infos of
\* change infos, with every uid filed once.
LEMMA AddUidsFiles ==
  ASSUME NEW i \in ChangeInfo, NEW U \in SUBSET Uids
  PROVE  AddUids(i, U) \in ChangeInfo /\ (Filed(i) => Filed(AddUids(i, U)))
BY DEF ChangeInfo, AddUids, Stored, Filed

\* The same for a uid that is removed,
LEMMA RemoveUidsFiles ==
  ASSUME NEW i \in ChangeInfo, NEW U \in SUBSET Uids
  PROVE  RemoveUids(i, U) \in ChangeInfo /\ (Filed(i) => Filed(RemoveUids(i, U)))
BY DEF ChangeInfo, RemoveUids, Filed

\* one that is changed
LEMMA ChangeUidsFiles ==
  ASSUME NEW i \in ChangeInfo, NEW U \in SUBSET Uids
  PROVE  ChangeUids(i, U) \in ChangeInfo /\ (Filed(i) => Filed(ChangeUids(i, U)))
BY DEF ChangeInfo, ChangeUids, Stored, Filed

\* and one that is recent.
LEMMA RecentUidsFiles ==
  ASSUME NEW i \in ChangeInfo, NEW U \in SUBSET Uids
  PROVE  RecentUids(i, U) \in ChangeInfo /\ (Filed(i) => Filed(RecentUids(i, U)))
BY DEF ChangeInfo, RecentUids, Filed

\* A new change info is one, and holds no changes.
LEMMA NoChangesFiled == NoChanges \in ChangeInfo /\ Filed(NoChanges) /\ ~Changed(NoChanges)
BY DEF NoChanges, ChangeInfo, Filed, Changed, Stored

\* The same for camel_folder_change_info_cat.
LEMMA CatFiles ==
  ASSUME NEW a \in ChangeInfo, NEW b \in ChangeInfo
  PROVE  Cat(a, b) \in ChangeInfo /\ (Filed(a) => Filed(Cat(a, b)))
<1> DEFINE one == AddUids(a, b.added)
           two == RemoveUids(one, b.removed)
           three == ChangeUids(two, b.changed)
<1>1. b.added \in SUBSET Uids /\ b.removed \in SUBSET Uids /\ b.changed \in SUBSET Uids
  BY DEF ChangeInfo
<1>2. one \in ChangeInfo /\ (Filed(a) => Filed(one))
  BY <1>1, AddUidsFiles
<1>3. two \in ChangeInfo /\ (Filed(one) => Filed(two))
  BY <1>1, <1>2, RemoveUidsFiles
<1>4. three \in ChangeInfo /\ (Filed(two) => Filed(three))
  BY <1>1, <1>3, ChangeUidsFiles
<1>5. Cat(a, b) = [three EXCEPT !.recent = @ \cup b.recent, !.filter = @ \cup b.filter]
  BY DEF Cat
<1> HIDE DEF one, two, three
<1>6. Cat(a, b) \in ChangeInfo
  BY <1>4, <1>5 DEF ChangeInfo
<1>7. Filed(three) => Filed(Cat(a, b))
  BY <1>4, <1>5 DEF ChangeInfo, Filed
<1> QED
  BY <1>2, <1>3, <1>4, <1>6, <1>7

\* camel_folder_change_info_cat: whoever applies the concatenation to the
\* messages he has ends where one ends who applied first the one and then the
\* other, if a message that is said to come back was there before.
THEOREM ChangesCompose ==
  ASSUME NEW a \in ChangeInfo, NEW b \in ChangeInfo, NEW V \in SUBSET Uids,
         Filed(a), Filed(b),
         b.added \cap (a.removed \cup a.changed) \subseteq V
  PROVE  Apply(Cat(a, b), V) = Apply(b, Apply(a, V))
<1>1. Cat(a, b).added = (a.added \cup (b.added \ Stored(a))) \ b.removed
  BY DEF Cat, AddUids, RemoveUids, ChangeUids, ChangeInfo
<1>2. Cat(a, b).removed = (a.removed \ b.added) \cup b.removed
  BY DEF Cat, AddUids, RemoveUids, ChangeUids, ChangeInfo
<1>3. ASSUME NEW u
      PROVE  u \in Apply(Cat(a, b), V) <=> u \in Apply(b, Apply(a, V))
  BY <1>1, <1>2 DEF Apply, Filed, Stored
<1> QED
  BY <1>3

--------------------------------------------------------------------------------
(* Types *)

\* A step that gives one emitter an info of its own keeps the type of infos.
LEMMA InfoUpdate ==
  ASSUME InfoType, NEW t \in Emitters, NEW i \in ChangeInfo, Filed(i),
         info' = [info EXCEPT ![t] = i]
  PROVE  InfoType'
BY DEF InfoType

\* What a step leaves alone keeps its type.
LEMMA Unchanged ==
  ASSUME TypeOK
  PROVE  /\ UNCHANGED folderVars => FolderType'
         /\ UNCHANGED batchVars => BatchType'
         /\ UNCHANGED info => InfoType'
         /\ UNCHANGED emitVars => InfoType' /\ EmitType'
         /\ UNCHANGED jobVars => JobType'
         /\ UNCHANGED listVars => ListType'
<1>1. UNCHANGED folderVars => FolderType'
  BY DEF TypeOK, FolderType, folderVars
<1>2. UNCHANGED batchVars => BatchType'
  BY DEF TypeOK, BatchType, batchVars
<1>3. UNCHANGED info => InfoType'
  BY DEF TypeOK, InfoType
<1>4. UNCHANGED emitVars => InfoType' /\ EmitType'
  BY DEF TypeOK, InfoType, EmitType, emitVars
<1>5. UNCHANGED jobVars => JobType'
  BY DEF TypeOK, JobType, jobVars
<1>6. UNCHANGED listVars => ListType'
  BY DEF TypeOK, ListType, listVars
<1> QED
  BY <1>1, <1>2, <1>3, <1>4, <1>5, <1>6

\* The changes of a provider and of the flags keep the types,
LEMMA AddMessageTypes ==
  ASSUME TypeOK, NEW t \in Emitters, NEW u \in Uids, NEW new \in SUBSET {u}, AddMessage(t, u, new)
  PROVE  TypeOK'
<1> DEFINE i == RecentUids(AddUids(info[t], {u}), new)
<1>1. i \in ChangeInfo /\ Filed(i)
  BY AddUidsFiles, RecentUidsFiles DEF TypeOK, InfoType
<1>2. info' = [info EXCEPT ![t] = i]
  BY DEF AddMessage, Collect
<1> HIDE DEF i
<1>3. InfoType'
  BY <1>1, <1>2, InfoUpdate DEF TypeOK
<1>4. FolderType'
  BY FolderAssumption DEF AddMessage, Collect, MayChange, TypeOK, FolderType
<1>5. EmitType'
  BY DEF AddMessage, Collect, TypeOK, EmitType
<1>6. BatchType' /\ JobType' /\ ListType'
  BY Unchanged DEF AddMessage, Collect
<1> QED
  BY <1>3, <1>4, <1>5, <1>6 DEF TypeOK

\* removals as additions,
LEMMA RemoveMessageTypes ==
  ASSUME TypeOK, NEW t \in Emitters, NEW u \in Uids, RemoveMessage(t, u)
  PROVE  TypeOK'
<1> DEFINE i == RemoveUids(info[t], {u})
<1>1. i \in ChangeInfo /\ Filed(i)
  BY RemoveUidsFiles DEF TypeOK, InfoType
<1>2. info' = [info EXCEPT ![t] = i]
  BY DEF RemoveMessage, Collect
<1> HIDE DEF i
<1>3. InfoType'
  BY <1>1, <1>2, InfoUpdate DEF TypeOK
<1>4. FolderType'
  BY FolderAssumption DEF RemoveMessage, Collect, MayChange, TypeOK, FolderType
<1>5. EmitType'
  BY DEF RemoveMessage, Collect, TypeOK, EmitType
<1>6. BatchType' /\ JobType' /\ ListType'
  BY Unchanged DEF RemoveMessage, Collect
<1> QED
  BY <1>3, <1>4, <1>5, <1>6 DEF TypeOK

\* their emission,
LEMMA EmitTypes ==
  ASSUME TypeOK, NEW t \in Emitters, Emit(t)
  PROVE  TypeOK'
<1>1. EmitType'
  BY DEF Emit, TypeOK, EmitType
<1>2. FolderType' /\ BatchType' /\ InfoType' /\ JobType' /\ ListType'
  BY Unchanged DEF Emit
<1> QED
  BY <1>1, <1>2 DEF TypeOK

\* and flags that emit themselves.
LEMMA SetFlagsTypes ==
  ASSUME TypeOK, NEW t \in Emitters, NEW u \in Uids, NEW forLearning \in BOOLEAN, SetFlags(t, u, forLearning)
  PROVE  TypeOK'
<1> DEFINE i == ChangeUids(NoChanges, {u})
<1>1. i \in ChangeInfo /\ Filed(i)
  BY ChangeUidsFiles, NoChangesFiled
<1>2. info' = [info EXCEPT ![t] = i]
  BY DEF SetFlags
<1> HIDE DEF i
<1>3. InfoType'
  BY <1>1, <1>2, InfoUpdate DEF TypeOK
<1>4. FolderType'
  BY FolderAssumption DEF SetFlags, MayChange, TypeOK, FolderType
<1>5. EmitType'
  BY DEF SetFlags, TypeOK, EmitType
<1>6. JobType'
  BY DEF SetFlags, TypeOK, JobType
<1>7. BatchType' /\ ListType'
  BY Unchanged DEF SetFlags
<1> QED
  BY <1>3, <1>4, <1>5, <1>6, <1>7 DEF TypeOK

\* A folder that is frozen keeps the types of its batch.
LEMMA HoldTypes ==
  ASSUME TypeOK, NEW t \in Emitters, Hold(t)
  PROVE  TypeOK'
<1> DEFINE i == NoChanges
<1>1. i \in ChangeInfo /\ Filed(i)
  BY NoChangesFiled
<1>2. info' = [info EXCEPT ![t] = i]
  BY DEF Hold, Finish
<1> HIDE DEF i
<1>3. InfoType'
  BY <1>1, <1>2, InfoUpdate DEF TypeOK
<1>4. BatchType'
  BY CatFiles DEF Hold, InfoType, TypeOK, BatchType
<1>5. EmitType'
  BY DEF Hold, Finish, TypeOK, EmitType
<1>6. FolderType' /\ JobType' /\ ListType'
  BY Unchanged DEF Hold, Finish
<1> QED
  BY <1>3, <1>4, <1>5, <1>6 DEF TypeOK

\* An emission that gets through looks at changed messages only,
LEMMA InspectTypes ==
  ASSUME TypeOK, NEW t \in Emitters, Inspect(t)
  PROVE  TypeOK'
<1>1. EmitType'
  BY DEF Inspect, InfoType, ChangeInfo, TypeOK, EmitType
<1>2. FolderType' /\ BatchType' /\ InfoType' /\ JobType' /\ ListType'
  BY Unchanged DEF Inspect
<1> QED
  BY <1>1, <1>2 DEF TypeOK

\* one after the other,
LEMMA ReadFlagsTypes ==
  ASSUME TypeOK, NEW t \in Emitters, NEW u \in Uids, ReadFlags(t, u)
  PROVE  TypeOK'
<1>1. EmitType'
  BY DEF ReadFlags, TypeOK, EmitType
<1>2. FolderType' /\ BatchType' /\ InfoType' /\ JobType' /\ ListType'
  BY Unchanged DEF ReadFlags
<1> QED
  BY <1>1, <1>2 DEF TypeOK

\* and learns those it has looked at.
LEMMA ResetFlagTypes ==
  ASSUME TypeOK, NEW t \in Emitters, ResetFlag(t)
  PROVE  TypeOK'
<1>1. FolderType'
  BY DEF ResetFlag, TypeOK, FolderType
<1>2. EmitType'
  BY DEF ResetFlag, TypeOK, EmitType
<1>3. BatchType' /\ InfoType' /\ JobType' /\ ListType'
  BY Unchanged DEF ResetFlag
<1> QED
  BY <1>1, <1>2, <1>3 DEF TypeOK

\* The list is sent change infos.
LEMMA DeliverTypes ==
  ASSUME TypeOK, NEW t \in Emitters, Deliver(t)
  PROVE  TypeOK'
<1> DEFINE i == NoChanges
<1>1. i \in ChangeInfo /\ Filed(i)
  BY NoChangesFiled
<1>2. info' = [info EXCEPT ![t] = i]
  BY DEF Deliver, Finish
<1> HIDE DEF i
<1>3. InfoType'
  BY <1>1, <1>2, InfoUpdate DEF TypeOK
<1>4. EmitType'
  BY DEF Deliver, Finish, TypeOK, EmitType
<1>5. ListType'
  BY DEF Deliver, InfoType, TypeOK, ListType
<1>6. FolderType' /\ BatchType' /\ JobType'
  BY Unchanged DEF Deliver, Finish
<1> QED
  BY <1>3, <1>4, <1>5, <1>6 DEF TypeOK

\* A launch adds a freeze,
LEMMA LaunchTypes ==
  ASSUME TypeOK, NEW t \in Emitters, Launch(t)
  PROVE  TypeOK'
<1>1. BatchType'
  BY DEF Launch, TypeOK, BatchType
<1>2. EmitType'
  BY DEF Launch, TypeOK, EmitType
<1>3. FolderType' /\ InfoType' /\ JobType' /\ ListType'
  BY Unchanged DEF Launch
<1> QED
  BY <1>1, <1>2, <1>3 DEF TypeOK

\* and its end queues a job of uids and gives the batch the rest.
LEMMA RetainTypes ==
  ASSUME TypeOK, NEW t \in Emitters, Retain(t)
  PROVE  TypeOK'
<1> DEFINE i == NoChanges
<1>1. i \in ChangeInfo /\ Filed(i)
  BY NoChangesFiled
<1>2. info' = [info EXCEPT ![t] = i]
  BY DEF Retain, Finish
<1> HIDE DEF i
<1>3. InfoType'
  BY <1>1, <1>2, InfoUpdate DEF TypeOK
<1>4. BatchType'
  <2> DEFINE kept == [info[t] EXCEPT !.filter = @ \ Recents(t)]
  <2>1. kept \in ChangeInfo
    BY DEF TypeOK, InfoType, ChangeInfo
  <2>2. batch' = Cat(batch, kept) /\ UNCHANGED <<frozen, holders>>
    BY DEF Retain
  <2> HIDE DEF kept
  <2> QED
    BY <2>1, <2>2, CatFiles DEF TypeOK, BatchType
<1>5. EmitType'
  BY DEF Retain, Finish, TypeOK, EmitType
<1>6. JobType'
  BY DEF Retain, Recents, Job, InfoType, EmitType, ChangeInfo, TypeOK, JobType
<1>7. FolderType' /\ ListType'
  BY Unchanged DEF Retain, Finish
<1> QED
  BY <1>3, <1>4, <1>5, <1>6, <1>7 DEF TypeOK

\* A thread that freezes the folder is one of Threads.
LEMMA FreezeTypes ==
  ASSUME TypeOK, NEW t \in Threads, Freeze(t)
  PROVE  TypeOK'
<1>1. BatchType'
  BY DEF Freeze, TypeOK, BatchType
<1>2. FolderType' /\ InfoType' /\ EmitType' /\ JobType' /\ ListType'
  BY Unchanged DEF Freeze
<1> QED
  BY <1>1, <1>2 DEF TypeOK

\* The job that runs is one of those queued.
LEMMA RunJobTypes ==
  ASSUME TypeOK, RunJob
  PROVE  TypeOK'
<1>1. JobType'
  BY DEF RunJob, TypeOK, JobType
<1>2. FolderType' /\ BatchType' /\ InfoType' /\ EmitType' /\ ListType'
  BY Unchanged DEF RunJob
<1> QED
  BY <1>1, <1>2 DEF TypeOK

\* The main thread takes events from their queue,
LEMMA MainFolderChangedTypes ==
  ASSUME TypeOK, MainFolderChanged
  PROVE  TypeOK'
<1>1. ListType'
  BY DEF MainFolderChanged, TypeOK, ListType
<1>2. FolderType' /\ BatchType' /\ InfoType' /\ EmitType' /\ JobType'
  BY Unchanged DEF MainFolderChanged
<1> QED
  BY <1>1, <1>2 DEF TypeOK

\* and has the list read,
LEMMA RegenExecTypes ==
  ASSUME TypeOK, RegenExec
  PROVE  TypeOK'
<1>1. ListType'
  BY DEF RegenExec, FolderType, TypeOK, ListType
<1>2. FolderType' /\ BatchType' /\ InfoType' /\ EmitType' /\ JobType'
  BY Unchanged DEF RegenExec
<1> QED
  BY <1>1, <1>2 DEF TypeOK

\* and shown.
LEMMA RegenDoneTypes ==
  ASSUME TypeOK, RegenDone
  PROVE  TypeOK'
<1>1. ListType'
  BY DEF RegenDone, TypeOK, ListType
<1>2. FolderType' /\ BatchType' /\ InfoType' /\ EmitType' /\ JobType'
  BY Unchanged DEF RegenDone
<1> QED
  BY <1>1, <1>2 DEF TypeOK


\* The end of a freeze, in a thread or a job.
LEMMA LetGoTypes ==
  ASSUME TypeOK, NEW t \in Emitters, LetGo(t)
  PROVE  /\ frozen' \in Nat
         /\ batch' \in ChangeInfo /\ Filed(batch')
         /\ InfoType'
         /\ pc' \in [Emitters -> {"idle", "collecting", "emitting", "inspecting", "launched"}]
<1>1. frozen' \in Nat
  BY DEF LetGo, TypeOK, BatchType
<1>2. CASE frozen = 1 /\ Changed(batch)
  <2>1. info' = [info EXCEPT ![t] = batch] /\ batch' = NoChanges /\ pc' = [pc EXCEPT ![t] = "emitting"]
    BY <1>2 DEF LetGo
  <2>2. InfoType'
    BY <2>1, InfoUpdate DEF TypeOK, BatchType
  <2> QED
    BY <1>1, <2>1, <2>2, NoChangesFiled DEF TypeOK, EmitType
<1>3. CASE ~(frozen = 1 /\ Changed(batch))
  <2>1. UNCHANGED <<info, batch, pc>>
    BY <1>3 DEF LetGo
  <2> QED
    BY <1>1, <2>1 DEF TypeOK, EmitType, InfoType, BatchType
<1> QED
  BY <1>2, <1>3

\* A thread that thaws the folder emits a change info, if anything,
LEMMA ThawTypes ==
  ASSUME TypeOK, NEW t \in Threads, Thaw(t)
  PROVE  TypeOK'
<1>1. t \in Emitters /\ LetGo(t)
  BY DEF Thaw, Emitters
<1>2. BatchType' /\ InfoType' /\ EmitType'
  BY <1>1, LetGoTypes DEF Thaw, TypeOK, BatchType, EmitType
<1>3. FolderType' /\ JobType' /\ ListType'
  BY Unchanged DEF Thaw
<1> QED
  BY <1>2, <1>3 DEF TypeOK

\* and so does the end of a job.
LEMMA EndJobTypes ==
  ASSUME TypeOK, EndJob
  PROVE  TypeOK'
<1>1. Session \in Emitters /\ LetGo(Session)
  BY DEF EndJob, Emitters
<1>2. BatchType' /\ InfoType' /\ EmitType'
  BY <1>1, LetGoTypes DEF EndJob, TypeOK, BatchType, EmitType
<1>3. JobType'
  BY DEF EndJob, TypeOK, JobType
<1>4. FolderType' /\ ListType'
  BY Unchanged DEF EndJob
<1> QED
  BY <1>2, <1>3, <1>4 DEF TypeOK

\* The initial state has the types.
LEMMA InitTypes == Init => TypeOK
<1> SUFFICES ASSUME Init PROVE TypeOK
  OBVIOUS
<1>1. FolderType /\ BatchType /\ InfoType /\ EmitType
  BY FolderAssumption, NoChangesFiled
  DEF Init, FolderType, BatchType, InfoType, EmitType
<1>2. JobType /\ ListType
  BY DEF Init, JobType, ListType
<1> QED
  BY <1>1, <1>2 DEF TypeOK

\* Every step keeps the types.
LEMMA StepTypes == TypeOK /\ [Next]_vars => TypeOK'
<1> SUFFICES ASSUME TypeOK, [Next]_vars PROVE TypeOK'
  OBVIOUS
<1>1. ASSUME NEW t \in Emitters, EmissionStep(t) PROVE TypeOK'
  BY <1>1, EmitTypes, HoldTypes, InspectTypes, ReadFlagsTypes, ResetFlagTypes,
     DeliverTypes, LaunchTypes, RetainTypes DEF EmissionStep
<1>2. ASSUME NEW t \in Emitters, Change(t) PROVE TypeOK'
  BY <1>2, AddMessageTypes, RemoveMessageTypes, SetFlagsTypes DEF Change
<1>3. ASSUME NEW t \in Threads, Freeze(t) \/ Thaw(t) PROVE TypeOK'
  BY <1>3, FreezeTypes, ThawTypes
<1>4. CASE RunJob \/ EndJob
  BY <1>4, RunJobTypes, EndJobTypes
<1>5. CASE MainFolderChanged \/ RegenExec \/ RegenDone
  BY <1>5, MainFolderChangedTypes, RegenExecTypes, RegenDoneTypes
<1>6. CASE UNCHANGED vars
  BY <1>6, Unchanged DEF vars, TypeOK
<1> QED
  BY <1>1, <1>2, <1>3, <1>4, <1>5, <1>6 DEF Next

\* The variables of folder, batch, emissions, jobs and list keep their types,
\* and no change info files a uid twice.
THEOREM TypeCorrect == Spec => []TypeOK
BY InitTypes, StepTypes, PTL DEF Spec

--------------------------------------------------------------------------------
(* Freezes *)

\* Only finitely many threads emit.
LEMMA EmittersFinite == IsFiniteSet(Emitters)
BY FolderAssumption, FS_Singleton, FS_Union DEF Emitters

\* The two sets that are counted are finite.
LEMMA Countable ==
  ASSUME TypeOK
  PROVE  /\ IsFiniteSet(holders) /\ Cardinality(holders) \in Nat
         /\ IsFiniteSet(Launched) /\ Cardinality(Launched) \in Nat
<1>1. IsFiniteSet(holders)
  BY FolderAssumption, FS_Subset DEF TypeOK, BatchType
<1>2. IsFiniteSet(Launched)
  BY EmittersFinite, FS_Subset DEF Launched
<1> QED
  BY <1>1, <1>2, FS_CardinalityType


\* The inductive invariant: a batch is not held back because the freezes are
\* counted, in particular that of an emission on its way to the batch.
FreezeInv == TypeOK /\ FreezesBalanced /\ NothingHeldBack

\* What both are about, apart from an emission's way to its job.
freezeVars == <<frozen, batch, holders, jobs, job>>

\* A step that touches none of them keeps the invariant.
LEMMA CountsAlone ==
  ASSUME FreezeInv, UNCHANGED freezeVars, Launched' = Launched
  PROVE  FreezesBalanced' /\ NothingHeldBack'
BY DEF FreezeInv, FreezesBalanced, NothingHeldBack, freezeVars

\* A step of one emitter that neither launches nor ends a launch.
LEMMA LaunchedAlone ==
  ASSUME EmitType, NEW t \in Emitters, NEW p,
         pc' = [pc EXCEPT ![t] = p], pc[t] # "launched", p # "launched"
  PROVE  Launched' = Launched
BY DEF Launched, EmitType

\* Steps that freeze nothing, thaw nothing and leave the batch alone.
LEMMA OtherSteps ==
  ASSUME FreezeInv, NEW t \in Emitters,
         Change(t) \/ Emit(t) \/ Inspect(t) \/ Deliver(t)
  PROVE  FreezesBalanced' /\ NothingHeldBack'
<1>1. UNCHANGED freezeVars
  BY DEF Change, AddMessage, RemoveMessage, Collect, Emit, SetFlags, Inspect, Deliver,
         batchVars, jobVars, freezeVars
<1>2. \E p \in {"idle", "collecting", "emitting", "inspecting"} :
        pc' = [pc EXCEPT ![t] = p] /\ pc[t] # "launched"
  BY DEF Change, AddMessage, RemoveMessage, Collect, Emit, SetFlags, Inspect, Deliver,
         Inspected, Finish
<1>3. Launched' = Launched
  BY <1>2, LaunchedAlone DEF FreezeInv, TypeOK
<1> QED
  BY <1>1, <1>3, CountsAlone

\* The steps on flags and of the main thread are no different.
LEMMA QuietSteps ==
  ASSUME FreezeInv,
         \/ \E t \in Emitters : ResetFlag(t) \/ \E u \in Uids : ReadFlags(t, u)
         \/ MainFolderChanged \/ RegenExec \/ RegenDone
         \/ UNCHANGED vars
  PROVE  FreezesBalanced' /\ NothingHeldBack'
<1>1. UNCHANGED freezeVars /\ pc' = pc
  BY DEF ResetFlag, ReadFlags, MainFolderChanged, RegenExec, RegenDone, vars,
         batchVars, emitVars, jobVars, freezeVars
<1>2. Launched' = Launched
  BY <1>1 DEF Launched
<1> QED
  BY <1>1, <1>2, CountsAlone

\* The batch takes an emission only while the folder is frozen.
LEMMA HoldStep ==
  ASSUME FreezeInv, NEW t \in Emitters, Hold(t)
  PROVE  FreezesBalanced' /\ NothingHeldBack'
<1>1. Launched' = Launched
  BY LaunchedAlone DEF Hold, Finish, FreezeInv, TypeOK
<1>2. UNCHANGED <<frozen, holders, jobs, job>> /\ frozen > 0
  BY DEF Hold, jobVars
<1> QED
  BY <1>1, <1>2 DEF FreezeInv, FreezesBalanced, NothingHeldBack

\* A launch freezes the folder for the job to come.
LEMMA LaunchStep ==
  ASSUME FreezeInv, NEW t \in Emitters, Launch(t)
  PROVE  FreezesBalanced' /\ NothingHeldBack'
<1>1. t \notin Launched /\ Launched' = Launched \cup {t}
  BY DEF Launch, Inspected, Launched, FreezeInv, TypeOK, EmitType
<1>2. Cardinality(Launched') = Cardinality(Launched) + 1
  BY <1>1, Countable, FS_AddElement DEF FreezeInv
<1>3. frozen' = frozen + 1 /\ UNCHANGED <<batch, holders, jobs, job>>
  BY DEF Launch, jobVars
<1>4. FreezesBalanced'
  BY <1>2, <1>3, Countable DEF FreezeInv, FreezesBalanced, TypeOK, JobType
<1>5. NothingHeldBack'
  BY <1>3 DEF FreezeInv, NothingHeldBack, TypeOK, BatchType
<1> QED
  BY <1>4, <1>5

\* The batch takes back what was launched, under the freeze of the launch,
\* and hands the freeze to the job.
LEMMA RetainStep ==
  ASSUME FreezeInv, NEW t \in Emitters, Retain(t)
  PROVE  FreezesBalanced' /\ NothingHeldBack'
<1>1. t \in Launched /\ Launched' = Launched \ {t}
  BY DEF Retain, Finish, Launched, FreezeInv, TypeOK, EmitType
<1>2. Cardinality(Launched') = Cardinality(Launched) - 1
  BY <1>1, Countable, FS_RemoveElement DEF FreezeInv
<1>3. Cardinality(Launched) > 0
  BY <1>1, Countable, FS_EmptySet DEF FreezeInv
<1>4. UNCHANGED <<frozen, holders, job>>
  BY DEF Retain
<1>5. Len(jobs') = Len(jobs) + 1 /\ Len(jobs) \in Nat
  <2> DEFINE queued == [recents |-> Recents(t), learn |-> learnt[t]]
  <2>1. queued \in Job /\ jobs' = Append(jobs, queued)
    BY DEF Retain, Recents, Job, FreezeInv, TypeOK, InfoType, EmitType, ChangeInfo
  <2>2. jobs \in Seq(Job)
    BY DEF FreezeInv, TypeOK, JobType
  <2> HIDE DEF queued
  <2> QED
    BY <2>1, <2>2, AppendProperties, LenProperties
<1>6. FreezesBalanced'
  BY <1>2, <1>4, <1>5, Countable, SMTT(30) DEF FreezeInv, FreezesBalanced
<1>7. frozen > 0
  BY <1>3, <1>5, Countable DEF FreezeInv, FreezesBalanced
<1> QED
  BY <1>4, <1>6, <1>7 DEF NothingHeldBack

\* A thread that freezes the folder is one more that will thaw it,
LEMMA FreezeStep ==
  ASSUME FreezeInv, NEW t \in Threads, Freeze(t)
  PROVE  FreezesBalanced' /\ NothingHeldBack'
<1>1. Cardinality(holders') = Cardinality(holders) + 1
  BY Countable, FS_AddElement DEF Freeze, FreezeInv
<1>2. frozen' = frozen + 1 /\ UNCHANGED <<batch, jobs, job>> /\ Launched' = Launched
  BY DEF Freeze, emitVars, jobVars, Launched
<1>3. FreezesBalanced'
  BY <1>1, <1>2, Countable DEF FreezeInv, FreezesBalanced, TypeOK, JobType
<1>4. NothingHeldBack'
  BY <1>2 DEF FreezeInv, NothingHeldBack, TypeOK, BatchType
<1> QED
  BY <1>3, <1>4

\* The last to let go empties the batch.
LEMMA LetGoStep ==
  ASSUME FreezeInv, NEW t \in Emitters, LetGo(t), pc[t] = "idle"
  PROVE  NothingHeldBack' /\ frozen' = frozen - 1 /\ Launched' = Launched
<1>1. frozen' = frozen - 1 /\ frozen > 0
  BY DEF LetGo
<1>2. Launched' = Launched
  <2>1. CASE pc' = pc
    BY <2>1 DEF Launched
  <2>2. CASE pc' = [pc EXCEPT ![t] = "emitting"]
    BY <2>2, LaunchedAlone DEF FreezeInv, TypeOK
  <2> QED
    BY <2>1, <2>2 DEF LetGo
<1>3. CASE frozen = 1 /\ Changed(batch)
  BY <1>1, <1>2, <1>3, NoChangesFiled DEF LetGo, NothingHeldBack
<1>4. CASE frozen # 1
  BY <1>1, <1>2, <1>4 DEF FreezeInv, TypeOK, BatchType, NothingHeldBack
<1>5. CASE ~Changed(batch)
  BY <1>1, <1>2, <1>5 DEF LetGo, NothingHeldBack
<1> QED
  BY <1>3, <1>4, <1>5

\* and one less when it does.
LEMMA ThawStep ==
  ASSUME FreezeInv, NEW t \in Threads, Thaw(t)
  PROVE  FreezesBalanced' /\ NothingHeldBack'
<1>1. NothingHeldBack' /\ frozen' = frozen - 1 /\ Launched' = Launched
  BY LetGoStep DEF Thaw, Emitters
<1>2. Cardinality(holders') = Cardinality(holders) - 1
  BY Countable, FS_RemoveElement DEF Thaw, FreezeInv
<1>3. UNCHANGED <<jobs, job>>
  BY DEF Thaw, jobVars
<1> QED
  BY <1>1, <1>2, <1>3, Countable DEF FreezeInv, FreezesBalanced, TypeOK, JobType

\* A job takes its freeze with it from the queue.
LEMMA RunJobStep ==
  ASSUME FreezeInv, RunJob
  PROVE  FreezesBalanced' /\ NothingHeldBack'
<1>1. job = NoJob /\ job' # NoJob /\ Len(jobs') = Len(jobs) - 1 /\ Len(jobs) \in Nat
  BY FolderAssumption DEF RunJob, FreezeInv, TypeOK, JobType
<1>2. UNCHANGED <<frozen, batch, holders>> /\ Launched' = Launched
  BY DEF RunJob, batchVars, emitVars, Launched
<1> QED
  BY <1>1, <1>2, Countable DEF FreezeInv, FreezesBalanced, NothingHeldBack

\* The end of a job is the thaw of its freeze.
LEMMA EndJobStep ==
  ASSUME FreezeInv, EndJob
  PROVE  FreezesBalanced' /\ NothingHeldBack'
<1>1. NothingHeldBack' /\ frozen' = frozen - 1 /\ Launched' = Launched
  BY LetGoStep DEF EndJob, Emitters
<1>2. job # NoJob /\ job' = NoJob /\ UNCHANGED <<holders, jobs>>
  BY DEF EndJob
<1> QED
  BY <1>1, <1>2, Countable DEF FreezeInv, FreezesBalanced, TypeOK, JobType

\* Nobody has frozen a new folder.
LEMMA InitFreezes == Init => FreezeInv
<1> SUFFICES ASSUME Init PROVE FreezesBalanced /\ NothingHeldBack
  BY InitTypes DEF FreezeInv
<1>1. Launched = {}
  BY DEF Init, Launched
<1> QED
  BY <1>1, FS_EmptySet, NoChangesFiled DEF Init, FreezesBalanced, NothingHeldBack

\* Every step keeps the balance of freezes and the batch moving.
LEMMA StepFreezes == FreezeInv /\ [Next]_vars => FreezeInv'
<1> SUFFICES ASSUME FreezeInv, [Next]_vars PROVE FreezesBalanced' /\ NothingHeldBack'
  BY StepTypes DEF FreezeInv
<1>1. ASSUME NEW t \in Emitters, EmissionStep(t)
      PROVE  FreezesBalanced' /\ NothingHeldBack'
  <2>1. CASE Emit(t) \/ Inspect(t) \/ Deliver(t)
    BY <2>1, OtherSteps
  <2>2. CASE ResetFlag(t) \/ \E u \in Uids : ReadFlags(t, u)
    BY <2>2, QuietSteps
  <2> QED
    BY <1>1, <2>1, <2>2, HoldStep, LaunchStep, RetainStep DEF EmissionStep
<1>2. ASSUME NEW t \in Emitters, Change(t)
      PROVE  FreezesBalanced' /\ NothingHeldBack'
  BY <1>2, OtherSteps
<1>3. ASSUME NEW t \in Threads, Freeze(t) \/ Thaw(t)
      PROVE  FreezesBalanced' /\ NothingHeldBack'
  BY <1>3, FreezeStep, ThawStep
<1>4. CASE RunJob \/ EndJob
  BY <1>4, RunJobStep, EndJobStep
<1>5. CASE MainFolderChanged \/ RegenExec \/ RegenDone \/ UNCHANGED vars
  BY <1>5, QuietSteps
<1> QED
  BY <1>1, <1>2, <1>3, <1>4, <1>5 DEF Next

\* So it is kept in every behaviour.
LEMMA FreezesInvariant == Spec => []FreezeInv
BY InitFreezes, StepFreezes, PTL DEF Spec

\* Every freeze has its thaw to come, for any threads, messages and number of
\* changes.
THEOREM FreezesBalance == Spec => []FreezesBalanced
<1>1. FreezeInv => FreezesBalanced
  BY DEF FreezeInv
<1> QED
  BY <1>1, FreezesInvariant, PTL

\* No change of a message is left in the batch of a folder that nobody is
\* bound to thaw.
THEOREM BatchesMoveOn == Spec => []NothingHeldBack
<1>1. FreezeInv => NothingHeldBack
  BY DEF FreezeInv
<1> QED
  BY <1>1, FreezesInvariant, PTL

--------------------------------------------------------------------------------
(* What is on its way *)

\* An emitter that emits nothing holds no changes, and what is to be filtered
\* is recent.
Calm == \A t \in Emitters : pc[t] = "idle" => info[t] = NoChanges

FilterIsRecent ==
  /\ batch.filter \subseteq batch.recent
  /\ \A t \in Emitters : info[t].filter \subseteq info[t].recent

\* The emission, the batch or the event that tells of a message.
Told(u) ==
  \/ \E t \in Emitters : u \in Stored(info[t])
  \/ u \in Stored(batch)
  \/ \E k \in DOMAIN events : u \in Stored(events[k])

\* The list has a message of the folder, or will be told of it, or reads it.
Covered(u) ==
  \/ Told(u)
  \/ regen = "asked"
  \/ regen = "read" /\ u \in uids
  \/ regen = "none" /\ u \in view

\* Where a message waits to be filtered.
Waits(u) ==
  \/ \E t \in Emitters : u \in info[t].filter
  \/ u \in batch.filter
  \/ \E k \in DOMAIN jobs : u \in jobs[k].recents

\* It waits in one place, and no longer once it has been filtered.
InOnePlace(u) ==
  /\ \A t, r \in Emitters : u \in info[t].filter /\ u \in info[r].filter => t = r
  /\ \A k, l \in DOMAIN jobs : u \in jobs[k].recents /\ u \in jobs[l].recents => k = l
  /\ u \in batch.filter => \A t \in Emitters : u \notin info[t].filter
  /\ \A k \in DOMAIN jobs : u \in jobs[k].recents =>
       u \notin batch.filter /\ \A t \in Emitters : u \notin info[t].filter

Once(u) ==
  /\ InOnePlace(u)
  /\ handed[u] \in {0, 1}
  /\ handed[u] = 1 => ~Waits(u)
  /\ u \in known <=> Waits(u) \/ handed[u] = 1

ListInv == Calm /\ \A u \in content : Covered(u)
OnceInv == Calm /\ FilterIsRecent /\ \A u \in Uids : Once(u)

\* What the operations on change infos make of the uids they store and of those
\* to be filtered: a new message,
LEMMA AddedIs ==
  ASSUME NEW i \in ChangeInfo, NEW u \in Uids, NEW new \in SUBSET {u}
  PROVE  LET j == RecentUids(AddUids(i, {u}), new)
         IN  /\ Stored(j) = Stored(i) \cup {u}
             /\ j.filter = i.filter \cup new /\ j.recent = i.recent \cup new
BY DEF ChangeInfo, RecentUids, AddUids, Stored

\* one that is removed,
LEMMA RemovedIs ==
  ASSUME NEW i \in ChangeInfo, NEW u \in Uids
  PROVE  LET j == RemoveUids(i, {u})
         IN  Stored(j) = Stored(i) \cup {u} /\ j.filter = i.filter /\ j.recent = i.recent
BY DEF ChangeInfo, RemoveUids, Stored

\* one whose flags change,
LEMMA ChangedIs ==
  ASSUME NEW u \in Uids
  PROVE  LET j == ChangeUids(NoChanges, {u})
         IN  Stored(j) = {u} /\ j.filter = {} /\ j.recent = {}
BY DEF NoChanges, ChangeUids, Stored

\* no change,
LEMMA NoChangesIs == Stored(NoChanges) = {} /\ NoChanges.filter = {} /\ NoChanges.recent = {}
BY DEF NoChanges, Stored

\* and two lists of changes: nothing is forgotten.
LEMMA CatIs ==
  ASSUME NEW a \in ChangeInfo, NEW b \in ChangeInfo
  PROVE  /\ Stored(Cat(a, b)) = Stored(a) \cup Stored(b)
         /\ Cat(a, b).filter = a.filter \cup b.filter
         /\ Cat(a, b).recent = a.recent \cup b.recent
BY DEF ChangeInfo, Cat, AddUids, RemoveUids, ChangeUids, Stored

\* Changes that lack only messages to be filtered.
LEMMA KeptIs ==
  ASSUME NEW i \in ChangeInfo, NEW S
  PROVE  LET j == [i EXCEPT !.filter = @ \ S]
         IN  /\ j \in ChangeInfo /\ Stored(j) = Stored(i)
             /\ j.filter = i.filter \ S /\ j.recent = i.recent
BY DEF ChangeInfo, Stored

\* Steps of an emission that leave the changes where they are.
Keeps == UNCHANGED <<info, batch, known, handed, jobs>>

\* Which steps those are.
LEMMA StepsThatKeep ==
  ASSUME TypeOK, Calm
  PROVE  /\ \A t \in Emitters :
              /\ Emit(t) \/ Inspect(t) \/ Launch(t) => Keeps /\ Calm' /\ UNCHANGED <<content, listVars>>
              /\ ResetFlag(t) => Keeps /\ Calm' /\ UNCHANGED <<content, listVars>>
              /\ \A u \in Uids : ReadFlags(t, u) => Keeps /\ Calm' /\ UNCHANGED <<content, listVars>>
         /\ \A t \in Threads : Freeze(t) => Keeps /\ Calm' /\ UNCHANGED <<content, listVars>>
         /\ MainFolderChanged \/ RegenExec \/ RegenDone => Keeps /\ Calm' /\ UNCHANGED content
         /\ RunJob => UNCHANGED <<info, batch, known, content, listVars>> /\ Calm'
<1>1. ASSUME NEW t \in Emitters, Emit(t) \/ Inspect(t) \/ Launch(t)
      PROVE  Keeps /\ Calm' /\ UNCHANGED <<content, listVars>>
  <2>1. Keeps /\ UNCHANGED <<content, listVars>>
    BY <1>1 DEF Emit, Inspect, Launch, Keeps, folderVars, batchVars, jobVars
  <2>2. \E p \in {"emitting", "inspecting", "launched"} : pc' = [pc EXCEPT ![t] = p]
    BY <1>1 DEF Emit, Inspect, Launch
  <2>3. Calm'
    BY <2>1, <2>2 DEF Keeps, Calm, TypeOK, EmitType
  <2>4. QED  BY <2>1, <2>3
<1>2. ASSUME NEW t \in Emitters, ResetFlag(t) \/ \E u \in Uids : ReadFlags(t, u)
      PROVE  Keeps /\ Calm' /\ UNCHANGED <<content, listVars>>
  BY <1>2 DEF ResetFlag, ReadFlags, Keeps, Calm, folderVars, batchVars, jobVars
<1>3. ASSUME NEW t \in Threads, Freeze(t)
      PROVE  Keeps /\ Calm' /\ UNCHANGED <<content, listVars>>
  BY <1>3 DEF Freeze, Keeps, Calm, folderVars, emitVars, jobVars
<1>4. MainFolderChanged \/ RegenExec \/ RegenDone => Keeps /\ Calm' /\ UNCHANGED content
  BY DEF MainFolderChanged, RegenExec, RegenDone, Keeps, Calm, folderVars, batchVars, emitVars, jobVars
<1>5. RunJob => UNCHANGED <<info, batch, known, content, listVars>> /\ Calm'
  BY DEF RunJob, Calm, folderVars, batchVars, emitVars
<1> QED
  BY <1>1, <1>2, <1>3, <1>4, <1>5

\* A step of an emitter that ends its emission, or leaves it anywhere but idle,
\* keeps the others calm.
LEMMA CalmStays ==
  ASSUME TypeOK, Calm, NEW t \in Emitters, NEW i, NEW p,
         info' = [info EXCEPT ![t] = i], pc' = [pc EXCEPT ![t] = p],
         p = "idle" => i = NoChanges
  PROVE  Calm'
BY DEF Calm, TypeOK, InfoType, EmitType

\* The end of an emission.
LEMMA FinishIs ==
  ASSUME TypeOK, Calm, NEW t \in Emitters, Finish(t)
  PROVE  /\ Calm'
         /\ info'[t] = NoChanges /\ \A r \in Emitters : r # t => info'[r] = info[r]
<1>1. info' = [info EXCEPT ![t] = NoChanges] /\ pc' = [pc EXCEPT ![t] = "idle"]
  BY DEF Finish
<1>2. Calm'
  BY <1>1, CalmStays
<1> QED
  BY <1>1, <1>2 DEF TypeOK, InfoType

\* The last to thaw the folder moves the batch to an emission of its own.
LEMMA LetGoMoves ==
  ASSUME TypeOK, Calm, NEW t \in Emitters, LetGo(t), pc[t] = "idle"
  PROVE  /\ Calm'
         /\ \A r \in Emitters : r # t => info'[r] = info[r]
         /\ info[t] = NoChanges
         /\ \/ info'[t] = batch /\ batch' = NoChanges
            \/ info'[t] = NoChanges /\ batch' = batch
<1>0. info[t] = NoChanges
  BY DEF Calm
<1>1. CASE frozen = 1 /\ Changed(batch)
  <2>1. info' = [info EXCEPT ![t] = batch] /\ batch' = NoChanges /\ pc' = [pc EXCEPT ![t] = "emitting"]
    BY <1>1 DEF LetGo
  <2>2. Calm'
    BY <2>1, CalmStays
  <2> QED
    BY <1>0, <2>1, <2>2 DEF TypeOK, InfoType
<1>2. CASE ~(frozen = 1 /\ Changed(batch))
  <2>1. UNCHANGED <<info, batch, pc>>
    BY <1>2 DEF LetGo
  <2> QED
    BY <1>0, <2>1 DEF Calm
<1> QED
  BY <1>1, <1>2

--------------------------------------------------------------------------------
(* The list *)

\* Whoever tells of a message goes on telling, or another does.
ToldStays == \A u \in Uids : Told(u) => Told(u)'

\* ... as does an emitter that collects more.
LEMMA InfosTell ==
  ASSUME TypeOK, NEW t \in Emitters, NEW i, Stored(info[t]) \subseteq Stored(i),
         info' = [info EXCEPT ![t] = i], UNCHANGED <<batch, events>>
  PROVE  ToldStays /\ \A u \in Stored(i) : Told(u)'
<1>1. info'[t] = i /\ \A r \in Emitters : r # t => info'[r] = info[r]
  BY DEF TypeOK, InfoType
<1>2. \A r \in Emitters : Stored(info[r]) \subseteq Stored(info'[r])
  BY <1>1
<1> HIDE DEF Stored
<1> QED
  BY <1>1, <1>2 DEF ToldStays, Told

\* The list stays right as long as messages stay told and the list as it is.
LEMMA ListStays ==
  ASSUME TypeOK, \A u \in content : Covered(u), ToldStays, UNCHANGED <<regen, uids, view>>,
         \A u \in content' : u \in content \/ Told(u)'
  PROVE  \A u \in content' : Covered(u)'
<1>1. content \subseteq Uids
  BY DEF TypeOK, FolderType
<1> QED
  BY <1>1 DEF Covered, ToldStays

\* The changes of a provider are collected, those of flags emitted at once.
LEMMA ChangeCovers ==
  ASSUME TypeOK, ListInv, NEW t \in Emitters, Change(t)
  PROVE  ListInv'
<1>1. info[t] \in ChangeInfo
  BY DEF TypeOK, InfoType
<1>2. ASSUME NEW u \in Uids, NEW new \in SUBSET {u}, AddMessage(t, u, new)
      PROVE  ListInv'
  <2>1. PICK i : i = RecentUids(AddUids(info[t], {u}), new)
    OBVIOUS
  <2>2. Stored(i) = Stored(info[t]) \cup {u}
    BY <1>1, <2>1, AddedIs
  <2>3. /\ info' = [info EXCEPT ![t] = i] /\ pc' = [pc EXCEPT ![t] = "collecting"]
        /\ UNCHANGED <<batch, events, regen, uids, view>> /\ content' = content \cup {u}
    BY <1>2, <2>1 DEF AddMessage, Collect, batchVars, listVars
  <2>4. ToldStays /\ \A x \in content' : x \in content \/ Told(x)'
    BY <2>2, <2>3, InfosTell
  <2> QED
    BY <2>3, <2>4, CalmStays, ListStays DEF ListInv
<1>3. ASSUME NEW u \in Uids, RemoveMessage(t, u)
      PROVE  ListInv'
  <2>1. PICK i : i = RemoveUids(info[t], {u})
    OBVIOUS
  <2>2. Stored(i) = Stored(info[t]) \cup {u}
    BY <1>1, <2>1, RemovedIs
  <2>3. /\ info' = [info EXCEPT ![t] = i] /\ pc' = [pc EXCEPT ![t] = "collecting"]
        /\ UNCHANGED <<batch, events, regen, uids, view>> /\ content' \subseteq content
    BY <1>3, <2>1 DEF RemoveMessage, Collect, batchVars, listVars
  <2>4. ToldStays
    BY <2>2, <2>3, InfosTell
  <2> QED
    BY <2>3, <2>4, CalmStays, ListStays DEF ListInv
<1>4. ASSUME NEW u \in Uids, NEW forLearning \in BOOLEAN, SetFlags(t, u, forLearning)
      PROVE  ListInv'
  <2>1. PICK i : i = ChangeUids(NoChanges, {u})
    OBVIOUS
  <2>2. /\ info' = [info EXCEPT ![t] = i] /\ pc' = [pc EXCEPT ![t] = "emitting"] /\ pc[t] = "idle"
        /\ UNCHANGED <<batch, events, regen, uids, view, content>>
    BY <1>4, <2>1 DEF SetFlags, batchVars, listVars
  <2>3. Stored(info[t]) \subseteq Stored(i)
    BY <2>2, NoChangesIs DEF ListInv, Calm
  <2>4. ToldStays
    BY <2>2, <2>3, InfosTell
  <2> QED
    BY <2>2, <2>4, CalmStays, ListStays DEF ListInv
<1> QED
  BY <1>2, <1>3, <1>4 DEF Change

\* A frozen folder's batch takes the changes over,
LEMMA HoldCovers ==
  ASSUME TypeOK, ListInv, NEW t \in Emitters, Hold(t) \/ Retain(t)
  PROVE  ListInv'
<1>1. PICK j \in ChangeInfo : Stored(j) = Stored(info[t]) /\ batch' = Cat(batch, j)
  BY KeptIs DEF Hold, Retain, TypeOK, InfoType
<1>2. Stored(batch') = Stored(batch) \cup Stored(info[t])
  BY <1>1, CatIs DEF TypeOK, BatchType
<1>3. Finish(t) /\ UNCHANGED <<content, events, regen, uids, view>>
  BY DEF Hold, Retain, folderVars, listVars
<1>4. Calm' /\ \A r \in Emitters : r # t => info'[r] = info[r]
  BY <1>3, FinishIs DEF ListInv
<1> HIDE DEF Stored
<1>5. ToldStays
  BY <1>2, <1>3, <1>4 DEF ToldStays, Told
<1> QED
  BY <1>3, <1>4, <1>5, ListStays DEF ListInv

\* the main thread is sent them,
LEMMA DeliverCovers ==
  ASSUME TypeOK, ListInv, NEW t \in Emitters, Deliver(t)
  PROVE  ListInv'
<1>1. events' = Append(events, info[t]) /\ Finish(t) /\ UNCHANGED <<content, batch, regen, uids, view>>
  BY DEF Deliver, folderVars, batchVars
<1>2. Calm' /\ \A r \in Emitters : r # t => info'[r] = info[r]
  BY <1>1, FinishIs DEF ListInv
<1>3. PICK n \in Nat : n = Len(events)
  BY DEF TypeOK, ListType
<1>4. /\ DOMAIN events = 1..n /\ DOMAIN events' = 1..(n + 1) /\ events'[n + 1] = info[t]
      /\ \A k \in 1..n : events'[k] = events[k]
  BY <1>1, <1>3 DEF TypeOK, ListType, InfoType
<1>5. \A k \in DOMAIN events : k \in DOMAIN events' /\ events'[k] = events[k]
  BY <1>3, <1>4
<1>6. n + 1 \in DOMAIN events'
  BY <1>3, <1>4
<1> HIDE DEF Stored
<1>7. ToldStays
  BY <1>1, <1>2, <1>4, <1>5, <1>6 DEF ToldStays, Told
<1> QED
  BY <1>1, <1>2, <1>7, ListStays DEF ListInv

\* and the last thaw emits the batch.
LEMMA LetGoCovers ==
  ASSUME TypeOK, ListInv, NEW t \in Emitters, LetGo(t), pc[t] = "idle",
         UNCHANGED <<content, events, regen, uids, view>>
  PROVE  ListInv'
<1>1. /\ Calm' /\ \A r \in Emitters : r # t => info'[r] = info[r]
      /\ info[t] = NoChanges
      /\ info'[t] = batch \/ batch' = batch
  BY LetGoMoves DEF ListInv
<1>2. \A u \in Uids : u \notin Stored(info[t])
  BY <1>1, NoChangesIs
<1> HIDE DEF Stored
<1>3. ToldStays
  BY <1>1, <1>2 DEF ToldStays, Told
<1> QED
  BY <1>1, <1>3, ListStays DEF ListInv

\* The main thread has the list read again for what it does not know, unless
\* the list hides nothing or a change overtakes a reading.
LEMMA MainFolderChangedCovers ==
  ASSUME TypeOK, ListInv, MainFolderChanged, Hides, "redraw" \notin Races
  PROVE  ListInv'
<1>1. Calm' /\ UNCHANGED <<info, batch, content>>
  BY StepsThatKeep DEF ListInv, Keeps
<1>2. PICK i \in ChangeInfo : i = events[1] /\ i = Head(events)
  BY DEF MainFolderChanged, TypeOK, ListType
<1>3. CASE ToList(i) \cup i.removed # {}
  <2>1. regen' = "asked"
    BY <1>2, <1>3 DEF MainFolderChanged
  <2> QED
    BY <1>1, <2>1 DEF ListInv, Covered
<1>4. CASE ToList(i) \cup i.removed = {}
  <2>1. ~Overtaken(i) /\ UNCHANGED <<regen, uids, view>>
    BY <1>2, <1>4 DEF MainFolderChanged
  <2>2. ASSUME NEW u \in content, u \in Stored(i), regen # "asked"
        PROVE  (regen = "read" /\ u \in uids) \/ (regen = "none" /\ u \in view)
    <3>1. u \in i.changed /\ u \in view
      BY <1>4, <2>2 DEF ToList, Stored
    <3>2. regen = "read" => u \in uids
      BY <2>1, <3>1 DEF Overtaken
    <3> QED
      BY <2>2, <3>1, <3>2 DEF TypeOK, ListType
  <2>3. \A k \in DOMAIN events : k = 1 \/ (k - 1 \in DOMAIN events' /\ events'[k - 1] = events[k])
    BY DEF MainFolderChanged, TypeOK, ListType
  <2>4. ASSUME NEW u \in content  PROVE Covered(u)'
    <3>1. Covered(u)
      BY DEF ListInv
    <3>2. CASE ~Told(u) \/ regen = "asked"
      BY <2>1, <3>1, <3>2 DEF Covered
    <3>3. CASE u \in Stored(i) /\ regen # "asked"
      BY <2>1, <2>2, <3>3 DEF Covered
    <3>4. CASE Told(u) /\ u \notin Stored(i)
      <4> HIDE DEF Stored
      <4>1. Told(u)'
        BY <1>1, <1>2, <2>3, <3>4 DEF Told
      <4> QED
        BY <4>1 DEF Covered
    <3> QED
      BY <3>2, <3>3, <3>4
  <2> QED
    BY <1>1, <2>4 DEF ListInv
<1> QED
  BY <1>3, <1>4

\* Reading the folder covers what is in it, and showing it what was read.
LEMMA RegenCovers ==
  ASSUME TypeOK, ListInv, RegenExec \/ RegenDone
  PROVE  ListInv'
<1>1. Calm' /\ UNCHANGED <<info, batch, content>>
  BY StepsThatKeep DEF ListInv, Keeps
<1>2. UNCHANGED events
  BY DEF RegenExec, RegenDone
<1>3. \A u \in content : Told(u) => Told(u)'
  BY <1>1, <1>2 DEF Told
<1>4. CASE RegenExec
  BY <1>1, <1>4 DEF ListInv, Covered, RegenExec
<1>5. CASE RegenDone
  <2>1. regen = "read" /\ regen' = "none" /\ view' = uids
    BY <1>5 DEF RegenDone
  <2> QED
    BY <1>1, <1>3, <2>1 DEF ListInv, Covered
<1> QED
  BY <1>4, <1>5

\* A new folder is empty.
LEMMA InitCovers == Init => ListInv
BY DEF Init, ListInv, Calm

\* Every step keeps the messages of the folder covered.
LEMMA StepCovers ==
  ASSUME Hides, "redraw" \notin Races
  PROVE  TypeOK /\ ListInv /\ [Next]_vars => ListInv'
<1> SUFFICES ASSUME TypeOK, ListInv, [Next]_vars  PROVE ListInv'
  OBVIOUS
<1>1. Calm
  BY DEF ListInv
<1>2. ASSUME Keeps, Calm', UNCHANGED <<content, listVars>>
      PROVE  ListInv'
  <2>1. ToldStays
    BY <1>2 DEF Keeps, listVars, ToldStays, Told
  <2> QED
    BY <1>2, <2>1, ListStays DEF listVars, ListInv
<1>3. ASSUME NEW t \in Emitters, EmissionStep(t)
      PROVE  ListInv'
  <2>1. CASE Hold(t) \/ Retain(t)
    BY <2>1, HoldCovers
  <2>2. CASE Deliver(t)
    BY <2>2, DeliverCovers
  <2>3. CASE Emit(t) \/ Inspect(t) \/ Launch(t) \/ ResetFlag(t) \/ \E u \in Uids : ReadFlags(t, u)
    BY <1>1, <1>2, <2>3, StepsThatKeep
  <2> QED
    BY <1>3, <2>1, <2>2, <2>3 DEF EmissionStep
<1>4. ASSUME NEW t \in Emitters, Change(t)
      PROVE  ListInv'
  BY <1>4, ChangeCovers
<1>5. ASSUME NEW t \in Threads, Freeze(t) \/ Thaw(t)
      PROVE  ListInv'
  <2>1. CASE Freeze(t)
    BY <1>1, <1>2, <2>1, StepsThatKeep
  <2>2. CASE Thaw(t)
    BY <2>2, LetGoCovers DEF Thaw, Emitters, folderVars, listVars
  <2> QED
    BY <1>5, <2>1, <2>2
<1>6. CASE RunJob
  <2>1. UNCHANGED <<info, batch, content, listVars>> /\ Calm'
    BY <1>1, <1>6, StepsThatKeep
  <2>2. ToldStays
    BY <2>1 DEF listVars, ToldStays, Told
  <2> QED
    BY <2>1, <2>2, ListStays DEF listVars, ListInv
<1>7. CASE EndJob
  BY <1>7, LetGoCovers DEF EndJob, Emitters, folderVars, listVars
<1>8. CASE MainFolderChanged \/ RegenExec \/ RegenDone
  BY <1>8, MainFolderChangedCovers, RegenCovers
<1>9. CASE UNCHANGED vars
  BY <1>1, <1>2, <1>9 DEF vars, folderVars, batchVars, emitVars, jobVars, Keeps, Calm
<1> QED
  BY <1>3, <1>4, <1>5, <1>6, <1>7, <1>8, <1>9 DEF Next

\* The list of messages has every message of the folder as soon as nothing is on its
\* way, if it hides junk or deleted messages and no change of a message that has
\* come back overtakes a reading of the folder.
THEOREM ListIsComplete ==
  Hides /\ "redraw" \notin Races => (Spec => []ListMissesNothing)
<1> SUFFICES ASSUME Hides, "redraw" \notin Races  PROVE Spec => []ListMissesNothing
  OBVIOUS
<1>1. ASSUME ListInv, FreezeInv, Quiet
      PROVE  content \subseteq view
  <2>1. \A t \in Emitters : Stored(info[t]) = {}
    BY <1>1, NoChangesIs DEF Quiet, ListInv, Calm
  <2>2. Stored(batch) = {}
    BY <1>1 DEF Quiet, FreezeInv, NothingHeldBack, Changed
  <2>3. events = <<>> /\ regen = "none"
    BY <1>1 DEF Quiet
  <2> HIDE DEF Stored
  <2>4. \A u \in content : ~Told(u)
    BY <2>1, <2>2, <2>3 DEF Told
  <2> QED
    BY <1>1, <2>3, <2>4 DEF ListInv, Covered
<1>2. ListInv /\ FreezeInv => ListMissesNothing
  BY <1>1 DEF ListMissesNothing
<1>3. TypeOK /\ ListInv /\ [Next]_vars => ListInv'
  BY StepCovers
<1> QED
  BY <1>2, <1>3, InitCovers, TypeCorrect, FreezesInvariant, PTL DEF Spec

--------------------------------------------------------------------------------
(* Filtering *)

\* A message stays filtered once if it waits where it did.
LEMMA OnceStays ==
  ASSUME NEW u, Once(u), UNCHANGED <<jobs, handed, known>>,
         u \in batch'.filter <=> u \in batch.filter,
         \A t \in Emitters : u \in info'[t].filter <=> u \in info[t].filter
  PROVE  Once(u)'
BY DEF Once, InOnePlace, Waits

\* A step that only adds recent messages to what an emitter holds.
LEMMA InfosFilter ==
  ASSUME TypeOK, FilterIsRecent, \A u \in Uids : Once(u),
         NEW t \in Emitters, NEW i, NEW new, new \cap known = {},
         info' = [info EXCEPT ![t] = i], known' = known \cup new,
         i.filter = info[t].filter \cup new, i.recent = info[t].recent \cup new,
         UNCHANGED <<batch, jobs, handed>>
  PROVE  FilterIsRecent' /\ \A u \in Uids : Once(u)'
<1>1. info'[t] = i /\ \A r \in Emitters : r # t => info'[r] = info[r]
  BY DEF TypeOK, InfoType
<1>2. FilterIsRecent'
  BY <1>1 DEF FilterIsRecent
<1>3. ASSUME NEW u \in Uids, u \notin new  PROVE Once(u)'
  <2>1. Once(u) /\ (u \in known' <=> u \in known)
    BY <1>3
  <2>2. \A r \in Emitters : u \in info'[r].filter <=> u \in info[r].filter
    BY <1>1, <1>3
  <2> QED
    BY <2>1, <2>2 DEF Once, InOnePlace, Waits
<1>4. ASSUME NEW u \in Uids, u \in new  PROVE Once(u)'
  <2>1. ~Waits(u) /\ handed[u] = 0
    BY <1>4 DEF Once
  <2>2. /\ \A r \in Emitters : u \in info'[r].filter <=> r = t
        /\ u \notin batch'.filter /\ \A k \in DOMAIN jobs' : u \notin jobs'[k].recents
        /\ handed'[u] = 0 /\ u \in known'
    BY <1>1, <1>4, <2>1 DEF Waits
  <2> QED
    BY <2>2 DEF Once, InOnePlace, Waits
<1> QED
  BY <1>2, <1>3, <1>4

\* Only a message that comes for the first time is to be filtered.
LEMMA ChangeFilters ==
  ASSUME TypeOK, OnceInv, NEW t \in Emitters, Change(t)
  PROVE  OnceInv'
<1>1. info[t] \in ChangeInfo
  BY DEF TypeOK, InfoType
<1>2. ASSUME NEW u \in Uids, NEW new \in SUBSET {u}, AddMessage(t, u, new)
      PROVE  OnceInv'
  <2>1. PICK i : i = RecentUids(AddUids(info[t], {u}), new)
    OBVIOUS
  <2>2. i.filter = info[t].filter \cup new /\ i.recent = info[t].recent \cup new
    BY <1>1, <2>1, AddedIs
  <2>3. /\ info' = [info EXCEPT ![t] = i] /\ pc' = [pc EXCEPT ![t] = "collecting"]
        /\ UNCHANGED <<batch, jobs, handed>> /\ known' = known \cup new /\ new \cap known = {}
    BY <1>2, <2>1 DEF AddMessage, Collect, batchVars, jobVars
  <2>4. FilterIsRecent' /\ \A v \in Uids : Once(v)'
    BY <2>2, <2>3, InfosFilter DEF OnceInv
  <2> QED
    BY <2>3, <2>4, CalmStays DEF OnceInv
<1>3. ASSUME NEW u \in Uids, RemoveMessage(t, u)
      PROVE  OnceInv'
  <2>1. PICK i : i = RemoveUids(info[t], {u})
    OBVIOUS
  <2>2. i.filter = info[t].filter \cup {} /\ i.recent = info[t].recent \cup {}
    BY <1>1, <2>1, RemovedIs
  <2>3. /\ info' = [info EXCEPT ![t] = i] /\ pc' = [pc EXCEPT ![t] = "collecting"]
        /\ UNCHANGED <<batch, jobs, handed>> /\ known' = known \cup {}
    BY <1>3, <2>1 DEF RemoveMessage, Collect, batchVars, jobVars
  <2>4. FilterIsRecent' /\ \A v \in Uids : Once(v)'
    BY <2>2, <2>3, InfosFilter DEF OnceInv
  <2> QED
    BY <2>3, <2>4, CalmStays DEF OnceInv
<1>4. ASSUME NEW u \in Uids, NEW forLearning \in BOOLEAN, SetFlags(t, u, forLearning)
      PROVE  OnceInv'
  <2>1. PICK i : i = ChangeUids(NoChanges, {u})
    OBVIOUS
  <2>2. /\ info' = [info EXCEPT ![t] = i] /\ pc' = [pc EXCEPT ![t] = "emitting"] /\ pc[t] = "idle"
        /\ UNCHANGED <<batch, jobs, handed>> /\ known' = known \cup {}
    BY <1>4, <2>1 DEF SetFlags, batchVars
  <2>3. info[t] = NoChanges
    BY <2>2 DEF OnceInv, Calm
  <2>4. i.filter = info[t].filter \cup {} /\ i.recent = info[t].recent \cup {}
    BY <2>1, <2>3, ChangedIs, NoChangesIs
  <2>5. FilterIsRecent' /\ \A v \in Uids : Once(v)'
    BY <2>2, <2>4, InfosFilter DEF OnceInv
  <2> QED
    BY <2>2, <2>5, CalmStays DEF OnceInv
<1> QED
  BY <1>2, <1>3, <1>4 DEF Change

\* A frozen folder's batch takes over what is to be filtered.
LEMMA HoldFilters ==
  ASSUME TypeOK, OnceInv, NEW t \in Emitters, Hold(t)
  PROVE  OnceInv'
<1>1. Finish(t) /\ batch' = Cat(batch, info[t]) /\ UNCHANGED <<known, jobs, handed>>
  BY DEF Hold, folderVars, jobVars
<1>2. Calm' /\ info'[t] = NoChanges /\ \A r \in Emitters : r # t => info'[r] = info[r]
  BY <1>1, FinishIs DEF OnceInv
<1>3. batch'.filter = batch.filter \cup info[t].filter /\ batch'.recent = batch.recent \cup info[t].recent
  BY <1>1, CatIs DEF TypeOK, BatchType, InfoType
<1>4. FilterIsRecent'
  BY <1>2, <1>3, NoChangesIs DEF OnceInv, FilterIsRecent
<1>5. ASSUME NEW u \in Uids  PROVE Once(u)'
  <2>1. Once(u)
    BY DEF OnceInv
  <2>2. /\ u \notin info'[t].filter
        /\ \A r \in Emitters : r # t => (u \in info'[r].filter <=> u \in info[r].filter)
        /\ u \in batch'.filter <=> u \in batch.filter \/ u \in info[t].filter
    BY <1>2, <1>3, NoChangesIs
  <2>3. InOnePlace(u)'
    BY <1>1, <2>1, <2>2 DEF Once, InOnePlace
  <2>4. Waits(u)' <=> Waits(u)
    BY <1>1, <2>2 DEF Waits
  <2> QED
    BY <1>1, <2>1, <2>3, <2>4 DEF Once
<1> QED
  BY <1>2, <1>4, <1>5 DEF OnceInv

\* What the list is told of has nothing to be filtered any more.
LEMMA DeliverFilters ==
  ASSUME TypeOK, OnceInv, NEW t \in Emitters, Deliver(t), Filters
  PROVE  OnceInv'
<1>1. Finish(t) /\ UNCHANGED <<batch, known, jobs, handed>> /\ info[t].filter = {}
  BY DEF Deliver, Recents, folderVars, batchVars, jobVars
<1>2. Calm' /\ info'[t] = NoChanges /\ \A r \in Emitters : r # t => info'[r] = info[r]
  BY <1>1, FinishIs DEF OnceInv
<1>3. FilterIsRecent'
  BY <1>1, <1>2, NoChangesIs DEF OnceInv, FilterIsRecent
<1>4. \A u \in Uids : Once(u)'
  BY <1>1, <1>2, NoChangesIs, OnceStays DEF OnceInv
<1> QED
  BY <1>2, <1>3, <1>4 DEF OnceInv

\* A job takes over what is to be filtered, and the batch the rest.
LEMMA RetainFilters ==
  ASSUME TypeOK, OnceInv, NEW t \in Emitters, Retain(t), Filters
  PROVE  OnceInv'
<1>1. PICK i : i = [info[t] EXCEPT !.filter = @ \ Recents(t)]
  OBVIOUS
<1>2. i \in ChangeInfo /\ i.filter = {} /\ i.recent = info[t].recent
  BY <1>1, KeptIs DEF Recents, TypeOK, InfoType
<1>3. PICK q : q = [recents |-> Recents(t), learn |-> learnt[t]]
  OBVIOUS
<1>4. q.recents = info[t].filter /\ q \in Job
  BY <1>3 DEF Recents, Job, TypeOK, InfoType, EmitType, ChangeInfo
<1>5. Finish(t) /\ batch' = Cat(batch, i) /\ jobs' = Append(jobs, q) /\ UNCHANGED <<known, handed>>
  BY <1>1, <1>3 DEF Retain, folderVars
<1>6. Calm' /\ info'[t] = NoChanges /\ \A r \in Emitters : r # t => info'[r] = info[r]
  BY <1>5, FinishIs DEF OnceInv
<1>7. batch'.filter = batch.filter /\ batch'.recent = batch.recent \cup info[t].recent
  <2>1. batch \in ChangeInfo /\ batch' = Cat(batch, i)
    BY <1>5 DEF TypeOK, BatchType
  <2>2. batch'.filter = batch.filter \cup i.filter /\ batch'.recent = batch.recent \cup i.recent
    BY <1>2, <2>1, CatIs
  <2> QED
    BY <1>2, <2>2
<1>8. FilterIsRecent'
  BY <1>6, <1>7, NoChangesIs DEF OnceInv, FilterIsRecent
<1>9. PICK n \in Nat : n = Len(jobs)
  BY DEF TypeOK, JobType
<1>10. /\ DOMAIN jobs = 1..n /\ DOMAIN jobs' = 1..(n + 1) /\ jobs'[n + 1] = q
       /\ \A k \in 1..n : jobs'[k] = jobs[k]
  BY <1>4, <1>5, <1>9 DEF TypeOK, JobType
<1>11. /\ \A k \in DOMAIN jobs : k \in DOMAIN jobs' /\ jobs'[k] = jobs[k]
       /\ \A k \in DOMAIN jobs' : k = n + 1 \/ k \in DOMAIN jobs
       /\ n + 1 \in DOMAIN jobs' /\ n + 1 \notin DOMAIN jobs
  BY <1>9, <1>10
<1>12. ASSUME NEW u \in Uids  PROVE Once(u)'
  <2>1. Once(u)
    BY DEF OnceInv
  <2>2. /\ u \notin info'[t].filter
        /\ \A r \in Emitters : r # t => (u \in info'[r].filter <=> u \in info[r].filter)
        /\ u \in batch'.filter <=> u \in batch.filter
        /\ u \in jobs'[n + 1].recents <=> u \in info[t].filter
    BY <1>4, <1>6, <1>7, <1>10, NoChangesIs
  <2>3. InOnePlace(u)'
    BY <1>11, <2>1, <2>2 DEF Once, InOnePlace
  <2>4. Waits(u)' <=> Waits(u)
    BY <1>11, <2>2 DEF Waits
  <2> QED
    BY <1>5, <2>1, <2>3, <2>4 DEF Once
<1> QED
  BY <1>6, <1>8, <1>12 DEF OnceInv

\* The last thaw emits what the batch has to be filtered.
LEMMA LetGoFilters ==
  ASSUME TypeOK, OnceInv, NEW t \in Emitters, LetGo(t), pc[t] = "idle",
         UNCHANGED <<known, jobs, handed>>
  PROVE  OnceInv'
<1>1. /\ Calm' /\ \A r \in Emitters : r # t => info'[r] = info[r]
      /\ info[t] = NoChanges
  BY LetGoMoves DEF OnceInv
<1>2. CASE info'[t] = batch /\ batch' = NoChanges
  <2>1. FilterIsRecent'
    BY <1>1, <1>2, NoChangesIs DEF OnceInv, FilterIsRecent
  <2>2. ASSUME NEW u \in Uids  PROVE Once(u)'
    <3>1. Once(u)
      BY DEF OnceInv
    <3>2. /\ u \notin info[t].filter /\ u \notin batch'.filter
          /\ u \in info'[t].filter <=> u \in batch.filter
          /\ \A r \in Emitters : r # t => (u \in info'[r].filter <=> u \in info[r].filter)
      BY <1>1, <1>2, NoChangesIs
    <3>3. InOnePlace(u)'
      BY <3>1, <3>2 DEF Once, InOnePlace
    <3>4. Waits(u)' <=> Waits(u)
      BY <3>2 DEF Waits
    <3> QED
      BY <3>1, <3>3, <3>4 DEF Once
  <2> QED
    BY <1>1, <2>1, <2>2 DEF OnceInv
<1>3. CASE info'[t] = NoChanges /\ batch' = batch
  <2>1. FilterIsRecent'
    BY <1>1, <1>3 DEF OnceInv, FilterIsRecent
  <2>2. \A u \in Uids : Once(u)'
    BY <1>1, <1>3, OnceStays DEF OnceInv
  <2> QED
    BY <1>1, <2>1, <2>2 DEF OnceInv
<1> QED
  BY <1>2, <1>3, LetGoMoves DEF OnceInv

\* A job that runs hands its messages to the filters.
LEMMA RunJobFilters ==
  ASSUME TypeOK, OnceInv, RunJob
  PROVE  OnceInv'
<1>1. UNCHANGED <<info, batch, known>> /\ Calm'
  BY StepsThatKeep DEF OnceInv
<1>2. FilterIsRecent'
  BY <1>1 DEF OnceInv, FilterIsRecent
<1>3. /\ jobs \in Seq(Job) /\ jobs # <<>> /\ 1 \in DOMAIN jobs /\ Head(jobs) = jobs[1]
      /\ \A k \in DOMAIN jobs' : k + 1 \in DOMAIN jobs /\ k + 1 # 1 /\ jobs'[k] = jobs[k + 1] /\ k \in Nat
      /\ \A k \in DOMAIN jobs : k # 1 => k - 1 \in DOMAIN jobs' /\ jobs'[k - 1] = jobs[k]
  BY DEF RunJob, TypeOK, JobType
<1>4. ASSUME NEW u \in Uids  PROVE Once(u)'
  <2>1. Once(u)
    BY DEF OnceInv
  <2>2. InOnePlace(u)'
    <3>1. ASSUME NEW k \in DOMAIN jobs', NEW l \in DOMAIN jobs', u \in jobs'[k].recents, u \in jobs'[l].recents
          PROVE  k = l
      <4>1. k + 1 = l + 1
        BY <1>3, <2>1, <3>1 DEF Once, InOnePlace
      <4> QED
        BY <1>3, <3>1, <4>1
    <3> QED
      BY <1>1, <1>3, <2>1, <3>1 DEF Once, InOnePlace
  <2>3. CASE u \in jobs[1].recents
    <3>1. handed[u] = 0 /\ handed'[u] = 1 /\ u \in known'
      BY <1>1, <1>3, <2>1, <2>3 DEF Once, Waits, RunJob
    <3>2. ~Waits(u)'
      BY <1>1, <1>3, <2>1, <2>3 DEF Once, InOnePlace, Waits
    <3> QED
      BY <2>2, <3>1, <3>2 DEF Once
  <2>4. CASE u \notin jobs[1].recents
    <3>1. handed'[u] = handed[u]
      BY <1>3, <2>4 DEF RunJob
    <3>2. Waits(u)' <=> Waits(u)
      BY <1>1, <1>3, <2>4 DEF Waits
    <3> QED
      BY <1>1, <2>1, <2>2, <3>1, <3>2 DEF Once
  <2> QED
    BY <2>3, <2>4
<1> QED
  BY <1>1, <1>2, <1>4 DEF OnceInv

\* Nothing is to be filtered in a new folder.
LEMMA InitFilters == Init => OnceInv
<1> SUFFICES ASSUME Init  PROVE OnceInv
  OBVIOUS
<1>1. Calm /\ FilterIsRecent
  BY NoChangesIs DEF Init, Calm, FilterIsRecent
<1>2. ASSUME NEW u \in Uids  PROVE Once(u)
  <2>1. /\ \A t \in Emitters : u \notin info[t].filter
        /\ u \notin batch.filter /\ DOMAIN jobs = {}
    BY NoChangesIs DEF Init
  <2>2. handed[u] = 0 /\ u \notin known
    BY DEF Init
  <2> QED
    BY <2>1, <2>2 DEF Once, InOnePlace, Waits
<1> QED
  BY <1>1, <1>2 DEF OnceInv

\* Every step keeps each message in one place until it has been filtered.
LEMMA StepFilters ==
  ASSUME Filters
  PROVE  TypeOK /\ OnceInv /\ [Next]_vars => OnceInv'
<1> SUFFICES ASSUME TypeOK, OnceInv, [Next]_vars  PROVE OnceInv'
  OBVIOUS
<1>1. Calm
  BY DEF OnceInv
<1>2. ASSUME Keeps, Calm'  PROVE OnceInv'
  <2>1. FilterIsRecent'
    BY <1>2 DEF Keeps, OnceInv, FilterIsRecent
  <2>2. \A u \in Uids : Once(u)'
    BY <1>2, OnceStays DEF Keeps, OnceInv
  <2> QED
    BY <1>2, <2>1, <2>2 DEF OnceInv
<1>3. ASSUME NEW t \in Emitters, EmissionStep(t)
      PROVE  OnceInv'
  <2>1. CASE Hold(t) \/ Retain(t) \/ Deliver(t)
    BY <2>1, HoldFilters, RetainFilters, DeliverFilters
  <2>2. CASE Emit(t) \/ Inspect(t) \/ Launch(t) \/ ResetFlag(t) \/ \E u \in Uids : ReadFlags(t, u)
    BY <1>1, <1>2, <2>2, StepsThatKeep
  <2> QED
    BY <1>3, <2>1, <2>2 DEF EmissionStep
<1>4. ASSUME NEW t \in Emitters, Change(t)
      PROVE  OnceInv'
  BY <1>4, ChangeFilters
<1>5. ASSUME NEW t \in Threads, Freeze(t) \/ Thaw(t)
      PROVE  OnceInv'
  <2>1. CASE Freeze(t)
    BY <1>1, <1>2, <2>1, StepsThatKeep
  <2>2. CASE Thaw(t)
    BY <2>2, LetGoFilters DEF Thaw, Emitters, folderVars, jobVars
  <2> QED
    BY <1>5, <2>1, <2>2
<1>6. CASE RunJob
  BY <1>6, RunJobFilters
<1>7. CASE EndJob
  BY <1>7, LetGoFilters DEF EndJob, Emitters, folderVars
<1>8. CASE MainFolderChanged \/ RegenExec \/ RegenDone
  BY <1>1, <1>2, <1>8, StepsThatKeep
<1>9. CASE UNCHANGED vars
  BY <1>1, <1>2, <1>9 DEF vars, folderVars, batchVars, emitVars, jobVars, Keeps, Calm
<1> QED
  BY <1>3, <1>4, <1>5, <1>6, <1>7, <1>8, <1>9 DEF Next

\* Each message that is reported as recent goes through the filters once, however
\* often its changes are held back, launched and emitted.
THEOREM MessagesFilteredOnce == Spec => []FilteredOnce
<1>1. CASE Filters
  <2>1. ASSUME OnceInv, NEW u \in Uids
        PROVE  handed[u] <= 1
    BY <2>1 DEF OnceInv, Once
  <2>2. ASSUME OnceInv, FreezeInv, Quiet, NEW u \in Uids, u \in known
        PROVE  handed[u] = 1
    <3>1. \A t \in Emitters : info[t].filter = {}
      BY <2>2, NoChangesIs DEF Quiet, OnceInv, Calm
    <3>2. batch.recent = {}
      BY <2>2 DEF Quiet, FreezeInv, NothingHeldBack, Changed
    <3>3. batch.filter = {}
      BY <2>2, <3>2 DEF OnceInv, FilterIsRecent
    <3>4. ~Waits(u)
      BY <2>2, <3>1, <3>3 DEF Quiet, Waits
    <3> QED
      BY <2>2, <3>4 DEF OnceInv, Once
  <2>3. OnceInv /\ FreezeInv => FilteredOnce
    BY <2>1, <2>2 DEF FilteredOnce
  <2>4. TypeOK /\ OnceInv /\ [Next]_vars => OnceInv'
    BY <1>1, StepFilters
  <2> QED
    BY <2>3, <2>4, InitFilters, TypeCorrect, FreezesInvariant, PTL DEF Spec
<1>2. CASE ~Filters
  <2>1. FilteredOnce
    BY <1>2 DEF FilteredOnce
  <2> QED
    BY <2>1, PTL
<1> QED
  BY <1>1, <1>2

================================================================================
