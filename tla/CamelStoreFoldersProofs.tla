------------------------ MODULE CamelStoreFoldersProofs ------------------------
(***************************************************************************)
(* Theorems about CamelStoreFolders for any number of threads, folders and *)
(* names.  A step of a store is a step of its bag or leaves the bag alone, *)
(* so what CamelObjectBagProofs proves of the bag holds in the store.      *)
(***************************************************************************)
EXTENDS CamelStoreFolders, CamelObjectBagProofs

Places == {"idle", "reserve", "open", "look", "abort", "join", "add", "fill",
           "cached", "leave", "left", "delete", "remove", "rekey"}

\* Where a thread that has been told to make the folder of a name is, where one
\* that has CAMEL_STORE_FOLDER_LOCK, and where one that has a folder object
\* nobody else knows.
Building == {"open", "look", "abort", "join", "add", "fill"}
Locking  == {"cached", "leave", "left", "delete", "remove", "rekey"}
Making   == {"look", "join", "add", "fill"}

Steps == [at : Places, key : Keys \cup {NULL}, new : Keys \cup {NULL},
          folder : Objects \cup {NULL}, trash : Objects \cup {NULL}]

\* The type of each variable of a store.
StoreTypeOK ==
  /\ step \in [Threads -> Steps]
  /\ mailbox \subseteq Named
  /\ lock \in Threads \cup {NULL}
  /\ sources \in [Objects -> SUBSET Objects]
  /\ deleted \subseteq Objects

\* What the place of a thread says of the bag: which key it waits for, and that
\* the key whose folder it makes is reserved by it.
AtWait(t) ==
  arg[t] # NULL => \/ step[t].at \in {"reserve", "cached"} /\ arg[t] = step[t].key
                   \/ step[t].at \in {"look", "leave"} /\ arg[t] = Trash
AtBuild(t) ==
  /\ step[t].at \in Building => step[t].key \in holds[t]
  /\ step[t].at \in {"look", "join"} => step[t].key \in Named
  /\ step[t].at = "fill" => step[t].key = Trash
  /\ step[t].at = "reserve" => step[t].key \in Keys

\* A folder that is being made is known to its maker only.
AtMake(t) ==
  step[t].at \in Making => /\ step[t].folder \in Objects /\ ~Live(step[t].folder)
                           /\ \A u \in Threads : step[u].folder = step[t].folder => u = t

\* A thread has CAMEL_STORE_FOLDER_LOCK where it should; what it deletes or
\* renames stays in the bag under the old name until it takes it out.
AtLock(t) ==
  /\ lock = t <=> step[t].at \in Locking
  /\ step[t].at \in Locking => step[t].key \in Named
  /\ step[t].at \in {"leave", "left", "delete", "remove"} =>
       step[t].folder \in Objects /\ objectTable[step[t].key] = step[t].folder
  /\ step[t].at = "rekey" => step[t].new \in Named

PlaceInv ==
  /\ StoreTypeOK
  /\ \A t \in Threads : AtWait(t) /\ AtBuild(t) /\ AtMake(t) /\ AtLock(t)

StoreInv == IInv /\ PlaceInv

-----------------------------------------------------------------------------
(* What each call of the bag does to the variables the store looks at.     *)

\* The thread has found the object of the key, which is alive.
LEMMA FindEffect ==
  ASSUME BagAssumption, IInv, NEW t \in Threads, NEW k \in Keys, Find(t, k)
  PROVE  /\ UNCHANGED <<objectTable, reserved, owner, arg, holds>>
         /\ objectTable[k] \in Objects /\ arg[t] = NULL
         /\ ref' = [ref EXCEPT ![t] = @ \cup {objectTable[k]}]
BY DEF Find, MayBlockOn, bagVars, resVars, IInv, WaitIInv, WaitInv, PcArg, TypeOK, Waiting, Woken

\* The thread begins to wait.
LEMMA WaitEffect ==
  ASSUME IInv, NEW t \in Threads, NEW k \in Keys, GetWait(t, k) \/ ReserveWait(t, k)
  PROVE  /\ UNCHANGED <<objectTable, reserved, owner, holds, ref>>
         /\ arg[t] = NULL /\ arg' = [arg EXCEPT ![t] = k]
BY DEF GetWait, ReserveWait, WaitFor, MayBlockOn, bagVars, objVars, IInv, WaitIInv, WaitInv,
       PcArg, Waiting, Woken

\* The thread finds a reservation between two owners and no object.
LEMMA GetBetweenEffect ==
  ASSUME IInv, NEW t \in Threads, NEW k \in Keys, GetBetween(t, k)
  PROVE  /\ UNCHANGED <<objectTable, arg, holds, ref>>
         /\ arg[t] = NULL /\ objectTable[k] = NULL /\ owner[k] = NULL
         /\ reserved' \subseteq reserved
BY DEF GetBetween, Unreserve, MayBlockOn, bagVars, objVars, IInv, WaitIInv, WaitInv,
       PcArg, Waiting, Woken

\* The thread has waited, and has found the object or nothing.
LEMMA GetResumeEffect ==
  ASSUME IInv, NEW t \in Threads, GetResume(t)
  PROVE  /\ UNCHANGED <<objectTable, holds>>
         /\ arg[t] \in Keys /\ arg[t] # NULL /\ owner[arg[t]] = NULL
         /\ arg' = [arg EXCEPT ![t] = NULL]
         /\ ref' = [ref EXCEPT ![t] = @ \cup ({objectTable[arg[t]]} \ {NULL})]
         /\ reserved' \subseteq reserved
<1>1. arg[t] \in Keys /\ arg[t] # NULL
  BY DEF GetResume, IInv, WaitIInv, WaitInv, PcArg, TypeOK, Woken
<1>2. QED  BY <1>1 DEF GetResume, Unreserve, bagVars

\* The thread has reserved the key.
LEMMA ReserveEffect ==
  ASSUME IInv, NEW t \in Threads, NEW k \in Keys, ReserveNew(t, k) \/ ReserveBetween(t, k)
  PROVE  /\ UNCHANGED <<objectTable, arg, ref>>
         /\ arg[t] = NULL /\ objectTable[k] = NULL
         /\ holds' = [holds EXCEPT ![t] = @ \cup {k}]
         /\ reserved' \subseteq reserved \cup {k}
BY DEF ReserveNew, ReserveBetween, MayBlockOn, bagVars, objVars, IInv, WaitIInv, WaitInv,
       PcArg, Waiting, Woken

\* The thread has waited, and has the reservation now or the object.
LEMMA ReserveResumeEffect ==
  ASSUME IInv, NEW t \in Threads, ReserveResume(t)
  PROVE  /\ UNCHANGED objectTable
         /\ arg[t] \in Keys /\ arg[t] # NULL
         /\ arg' = [arg EXCEPT ![t] = NULL]
         /\ reserved' \subseteq reserved
         /\ IF objectTable[arg[t]] = NULL
            THEN holds' = [holds EXCEPT ![t] = @ \cup {arg[t]}] /\ ref' = ref
            ELSE /\ holds' = holds
                 /\ ref' = [ref EXCEPT ![t] = @ \cup {objectTable[arg[t]]}]
<1>1. arg[t] \in Keys /\ arg[t] # NULL
  BY DEF ReserveResume, IInv, WaitIInv, WaitInv, PcArg, TypeOK, Woken
<1>2. QED  BY <1>1 DEF ReserveResume, TakeOver, Unreserve, bagVars, objVars

\* A woken thread waits on: nothing a store looks at changes.
LEMMA WaitAgainEffect ==
  ASSUME NEW t \in Threads, WaitAgain(t)
  PROVE  UNCHANGED <<objectTable, reserved, owner, arg, holds, ref>>
BY DEF WaitAgain, bagVars, resVars, objVars

\* A new folder, which nobody has yet, is put into the bag.
LEMMA AddEffect ==
  ASSUME IInv, NEW t \in Threads, NEW k \in Keys, NEW o \in Objects, Add(t, k, o)
  PROVE  /\ UNCHANGED arg /\ ~Live(o) /\ objectTable[k] = NULL
         /\ objectTable' = [objectTable EXCEPT ![k] = o]
         /\ holds' = [holds EXCEPT ![t] = @ \ {k}]
         /\ ref' = [ref EXCEPT ![t] = @ \cup {o}]
         /\ reserved' \subseteq reserved
<1>1. ~Live(o) /\ keyTable[o] = NULL
  BY DEF Add, Fresh, IInv, ObjectInv, KeyedAreLive
<1>2. owner[k] = t /\ owner[k] # NULL
  BY BagAssumption DEF Add, IInv, HoldsIsOwner
<1>3. QED  BY <1>1, <1>2 DEF Add, Bind, Unreserve, IInv, OwnedIsEmpty

\* A reservation is given up.
LEMMA AbortEffect ==
  ASSUME NEW t \in Threads, NEW k \in Keys, Abort(t, k)
  PROVE  /\ UNCHANGED <<objectTable, arg, ref>>
         /\ holds' = [holds EXCEPT ![t] = @ \ {k}]
         /\ reserved' \subseteq reserved
BY DEF Abort, Unreserve, bagVars, objVars

\* The folder of a name is taken out of the bag.
LEMMA RemoveEffect ==
  ASSUME BagAssumption, IInv, NEW t \in Threads, NEW k \in Keys, NEW o \in Objects,
         objectTable[k] = o, Remove(t, o)
  PROVE  /\ UNCHANGED <<reserved, owner, arg, holds, ref>>
         /\ objectTable' = [objectTable EXCEPT ![k] = NULL]
<1>1. keyTable[o] = k
  BY DEF IInv, ObjectInv, TablesInverse
<1>2. k # Freed
  BY DEF BagAssumption
<1>3. QED  BY <1>1, <1>2 DEF Remove, Unbind, WithoutKeyOf, resVars

\* The folder of a name gets another name, which nobody has.
LEMMA RekeyEffect ==
  ASSUME BagAssumption, ~RenameOntoOpen, IInv,
         NEW t \in Threads, NEW k \in Keys, NEW o \in Objects, Rekey(t, o, k)
  PROVE  /\ UNCHANGED <<reserved, owner, arg, holds, ref>>
         /\ objectTable[k] = NULL
         /\ \E j \in Keys : /\ objectTable[j] = o
                           /\ objectTable' = [[objectTable EXCEPT ![j] = NULL] EXCEPT ![k] = o]
<1>1. keyTable[o] \in Keys /\ objectTable[keyTable[o]] = o
  BY DEF Rekey, IInv, WaitIInv, TypeOK, ObjectInv, NoFreedKey, TablesInverse
<1>2. keyTable[o] # Freed
  BY <1>1 DEF BagAssumption
<1>3. QED  BY <1>1, <1>2 DEF Rekey, Bind, WithoutKeyOf, resVars, objVars

\* The thread has a reference to every folder in the bag.
LEMMA ListEffect ==
  ASSUME NEW t \in Threads, List(t)
  PROVE  /\ UNCHANGED <<objectTable, reserved, owner, arg, holds>>
         /\ ref' = [ref EXCEPT ![t] = @ \cup ({objectTable[k] : k \in Keys} \ {NULL})]
BY DEF List, bagVars, resVars

-----------------------------------------------------------------------------
(* A store makes steps of its bag.                                         *)

\* What LookUpTrash does, for both of its callers.
LEMMA LookUpIsBagStep ==
  ASSUME StoreAssumption, NEW t \in Threads, NEW here, NEW without, NEW with,
         LookUpTrash(t, here, without, with)
  PROVE  [Next]_vars
BY DEF StoreAssumption, LookUpTrash, Next, Lookup, Resume

\* Every step of a store is one of its bag, or leaves the bag alone.
LEMMA StepIsBagStep ==
  ASSUME StoreAssumption, PlaceInv, TypeOK, [StoreNext]_allVars
  PROVE  [Next]_vars
<1> USE DEF PlaceInv, StoreTypeOK, Steps, TypeOK
<1>1. ASSUME NEW t \in Threads, NEW k \in Keys,
             GetFolder(t, k) \/ CreateFolder(t, k) \/ DeleteFolder(t, k)
      PROVE  [Next]_vars
  BY <1>1 DEF GetFolder, CreateFolder, DeleteFolder, Next, Lookup, Reserve
<1>2. ASSUME NEW t \in Threads, NEW old \in Named, NEW new \in Named, RenameFolder(t, old, new)
      PROVE  [Next]_vars
  BY <1>2 DEF RenameFolder, Next
<1>3. ASSUME NEW t \in Threads, ResumeReserve(t) \/ WaitsAgain(t)
      PROVE  [Next]_vars
  BY <1>3 DEF ResumeReserve, WaitsAgain, Next, Resume
<1>4. ASSUME NEW t \in Threads,
             Open(t) \/ FillTrash(t) \/ Join(t) \/ Leave(t) \/ MarkDeleted(t)
      PROVE  [Next]_vars
  BY <1>4 DEF Open, FillTrash, Join, Leave, MarkDeleted
<1>5. ASSUME NEW t \in Threads, ListFolders(t)
      PROVE  [Next]_vars
  BY <1>5 DEF ListFolders, Next
<1>6. ASSUME NEW t \in Threads, AddOrAbort(t)
      PROVE  [Next]_vars
  <2>1. step[t].key \in Keys
    BY <1>6 DEF AddOrAbort, At, AtBuild, Building
  <2>2. At(t, "add") => step[t].folder \in Objects
    BY DEF At, AtMake, Making
  <2>3. QED  BY <1>6, <2>1, <2>2 DEF AddOrAbort, Next, Finish
<1>7. ASSUME NEW t \in Threads, GetCached(t)
      PROVE  [Next]_vars
  <2>1. step[t].key \in Keys
    BY <1>7 DEF GetCached, At, AtLock, Locking, Named
  <2>2. QED  BY <1>7, <2>1 DEF GetCached, Next, Lookup, Resume
<1>8. ASSUME NEW t \in Threads, RemoveCached(t)
      PROVE  [Next]_vars
  BY <1>8 DEF RemoveCached, At, AtLock, Next, Change
<1>9. ASSUME NEW t \in Threads, RekeyRenamed(t)
      PROVE  [Next]_vars
  <2>1. step[t].new \in Keys /\ step[t].folder \in Objects \cup {NULL}
    BY <1>9 DEF RekeyRenamed, At, AtLock, Named
  <2>2. QED  BY <1>9, <2>1 DEF RekeyRenamed, Next, Change
<1>10. CASE UNCHANGED allVars
  BY <1>10 DEF allVars
<1>11. QED
  BY <1>1, <1>2, <1>3, <1>4, <1>5, <1>6, <1>7, <1>8, <1>9, <1>10, LookUpIsBagStep
     DEF StoreNext, Call, Inside

-----------------------------------------------------------------------------
(* What a step of one thread leaves of the places of the others.           *)

\* Whoever looks something up in the bag gets a folder that lives already.
LEMMA LiveSame ==
  ASSUME \A u \in Threads : ref[u] \subseteq ref'[u],
         \A u \in Threads : \A o \in ref'[u] : Live(o)
  PROVE  \A o : Live(o)' <=> Live(o)
BY DEF Live

\* What is in the bag lives.
LEMMA BoundLive ==
  ASSUME BagAssumption, IInv, NEW k \in Keys, objectTable[k] # NULL
  PROVE  objectTable[k] \in Objects /\ Live(objectTable[k])
BY DEF BagAssumption, IInv, WaitIInv, TypeOK, ObjectInv, TablesInverse, KeyedAreLive

\* So a call that looks something up makes nothing live.
LEMMA LookUpLives ==
  ASSUME BagAssumption, IInv, NEW t \in Threads,
         \/ \E k \in Keys : Find(t, k)
         \/ GetResume(t) \/ ReserveResume(t) \/ List(t)
  PROVE  \A o : Live(o)' <=> Live(o)
<1>1. ref \in [Threads -> SUBSET Objects]
  BY DEF IInv, WaitIInv, TypeOK
<1>2. /\ \A u \in Threads : ref[u] \subseteq ref'[u]
      /\ \A u \in Threads : \A o \in ref'[u] \ ref[u] : \E k \in Keys : o = objectTable[k] /\ o # NULL
  <2>1. ASSUME NEW k \in Keys, Find(t, k)
        PROVE  objectTable[k] # NULL /\ ref' = [ref EXCEPT ![t] = @ \cup {objectTable[k]}]
    BY <2>1 DEF Find
  <2>2. CASE \E k \in Keys : Find(t, k)
    BY <1>1, <2>1, <2>2
  <2>3. CASE GetResume(t)
    BY <1>1, <2>3, GetResumeEffect
  <2>4. CASE ReserveResume(t)
    BY <1>1, <2>4, ReserveResumeEffect
  <2>5. CASE List(t)
    BY <1>1, <2>5, ListEffect
  <2>6. QED  BY <2>2, <2>3, <2>4, <2>5
<1>3. \A u \in Threads : \A o \in ref'[u] : Live(o)
  BY <1>2, BoundLive DEF Live
<1>4. QED  BY <1>2, <1>3, LiveSame

\* The places of all threads, after a step of one.
OthersKeep(t) ==
  \A u \in Threads : u # t =>
    /\ step'[u] = step[u] /\ arg'[u] = arg[u] /\ holds'[u] = holds[u]
    /\ step[u].at \in Making => ~Live(step[u].folder)' /\ step'[t].folder # step[u].folder
    /\ lock' = u <=> lock = u
    /\ step[u].at \in {"leave", "left", "delete", "remove"} =>
         objectTable'[step[u].key] = objectTable[step[u].key]

LEMMA MoveKeeps ==
  ASSUME PlaceInv, StoreTypeOK', NEW t \in Threads, OthersKeep(t),
         AtWait(t)', AtBuild(t)', AtMake(t)', AtLock(t)'
  PROVE  PlaceInv'
<1> USE DEF OthersKeep
<1>1. SUFFICES ASSUME NEW u \in Threads, u # t
      PROVE  AtWait(u)' /\ AtBuild(u)' /\ AtMake(u)' /\ AtLock(u)'
  BY DEF PlaceInv
<1>2. AtWait(u)' /\ AtBuild(u)'
  BY <1>1 DEF PlaceInv, AtWait, AtBuild
<1>3. AtMake(u)'
  BY <1>1 DEF PlaceInv, AtMake
<1>4. AtLock(u)'
  BY <1>1 DEF PlaceInv, AtLock
<1>5. QED  BY <1>2, <1>3, <1>4

\* A thread that goes on to another place of the same call.
LEMMA GoTyped ==
  ASSUME NEW t \in Threads, step \in [Threads -> Steps], NEW place \in Places,
         step' = [step EXCEPT ![t].at = place]
  PROVE  step' \in [Threads -> Steps]
<1>1. [step[t] EXCEPT !.at = place] \in Steps
  BY DEF Steps
<1>2. QED  BY <1>1

\* The steps of camel_store_get_folder, one lemma for each.
LEMMA GetFolderKeeps ==
  ASSUME BagAssumption, StoreAssumption, StoreInv,
         NEW t \in Threads, NEW k \in Keys, GetFolder(t, k)
  PROVE  PlaceInv'
<1> USE BagAssumption DEF StoreInv, PlaceInv, StoreTypeOK, Steps, At, Begin, Idle
<1>1. step[t].at = "idle" /\ UNCHANGED <<mailbox, lock, sources, deleted>>
  BY DEF GetFolder
<1>2. CASE Find(t, k) /\ UNCHANGED step
  <2>1. \A o : Live(o)' <=> Live(o)
    BY <1>2, LookUpLives
  <2>2. StoreTypeOK'
    BY <1>1, <1>2
  <2>3. AtWait(t)' /\ AtBuild(t)' /\ AtMake(t)' /\ AtLock(t)'
    BY <1>1, <1>2, FindEffect DEF AtWait, AtBuild, AtMake, AtLock, Building, Making, Locking
  <2>4. QED
    <3>1. OthersKeep(t)
      BY <1>1, <1>2, <2>1, <2>2, <2>3, FindEffect DEF OthersKeep, AtMake
    <3>2. QED  BY <1>1, <1>2, <2>1, <2>2, <2>3, FindEffect, <3>1, MoveKeeps
<1>3. CASE (ReserveNew(t, k) \/ ReserveBetween(t, k)) /\ Begin(t, "open", k)
  <2>1. step' = [step EXCEPT ![t] = [Idle EXCEPT !.at = "open", !.key = k]]
    BY <1>3
  <2>2. StoreTypeOK'
    BY <1>1, <2>1 DEF Places
  <2>3. step'[t].at = "open" /\ step'[t].key = k /\ step'[t].folder = NULL /\ arg'[t] = NULL
        /\ k \in holds'[t] /\ UNCHANGED <<ref, objectTable, arg>>
    BY <1>3, <2>1, ReserveEffect DEF IInv, WaitIInv, TypeOK
  <2>4. AtWait(t)' /\ AtBuild(t)' /\ AtMake(t)' /\ AtLock(t)'
    BY <1>1, <2>3 DEF AtWait, AtBuild, AtMake, AtLock, Building, Making, Locking
  <2>5. \A u \in Threads : u # t => step'[u] = step[u] /\ holds'[u] = holds[u]
    BY <1>3, <2>1, ReserveEffect DEF IInv, WaitIInv, TypeOK
  <2>6. QED
    <3>1. OthersKeep(t)
      BY <1>1, <2>2, <2>3, <2>4, <2>5 DEF OthersKeep, AtMake, Live
    <3>2. QED  BY <1>1, <2>2, <2>3, <2>4, <2>5, <3>1, MoveKeeps
<1>4. CASE ReserveWait(t, k) /\ Begin(t, "reserve", k)
  <2>1. step' = [step EXCEPT ![t] = [Idle EXCEPT !.at = "reserve", !.key = k]]
    BY <1>4
  <2>2. StoreTypeOK'
    BY <1>1, <2>1 DEF Places
  <2>3. step'[t].at = "reserve" /\ step'[t].key = k /\ step'[t].folder = NULL /\ arg'[t] = k
        /\ UNCHANGED <<ref, objectTable, holds>>
    BY <1>4, <2>1, WaitEffect DEF IInv, WaitIInv, TypeOK
  <2>4. AtWait(t)' /\ AtBuild(t)' /\ AtMake(t)' /\ AtLock(t)'
    BY <1>1, <2>3 DEF AtWait, AtBuild, AtMake, AtLock, Building, Making, Locking
  <2>5. \A u \in Threads : u # t => step'[u] = step[u] /\ arg'[u] = arg[u]
    BY <1>4, <2>1, WaitEffect DEF IInv, WaitIInv, TypeOK
  <2>6. QED
    <3>1. OthersKeep(t)
      BY <1>1, <2>2, <2>3, <2>4, <2>5 DEF OthersKeep, AtMake, Live
    <3>2. QED  BY <1>1, <2>2, <2>3, <2>4, <2>5, <3>1, MoveKeeps
<1>5. QED  BY <1>2, <1>3, <1>4 DEF GetFolder

LEMMA ResumeReserveKeeps ==
  ASSUME BagAssumption, StoreAssumption, StoreInv, NEW t \in Threads, ResumeReserve(t)
  PROVE  PlaceInv'
<1> USE BagAssumption DEF StoreInv, PlaceInv, StoreTypeOK, Steps, At, Go, Return, Idle
<1>1. step[t].at = "reserve" /\ UNCHANGED <<mailbox, lock, sources, deleted>>
      /\ ReserveResume(t)
  BY DEF ResumeReserve
<1>2. arg[t] = step[t].key /\ step[t].key \in Keys
  BY <1>1, ReserveResumeEffect DEF AtWait
<1>3. /\ \A o : Live(o)' <=> Live(o)
      /\ objectTable' = objectTable /\ arg'[t] = NULL
      /\ \A u \in Threads : u # t => arg'[u] = arg[u] /\ holds'[u] = holds[u]
  BY <1>1, LookUpLives, ReserveResumeEffect DEF IInv, WaitIInv, TypeOK
<1>4. CASE objectTable[step[t].key] = NULL
  <2>1. step' = [step EXCEPT ![t].at = "open"]
    BY <1>4 DEF ResumeReserve
  <2>2. StoreTypeOK'
    <3>1. "open" \in Places /\ step \in [Threads -> Steps]
      BY DEF Places
    <3>2. step' \in [Threads -> Steps]
      BY <2>1, <3>1, GoTyped
    <3>3. QED  BY <1>1, <3>2
  <2>3. step'[t].at = "open" /\ step'[t].key = step[t].key /\ step'[t].folder = step[t].folder
        /\ step[t].key \in holds'[t]
    BY <1>1, <1>2, <1>4, <2>1, ReserveResumeEffect DEF IInv, WaitIInv, TypeOK
  <2>4. AtWait(t)' /\ AtBuild(t)' /\ AtMake(t)' /\ AtLock(t)'
    BY <1>1, <1>3, <2>3 DEF AtWait, AtBuild, AtMake, AtLock, Building, Making, Locking
  <2>5. \A u \in Threads : u # t => step'[u] = step[u]
    BY <2>1
  <2>6. QED
    <3>1. OthersKeep(t)
      BY <1>1, <1>3, <2>2, <2>3, <2>4, <2>5 DEF OthersKeep, AtMake
    <3>2. QED  BY <1>1, <1>3, <2>2, <2>3, <2>4, <2>5, <3>1, MoveKeeps
<1>5. CASE objectTable[step[t].key] # NULL
  <2>1. step' = [step EXCEPT ![t] = Idle]
    BY <1>5 DEF ResumeReserve
  <2>2. StoreTypeOK'
    BY <1>1, <2>1 DEF Places
  <2>3. step'[t] = Idle
    BY <2>1
  <2>4. AtWait(t)' /\ AtBuild(t)' /\ AtMake(t)' /\ AtLock(t)'
    BY <1>1, <1>3, <2>3 DEF AtWait, AtBuild, AtMake, AtLock, Building, Making, Locking
  <2>5. \A u \in Threads : u # t => step'[u] = step[u]
    BY <2>1
  <2>6. QED
    <3>1. OthersKeep(t)
      BY <1>1, <1>3, <2>2, <2>3, <2>4, <2>5 DEF OthersKeep, AtMake
    <3>2. QED  BY <1>1, <1>3, <2>2, <2>3, <2>4, <2>5, <3>1, MoveKeeps
<1>6. QED  BY <1>4, <1>5

LEMMA WaitsAgainKeeps ==
  ASSUME StoreInv, NEW t \in Threads, WaitsAgain(t)
  PROVE  PlaceInv'
BY WaitAgainEffect DEF WaitsAgain, storeVars, StoreInv, PlaceInv, StoreTypeOK,
                       AtWait, AtBuild, AtMake, AtLock, Live

LEMMA OpenKeeps ==
  ASSUME BagAssumption, StoreAssumption, StoreInv, NEW t \in Threads, Open(t)
  PROVE  PlaceInv'
<1> USE BagAssumption DEF StoreInv, PlaceInv, StoreTypeOK, Steps, At, Go
<1>1. /\ step[t].at = "open" /\ step[t].key # Trash
      /\ UNCHANGED <<mailbox, lock, sources, deleted, objectTable, holds, arg, ref>>
  BY DEF Open, vars
<1>2. step[t].key \in holds[t] /\ arg[t] = NULL /\ step[t].key \in Named
  BY <1>1 DEF AtBuild, Building, AtWait, Named, IInv, WaitIInv, TypeOK
<1>3. CASE step' = [step EXCEPT ![t].at = "abort"]
  <2>1. StoreTypeOK'
    BY <1>1, <1>3 DEF Places
  <2>2. step'[t].at = "abort" /\ step'[t].key = step[t].key /\ step'[t].folder = step[t].folder
    BY <1>3
  <2>3. AtWait(t)' /\ AtBuild(t)' /\ AtMake(t)' /\ AtLock(t)'
    BY <1>1, <1>2, <2>2 DEF AtWait, AtBuild, AtMake, AtLock, Building, Making, Locking
  <2>4. \A u \in Threads : u # t => step'[u] = step[u]
    BY <1>3
  <2>5. \A o : Live(o)' <=> Live(o)
    BY <1>1 DEF Live
  <2>6. QED
    <3>1. OthersKeep(t)
      BY <1>1, <2>1, <2>2, <2>3, <2>4, <2>5 DEF OthersKeep, AtMake
    <3>2. QED  BY <1>1, <2>1, <2>2, <2>3, <2>4, <2>5, <3>1, MoveKeeps
<1>4. CASE Cardinality(Unused) > 1
           /\ step' = [step EXCEPT ![t].at = "look", ![t].folder = NewFolder]
  <2>1. Unused # {}
    <3>1. Cardinality({}) = 0
      BY FS_EmptySet
    <3>2. Cardinality(Unused) # 0
      BY <1>4
    <3>3. QED  BY <3>1, <3>2, Zenon
  <2>2. NewFolder \in Unused
    BY <2>1 DEF NewFolder
  <2>3. NewFolder \in Objects /\ ~Live(NewFolder) /\ \A u \in Threads : step[u].folder # NewFolder
    BY <2>2 DEF Unused, Fresh
  <2>4. StoreTypeOK'
    BY <1>1, <1>4, <2>3 DEF Places
  <2>5. step'[t].at = "look" /\ step'[t].key = step[t].key /\ step'[t].folder = NewFolder
    BY <1>4
  <2>6. \A u \in Threads : u # t => step'[u] = step[u]
    BY <1>4
  <2>7. AtWait(t)' /\ AtBuild(t)' /\ AtMake(t)' /\ AtLock(t)'
    BY <1>1, <1>2, <2>3, <2>5, <2>6 DEF AtWait, AtBuild, AtMake, AtLock, Building, Making, Locking, Live
  <2>8. \A o : Live(o)' <=> Live(o)
    BY <1>1 DEF Live
  <2>9. QED
    <3>1. OthersKeep(t)
      BY <1>1, <2>3, <2>4, <2>5, <2>6, <2>7, <2>8 DEF OthersKeep, AtMake
    <3>2. QED  BY <1>1, <2>3, <2>4, <2>5, <2>6, <2>7, <2>8, <3>1, MoveKeeps
<1>5. QED  BY <1>3, <1>4 DEF Open

\* The step of a thread that has looked up the Trash, or a folder.
LEMMA PassTyped ==
  ASSUME NEW r \in Steps, NEW place \in Places, NEW v \in Objects \cup {NULL}
  PROVE  /\ [r EXCEPT !.at = place, !.trash = v] \in Steps
         /\ [r EXCEPT !.at = place, !.folder = v] \in Steps
BY DEF Steps

\* Both look-ups of the Trash: to go on without it, with it, or to wait.
LEMMA LookUpTrashKeeps ==
  ASSUME BagAssumption, StoreAssumption, StoreInv, NEW t \in Threads,
         NEW here, NEW absent, NEW present, LookUpTrash(t, here, absent, present),
         \/ here = "look" /\ absent = "add" /\ present = "join"
         \/ here = "leave" /\ absent = "delete" /\ present = "left"
  PROVE  PlaceInv'
<1> USE BagAssumption DEF StoreInv, PlaceInv, StoreTypeOK, At, Go
<1>1. step[t].at = here /\ UNCHANGED <<mailbox, lock, sources, deleted>> /\ Trash \in Keys
  BY StoreAssumption DEF LookUpTrash
<1>2. arg[t] \in {NULL, Trash}
  BY <1>1 DEF AtWait
<1>3. ASSUME NEW place \in {absent, present}, NEW v \in Objects \cup {NULL},
             step' = [step EXCEPT ![t].at = place, ![t].trash = v],
             \A o : Live(o)' <=> Live(o), arg'[t] = NULL,
             \A u \in Threads : u # t => arg'[u] = arg[u],
             UNCHANGED <<objectTable, holds>>
      PROVE  PlaceInv'
  <2>1. StoreTypeOK'
    <3>1. place \in Places
      BY DEF Places
    <3>2. step \in [Threads -> Steps]
      OBVIOUS
    <3>3. [step[t] EXCEPT !.at = place, !.trash = v] \in Steps
      BY <3>1, <3>2, PassTyped
    <3>4. step' = [step EXCEPT ![t] = [step[t] EXCEPT !.at = place, !.trash = v]]
      BY <1>3
    <3>5. step' \in [Threads -> Steps]
      BY <3>2, <3>3, <3>4
    <3>6. QED  BY <1>1, <3>5
  <2>2. step'[t].at = place /\ step'[t].key = step[t].key /\ step'[t].folder = step[t].folder
    BY <1>3
  <2>3. \A u \in Threads : u # t => step'[u] = step[u]
    BY <1>3
  <2>4. AtWait(t)' /\ AtBuild(t)' /\ AtMake(t)' /\ AtLock(t)'
    BY <1>1, <1>3, <2>2, <2>3 DEF AtWait, AtBuild, AtMake, AtLock, Building, Making, Locking
  <2>5. QED
    <3>1. OthersKeep(t)
      BY <1>1, <1>3, <2>1, <2>2, <2>3, <2>4 DEF OthersKeep, AtMake
    <3>2. QED  BY <1>1, <1>3, <2>1, <2>2, <2>3, <2>4, <3>1, MoveKeeps
<1>4. ASSUME NEW place \in {absent, present}, step' = [step EXCEPT ![t].at = place],
             \A o : Live(o)' <=> Live(o), arg'[t] = NULL,
             \A u \in Threads : u # t => arg'[u] = arg[u],
             UNCHANGED <<objectTable, holds>>
      PROVE  PlaceInv'
  <2>1. step[t].trash \in Objects \cup {NULL}
    BY DEF Steps
  <2>2. [step[t] EXCEPT !.at = place] = [step[t] EXCEPT !.at = place, !.trash = step[t].trash]
    BY DEF Steps
  <2>3. step' = [step EXCEPT ![t] = [step[t] EXCEPT !.at = place]]
    BY <1>4
  <2>4. step' = [step EXCEPT ![t].at = place, ![t].trash = step[t].trash]
    BY <2>2, <2>3
  <2>5. QED  BY <1>3, <1>4, <2>1, <2>4
<1>5. CASE objectTable[Trash] = NULL /\ Trash \notin reserved /\ Go(t, absent) /\ UNCHANGED vars
  <2>1. arg[t] = NULL
    BY <1>2, <1>5 DEF IInv, WaitIInv, WaitInv, WaitsOnReserved
  <2>2. QED  BY <1>4, <1>5, <2>1 DEF vars, Live
<1>6. CASE GetBetween(t, Trash) /\ Go(t, absent)
  BY <1>1, <1>4, <1>6, GetBetweenEffect DEF Live
<1>7. CASE Find(t, Trash)
           /\ step' = [step EXCEPT ![t].at = present, ![t].trash = objectTable[Trash]]
  <2>1. /\ \A o : Live(o)' <=> Live(o)
        /\ objectTable[Trash] \in Objects /\ arg'[t] = NULL
        /\ UNCHANGED <<objectTable, arg, holds>>
    BY <1>1, <1>7, LookUpLives, FindEffect
  <2>2. QED  BY <1>3, <1>7, <2>1
<1>8. CASE GetWait(t, Trash) /\ UNCHANGED step
  <2>1. StoreTypeOK'
    BY <1>1, <1>8
  <2>2. arg'[t] = Trash /\ UNCHANGED <<objectTable, holds, ref>>
        /\ \A u \in Threads : u # t => arg'[u] = arg[u]
    BY <1>1, <1>8, WaitEffect DEF IInv, WaitIInv, TypeOK
  <2>3. AtWait(t)' /\ AtBuild(t)' /\ AtMake(t)' /\ AtLock(t)'
    BY <1>1, <1>8, <2>2 DEF AtWait, AtBuild, AtMake, AtLock, Live
  <2>4. QED
    <3>1. OthersKeep(t)
      BY <1>1, <1>8, <2>1, <2>2, <2>3 DEF OthersKeep, AtMake, Live
    <3>2. QED  BY <1>1, <1>8, <2>1, <2>2, <2>3, <3>1, MoveKeeps
<1>9. CASE GetResume(t)
           /\ step' = [step EXCEPT ![t].at = IF objectTable[Trash] = NULL THEN absent ELSE present,
                                   ![t].trash = objectTable[Trash]]
  <2>1. /\ \A o : Live(o)' <=> Live(o)
        /\ objectTable[Trash] \in Objects \cup {NULL} /\ arg'[t] = NULL
        /\ UNCHANGED <<objectTable, holds>>
        /\ \A u \in Threads : u # t => arg'[u] = arg[u]
    BY <1>1, <1>9, LookUpLives, GetResumeEffect DEF IInv, WaitIInv, TypeOK
  <2>2. QED  BY <1>3, <1>9, <2>1
<1>10. QED  BY <1>5, <1>6, <1>7, <1>8, <1>9 DEF LookUpTrash

LEMMA JoinKeeps ==
  ASSUME BagAssumption, StoreInv, NEW t \in Threads, Join(t) \/ FillTrash(t)
  PROVE  PlaceInv'
<1> USE BagAssumption DEF StoreInv, PlaceInv, StoreTypeOK, Steps, At, Go
<1>1. /\ step[t].at \in {"join", "fill"} /\ step' = [step EXCEPT ![t].at = "add"]
      /\ UNCHANGED <<mailbox, lock, deleted, objectTable, holds, arg, ref>>
  BY DEF Join, FillTrash, vars
<1>2. step[t].key \in holds[t] /\ arg[t] = NULL /\ step[t].folder \in Objects
  BY <1>1 DEF AtBuild, Building, AtWait, AtMake, Making
<1>3. sources' \in [Objects -> SUBSET Objects]
  BY <1>2 DEF Join, FillTrash
<1>4. StoreTypeOK'
  BY <1>1, <1>3 DEF Places
<1>5. step'[t].at = "add" /\ step'[t].key = step[t].key /\ step'[t].folder = step[t].folder
  BY <1>1
<1>6. \A u \in Threads : u # t => step'[u] = step[u]
  BY <1>1
<1>7. \A o : Live(o)' <=> Live(o)
  BY <1>1 DEF Live
<1>8. AtWait(t)' /\ AtBuild(t)' /\ AtMake(t)' /\ AtLock(t)'
  BY <1>1, <1>2, <1>5, <1>6, <1>7 DEF AtWait, AtBuild, AtMake, AtLock, Building, Making, Locking
<1>9. QED
  <2>1. OthersKeep(t)
    BY <1>1, <1>4, <1>5, <1>6, <1>7, <1>8 DEF OthersKeep, AtMake
  <2>2. QED  BY <1>1, <1>4, <1>5, <1>6, <1>7, <1>8, <2>1, MoveKeeps

\* The new folder is in the bag from now on, and known to all.
LEMMA AddOrAbortKeeps ==
  ASSUME BagAssumption, StoreInv, NEW t \in Threads, AddOrAbort(t)
  PROVE  PlaceInv'
<1> USE BagAssumption DEF StoreInv, PlaceInv, StoreTypeOK, Steps, At, Return
<1>1. /\ step[t].at \in {"add", "abort"} /\ step' = [step EXCEPT ![t] = Idle]
      /\ UNCHANGED <<mailbox, lock, sources, deleted>>
  BY DEF AddOrAbort
<1>2. step[t].key \in holds[t] /\ arg[t] = NULL /\ step[t].key \in Keys
  BY <1>1 DEF AtBuild, Building, AtWait, IInv, WaitIInv, TypeOK
<1>3. StoreTypeOK'
  BY <1>1 DEF Places, Idle
<1>4. step'[t] = Idle /\ \A u \in Threads : u # t => step'[u] = step[u]
  BY <1>1
<1>5. CASE At(t, "add") /\ Add(t, step[t].key, step[t].folder)
  <2>1. step[t].folder \in Objects
    BY <1>5 DEF AtMake, Making
  <2>2. /\ UNCHANGED arg /\ objectTable[step[t].key] = NULL
        /\ objectTable' = [objectTable EXCEPT ![step[t].key] = step[t].folder]
        /\ ref' = [ref EXCEPT ![t] = @ \cup {step[t].folder}]
        /\ \A u \in Threads : u # t => holds'[u] = holds[u]
    BY <1>2, <1>5, <2>1, AddEffect DEF IInv, WaitIInv, TypeOK
  <2>3. \A o : Live(o)' => Live(o) \/ o = step[t].folder
    BY <2>2 DEF Live, IInv, WaitIInv, TypeOK
  <2>4. \A u \in Threads : u # t /\ step[u].at \in Making =>
          ~Live(step[u].folder) /\ step[u].folder # step[t].folder /\ step[u].folder # NULL
    BY DEF AtMake
  <2>5. \A u \in Threads : u # t /\ step[u].at \in {"leave", "left", "delete", "remove"} =>
          objectTable'[step[u].key] = objectTable[step[u].key]
    <3>1. ASSUME NEW u \in Threads, step[u].at \in {"leave", "left", "delete", "remove"}
          PROVE  step[u].key \in Keys /\ step[u].key # step[t].key
      BY <2>2, <3>1 DEF AtLock, Locking, Named
    <3>2. QED  BY <2>2, <3>1 DEF IInv, WaitIInv, TypeOK
  <2>6. AtWait(t)' /\ AtBuild(t)' /\ AtMake(t)' /\ AtLock(t)'
    BY <1>1, <1>2, <1>4, <2>2 DEF AtWait, AtBuild, AtMake, AtLock, Building, Making, Locking, Idle
  <2>7. step'[t].folder = NULL
    BY <1>4 DEF Idle
  <2>8. \A u \in Threads : u # t /\ step[u].at \in Making =>
          ~Live(step[u].folder)' /\ step'[t].folder # step[u].folder
    BY <1>4, <2>3, <2>4, <2>7
  <2>9. QED
    <3>1. OthersKeep(t)
      BY <1>1, <1>3, <1>4, <2>2, <2>5, <2>6, <2>8 DEF OthersKeep
    <3>2. QED  BY <1>1, <1>3, <1>4, <2>2, <2>5, <2>6, <2>8, <3>1, MoveKeeps
<1>6. CASE At(t, "abort") /\ Abort(t, step[t].key)
  <2>1. /\ UNCHANGED <<objectTable, arg, ref>>
        /\ \A u \in Threads : u # t => holds'[u] = holds[u]
    BY <1>2, <1>6, AbortEffect DEF IInv, WaitIInv, TypeOK
  <2>2. \A o : Live(o)' <=> Live(o)
    BY <2>1 DEF Live
  <2>3. AtWait(t)' /\ AtBuild(t)' /\ AtMake(t)' /\ AtLock(t)'
    BY <1>1, <1>2, <1>4, <2>1 DEF AtWait, AtBuild, AtMake, AtLock, Building, Making, Locking, Idle
  <2>4. step'[t].folder = NULL
    BY <1>4 DEF Idle
  <2>5. QED
    <3>1. OthersKeep(t)
      BY <1>1, <1>3, <1>4, <2>1, <2>2, <2>3, <2>4 DEF OthersKeep, AtMake
    <3>2. QED  BY <1>1, <1>3, <1>4, <2>1, <2>2, <2>3, <2>4, <3>1, MoveKeeps
<1>7. QED  BY <1>5, <1>6 DEF AddOrAbort

LEMMA ListFoldersKeeps ==
  ASSUME BagAssumption, StoreInv, NEW t \in Threads, ListFolders(t)
  PROVE  PlaceInv'
<1> USE BagAssumption DEF StoreInv, PlaceInv, StoreTypeOK, Steps, At
<1>1. /\ step[t].at = "open" /\ step[t].key = Trash /\ Unused # {} /\ List(t)
      /\ step' = [step EXCEPT ![t].at = "fill", ![t].folder = NewFolder]
      /\ UNCHANGED <<mailbox, lock, deleted>>
  BY DEF ListFolders
<1>2. NewFolder \in Unused
  BY <1>1 DEF NewFolder
<1>3. NewFolder \in Objects /\ ~Live(NewFolder) /\ \A u \in Threads : step[u].folder # NewFolder
  BY <1>2 DEF Unused, Fresh
<1>4. UNCHANGED <<objectTable, holds, arg>> /\ \A o : Live(o)' <=> Live(o)
  BY <1>1, ListEffect, LookUpLives
<1>5. step[t].key \in holds[t] /\ arg[t] = NULL
  BY <1>1 DEF AtBuild, Building, AtWait
<1>6. sources' \in [Objects -> SUBSET Objects]
  <2>1. {objectTable[k] : k \in Named} \ {NULL} \subseteq Objects
    BY DEF IInv, WaitIInv, TypeOK, Named
  <2>2. sources' = [sources EXCEPT ![NewFolder] = {objectTable[k] : k \in Named} \ {NULL}]
    BY DEF ListFolders
  <2>3. QED  BY <2>1, <2>2
<1>7. StoreTypeOK'
  BY <1>1, <1>3, <1>6 DEF Places
<1>8. step'[t].at = "fill" /\ step'[t].key = Trash /\ step'[t].folder = NewFolder
      /\ \A u \in Threads : u # t => step'[u] = step[u]
  BY <1>1
<1>9. AtWait(t)' /\ AtBuild(t)' /\ AtMake(t)' /\ AtLock(t)'
  BY <1>1, <1>3, <1>4, <1>5, <1>8 DEF AtWait, AtBuild, AtMake, AtLock, Building, Making, Locking
<1>10. QED
  <2>1. OthersKeep(t)
    BY <1>1, <1>3, <1>4, <1>7, <1>8, <1>9 DEF OthersKeep, AtMake
  <2>2. QED  BY <1>1, <1>3, <1>4, <1>7, <1>8, <1>9, <2>1, MoveKeeps

-----------------------------------------------------------------------------
\* The steps of camel_store_create_folder, delete_folder and rename_folder.
LEMMA CreateFolderKeeps ==
  ASSUME BagAssumption, StoreAssumption, StoreInv,
         NEW t \in Threads, NEW k \in Keys, CreateFolder(t, k)
  PROVE  PlaceInv'
<1>1. UNCHANGED <<step, lock, sources, deleted, objectTable, arg, holds, ref>>
      /\ mailbox' \subseteq Named
  BY StoreAssumption DEF CreateFolder, vars, StoreInv, PlaceInv, StoreTypeOK, Named
<1>2. QED
  BY <1>1 DEF StoreInv, PlaceInv, StoreTypeOK, AtWait, AtBuild, AtMake, AtLock, Live

LEMMA DeleteFolderKeeps ==
  ASSUME BagAssumption, StoreAssumption, StoreInv,
         NEW t \in Threads, NEW k \in Keys, DeleteFolder(t, k)
  PROVE  PlaceInv'
<1> USE BagAssumption DEF StoreInv, PlaceInv, StoreTypeOK, Steps, At, Begin, Idle
<1>1. /\ step[t].at = "idle" /\ lock = NULL /\ lock' = t /\ k \in Named
      /\ mailbox' \subseteq mailbox
      /\ UNCHANGED <<sources, deleted, objectTable, arg, holds, ref>>
  BY DEF DeleteFolder, Lock, vars
<1>2. step' = [step EXCEPT ![t] = [Idle EXCEPT !.at = "cached", !.key = k]]
  BY DEF DeleteFolder
<1>3. StoreTypeOK'
  BY <1>1, <1>2 DEF Places
<1>4. step'[t].at = "cached" /\ step'[t].key = k /\ step'[t].folder = NULL
      /\ \A u \in Threads : u # t => step'[u] = step[u]
  BY <1>2
<1>5. \A o : Live(o)' <=> Live(o)
  BY <1>1 DEF Live
<1>6. arg[t] = NULL
  BY <1>1 DEF AtWait
<1>7. AtWait(t)' /\ AtBuild(t)' /\ AtMake(t)' /\ AtLock(t)'
  BY <1>1, <1>4, <1>6 DEF AtWait, AtBuild, AtMake, AtLock, Building, Making, Locking
<1>8. \A u \in Threads : u # t => (lock' = u <=> lock = u)
  BY <1>1
<1>9. QED
  <2>1. OthersKeep(t)
    BY <1>1, <1>3, <1>4, <1>5, <1>7, <1>8 DEF OthersKeep, AtMake
  <2>2. QED  BY <1>1, <1>3, <1>4, <1>5, <1>7, <1>8, <2>1, MoveKeeps

LEMMA GetCachedKeeps ==
  ASSUME BagAssumption, StoreInv, NEW t \in Threads, GetCached(t)
  PROVE  PlaceInv'
<1> USE BagAssumption DEF StoreInv, PlaceInv, StoreTypeOK, Steps, At
<1> DEFINE k == step[t].key
           found == /\ step' = [step EXCEPT ![t].at = "leave", ![t].folder = objectTable[k]]
                    /\ UNCHANGED lock
<1>1. step[t].at = "cached" /\ k \in Named /\ k \in Keys /\ lock = t /\ arg[t] \in {NULL, k}
      /\ UNCHANGED <<mailbox, sources, deleted>>
  BY DEF GetCached, AtLock, AtWait, Locking, Named
<1>2. ASSUME Unlock(t), UNCHANGED objectTable, \A o : Live(o)' <=> Live(o), arg'[t] = NULL,
             \A u \in Threads : u # t => arg'[u] = arg[u] /\ holds'[u] = holds[u]
      PROVE  PlaceInv'
  <2>1. step' = [step EXCEPT ![t] = Idle] /\ lock' = NULL
    BY <1>2 DEF Unlock, Return
  <2>2. StoreTypeOK'
    BY <1>1, <2>1 DEF Places, Idle
  <2>3. step'[t] = Idle /\ \A u \in Threads : u # t => step'[u] = step[u]
    BY <2>1
  <2>4. AtWait(t)' /\ AtBuild(t)' /\ AtMake(t)' /\ AtLock(t)'
    BY <1>2, <2>1, <2>3 DEF AtWait, AtBuild, AtMake, AtLock, Building, Making, Locking, Idle
  <2>5. \A u \in Threads : u # t => (lock' = u <=> lock = u)
    BY <1>1, <2>1
  <2>6. step'[t].folder = NULL
    BY <2>3 DEF Idle
  <2>7. QED
    <3>1. OthersKeep(t)
      BY <1>2, <2>2, <2>3, <2>4, <2>5, <2>6 DEF OthersKeep, AtMake
    <3>2. QED  BY <1>2, <2>2, <2>3, <2>4, <2>5, <2>6, <3>1, MoveKeeps
<1>3. ASSUME found, objectTable[k] # NULL, UNCHANGED objectTable, \A o : Live(o)' <=> Live(o),
             arg'[t] = NULL,
             \A u \in Threads : u # t => arg'[u] = arg[u] /\ holds'[u] = holds[u]
      PROVE  PlaceInv'
  <2>1. objectTable[k] \in Objects /\ Live(objectTable[k])
    BY <1>1, <1>3, BoundLive
  <2>2. StoreTypeOK'
    <3>1. step \in [Threads -> Steps] /\ "leave" \in Places
      BY DEF Places
    <3>2. [step[t] EXCEPT !.at = "leave", !.folder = objectTable[k]] \in Steps
      BY <2>1, <3>1, PassTyped
    <3>3. step' = [step EXCEPT ![t] = [step[t] EXCEPT !.at = "leave", !.folder = objectTable[k]]]
      BY <1>3
    <3>4. step' \in [Threads -> Steps]
      BY <3>1, <3>2, <3>3
    <3>5. QED  BY <1>1, <1>3, <3>4
  <2>3. step'[t].at = "leave" /\ step'[t].key = k /\ step'[t].folder = objectTable[k]
        /\ \A u \in Threads : u # t => step'[u] = step[u]
    BY <1>3
  <2>4. AtWait(t)' /\ AtBuild(t)' /\ AtMake(t)' /\ AtLock(t)'
    BY <1>1, <1>3, <2>1, <2>3 DEF AtWait, AtBuild, AtMake, AtLock, Building, Making, Locking
  <2>5. \A u \in Threads : u # t /\ step[u].at \in Making => step'[t].folder # step[u].folder
    BY <2>1, <2>3 DEF AtMake
  <2>6. QED
    <3>1. OthersKeep(t)
      BY <1>3, <2>2, <2>3, <2>4, <2>5 DEF OthersKeep, AtMake
    <3>2. QED  BY <1>3, <2>2, <2>3, <2>4, <2>5, <3>1, MoveKeeps
<1>4. CASE objectTable[k] = NULL /\ k \notin reserved /\ UNCHANGED vars /\ Unlock(t)
  <2>1. arg[t] = NULL
    BY <1>1, <1>4 DEF IInv, WaitIInv, WaitInv, WaitsOnReserved
  <2>2. QED  BY <1>2, <1>4, <2>1 DEF vars, Live
<1>5. CASE GetBetween(t, k) /\ Unlock(t)
  BY <1>1, <1>2, <1>5, GetBetweenEffect DEF Live
<1>6. CASE Find(t, k) /\ found
  <2>1. objectTable[k] # NULL /\ \A o : Live(o)' <=> Live(o)
    BY <1>1, <1>6, LookUpLives DEF Find
  <2>2. QED  BY <1>1, <1>3, <1>6, <2>1, FindEffect
<1>7. CASE GetWait(t, k) /\ UNCHANGED <<step, lock>>
  <2>1. arg'[t] = k /\ UNCHANGED <<objectTable, holds, ref>>
        /\ \A u \in Threads : u # t => arg'[u] = arg[u]
    BY <1>1, <1>7, WaitEffect DEF IInv, WaitIInv, TypeOK
  <2>2. StoreTypeOK' /\ \A o : Live(o)' <=> Live(o)
    BY <1>1, <1>7, <2>1 DEF Live
  <2>3. AtWait(t)' /\ AtBuild(t)' /\ AtMake(t)' /\ AtLock(t)'
    BY <1>1, <1>7, <2>1 DEF AtWait, AtBuild, AtMake, AtLock, Building, Making, Locking
  <2>4. QED
    <3>1. OthersKeep(t)
      BY <1>1, <1>7, <2>1, <2>2, <2>3 DEF OthersKeep, AtMake
    <3>2. QED  BY <1>1, <1>7, <2>1, <2>2, <2>3, <3>1, MoveKeeps
<1>8. CASE GetResume(t) /\ (IF objectTable[k] = NULL THEN Unlock(t) ELSE found)
  <2>1. /\ UNCHANGED <<objectTable, holds>> /\ arg'[t] = NULL
        /\ \A u \in Threads : u # t => arg'[u] = arg[u]
        /\ \A o : Live(o)' <=> Live(o)
    BY <1>8, LookUpLives, GetResumeEffect DEF IInv, WaitIInv, TypeOK
  <2>2. QED  BY <1>2, <1>3, <1>8, <2>1
<1>9. QED  BY <1>4, <1>5, <1>6, <1>7, <1>8 DEF GetCached

\* A deleted folder stays in the bag, under its name, until it is taken out.
LEMMA LeaveKeeps ==
  ASSUME BagAssumption, StoreInv, NEW t \in Threads, Leave(t) \/ MarkDeleted(t)
  PROVE  PlaceInv'
<1> USE BagAssumption DEF StoreInv, PlaceInv, StoreTypeOK, Steps, At, Go
<1>1. /\ UNCHANGED <<mailbox, lock, objectTable, holds, arg, ref>>
      /\ \/ step[t].at = "left" /\ step' = [step EXCEPT ![t].at = "delete"]
         \/ step[t].at = "delete" /\ step' = [step EXCEPT ![t].at = "remove"]
  BY DEF Leave, MarkDeleted, vars
<1>2. step[t].folder \in Objects /\ arg[t] = NULL
  BY <1>1 DEF AtLock, AtWait
<1>3. deleted' \subseteq Objects /\ sources' \in [Objects -> SUBSET Objects]
  BY <1>2 DEF Leave, MarkDeleted
<1>4. StoreTypeOK'
  BY <1>1, <1>3 DEF Places
<1>5. step'[t].at \in {"delete", "remove"} /\ step'[t].key = step[t].key
      /\ step'[t].folder = step[t].folder /\ \A u \in Threads : u # t => step'[u] = step[u]
  BY <1>1
<1>6. \A o : Live(o)' <=> Live(o)
  BY <1>1 DEF Live
<1>7. AtWait(t)' /\ AtBuild(t)' /\ AtMake(t)' /\ AtLock(t)'
  BY <1>1, <1>2, <1>5 DEF AtWait, AtBuild, AtMake, AtLock, Building, Making, Locking
<1>8. QED
  <2>1. OthersKeep(t)
    BY <1>1, <1>4, <1>5, <1>6, <1>7 DEF OthersKeep, AtMake
  <2>2. QED  BY <1>1, <1>4, <1>5, <1>6, <1>7, <2>1, MoveKeeps

\* Where the thread that has CAMEL_STORE_FOLDER_LOCK gives it back.
LEMMA UnlockKeeps ==
  ASSUME BagAssumption, StoreInv, NEW t \in Threads, lock = t, Unlock(t),
         UNCHANGED <<mailbox, sources, deleted, arg, holds, ref>>, arg[t] = NULL
  PROVE  PlaceInv'
<1> USE BagAssumption DEF StoreInv, PlaceInv, StoreTypeOK, Steps
<1>1. step' = [step EXCEPT ![t] = Idle] /\ lock' = NULL
  BY DEF Unlock, Return
<1>2. StoreTypeOK'
  BY <1>1 DEF Places, Idle
<1>3. step'[t] = Idle /\ \A u \in Threads : u # t => step'[u] = step[u]
  BY <1>1
<1>4. AtWait(t)' /\ AtBuild(t)' /\ AtMake(t)' /\ AtLock(t)'
  BY <1>1, <1>3 DEF AtWait, AtBuild, AtMake, AtLock, Building, Making, Locking, Idle
<1>5. \A o : Live(o)' <=> Live(o)
  BY DEF Live
<1>6. step'[t].folder = NULL
  BY <1>3 DEF Idle
<1>7. \A u \in Threads : u # t => step[u].at \notin Locking /\ lock # u /\ lock' # u
  BY <1>1 DEF AtLock
<1>8. QED
  <2>1. OthersKeep(t)
    BY <1>2, <1>3, <1>4, <1>5, <1>6, <1>7 DEF OthersKeep, AtMake, Locking
  <2>2. QED  BY <1>2, <1>3, <1>4, <1>5, <1>6, <1>7, <2>1, MoveKeeps

LEMMA RemoveCachedKeeps ==
  ASSUME BagAssumption, StoreInv, NEW t \in Threads, RemoveCached(t) \/ RekeyRenamed(t)
  PROVE  PlaceInv'
<1> USE DEF StoreInv, PlaceInv, At
<1>1. step[t].at \in {"remove", "rekey"} /\ Unlock(t) /\ UNCHANGED <<mailbox, sources, deleted>>
  BY DEF RemoveCached, RekeyRenamed
<1>2. UNCHANGED <<arg, holds, ref>>
  BY DEF RemoveCached, RekeyRenamed, Remove, Rekey, vars, objVars
<1>3. lock = t /\ arg[t] = NULL
  BY <1>1 DEF AtLock, AtWait, Locking
<1>4. QED  BY <1>1, <1>2, <1>3, UnlockKeeps

LEMMA RenameFolderKeeps ==
  ASSUME BagAssumption, StoreInv,
         NEW t \in Threads, NEW old \in Named, NEW new \in Named, RenameFolder(t, old, new)
  PROVE  PlaceInv'
<1> USE BagAssumption DEF StoreInv, PlaceInv, StoreTypeOK, Steps, At, Idle
<1>1. /\ step[t].at = "idle" /\ lock = NULL /\ lock' = t
      /\ mailbox' \subseteq Named
      /\ UNCHANGED <<sources, deleted>> /\ List(t)
  BY DEF RenameFolder, Lock
<1>2. step' = [step EXCEPT ![t] = [Idle EXCEPT !.at = "rekey", !.key = old, !.new = new,
                                              !.folder = objectTable[old]]]
  BY DEF RenameFolder
<1>3. old \in Keys /\ new \in Keys /\ objectTable[old] \in Objects \cup {NULL}
  BY DEF Named, IInv, WaitIInv, TypeOK
<1>4. step'[t] = [at |-> "rekey", key |-> old, new |-> new, folder |-> objectTable[old],
                  trash |-> NULL]
      /\ \A u \in Threads : u # t => step'[u] = step[u]
  BY <1>2
<1>5. step'[t] \in Steps
  BY <1>3, <1>4 DEF Places
<1>6. StoreTypeOK'
  BY <1>1, <1>2, <1>4, <1>5
<1>7. \A o : Live(o)' <=> Live(o)
  BY <1>1, LookUpLives
<1>8. arg[t] = NULL /\ UNCHANGED <<objectTable, arg, holds>>
  BY <1>1, ListEffect DEF AtWait
<1>9. AtWait(t)' /\ AtBuild(t)' /\ AtMake(t)' /\ AtLock(t)'
  BY <1>1, <1>4, <1>8 DEF AtWait, AtBuild, AtMake, AtLock, Building, Making, Locking
<1>10. \A u \in Threads : u # t => (lock' = u <=> lock = u)
  BY <1>1
<1>11. \A u \in Threads : u # t /\ step[u].at \in Making => step'[t].folder # step[u].folder
  <2>1. step'[t].folder = NULL \/ Live(step'[t].folder)
    BY <1>3, <1>4, BoundLive
  <2>2. QED  BY <2>1 DEF AtMake
<1>12. QED
  <2>1. OthersKeep(t)
    BY <1>1, <1>4, <1>6, <1>7, <1>8, <1>9, <1>10, <1>11 DEF OthersKeep, AtMake
  <2>2. QED  BY <1>1, <1>4, <1>6, <1>7, <1>8, <1>9, <1>10, <1>11, <2>1, MoveKeeps

-----------------------------------------------------------------------------
(* The invariant of the places, and what the bag promises, in a store.     *)

LEMMA PlaceStep ==
  ASSUME BagAssumption, StoreAssumption, StoreInv, [StoreNext]_allVars
  PROVE  PlaceInv'
<1>1. CASE UNCHANGED allVars
  BY <1>1 DEF allVars, vars, storeVars, StoreInv, PlaceInv, StoreTypeOK,
              AtWait, AtBuild, AtMake, AtLock, Live
<1>2. ASSUME NEW t \in Threads, Call(t)  PROVE PlaceInv'
  BY <1>2, GetFolderKeeps, CreateFolderKeeps, DeleteFolderKeeps, RenameFolderKeeps DEF Call
<1>3. ASSUME NEW t \in Threads, Inside(t)  PROVE PlaceInv'
  <2>1. CASE LookUpTrash(t, "look", "add", "join") \/ LookUpTrash(t, "leave", "delete", "left")
    BY <2>1, LookUpTrashKeeps
  <2>2. QED
    BY <1>3, <2>1, ResumeReserveKeeps, WaitsAgainKeeps, OpenKeeps, ListFoldersKeeps, JoinKeeps,
       AddOrAbortKeeps, GetCachedKeeps, LeaveKeeps, RemoveCachedKeeps DEF Inside
<1>4. QED  BY <1>1, <1>2, <1>3 DEF StoreNext

LEMMA StoreInvariant ==
  ASSUME ~RenameOntoOpen
  PROVE  StoreSpec => []StoreInv
<1>1. StoreInit => StoreInv
  <2> SUFFICES ASSUME StoreInit PROVE StoreInv
    OBVIOUS
  <2>1. IInv
    BY BagAssumption, InitIInv DEF StoreInit
  <2>2. StoreTypeOK
    BY DEF StoreInit, StoreTypeOK, Steps, Places, Idle
  <2>3. ASSUME NEW t \in Threads  PROVE AtWait(t) /\ AtBuild(t) /\ AtMake(t) /\ AtLock(t)
    BY BagAssumption DEF StoreInit, Init, Idle, AtWait, AtBuild, AtMake, AtLock, Building, Making,
                         Locking
  <2>4. QED  BY <2>1, <2>2, <2>3 DEF StoreInv, PlaceInv
<1>2. StoreInv /\ [StoreNext]_allVars => StoreInv'
  <2> SUFFICES ASSUME StoreInv, [StoreNext]_allVars PROVE StoreInv'
    OBVIOUS
  <2>1. [Next]_vars
    BY StoreAssumption, StepIsBagStep DEF StoreInv, IInv, WaitIInv
  <2>2. IInv'
    BY BagAssumption, <2>1, IInvStep DEF StoreInv
  <2>3. PlaceInv'
    BY BagAssumption, StoreAssumption, PlaceStep
  <2>4. QED  BY <2>2, <2>3 DEF StoreInv
<1>3. QED  BY <1>1, <1>2, PTL DEF StoreSpec

\* A store behaves, as far as its bag is concerned, as CamelObjectBag says: its
\* threads pass the bag what it may be passed.  So all theorems about the bag
\* are theorems about the folders of a store.
THEOREM StoreUsesBag ==
  ASSUME ~RenameOntoOpen
  PROVE  StoreSpec => Spec
<1>1. StoreInit => Init
  BY DEF StoreInit
<1>2. StoreInv /\ [StoreNext]_allVars => [Next]_vars
  BY StoreAssumption, StepIsBagStep DEF StoreInv, IInv, WaitIInv
<1>3. QED  BY <1>1, <1>2, StoreInvariant, PTL DEF StoreSpec, Spec

\* Above all that its folders are a keyed cache: lookups, creations, renames and
\* deletions by any number of threads leave a name one folder, made by one thread.
THEOREM StoreIsCache ==
  ASSUME ~RenameOntoOpen
  PROVE  StoreSpec => CacheSpec
<1>1. StoreSpec => Spec
  BY StoreUsesBag
<1>2. Spec => CacheSpec
  BY BagIsCache
<1>3. QED  BY <1>1, <1>2

-----------------------------------------------------------------------------
(* Cached folders and mailboxes.                                           *)

\* The names of a rename are nobody else's, and the new one is free.
RenamesAlone(t) ==
  step[t].at = "rekey" =>
    /\ objectTable[step[t].key] = step[t].folder /\ objectTable[step[t].new] = NULL
    /\ step[t].key \notin reserved /\ step[t].new \notin reserved
    /\ step[t].new \in mailbox

\* A folder that is about to be added has a mailbox, or the thread that has
\* deleted it is still looking for the folder, and waits for it.
MadeHasMailbox(t) ==
  step[t].at \in {"look", "join", "add"} /\ step[t].key # Trash =>
    \/ step[t].key \in mailbox
    \/ \E u \in Threads : lock = u /\ step[u].key = step[t].key /\ step[u].at = "cached"

MailboxInv ==
  /\ CachedHasMailbox
  /\ \A t \in Threads : RenamesAlone(t) /\ MadeHasMailbox(t)

\* A key that some thread waits for, or is told to build, is not one that a
\* lookup finds free.
LEMMA BuildersOwn ==
  ASSUME StoreInv, NEW u \in Threads, step[u].at \in Building
  PROVE  /\ step[u].key \in Keys /\ owner[step[u].key] = u /\ objectTable[step[u].key] = NULL
         /\ step[u].key \in reserved
BY BagAssumption
   DEF StoreInv, PlaceInv, AtBuild, IInv, WaitIInv, TypeOK, HoldsIsOwner, OwnedIsEmpty

\* A step of a thread that leaves the tables, the mailboxes and the lock alone.
LEMMA QuietMailboxes ==
  ASSUME MailboxInv, NEW t \in Threads,
         UNCHANGED <<objectTable, mailbox, lock>>,
         \A u \in Threads : u # t => step'[u] = step[u],
         reserved' \subseteq reserved,
         step'[t].at \in {"look", "join", "add"} /\ step'[t].key # Trash =>
           MadeHasMailbox(t)' \/ (step[t].at \in {"look", "join", "add"} /\ step'[t].key = step[t].key),
         lock = t => step'[t].key = step[t].key,
         step[t].at = "cached" => step'[t].at = "cached" \/ objectTable[step[t].key] # NULL,
         \A u \in Threads : step[u].at \in {"look", "join", "add"} => objectTable[step[u].key] = NULL,
         step'[t].at = "rekey" => step'[t] = step[t]
  PROVE  MailboxInv'
<1>1. ASSUME NEW k \in Named, objectTable[k] # NULL, k \notin mailbox
      PROVE  \E u \in Threads : step'[u].key = k /\ lock = u
  BY <1>1 DEF MailboxInv, CachedHasMailbox
<1>2. CachedHasMailbox'
  BY <1>1 DEF CachedHasMailbox
<1>3. ASSUME NEW u \in Threads  PROVE RenamesAlone(u)'
  BY <1>3 DEF MailboxInv, RenamesAlone
<1>4. ASSUME NEW u \in Threads, step'[u].at \in {"look", "join", "add"}, step'[u].key # Trash
      PROVE  MadeHasMailbox(u)'
  <2>1. CASE MadeHasMailbox(t)' /\ u = t
    BY <2>1
  <2>2. CASE step[u].at \in {"look", "join", "add"} /\ step'[u].key = step[u].key
    <3>1. CASE step[u].key \in mailbox
      BY <2>2, <3>1 DEF MadeHasMailbox
    <3>2. CASE step[u].key \notin mailbox
      <4>1. PICK v \in Threads : lock = v /\ step[v].key = step[u].key /\ step[v].at = "cached"
        BY <1>4, <2>2, <3>2 DEF MailboxInv, MadeHasMailbox
      <4>2. objectTable[step[v].key] = NULL
        BY <2>2, <4>1
      <4>3. step'[v].key = step[v].key /\ step'[v].at = "cached"
        BY <4>1, <4>2
      <4>4. QED  BY <2>2, <4>1, <4>3 DEF MadeHasMailbox
    <3>3. QED  BY <3>1, <3>2
  <2>3. QED  BY <1>4, <2>1, <2>2
<1>5. QED  BY <1>2, <1>3, <1>4 DEF MailboxInv, MadeHasMailbox

\* The steps that find, wait, look up the Trash and join it.
LEMMA OpeningKeepsMailboxes ==
  ASSUME BagAssumption, StoreAssumption, "rename" \notin Races, StoreInv, MailboxInv, NEW t \in Threads,
         \/ \E k \in Keys : GetFolder(t, k)
         \/ ResumeReserve(t) \/ WaitsAgain(t) \/ Open(t) \/ ListFolders(t) \/ FillTrash(t) \/ Join(t)
         \/ LookUpTrash(t, "look", "add", "join") \/ LookUpTrash(t, "leave", "delete", "left")
         \/ Leave(t) \/ MarkDeleted(t)
  PROVE  MailboxInv'
<1> USE BagAssumption DEF StoreInv, PlaceInv, StoreTypeOK, Steps, At, Go, Return, Begin, Idle
<1>1. \A u \in Threads : step[u].at \in {"look", "join", "add"} => objectTable[step[u].key] = NULL
  BY BuildersOwn DEF Building
<1>2. lock = t => step[t].at \in Locking
  BY DEF AtLock
<1>3. ASSUME NEW k \in Keys, GetFolder(t, k)  PROVE MailboxInv'
  <2>1. CASE Find(t, k) /\ UNCHANGED step
    BY <1>1, <1>3, <2>1, FindEffect, QuietMailboxes DEF GetFolder
  <2>2. CASE (ReserveNew(t, k) \/ ReserveBetween(t, k)) /\ Begin(t, "open", k)
    <3>1. \A u \in Threads : step[u].at = "rekey" => k # step[u].key /\ k # step[u].new
      BY <1>3 DEF GetFolder, Asks, Renaming
    <3>2. reserved' \subseteq reserved \cup {k} /\ UNCHANGED objectTable
      BY <2>2, ReserveEffect
    <3>3. UNCHANGED <<mailbox, lock>> /\ step[t].at = "idle" /\ step'[t].at = "open"
          /\ \A u \in Threads : u # t => step'[u] = step[u]
      BY <1>3, <2>2 DEF GetFolder
    <3>4. lock # t
      BY <1>2, <3>3 DEF Locking
    <3>5. CachedHasMailbox'
      BY <3>2, <3>3, <3>4 DEF MailboxInv, CachedHasMailbox
    <3>6. \A u \in Threads : RenamesAlone(u)'
      BY <3>1, <3>2, <3>3 DEF MailboxInv, RenamesAlone
    <3>7. \A u \in Threads : MadeHasMailbox(u)'
      BY <3>2, <3>3, <3>4 DEF MailboxInv, MadeHasMailbox
    <3>8. QED  BY <3>5, <3>6, <3>7 DEF MailboxInv
  <2>3. CASE ReserveWait(t, k) /\ Begin(t, "reserve", k)
    <3>1. UNCHANGED <<mailbox, lock, objectTable, reserved>> /\ step[t].at = "idle"
          /\ step'[t].at = "reserve" /\ \A u \in Threads : u # t => step'[u] = step[u]
      BY <1>3, <2>3, WaitEffect DEF GetFolder
    <3>2. lock # t
      BY <1>2, <3>1 DEF Locking
    <3>3. QED  BY <1>1, <3>1, <3>2, QuietMailboxes
  <2>4. QED  BY <1>3, <2>1, <2>2, <2>3 DEF GetFolder
<1>4. CASE ResumeReserve(t)
  <2>1. UNCHANGED <<mailbox, lock, objectTable>> /\ step[t].at = "reserve"
        /\ reserved' \subseteq reserved /\ step'[t].at \in {"open", "idle"}
        /\ \A u \in Threads : u # t => step'[u] = step[u]
    BY <1>4, ReserveResumeEffect DEF ResumeReserve
  <2>2. lock # t
    BY <1>2, <2>1 DEF Locking
  <2>3. QED  BY <1>1, <2>1, <2>2, QuietMailboxes
<1>5. CASE WaitsAgain(t)
  BY <1>1, <1>5, WaitAgainEffect, QuietMailboxes DEF WaitsAgain, storeVars
<1>6. CASE Open(t)
  <2>1. UNCHANGED <<mailbox, lock, objectTable, reserved>> /\ step[t].at = "open"
        /\ step'[t].at \in {"abort", "look"} /\ step'[t].key = step[t].key
        /\ (step'[t].at = "look" => step[t].key \in mailbox)
        /\ \A u \in Threads : u # t => step'[u] = step[u]
    BY <1>6 DEF Open, vars
  <2>2. lock # t
    BY <1>2, <2>1 DEF Locking
  <2>3. step'[t].at \in {"look", "join", "add"} => MadeHasMailbox(t)'
    BY <2>1 DEF MadeHasMailbox
  <2>4. QED  BY <1>1, <2>1, <2>2, <2>3, QuietMailboxes
<1>7. CASE ListFolders(t) \/ FillTrash(t)
  <2>1. UNCHANGED <<mailbox, lock, objectTable, reserved>> /\ step[t].at \in {"open", "fill"}
        /\ step[t].key = Trash
        /\ step'[t].at \in {"fill", "add"} /\ step'[t].key = step[t].key
        /\ \A u \in Threads : u # t => step'[u] = step[u]
    BY <1>7, ListEffect DEF ListFolders, FillTrash, vars, AtBuild
  <2>2. lock # t
    BY <1>2, <2>1 DEF Locking
  <2>3. QED  BY <1>1, <2>1, <2>2, QuietMailboxes
<1>8. CASE Join(t) \/ Leave(t) \/ MarkDeleted(t)
  <2>1. UNCHANGED <<mailbox, lock, objectTable, reserved>> /\ step'[t].key = step[t].key
        /\ \/ step[t].at = "join" /\ step'[t].at = "add"
           \/ step[t].at \in {"left", "delete"} /\ step'[t].at \in {"delete", "remove"}
        /\ \A u \in Threads : u # t => step'[u] = step[u]
    BY <1>8 DEF Join, Leave, MarkDeleted, vars
  <2>2. QED  BY <1>1, <2>1, QuietMailboxes
<1>9. CASE LookUpTrash(t, "look", "add", "join") \/ LookUpTrash(t, "leave", "delete", "left")
  <2>1. UNCHANGED <<mailbox, lock>> /\ step'[t].key = step[t].key
        /\ \/ step[t].at = "look" /\ step'[t].at \in {"add", "join", "look"}
           \/ step[t].at = "leave" /\ step'[t].at \in {"delete", "left", "leave"}
        /\ \A u \in Threads : u # t => step'[u] = step[u]
    BY <1>9 DEF LookUpTrash
  <2>2. UNCHANGED objectTable /\ reserved' \subseteq reserved
    BY <1>9, StoreAssumption, GetBetweenEffect, FindEffect, WaitEffect, GetResumeEffect
       DEF LookUpTrash, vars
  <2>3. QED  BY <1>1, <2>1, <2>2, QuietMailboxes
<1>10. QED  BY <1>3, <1>4, <1>5, <1>6, <1>7, <1>8, <1>9

\* Whoever goes on to add a folder does so for a name that is reserved; while
\* nobody deletes or renames, every such folder has a mailbox.
LEMMA UnlockedHaveMailboxes ==
  ASSUME BagAssumption, StoreInv, MailboxInv, lock = NULL
  PROVE  /\ \A k \in Named : objectTable[k] # NULL => k \in mailbox
         /\ \A u \in Threads : step[u].at \in {"look", "join", "add"} /\ step[u].key # Trash =>
                                 step[u].key \in mailbox
         /\ \A u \in Threads : step[u].at # "rekey"
BY DEF BagAssumption, MailboxInv, CachedHasMailbox, MadeHasMailbox, StoreInv, PlaceInv, AtLock, Locking

LEMMA AddOrAbortKeepsMailboxes ==
  ASSUME BagAssumption, StoreInv, MailboxInv, NEW t \in Threads, AddOrAbort(t)
  PROVE  MailboxInv'
<1> USE BagAssumption DEF StoreInv, PlaceInv, StoreTypeOK, Steps, At, Go, Return, Idle
<1>1. step[t].at \in {"add", "abort"} /\ UNCHANGED <<mailbox, lock>> /\ step'[t] = Idle
      /\ \A u \in Threads : u # t => step'[u] = step[u]
  BY DEF AddOrAbort
<1>2. step[t].key \in Keys /\ step[t].key \in reserved
  BY <1>1, BuildersOwn DEF Building
<1>3. /\ reserved' \subseteq reserved
      /\ \A k \in Keys : k # step[t].key => objectTable'[k] = objectTable[k]
      /\ step[t].at = "abort" => objectTable' = objectTable
  <2>1. objectTable \in [Keys -> Objects \cup {NULL}]
    BY DEF IInv, WaitIInv, TypeOK
  <2>2. CASE step[t].at = "add" /\ Add(t, step[t].key, step[t].folder)
    <3>1. step[t].folder \in Objects
      BY <2>2 DEF AtMake, Making
    <3>2. QED  BY <1>2, <2>1, <2>2, <3>1, AddEffect
  <2>3. CASE step[t].at = "abort" /\ Abort(t, step[t].key)
    BY <1>2, <2>3, AbortEffect
  <2>4. QED  BY <1>1, <2>2, <2>3 DEF AddOrAbort
<1>4. lock # t
  BY <1>1 DEF AtLock, Locking
<1>5. CachedHasMailbox'
  <2>1. SUFFICES ASSUME NEW k \in Named, objectTable'[k] # NULL, k \notin mailbox
                 PROVE  \E u \in Threads : step'[u].key = k /\ lock = u
    BY <1>1 DEF CachedHasMailbox
  <2>2. \E u \in Threads : step[u].key = k /\ lock = u
    <3>1. CASE k = step[t].key /\ step[t].at = "add"
      BY <2>1, <3>1 DEF MailboxInv, MadeHasMailbox, Named
    <3>2. CASE objectTable'[k] = objectTable[k]
      BY <2>1, <3>2 DEF MailboxInv, CachedHasMailbox
    <3>3. QED  BY <1>1, <1>3, <3>1, <3>2 DEF Named
  <2>3. QED  BY <1>1, <1>4, <2>2
<1>6. ASSUME NEW u \in Threads  PROVE RenamesAlone(u)'
  <2>1. SUFFICES ASSUME step'[u].at = "rekey"  PROVE RenamesAlone(u)'
    BY DEF RenamesAlone
  <2>2. u # t /\ step'[u] = step[u] /\ step[u].key \in Named /\ step[u].new \in Named
    BY <1>1, <2>1 DEF AtLock, Locking
  <2>3. step[u].key # step[t].key /\ step[u].new # step[t].key
    BY <1>2, <2>1, <2>2 DEF MailboxInv, RenamesAlone
  <2>4. QED  BY <1>1, <1>3, <2>1, <2>2, <2>3 DEF MailboxInv, RenamesAlone, Named
<1>7. ASSUME NEW u \in Threads  PROVE MadeHasMailbox(u)'
  BY <1>1, <1>4 DEF MailboxInv, MadeHasMailbox
<1>8. QED  BY <1>5, <1>6, <1>7 DEF MailboxInv

LEMMA CreateFolderKeepsMailboxes ==
  ASSUME BagAssumption, MailboxInv, NEW t \in Threads, NEW k \in Keys, CreateFolder(t, k)
  PROVE  MailboxInv'
<1>1. UNCHANGED <<objectTable, reserved, step, lock>> /\ mailbox \subseteq mailbox'
  BY DEF CreateFolder, vars, bagVars
<1>2. CachedHasMailbox'
  BY <1>1 DEF MailboxInv, CachedHasMailbox
<1>3. \A u \in Threads : RenamesAlone(u)' /\ MadeHasMailbox(u)'
  BY <1>1 DEF MailboxInv, RenamesAlone, MadeHasMailbox
<1>4. QED  BY <1>2, <1>3 DEF MailboxInv

LEMMA DeleteFolderKeepsMailboxes ==
  ASSUME BagAssumption, StoreInv, MailboxInv, NEW t \in Threads, NEW k \in Keys, DeleteFolder(t, k)
  PROVE  MailboxInv'
<1> USE BagAssumption DEF StoreInv, PlaceInv, StoreTypeOK, Steps, Begin, Idle
<1>1. lock = NULL /\ lock' = t /\ UNCHANGED <<objectTable, reserved>>
      /\ mailbox' = mailbox \ {k} /\ step'[t].at = "cached" /\ step'[t].key = k
      /\ \A u \in Threads : u # t => step'[u] = step[u]
  BY DEF DeleteFolder, Lock, vars, bagVars
<1>2. /\ \A j \in Named : objectTable[j] # NULL => j \in mailbox
      /\ \A u \in Threads : step[u].at \in {"look", "join", "add"} /\ step[u].key # Trash =>
                              step[u].key \in mailbox
      /\ \A u \in Threads : step[u].at # "rekey"
  BY <1>1, UnlockedHaveMailboxes
<1>3. CachedHasMailbox'
  BY <1>1, <1>2 DEF CachedHasMailbox
<1>4. \A u \in Threads : RenamesAlone(u)'
  BY <1>1, <1>2 DEF RenamesAlone
<1>5. \A u \in Threads : MadeHasMailbox(u)'
  BY <1>1, <1>2 DEF MadeHasMailbox
<1>6. QED  BY <1>3, <1>4, <1>5 DEF MailboxInv

LEMMA RenameFolderKeepsMailboxes ==
  ASSUME BagAssumption, "rename" \notin Races, StoreInv, MailboxInv,
         NEW t \in Threads, NEW old \in Named, NEW new \in Named, RenameFolder(t, old, new)
  PROVE  MailboxInv'
<1> USE BagAssumption DEF StoreInv, PlaceInv, StoreTypeOK, Steps, Idle
<1>1. lock = NULL /\ lock' = t /\ mailbox' = (mailbox \ {old}) \cup {new} /\ new \notin mailbox
      /\ old \notin reserved /\ new \notin reserved /\ List(t) /\ old \in mailbox
  BY DEF RenameFolder, Lock
<1>2. step'[t].at = "rekey" /\ step'[t].key = old /\ step'[t].new = new
      /\ step'[t].folder = objectTable[old] /\ \A u \in Threads : u # t => step'[u] = step[u]
  BY DEF RenameFolder
<1>3. UNCHANGED <<objectTable, reserved>>
  BY <1>1, ListEffect
<1>4. /\ \A j \in Named : objectTable[j] # NULL => j \in mailbox
      /\ \A u \in Threads : step[u].at \in {"look", "join", "add"} /\ step[u].key # Trash =>
                              step[u].key \in mailbox
      /\ \A u \in Threads : step[u].at # "rekey"
  BY <1>1, UnlockedHaveMailboxes
<1>5. CachedHasMailbox'
  BY <1>1, <1>2, <1>3, <1>4 DEF CachedHasMailbox
<1>6. \A u \in Threads : RenamesAlone(u)'
  BY <1>1, <1>2, <1>3, <1>4 DEF RenamesAlone
<1>7. ASSUME NEW u \in Threads, step[u].at \in {"look", "join", "add"}
      PROVE  step[u].key # old
  BY <1>1, <1>7, BuildersOwn DEF Building
<1>8. \A u \in Threads : MadeHasMailbox(u)'
  BY <1>1, <1>2, <1>4, <1>7 DEF MadeHasMailbox
<1>9. QED  BY <1>5, <1>6, <1>8 DEF MailboxInv

\* Where CAMEL_STORE_FOLDER_LOCK is given back, no folder of the old name is in
\* the bag any more, and none is about to be added.
LEMMA UnlockKeepsMailboxes ==
  ASSUME BagAssumption, StoreInv, MailboxInv, NEW t \in Threads, lock = t, Unlock(t),
         UNCHANGED mailbox, step[t].at \in Locking,
         \A k \in Named : objectTable'[k] # NULL =>
           k \in mailbox \/ (k # step[t].key /\ objectTable[k] # NULL),
         \A u \in Threads : step[u].at \in {"look", "join", "add"} /\ step[t].at = "cached" =>
           step[u].key # step[t].key
  PROVE  MailboxInv'
<1> USE BagAssumption DEF StoreInv, PlaceInv, StoreTypeOK, Steps, Idle
<1>1. step'[t] = Idle /\ \A u \in Threads : u # t => step'[u] = step[u]
  BY DEF Unlock, Return
<1>2. CachedHasMailbox'
  BY DEF MailboxInv, CachedHasMailbox
<1>3. \A u \in Threads : RenamesAlone(u)'
  BY <1>1 DEF AtLock, Locking, RenamesAlone
<1>4. ASSUME NEW u \in Threads, step'[u].at \in {"look", "join", "add"}, step'[u].key # Trash
      PROVE  step'[u].key \in mailbox
  BY <1>1, <1>4 DEF MailboxInv, MadeHasMailbox
<1>5. \A u \in Threads : MadeHasMailbox(u)'
  BY <1>4 DEF MadeHasMailbox
<1>6. QED  BY <1>2, <1>3, <1>5 DEF MailboxInv

LEMMA GetCachedKeepsMailboxes ==
  ASSUME BagAssumption, StoreInv, MailboxInv, NEW t \in Threads, GetCached(t)
  PROVE  MailboxInv'
<1> USE BagAssumption DEF StoreInv, PlaceInv, StoreTypeOK, Steps, At
<1>1. step[t].at = "cached" /\ UNCHANGED mailbox /\ lock = t /\ step[t].key \in Named
      /\ step[t].key \in Keys
  BY DEF GetCached, AtLock, Locking, Named
<1>2. \A u \in Threads : step[u].at \in {"look", "join", "add"} =>
        /\ objectTable[step[u].key] = NULL /\ step[u].key \in reserved
        /\ owner[step[u].key] = u
  BY BuildersOwn DEF Building
<1>3. ASSUME Unlock(t), UNCHANGED objectTable, objectTable[step[t].key] = NULL,
             step[t].key \notin reserved \/ owner[step[t].key] = NULL
      PROVE  MailboxInv'
  <2>1. \A u \in Threads : step[u].at \in {"look", "join", "add"} => step[u].key # step[t].key
    BY <1>2, <1>3
  <2>2. QED  BY <1>1, <1>3, <2>1, UnlockKeepsMailboxes DEF Locking
<1>4. ASSUME UNCHANGED <<objectTable, lock>>, reserved' \subseteq reserved,
             \/ step' = step
             \/ /\ objectTable[step[t].key] # NULL
                /\ step' = [step EXCEPT ![t].at = "leave", ![t].folder = objectTable[step[t].key]]
      PROVE  MailboxInv'
  <2>1. step'[t].key = step[t].key /\ step'[t].at \in {"cached", "leave"}
        /\ \A u \in Threads : u # t => step'[u] = step[u]
    BY <1>1, <1>4
  <2>2. QED  BY <1>1, <1>2, <1>4, <2>1, QuietMailboxes
<1>5. CASE objectTable[step[t].key] = NULL /\ step[t].key \notin reserved /\ UNCHANGED vars /\ Unlock(t)
  BY <1>3, <1>5 DEF vars, bagVars
<1>6. CASE GetBetween(t, step[t].key) /\ Unlock(t)
  BY <1>1, <1>3, <1>6, GetBetweenEffect
<1>7. CASE Find(t, step[t].key)
           /\ step' = [step EXCEPT ![t].at = "leave", ![t].folder = objectTable[step[t].key]]
           /\ UNCHANGED lock
  BY <1>1, <1>4, <1>7, FindEffect
<1>8. CASE GetWait(t, step[t].key) /\ UNCHANGED <<step, lock>>
  BY <1>1, <1>4, <1>8, WaitEffect
<1>9. CASE GetResume(t)
  <2>1. UNCHANGED objectTable /\ owner[step[t].key] = NULL /\ reserved' \subseteq reserved
    BY <1>1, <1>9, GetResumeEffect DEF AtWait
  <2>2. CASE objectTable[step[t].key] = NULL /\ Unlock(t)
    BY <1>3, <2>1, <2>2
  <2>3. CASE /\ objectTable[step[t].key] # NULL /\ UNCHANGED lock
             /\ step' = [step EXCEPT ![t].at = "leave", ![t].folder = objectTable[step[t].key]]
    BY <1>4, <2>1, <2>3
  <2>4. QED  BY <1>1, <1>9, <2>2, <2>3 DEF GetCached, Find, GetBetween, GetWait, GetResume, MayBlockOn
<1>10. QED  BY <1>5, <1>6, <1>7, <1>8, <1>9 DEF GetCached

LEMMA RemoveCachedKeepsMailboxes ==
  ASSUME BagAssumption, ~RenameOntoOpen, StoreInv, MailboxInv, NEW t \in Threads,
         RemoveCached(t) \/ RekeyRenamed(t)
  PROVE  MailboxInv'
<1> USE BagAssumption DEF StoreInv, PlaceInv, StoreTypeOK, Steps, At
<1>1. step[t].at \in {"remove", "rekey"} /\ Unlock(t) /\ UNCHANGED mailbox
  BY DEF RemoveCached, RekeyRenamed
<1>2. lock = t /\ step[t].at \in Locking /\ step[t].key \in Named /\ step[t].key \in Keys
  BY <1>1 DEF AtLock, Locking, Named
<1>3. objectTable \in [Keys -> Objects \cup {NULL}]
  BY DEF IInv, WaitIInv, TypeOK
<1>4. \A k \in Named : objectTable'[k] # NULL =>
        k \in mailbox \/ (k # step[t].key /\ objectTable[k] # NULL)
  <2>1. CASE RemoveCached(t)
    <3>1. step[t].folder \in Objects /\ objectTable[step[t].key] = step[t].folder
          /\ Remove(t, step[t].folder)
      BY <2>1 DEF RemoveCached, AtLock
    <3>2. objectTable' = [objectTable EXCEPT ![step[t].key] = NULL]
      BY <1>2, <3>1, RemoveEffect
    <3>3. QED  BY <1>2, <1>3, <3>2 DEF Named
  <2>2. CASE RekeyRenamed(t) /\ step[t].folder = NULL
    <3>1. objectTable[step[t].key] = NULL /\ UNCHANGED objectTable
      BY <2>2 DEF RekeyRenamed, MailboxInv, RenamesAlone, vars, bagVars
    <3>2. QED  BY <3>1
  <2>3. CASE RekeyRenamed(t) /\ step[t].folder # NULL
    <3>1. /\ Rekey(t, step[t].folder, step[t].new) /\ step[t].folder \in Objects
          /\ step[t].new \in Keys /\ step[t].new \in mailbox
          /\ objectTable[step[t].key] = step[t].folder
      BY <2>3 DEF RekeyRenamed, MailboxInv, RenamesAlone, AtLock, Named
    <3>2. PICK j \in Keys :
            /\ objectTable[j] = step[t].folder
            /\ objectTable' = [[objectTable EXCEPT ![j] = NULL] EXCEPT ![step[t].new] = step[t].folder]
      BY <3>1, RekeyEffect
    <3>3. j = step[t].key
      BY <1>2, <3>1, <3>2 DEF IInv, ObjectInv, TablesInverse
    <3>4. QED  BY <1>2, <1>3, <3>1, <3>2, <3>3 DEF Named
  <2>4. QED  BY <2>1, <2>2, <2>3
<1>5. step[t].at # "cached"
  BY <1>1
<1>6. QED  BY <1>1, <1>2, <1>4, <1>5, UnlockKeepsMailboxes

LEMMA MailboxStep ==
  ASSUME BagAssumption, StoreAssumption, ~RenameOntoOpen, "rename" \notin Races,
         StoreInv, MailboxInv, [StoreNext]_allVars
  PROVE  MailboxInv'
<1>1. CASE UNCHANGED allVars
  <2>1. UNCHANGED <<objectTable, reserved, step, mailbox, lock>>
    BY <1>1 DEF allVars, vars, bagVars, storeVars
  <2>2. QED  BY <2>1 DEF MailboxInv, CachedHasMailbox, RenamesAlone, MadeHasMailbox
<1>2. ASSUME NEW t \in Threads, Call(t)  PROVE MailboxInv'
  BY <1>2, OpeningKeepsMailboxes, CreateFolderKeepsMailboxes, DeleteFolderKeepsMailboxes,
     RenameFolderKeepsMailboxes DEF Call
<1>3. ASSUME NEW t \in Threads, Inside(t)  PROVE MailboxInv'
  BY <1>3, OpeningKeepsMailboxes, AddOrAbortKeepsMailboxes, GetCachedKeepsMailboxes,
     RemoveCachedKeepsMailboxes DEF Inside
<1>4. QED  BY <1>1, <1>2, <1>3 DEF StoreNext

LEMMA MailboxInvariant ==
  ASSUME ~RenameOntoOpen, "rename" \notin Races
  PROVE  StoreSpec => []MailboxInv
<1>1. StoreInit => MailboxInv
  BY BagAssumption DEF StoreInit, Init, Idle, MailboxInv, CachedHasMailbox, RenamesAlone,
                       MadeHasMailbox, Named
<1>2. ~RenameOntoOpen /\ "rename" \notin Races
  OBVIOUS
<1>3. StoreInv /\ MailboxInv /\ [StoreNext]_allVars => MailboxInv'
  BY <1>2, BagAssumption, StoreAssumption, MailboxStep
<1>4. StoreSpec => []StoreInv
  BY <1>2, StoreInvariant
<1>5. QED  BY <1>1, <1>3, <1>4, PTL DEF StoreSpec

\* A cached folder has a mailbox of its name, but for the time in which the
\* thread that deletes or renames it is at work: whoever opens a folder of that
\* name meanwhile is waited for or finds no mailbox.  This is as long as the
\* names of a rename are not opened between camel_store_rename_folder's look at
\* the bag and its camel_object_bag_rekey.
THEOREM CachedFoldersExist ==
  ASSUME ~RenameOntoOpen, "rename" \notin Races
  PROVE  StoreSpec => []CachedHasMailbox
<1>1. MailboxInv => CachedHasMailbox
  BY DEF MailboxInv
<1>2. StoreSpec => []MailboxInv
  BY MailboxInvariant
<1>3. QED  BY <1>1, <1>2, PTL

-----------------------------------------------------------------------------
(* What an open Trash is made of.                                          *)

\* Every open folder that is not about to leave, and no deleted one.
Complete(v) ==
  /\ \A k \in Named : objectTable[k] \in sources[v] \cup {NULL} \/ Leaving(objectTable[k])
  /\ sources[v] \cap deleted = {}

\* The Trash a thread has found is the open one.
TrashFound(t) ==
  /\ step[t].trash # NULL => step[t].trash = objectTable[Trash]
  /\ step[t].at \in {"join", "left"} => step[t].trash # NULL
  /\ step[t].at \in {"reserve", "open", "look"} => step[t].trash = NULL

\* A Trash that is about to be added is complete ...
MakesTrash(t) == step[t].at = "fill" \/ (step[t].at = "add" /\ step[t].key = Trash)
TrashMade(t) == MakesTrash(t) => Complete(step[t].folder)

\* ... and a folder that is about to be added is in the Trash, or there is none
\* and none is being made.
TrashJoined(t) ==
  step[t].at = "add" /\ step[t].key # Trash =>
    \/ step[t].trash # NULL /\ step[t].folder \in sources[step[t].trash]
    \/ objectTable[Trash] = NULL /\ \A u \in Threads : ~MakesTrash(u)

\* A folder with CAMEL_FOLDER_HAS_BEEN_DELETED lives on, but is in the bag only
\* until the thread that has deleted it takes it out.
DeletedLeaves ==
  \A o \in deleted :
    /\ Live(o)
    /\ \A k \in Keys : objectTable[k] = o =>
         \E t \in Threads : step[t].at = "remove" /\ step[t].folder = o

\* The folder a rename is about stays where it was found.
RenamedStays(t) ==
  step[t].at = "rekey" /\ step[t].folder # NULL => objectTable[step[t].key] = step[t].folder

TrashInv ==
  /\ TrashComplete
  /\ DeletedLeaves
  /\ \A t \in Threads : TrashFound(t) /\ TrashMade(t) /\ TrashJoined(t) /\ RenamedStays(t)

\* A thread that does not take a folder out of the bag keeps it leaving.
LEMMA LeavingKept ==
  ASSUME NEW t \in Threads, \A u \in Threads : u # t => step'[u] = step[u],
         step[t].at \in {"leave", "left", "delete", "remove"} =>
           /\ step'[t].at \in {"leave", "left", "delete", "remove"}
           /\ step'[t].folder = step[t].folder
  PROVE  \A o : Leaving(o) => Leaving(o)'
BY DEF Leaving

\* A step that makes no Trash, and leaves the bag, the sources and the deleted
\* folders alone.
LEMMA QuietTrash ==
  ASSUME TrashInv, NEW t \in Threads,
         UNCHANGED <<objectTable, sources, deleted>>,
         \A u \in Threads : u # t => step'[u] = step[u],
         \A o : Live(o) => Live(o)',
         step[t].at \in {"leave", "left", "delete"} =>
           /\ step'[t].at \in {"leave", "left", "delete", "remove"}
           /\ step'[t].folder = step[t].folder,
         step[t].at = "remove" => step'[t] = step[t],
         TrashFound(t)', RenamedStays(t)', TrashJoined(t)',
         MakesTrash(t)' => MakesTrash(t) /\ step'[t].folder = step[t].folder
  PROVE  TrashInv'
<1>1. \A o : Leaving(o) => Leaving(o)'
  BY LeavingKept
<1>2. ASSUME NEW v, Complete(v)  PROVE Complete(v)'
  BY <1>1, <1>2 DEF Complete
<1>3. TrashComplete'
  BY <1>2 DEF TrashInv, TrashComplete, Complete
<1>4. DeletedLeaves'
  BY DEF TrashInv, DeletedLeaves
<1>5. \A u \in Threads : MakesTrash(u)' => MakesTrash(u) /\ step'[u].folder = step[u].folder
  BY DEF MakesTrash
<1>6. \A u \in Threads : TrashMade(u)'
  BY <1>2, <1>5 DEF TrashInv, TrashMade
<1>7. \A u \in Threads : TrashFound(u)' /\ RenamedStays(u)'
  BY DEF TrashInv, TrashFound, RenamedStays
<1>8. \A u \in Threads : TrashJoined(u)'
  BY <1>5 DEF TrashInv, TrashJoined
<1>9. QED  BY <1>3, <1>4, <1>6, <1>7, <1>8 DEF TrashInv

\* Whoever has the reservation of Trash is the only one that makes one, and
\* there is none yet.
LEMMA TrashMakers ==
  ASSUME BagAssumption, StoreInv, NEW u \in Threads, MakesTrash(u)
  PROVE  /\ objectTable[Trash] = NULL /\ owner[Trash] = u /\ Trash \in reserved
         /\ step[u].key = Trash /\ step[u].folder \in Objects /\ ~Live(step[u].folder)
<1>1. step[u].key = Trash
  BY DEF MakesTrash, StoreInv, PlaceInv, AtBuild
<1>2. QED  BY <1>1, BuildersOwn DEF MakesTrash, Building, Making, StoreInv, PlaceInv, AtMake

LEMMA GetFolderKeepsTrash ==
  ASSUME BagAssumption, StoreAssumption, StoreInv, TrashInv,
         NEW t \in Threads, NEW k \in Keys, GetFolder(t, k)
  PROVE  TrashInv'
<1> USE BagAssumption DEF StoreInv, PlaceInv, StoreTypeOK, Steps, At, Begin, Idle
<1>1. step[t].at = "idle" /\ UNCHANGED <<mailbox, lock, sources, deleted>>
  BY DEF GetFolder
<1>2. CASE Find(t, k) /\ UNCHANGED step
  <2>1. \A o : Live(o)' <=> Live(o)
    BY <1>2, LookUpLives
  <2>2. UNCHANGED objectTable
    BY <1>2, FindEffect
  <2>3. TrashFound(t)' /\ RenamedStays(t)' /\ TrashJoined(t)' /\ ~MakesTrash(t)'
    BY <1>1, <1>2, <2>2 DEF TrashInv, TrashFound, RenamedStays, TrashJoined, MakesTrash
  <2>4. QED  BY <1>1, <1>2, <2>1, <2>2, <2>3, QuietTrash
<1>3. ASSUME NEW place \in {"open", "reserve"}, Begin(t, place, k), UNCHANGED <<objectTable, ref>>
      PROVE  TrashInv'
  <2>1. step'[t].at = place /\ step'[t].trash = NULL /\ \A u \in Threads : u # t => step'[u] = step[u]
    BY <1>3
  <2>2. TrashFound(t)' /\ RenamedStays(t)' /\ TrashJoined(t)' /\ ~MakesTrash(t)'
    BY <2>1 DEF TrashFound, RenamedStays, TrashJoined, MakesTrash
  <2>3. \A o : Live(o) => Live(o)'
    BY <1>3 DEF Live
  <2>4. QED  BY <1>1, <1>3, <2>1, <2>2, <2>3, QuietTrash
<1>4. CASE (ReserveNew(t, k) \/ ReserveBetween(t, k)) /\ Begin(t, "open", k)
  BY <1>3, <1>4, ReserveEffect
<1>5. CASE ReserveWait(t, k) /\ Begin(t, "reserve", k)
  BY <1>3, <1>5, WaitEffect
<1>6. QED  BY <1>2, <1>4, <1>5 DEF GetFolder

\* A step of a thread that goes on to a place where it has found no Trash, adds
\* no folder and renames none.
LEMMA PassingKeepsTrash ==
  ASSUME TrashInv, NEW t \in Threads,
         UNCHANGED <<objectTable, sources, deleted>>,
         \A u \in Threads : u # t => step'[u] = step[u],
         \A o : Live(o) => Live(o)',
         step[t].at \in {"idle", "reserve", "open", "abort", "cached"},
         step'[t].at \in {"idle", "open", "abort", "look", "cached", "leave"},
         step'[t].trash = NULL
  PROVE  TrashInv'
<1>1. TrashFound(t)' /\ RenamedStays(t)' /\ TrashJoined(t)' /\ ~MakesTrash(t)'
  BY DEF TrashFound, RenamedStays, TrashJoined, MakesTrash
<1>2. QED  BY <1>1, QuietTrash

LEMMA OpeningKeepsTrash ==
  ASSUME BagAssumption, StoreAssumption, StoreInv, TrashInv, NEW t \in Threads,
         \/ ResumeReserve(t) \/ WaitsAgain(t) \/ Open(t) \/ FillTrash(t)
         \/ \E k \in Keys : CreateFolder(t, k) \/ DeleteFolder(t, k)
  PROVE  TrashInv'
<1> USE BagAssumption DEF StoreInv, PlaceInv, StoreTypeOK, Steps, At, Go, Return, Begin, Idle
<1>1. CASE ResumeReserve(t)
  <2>1. step[t].at = "reserve" /\ UNCHANGED <<sources, deleted>> /\ step[t].trash = NULL
        /\ step'[t].at \in {"open", "idle"} /\ step'[t].trash = NULL
        /\ \A u \in Threads : u # t => step'[u] = step[u]
    BY <1>1 DEF ResumeReserve, TrashInv, TrashFound
  <2>2. UNCHANGED objectTable /\ \A o : Live(o)' <=> Live(o)
    BY <1>1, ReserveResumeEffect, LookUpLives DEF ResumeReserve
  <2>3. QED  BY <2>1, <2>2, PassingKeepsTrash
<1>2. CASE WaitsAgain(t)
  <2>1. UNCHANGED <<objectTable, ref, step, sources, deleted>>
    BY <1>2, WaitAgainEffect DEF WaitsAgain, storeVars
  <2>2. \A o : Live(o)' <=> Live(o)
    BY <2>1 DEF Live
  <2>3. TrashFound(t)' /\ RenamedStays(t)' /\ TrashJoined(t)'
    BY <2>1 DEF TrashInv, TrashFound, RenamedStays, TrashJoined, MakesTrash
  <2>4. QED  BY <2>1, <2>2, <2>3, QuietTrash DEF MakesTrash
<1>3. CASE Open(t)
  <2>1. step[t].at = "open" /\ UNCHANGED <<objectTable, ref, sources, deleted>>
        /\ step'[t].at \in {"abort", "look"} /\ step'[t].trash = step[t].trash
        /\ \A u \in Threads : u # t => step'[u] = step[u]
    BY <1>3 DEF Open, vars, bagVars, objVars
  <2>2. \A o : Live(o)' <=> Live(o)
    BY <2>1 DEF Live
  <2>3. step[t].trash = NULL
    BY <2>1 DEF TrashInv, TrashFound
  <2>4. QED  BY <2>1, <2>2, <2>3, PassingKeepsTrash
<1>4. CASE FillTrash(t)
  <2>1. step[t].at = "fill" /\ UNCHANGED <<objectTable, ref, sources, deleted>>
        /\ step' = [step EXCEPT ![t].at = "add"] /\ step[t].key = Trash
        /\ \A u \in Threads : u # t => step'[u] = step[u]
    BY <1>4 DEF FillTrash, vars, bagVars, objVars, AtBuild
  <2>2. \A o : Live(o)' <=> Live(o)
    BY <2>1 DEF Live
  <2>3. step'[t].at = "add" /\ step'[t].folder = step[t].folder /\ step'[t].key = Trash
        /\ step'[t].trash = step[t].trash
    BY <2>1
  <2>4. TrashFound(t)' /\ RenamedStays(t)' /\ TrashJoined(t)' /\ MakesTrash(t)
    BY <2>1, <2>3 DEF TrashInv, TrashFound, RenamedStays, TrashJoined, MakesTrash
  <2>5. QED  BY <2>1, <2>2, <2>3, <2>4, QuietTrash
<1>5. ASSUME NEW k \in Keys, CreateFolder(t, k)  PROVE TrashInv'
  <2>1. UNCHANGED <<objectTable, ref, step, sources, deleted>>
    BY <1>5 DEF CreateFolder, vars, bagVars, objVars
  <2>2. \A o : Live(o)' <=> Live(o)
    BY <2>1 DEF Live
  <2>3. TrashFound(t)' /\ RenamedStays(t)' /\ TrashJoined(t)'
    BY <2>1 DEF TrashInv, TrashFound, RenamedStays, TrashJoined, MakesTrash
  <2>4. QED  BY <2>1, <2>2, <2>3, QuietTrash DEF MakesTrash
<1>6. ASSUME NEW k \in Keys, DeleteFolder(t, k)  PROVE TrashInv'
  <2>1. step[t].at = "idle" /\ UNCHANGED <<objectTable, ref, sources, deleted>>
        /\ step'[t].at = "cached" /\ step'[t].trash = NULL
        /\ \A u \in Threads : u # t => step'[u] = step[u]
    BY <1>6 DEF DeleteFolder, vars, bagVars, objVars
  <2>2. \A o : Live(o)' <=> Live(o)
    BY <2>1 DEF Live
  <2>3. QED  BY <2>1, <2>2, PassingKeepsTrash
<1>7. QED  BY <1>1, <1>2, <1>3, <1>4, <1>5, <1>6

\* A look for the Trash ends with it, or where there is none and nobody is
\* making one.
LEMMA LookUpKeepsTrash ==
  ASSUME BagAssumption, StoreAssumption, StoreInv, TrashInv, NEW t \in Threads,
         \/ LookUpTrash(t, "look", "add", "join")
         \/ LookUpTrash(t, "leave", "delete", "left")
  PROVE  TrashInv'
<1> USE BagAssumption DEF StoreInv, PlaceInv, StoreTypeOK, Steps, At, Go
<1> DEFINE without == IF step[t].at = "look" THEN "add" ELSE "delete"
           with    == IF step[t].at = "look" THEN "join" ELSE "left"
<1>1. step[t].at \in {"look", "leave"} /\ UNCHANGED <<sources, deleted>> /\ Trash \in Keys
  BY StoreAssumption DEF LookUpTrash
<1>2. step[t].at = "look" => step[t].key # Trash
  BY DEF AtBuild, Named
<1>3. ASSUME UNCHANGED objectTable, \A o : Live(o)' <=> Live(o), step' = step
      PROVE  TrashInv'
  <2>1. TrashFound(t)' /\ RenamedStays(t)' /\ TrashJoined(t)' /\ ~MakesTrash(t)'
    BY <1>1, <1>3 DEF TrashInv, TrashFound, RenamedStays, TrashJoined, MakesTrash
  <2>2. QED  BY <1>1, <1>3, <2>1, QuietTrash
<1>4. ASSUME UNCHANGED objectTable, \A o : Live(o)' <=> Live(o), objectTable[Trash] = NULL,
             owner[Trash] = NULL \/ Trash \notin reserved,
             step'[t] = [step[t] EXCEPT !.at = without] \/ step'[t] = [step[t] EXCEPT !.at = without, !.trash = NULL],
             \A u \in Threads : u # t => step'[u] = step[u]
      PROVE  TrashInv'
  <2>1. step'[t].at = without /\ step'[t].key = step[t].key /\ step'[t].folder = step[t].folder
        /\ step'[t].trash \in {step[t].trash, NULL}
    <3>1. step[t] \in Steps
      OBVIOUS
    <3> HIDE DEF without
    <3>2. QED  BY <1>4, <3>1
  <2>2. \A u \in Threads : ~MakesTrash(u)
    BY <1>4, TrashMakers
  <2>3. \A u \in Threads : ~MakesTrash(u)'
    BY <1>1, <1>2, <1>4, <2>1, <2>2 DEF MakesTrash
  <2>4. TrashFound(t)' /\ RenamedStays(t)' /\ TrashJoined(t)'
    BY <1>1, <1>4, <2>1, <2>3 DEF TrashInv, TrashFound, RenamedStays, TrashJoined
  <2>5. QED  BY <1>1, <1>4, <2>1, <2>3, <2>4, QuietTrash
<1>5. ASSUME UNCHANGED objectTable, \A o : Live(o)' <=> Live(o), objectTable[Trash] # NULL,
             step'[t] = [step[t] EXCEPT !.at = with, !.trash = objectTable[Trash]],
             \A u \in Threads : u # t => step'[u] = step[u]
      PROVE  TrashInv'
  <2>1. step'[t].at = with /\ step'[t].key = step[t].key /\ step'[t].folder = step[t].folder
        /\ step'[t].trash = objectTable[Trash]
    BY <1>5
  <2>2. TrashFound(t)' /\ RenamedStays(t)' /\ TrashJoined(t)' /\ ~MakesTrash(t)'
    BY <1>1, <1>5, <2>1 DEF TrashFound, RenamedStays, TrashJoined, MakesTrash
  <2>3. QED  BY <1>1, <1>5, <2>1, <2>2, QuietTrash
<1>6. CASE objectTable[Trash] = NULL /\ Trash \notin reserved /\ Go(t, without) /\ UNCHANGED vars
  <2>1. UNCHANGED <<objectTable, ref>>
    BY <1>6 DEF vars, bagVars, objVars
  <2>2. \A o : Live(o)' <=> Live(o)
    BY <2>1 DEF Live
  <2>3. QED  BY <1>4, <1>6, <2>1, <2>2
<1>7. CASE GetBetween(t, Trash) /\ Go(t, without)
  <2>1. UNCHANGED <<objectTable, ref>> /\ objectTable[Trash] = NULL /\ owner[Trash] = NULL
    BY <1>1, <1>7, GetBetweenEffect
  <2>2. \A o : Live(o)' <=> Live(o)
    BY <2>1 DEF Live
  <2>3. QED  BY <1>4, <1>7, <2>1, <2>2
<1>8. CASE Find(t, Trash)
           /\ step' = [step EXCEPT ![t].at = with, ![t].trash = objectTable[Trash]]
  <2>1. UNCHANGED objectTable /\ \A o : Live(o)' <=> Live(o)
    BY <1>1, <1>8, FindEffect, LookUpLives
  <2>2. objectTable[Trash] # NULL
    BY <1>8 DEF Find
  <2>3. QED  BY <1>5, <1>8, <2>1, <2>2
<1>9. CASE GetWait(t, Trash) /\ UNCHANGED step
  <2>1. UNCHANGED <<objectTable, ref>>
    BY <1>1, <1>9, WaitEffect
  <2>2. \A o : Live(o)' <=> Live(o)
    BY <2>1 DEF Live
  <2>3. QED  BY <1>3, <1>9, <2>1, <2>2
<1>10. CASE GetResume(t)
            /\ step' = [step EXCEPT ![t].at = IF objectTable[Trash] = NULL THEN without ELSE with,
                                    ![t].trash = objectTable[Trash]]
  <2>1. UNCHANGED objectTable /\ owner[Trash] = NULL /\ \A o : Live(o)' <=> Live(o)
    BY <1>1, <1>10, GetResumeEffect, LookUpLives DEF AtWait
  <2>2. CASE objectTable[Trash] = NULL
    BY <1>4, <1>10, <2>1, <2>2
  <2>3. CASE objectTable[Trash] # NULL
    BY <1>5, <1>10, <2>1, <2>3
  <2>4. QED  BY <2>2, <2>3
<1>11. QED  BY <1>1, <1>6, <1>7, <1>8, <1>9, <1>10 DEF LookUpTrash

LEMMA GetCachedKeepsTrash ==
  ASSUME BagAssumption, StoreInv, TrashInv, NEW t \in Threads, GetCached(t)
  PROVE  TrashInv'
<1> USE BagAssumption DEF StoreInv, PlaceInv, StoreTypeOK, Steps, At, Go, Return, Idle
<1>1. step[t].at = "cached" /\ UNCHANGED <<sources, deleted>> /\ step[t].key \in Keys
  BY DEF GetCached, AtLock, Locking, Named
<1>2. UNCHANGED objectTable /\ \A o : Live(o)' <=> Live(o)
  <2>1. CASE UNCHANGED ref /\ UNCHANGED objectTable
    BY <2>1 DEF Live
  <2>2. CASE Find(t, step[t].key)
    BY <1>1, <2>2, FindEffect, LookUpLives
  <2>3. CASE GetResume(t)
    BY <2>3, GetResumeEffect, LookUpLives
  <2>4. QED  BY <1>1, <2>1, <2>2, <2>3, GetBetweenEffect, WaitEffect
             DEF GetCached, vars, bagVars, objVars
<1>3. CASE step'[t] = Idle /\ \A u \in Threads : u # t => step'[u] = step[u]
  BY <1>1, <1>2, <1>3, PassingKeepsTrash
<1>4. CASE \/ step' = step
           \/ step' = [step EXCEPT ![t].at = "leave", ![t].folder = objectTable[step[t].key]]
  <2>1. step'[t].at \in {"cached", "leave"} /\ step'[t].trash = step[t].trash
        /\ \A u \in Threads : u # t => step'[u] = step[u]
    BY <1>1, <1>4
  <2>2. TrashFound(t)' /\ RenamedStays(t)' /\ TrashJoined(t)' /\ ~MakesTrash(t)'
    BY <1>2, <2>1 DEF TrashInv, TrashFound, RenamedStays, TrashJoined, MakesTrash
  <2>3. QED  BY <1>1, <1>2, <2>1, <2>2, QuietTrash
<1>5. QED  BY <1>1, <1>3, <1>4 DEF GetCached, Unlock

LEMMA RenameFolderKeepsTrash ==
  ASSUME BagAssumption, StoreInv, TrashInv,
         NEW t \in Threads, NEW old \in Named, NEW new \in Named, RenameFolder(t, old, new)
  PROVE  TrashInv'
<1> USE BagAssumption DEF StoreInv, PlaceInv, StoreTypeOK, Steps, At, Idle
<1>1. step[t].at = "idle" /\ List(t) /\ UNCHANGED <<sources, deleted>>
  BY DEF RenameFolder
<1>2. step'[t].at = "rekey" /\ step'[t].key = old /\ step'[t].folder = objectTable[old]
      /\ step'[t].trash = NULL /\ \A u \in Threads : u # t => step'[u] = step[u]
  BY DEF RenameFolder
<1>3. UNCHANGED objectTable /\ \A o : Live(o)' <=> Live(o)
  BY <1>1, ListEffect, LookUpLives
<1>4. TrashFound(t)' /\ RenamedStays(t)' /\ TrashJoined(t)' /\ ~MakesTrash(t)'
  BY <1>2, <1>3 DEF TrashFound, RenamedStays, TrashJoined, MakesTrash
<1>5. QED  BY <1>1, <1>2, <1>3, <1>4, QuietTrash

\* camel_vee_folder_add_folder, to the open Trash.
LEMMA JoinKeepsTrash ==
  ASSUME BagAssumption, StoreAssumption, StoreInv, TrashInv, NEW t \in Threads, Join(t)
  PROVE  TrashInv'
<1> USE BagAssumption DEF StoreInv, PlaceInv, StoreTypeOK, Steps, At, Go
<1> DEFINE v == objectTable[Trash]
<1>1. step[t].at = "join" /\ UNCHANGED <<objectTable, ref, deleted>>
      /\ step' = [step EXCEPT ![t].at = "add"]
  BY DEF Join, vars, bagVars, objVars
<1>2. step[t].trash = v /\ v # NULL /\ v \in Objects /\ Live(v)
  BY <1>1, StoreAssumption, BoundLive DEF TrashInv, TrashFound
<1>3. step'[t].at = "add" /\ step'[t].key = step[t].key /\ step'[t].folder = step[t].folder
      /\ step'[t].trash = v /\ \A u \in Threads : u # t => step'[u] = step[u]
  BY <1>1, <1>2
<1>4. step[t].key # Trash /\ step[t].folder \in Objects /\ ~Live(step[t].folder)
  BY <1>1 DEF AtBuild, AtMake, Making, Named
<1>5. sources' = [sources EXCEPT ![v] = @ \cup {step[t].folder}]
  BY <1>2 DEF Join
<1>6. \A o : Leaving(o) => Leaving(o)'
  BY <1>1, <1>3, LeavingKept
<1>7. step[t].folder \notin deleted
  BY <1>4 DEF TrashInv, DeletedLeaves
<1>8. ASSUME NEW w \in Objects, Complete(w)  PROVE Complete(w)'
  <2>1. sources[w] \subseteq sources'[w] /\ sources'[w] \subseteq sources[w] \cup {step[t].folder}
    BY <1>2, <1>5
  <2>2. QED  BY <1>1, <1>6, <1>7, <1>8, <2>1 DEF Complete
<1>9. TrashComplete'
  BY <1>1, <1>2, <1>8 DEF TrashInv, TrashComplete, Complete
<1>10. \A o : Live(o)' <=> Live(o)
  BY <1>1 DEF Live
<1>11. DeletedLeaves'
  BY <1>1, <1>3, <1>10 DEF TrashInv, DeletedLeaves
<1>12. \A u \in Threads : MakesTrash(u)' => MakesTrash(u) /\ step'[u].folder = step[u].folder
  BY <1>3, <1>4 DEF MakesTrash
<1>13. \A u \in Threads : TrashMade(u)'
  BY <1>8, <1>12, TrashMakers DEF TrashInv, TrashMade
<1>14. \A u \in Threads : TrashFound(u)' /\ RenamedStays(u)'
  BY <1>1, <1>2, <1>3 DEF TrashInv, TrashFound, RenamedStays
<1>15. TrashJoined(t)'
  BY <1>2, <1>3, <1>5 DEF TrashJoined
<1>16. ASSUME NEW u \in Threads, u # t  PROVE TrashJoined(u)'
  <2>1. TrashJoined(u) /\ TrashFound(u)
    BY DEF TrashInv
  <2>2. step[u].trash # NULL => step[u].trash \in Objects /\ sources[step[u].trash] \subseteq sources'[step[u].trash]
    BY <1>2, <1>5, <2>1 DEF TrashFound
  <2>3. QED  BY <1>1, <1>3, <1>12, <1>16, <2>1, <2>2 DEF TrashJoined
<1>17. QED  BY <1>9, <1>11, <1>13, <1>14, <1>15, <1>16 DEF TrashInv

\* camel_vee_folder_remove_folder and camel_folder_delete: the folder is taken
\* out of Trash folders, and is leaving.
LEMMA DropKeepsTrash ==
  ASSUME BagAssumption, StoreInv, TrashInv, NEW t \in Threads, UNCHANGED <<objectTable, ref>>,
         step[t].at \in {"left", "delete"}, step'[t].at \in {"delete", "remove"},
         step'[t].folder = step[t].folder, step'[t].trash = step[t].trash,
         \A u \in Threads : u # t => step'[u] = step[u],
         \A o \in Objects : /\ sources[o] \ {step[t].folder} \subseteq sources'[o]
                            /\ sources'[o] \subseteq sources[o],
         \/ deleted' = deleted
         \/ /\ deleted' = deleted \cup {step[t].folder} /\ step'[t].at = "remove"
            /\ \A o \in Objects : step[t].folder \notin sources'[o]
  PROVE  TrashInv'
<1> USE BagAssumption DEF StoreInv, PlaceInv, StoreTypeOK, Steps
<1>1. \A o : Leaving(o) => Leaving(o)'
  BY LeavingKept
<1>2. Leaving(step[t].folder)' /\ step[t].folder = objectTable[step[t].key]
      /\ step[t].key \in Keys /\ step[t].folder \in Objects
  BY DEF Leaving, AtLock, Locking, Named
<1>3. ASSUME NEW w \in Objects, Complete(w)  PROVE Complete(w)'
  <2>1. \A k \in Named : objectTable[k] \in sources'[w] \cup {NULL} \/ Leaving(objectTable[k])'
    BY <1>1, <1>2, <1>3 DEF Complete
  <2>2. sources'[w] \cap deleted' = {}
    BY <1>3 DEF Complete
  <2>3. QED  BY <2>1, <2>2 DEF Complete
<1>4. objectTable \in [Keys -> Objects \cup {NULL}]
  BY DEF IInv, WaitIInv, TypeOK
<1>5. TrashComplete'
  BY <1>3, <1>4, StoreAssumption DEF StoreAssumption, TrashInv, TrashComplete, Complete
<1>6. \A o : Live(o)' <=> Live(o)
  BY DEF Live
<1>7. DeletedLeaves'
  <2>1. Live(step[t].folder)
    BY <1>2, BoundLive
  <2>2. ASSUME NEW o \in deleted  PROVE Live(o) /\ \A k \in Keys : objectTable[k] = o =>
                 \E u \in Threads : step'[u].at = "remove" /\ step'[u].folder = o
    BY <2>2 DEF TrashInv, DeletedLeaves
  <2>3. QED  BY <1>6, <2>1, <2>2 DEF DeletedLeaves
<1>8. \A u \in Threads : MakesTrash(u)' => MakesTrash(u) /\ step'[u].folder = step[u].folder
  BY DEF MakesTrash
<1>9. \A u \in Threads : TrashMade(u)'
  BY <1>3, <1>8, TrashMakers DEF TrashInv, TrashMade
<1>10. \A u \in Threads : TrashFound(u)' /\ RenamedStays(u)'
  BY DEF TrashInv, TrashFound, RenamedStays
<1>11. ASSUME NEW u \in Threads  PROVE TrashJoined(u)'
  <2>1. SUFFICES ASSUME u # t, step[u].at = "add", step[u].key # Trash  PROVE TrashJoined(u)'
    BY DEF TrashJoined
  <2>2. step[u].folder # step[t].folder
    BY <2>1 DEF AtMake, Making
  <2>3. step[u].trash # NULL => step[u].trash \in Objects
    OBVIOUS
  <2>4. TrashJoined(u)
    BY DEF TrashInv
  <2>5. QED  BY <1>8, <2>1, <2>2, <2>3, <2>4 DEF TrashJoined
<1>12. QED  BY <1>5, <1>7, <1>9, <1>10, <1>11 DEF TrashInv

LEMMA DeletingKeepsTrash ==
  ASSUME BagAssumption, "trash" \notin Races, StoreInv, TrashInv, NEW t \in Threads,
         Leave(t) \/ MarkDeleted(t)
  PROVE  TrashInv'
<1> USE DEF StoreInv, PlaceInv, StoreTypeOK, Steps, At, Go
<1>1. UNCHANGED <<objectTable, ref>>
  BY DEF Leave, MarkDeleted, vars, bagVars, objVars
<1>2. CASE Leave(t)
  <2>1. step[t].at = "left" /\ step' = [step EXCEPT ![t].at = "delete"] /\ deleted' = deleted
        /\ sources' = [sources EXCEPT ![step[t].trash] = @ \ {step[t].folder}]
    BY <1>2 DEF Leave
  <2>2. step'[t].at = "delete" /\ step'[t].folder = step[t].folder /\ step'[t].trash = step[t].trash
        /\ \A u \in Threads : u # t => step'[u] = step[u]
    BY <2>1
  <2>3. \A o \in Objects : /\ sources[o] \ {step[t].folder} \subseteq sources'[o]
                           /\ sources'[o] \subseteq sources[o]
    BY <2>1
  <2>4. QED  BY <1>1, <2>1, <2>2, <2>3, DropKeepsTrash
<1>3. CASE MarkDeleted(t)
  <2>1. step[t].at = "delete" /\ step' = [step EXCEPT ![t].at = "remove"]
        /\ deleted' = deleted \cup {step[t].folder}
    BY <1>3 DEF MarkDeleted
  <2>2. step'[t].at = "remove" /\ step'[t].folder = step[t].folder /\ step'[t].trash = step[t].trash
        /\ \A u \in Threads : u # t => step'[u] = step[u]
    BY <2>1
  <2>3. \A o \in Objects : sources'[o] = sources[o] \ {step[t].folder}
    <3>1. {step[u].folder : u \in {w \in Threads : step[w].at = "fill"}} = {}
      BY <1>3 DEF MarkDeleted
    <3>2. sources' = [o \in Objects |-> IF o \in {} THEN sources[o] ELSE sources[o] \ {step[t].folder}]
      BY <1>3, <3>1 DEF MarkDeleted
    <3>3. QED  BY <3>2
  <2>4. QED  BY <1>1, <2>1, <2>2, <2>3, DropKeepsTrash
<1>4. QED  BY <1>2, <1>3

\* store_get_special: the new Trash is made of all that is open, unless somebody
\* has just found no Trash.
LEMMA ListFoldersKeepsTrash ==
  ASSUME BagAssumption, StoreAssumption, "trash" \notin Races, StoreInv, TrashInv,
         NEW t \in Threads, ListFolders(t)
  PROVE  TrashInv'
<1> USE BagAssumption DEF StoreInv, PlaceInv, StoreTypeOK, Steps, At
<1>1. step[t].at = "open" /\ step[t].key = Trash /\ List(t) /\ deleted' = deleted
      /\ Overlooked = {} /\ Unused # {}
  BY DEF ListFolders
<1>2. PICK new : new = NewFolder
  OBVIOUS
<1>3. new \in Objects /\ ~Live(new) /\ \A u \in Threads : step[u].folder # new
  <2>1. new \in Unused
    BY <1>1, <1>2 DEF NewFolder
  <2>2. QED  BY <2>1 DEF Unused, Fresh
<1>4. step'[t].at = "fill" /\ step'[t].folder = new /\ step'[t].trash = step[t].trash
      /\ \A u \in Threads : u # t => step'[u] = step[u]
  BY <1>2 DEF ListFolders
<1>5. sources' = [sources EXCEPT ![new] = {objectTable[k] : k \in Named} \ {NULL}]
  BY <1>2 DEF ListFolders
<1>6. UNCHANGED objectTable /\ \A o : Live(o)' <=> Live(o)
  BY <1>1, ListEffect, LookUpLives
<1>7. \A o : Leaving(o) => Leaving(o)'
  BY <1>1, <1>4, LeavingKept
<1>8. objectTable[Trash] = NULL /\ owner[Trash] = t
  BY <1>1, BuildersOwn DEF Building
<1>9. TrashComplete'
  BY <1>6, <1>8 DEF TrashComplete
<1>10. DeletedLeaves'
  BY <1>1, <1>4, <1>6 DEF TrashInv, DeletedLeaves
<1>11. Complete(new)'
  <2>1. \A k \in Keys : objectTable[k] \notin deleted
    BY <1>1 DEF TrashInv, DeletedLeaves, Overlooked
  <2>2. sources'[new] = {objectTable[k] : k \in Named} \ {NULL}
    BY <1>3, <1>5
  <2>3. QED  BY <1>1, <1>6, <2>1, <2>2 DEF Complete, Named
<1>12. \A u \in Threads : MakesTrash(u)' => u = t
  BY <1>4, <1>8, TrashMakers DEF MakesTrash
<1>13. \A u \in Threads : TrashMade(u)'
  BY <1>4, <1>11, <1>12 DEF TrashMade
<1>14. \A u \in Threads : TrashFound(u)' /\ RenamedStays(u)'
  BY <1>1, <1>4, <1>6 DEF TrashInv, TrashFound, RenamedStays
<1>15. ASSUME NEW u \in Threads  PROVE TrashJoined(u)'
  <2>1. SUFFICES ASSUME u # t, step[u].at = "add", step[u].key # Trash  PROVE FALSE
    BY <1>4 DEF TrashJoined
  <2>2. step[u].trash # NULL
    BY <1>1, <2>1 DEF Overlooked
  <2>3. QED  BY <1>8, <2>2 DEF TrashInv, TrashFound
<1>16. QED  BY <1>9, <1>10, <1>13, <1>14, <1>15 DEF TrashInv

\* camel_object_bag_add of a Trash, of another folder, and abort.
LEMMA AddOrAbortKeepsTrash ==
  ASSUME BagAssumption, StoreAssumption, StoreInv, TrashInv, NEW t \in Threads, AddOrAbort(t)
  PROVE  TrashInv'
<1> USE BagAssumption DEF StoreInv, PlaceInv, StoreTypeOK, Steps, At, Return, Idle
<1> DEFINE k == step[t].key
           o == step[t].folder
<1>1. step[t].at \in {"add", "abort"} /\ UNCHANGED <<sources, deleted>> /\ step'[t] = Idle
      /\ \A u \in Threads : u # t => step'[u] = step[u]
  BY DEF AddOrAbort
<1>2. k \in Keys /\ owner[k] = t /\ objectTable[k] = NULL
  BY <1>1, BuildersOwn DEF Building
<1>3. CASE step[t].at = "abort" /\ Abort(t, k)
  <2>1. UNCHANGED <<objectTable, ref>>
    BY <1>2, <1>3, AbortEffect
  <2>2. \A x : Live(x) => Live(x)'
    BY <2>1 DEF Live
  <2>3. QED  BY <1>1, <1>3, <2>1, <2>2, PassingKeepsTrash
<1>4. CASE step[t].at = "add" /\ Add(t, k, o)
  <2>1. o \in Objects /\ ~Live(o)
    BY <1>4 DEF AtMake, Making
  <2>2. /\ objectTable' = [objectTable EXCEPT ![k] = o]
        /\ ref' = [ref EXCEPT ![t] = @ \cup {o}]
    BY <1>2, <1>4, <2>1, AddEffect
  <2>3. objectTable \in [Keys -> Objects \cup {NULL}] /\ ref \in [Threads -> SUBSET Objects]
    BY DEF IInv, WaitIInv, TypeOK
  <2>4. \A x : Live(x) => Live(x)'
    BY <2>2, <2>3 DEF Live
  <2>5. \A x : Leaving(x) => Leaving(x)'
    BY <1>1, <1>4, LeavingKept
  <2>6. \A u \in Threads : MakesTrash(u) => u = t \/ k # Trash
    BY <1>2, TrashMakers
  <2>7. /\ \A u \in Threads : MakesTrash(u)' => u # t /\ MakesTrash(u)
        /\ \A u \in Threads : u # t => TrashFound(u) /\ RenamedStays(u) /\ TrashJoined(u)
    BY <1>1 DEF MakesTrash, TrashInv
  <2>8. \A u \in Threads : ~MakesTrash(u)'
    <3>1. CASE k = Trash
      BY <2>6, <2>7, <3>1
    <3>2. CASE k # Trash
      <4>1. TrashJoined(t) /\ TrashFound(t)
        BY DEF TrashInv
      <4>2. QED  BY <1>4, <2>7, <3>2, <4>1, TrashMakers DEF TrashJoined, TrashFound
    <3>3. QED  BY <3>1, <3>2
  <2>9. \A u \in Threads : TrashMade(u)'
    BY <2>8 DEF TrashMade
  <2>10. DeletedLeaves'
    <3>1. SUFFICES ASSUME NEW d \in deleted
                   PROVE  Live(d)' /\ \A j \in Keys : objectTable'[j] = d =>
                            \E u \in Threads : step'[u].at = "remove" /\ step'[u].folder = d
      BY <1>1 DEF DeletedLeaves
    <3>2. Live(d) /\ Live(d)' /\ d # o
      BY <2>1, <2>4 DEF TrashInv, DeletedLeaves
    <3>3. \A j \in Keys : objectTable'[j] = d => objectTable[j] = d
      BY <2>2, <2>3, <3>2
    <3>4. \A j \in Keys : objectTable[j] = d =>
            \E u \in Threads : step[u].at = "remove" /\ step[u].folder = d
      BY DEF TrashInv, DeletedLeaves
    <3>5. QED  BY <1>1, <1>4, <3>2, <3>3, <3>4
  <2>11. \A u \in Threads : RenamedStays(u)'
    <3>1. SUFFICES ASSUME NEW u \in Threads, u # t, step[u].at = "rekey", step[u].folder # NULL
                   PROVE  objectTable'[step[u].key] = step[u].folder
      BY <1>1 DEF RenamedStays
    <3>2. objectTable[step[u].key] = step[u].folder /\ step[u].key \in Keys
      BY <2>7, <3>1 DEF RenamedStays, AtLock, Locking, Named
    <3>3. QED  BY <1>2, <2>2, <2>3, <3>1, <3>2
  <2>12. CASE k = Trash
    <3>1. objectTable'[Trash] = o /\ \A j \in Named : objectTable'[j] = objectTable[j]
      BY <1>2, <2>2, <2>3, <2>12 DEF Named
    <3>2. Complete(o) /\ MakesTrash(t)
      BY <1>4, <2>12 DEF MakesTrash, TrashInv, TrashMade
    <3>3. TrashComplete'
      BY <1>1, <2>5, <3>1, <3>2 DEF TrashComplete, Complete
    <3>4. \A u \in Threads : step'[u].trash = NULL
      BY <1>1, <1>2, <2>7, <2>12 DEF TrashFound
    <3>5. \A u \in Threads : TrashFound(u)'
      BY <1>1, <2>7, <3>4 DEF TrashFound
    <3>6. \A u \in Threads : TrashJoined(u)'
      BY <1>1, <1>2, <2>7, <2>12, <3>2 DEF TrashJoined, TrashFound
    <3>7. QED  BY <2>9, <2>10, <2>11, <3>3, <3>5, <3>6 DEF TrashInv
  <2>13. CASE k # Trash
    <3>1. /\ objectTable'[Trash] = objectTable[Trash]
          /\ \A j \in Named : objectTable'[j] = IF j = k THEN o ELSE objectTable[j]
      BY StoreAssumption, <1>2, <2>2, <2>3, <2>13 DEF StoreAssumption, Named
    <3>2. objectTable[Trash] # NULL => o \in sources[objectTable[Trash]]
      BY <1>4, <2>13 DEF TrashInv, TrashJoined, TrashFound
    <3>3. TrashComplete'
      BY <1>1, <2>5, <3>1, <3>2 DEF TrashInv, TrashComplete
    <3>4. \A u \in Threads : TrashFound(u)'
      BY <1>1, <2>7, <3>1 DEF TrashFound
    <3>5. \A u \in Threads : TrashJoined(u)'
      BY <1>1, <2>7, <2>8, <3>1 DEF TrashJoined
    <3>6. QED  BY <2>9, <2>10, <2>11, <3>3, <3>4, <3>5 DEF TrashInv
  <2>14. QED  BY <2>12, <2>13
<1>5. QED  BY <1>1, <1>3, <1>4 DEF AddOrAbort

\* The thread that has CAMEL_STORE_FOLDER_LOCK takes its folder out of the bag
\* or gives it another name.
LEMMA UnbindKeepsTrash ==
  ASSUME BagAssumption, StoreAssumption, StoreInv, TrashInv, NEW t \in Threads, lock = t,
         UNCHANGED <<sources, deleted, ref>>, objectTable'[Trash] = objectTable[Trash],
         step[t].at \in {"remove", "rekey"}, step'[t] = Idle,
         \A u \in Threads : u # t => step'[u] = step[u],
         \A k \in Keys : objectTable'[k] # NULL =>
           /\ \E j \in Keys : objectTable[j] = objectTable'[k] /\ (k \in Named => j \in Named)
           /\ step[t].at = "remove" => objectTable'[k] # step[t].folder
  PROVE  TrashInv'
<1> USE BagAssumption DEF StoreInv, PlaceInv, StoreTypeOK, Steps, Idle
<1>1. \A o : Live(o)' <=> Live(o)
  BY DEF Live
<1>2. ASSUME NEW k \in Named, NEW o, o = objectTable'[k], o # NULL, Leaving(o)
      PROVE  Leaving(o)'
  <2>1. k \in Keys
    BY DEF Named
  <2>2. QED  BY <1>2, <2>1 DEF Leaving
<1>3. ASSUME NEW w, Complete(w)  PROVE Complete(w)'
  <2>1. ASSUME NEW k \in Named, NEW o, o = objectTable'[k], o # NULL
        PROVE  o \in sources[w] \/ Leaving(o)'
    <3>1. PICK j \in Named : objectTable[j] = o
      BY <2>1 DEF Named
    <3>2. QED  BY <1>2, <1>3, <2>1, <3>1 DEF Complete
  <2>2. \A k \in Named : objectTable'[k] \in sources[w] \cup {NULL} \/ Leaving(objectTable[k])'
    <3>1. ASSUME NEW k \in Named, NEW o, o = objectTable'[k], Leaving(o)'
          PROVE  Leaving(objectTable[k])'
      BY <3>1 DEF Leaving
    <3>2. QED  BY <2>1, <3>1
  <2>3. QED  BY <1>3, <2>2 DEF Complete
<1>4. TrashComplete'
  BY <1>3 DEF TrashInv, TrashComplete, Complete
<1>5. DeletedLeaves'
  <2>1. SUFFICES ASSUME NEW o \in deleted
                 PROVE  Live(o) /\ \A k \in Keys : objectTable'[k] = o =>
                          \E u \in Threads : step'[u].at = "remove" /\ step'[u].folder = o
    BY <1>1 DEF DeletedLeaves
  <2>2. Live(o) /\ o # NULL /\ \A j \in Keys : objectTable[j] = o =>
                     \E u \in Threads : step[u].at = "remove" /\ step[u].folder = o
    BY DEF TrashInv, DeletedLeaves, BagAssumption
  <2>3. ASSUME NEW k \in Keys, objectTable'[k] = o
        PROVE  \E u \in Threads : step'[u].at = "remove" /\ step'[u].folder = o
    <3>1. PICK u \in Threads : step[u].at = "remove" /\ step[u].folder = o
      BY <2>2, <2>3
    <3>2. u # t
      BY <2>2, <2>3, <3>1
    <3>3. QED  BY <3>1, <3>2
  <2>4. QED  BY <2>2, <2>3
<1>6. \A u \in Threads : MakesTrash(u)' => MakesTrash(u) /\ step'[u].folder = step[u].folder
  BY DEF MakesTrash
<1>7. \A u \in Threads : TrashMade(u)'
  BY <1>3, <1>6 DEF TrashInv, TrashMade
<1>8. \A u \in Threads : TrashFound(u)' /\ RenamedStays(u)'
  BY DEF TrashInv, TrashFound, RenamedStays, AtLock, Locking
<1>9. \A u \in Threads : TrashJoined(u)'
  BY <1>6 DEF TrashInv, TrashJoined
<1>10. QED  BY <1>4, <1>5, <1>7, <1>8, <1>9 DEF TrashInv

LEMMA RemoveCachedKeepsTrash ==
  ASSUME BagAssumption, StoreAssumption, ~RenameOntoOpen, StoreInv, TrashInv, NEW t \in Threads,
         RemoveCached(t) \/ RekeyRenamed(t)
  PROVE  TrashInv'
<1> USE BagAssumption DEF StoreInv, PlaceInv, StoreTypeOK, Steps, At, Return
<1>1. step[t].at \in {"remove", "rekey"} /\ UNCHANGED <<sources, deleted, ref>> /\ step'[t] = Idle
      /\ \A u \in Threads : u # t => step'[u] = step[u]
  BY DEF RemoveCached, RekeyRenamed, Unlock, Remove, Rekey, vars, objVars
<1>2. lock = t /\ step[t].key \in Named /\ step[t].key \in Keys /\ step[t].key # Trash
  BY <1>1 DEF AtLock, Locking, Named
<1>3. objectTable \in [Keys -> Objects \cup {NULL}] /\ Trash \in Keys
  BY StoreAssumption DEF IInv, WaitIInv, TypeOK, StoreAssumption
<1>4. \A j \in Keys : objectTable[j] = step[t].folder /\ step[t].folder # NULL
                      /\ objectTable[step[t].key] = step[t].folder => j = step[t].key
  BY <1>2, <1>3 DEF IInv, ObjectInv, TablesInverse
<1>5. CASE RemoveCached(t)
  <2>1. step[t].folder \in Objects /\ objectTable[step[t].key] = step[t].folder
        /\ step[t].folder # NULL
        /\ Remove(t, step[t].folder)
    BY <1>5 DEF RemoveCached, AtLock, BagAssumption
  <2>2. objectTable' = [objectTable EXCEPT ![step[t].key] = NULL]
    BY <1>2, <2>1, RemoveEffect
  <2>3. QED  BY <1>1, <1>2, <1>3, <1>4, <2>1, <2>2, UnbindKeepsTrash
<1>6. CASE RekeyRenamed(t) /\ step[t].folder = NULL
  <2>1. UNCHANGED objectTable /\ step[t].at = "rekey"
    BY <1>6 DEF RekeyRenamed, vars, bagVars
  <2>2. QED  BY <1>1, <1>2, <2>1, UnbindKeepsTrash
<1>7. CASE RekeyRenamed(t) /\ step[t].folder # NULL
  <2>1. /\ Rekey(t, step[t].folder, step[t].new) /\ step[t].folder \in Objects
        /\ step[t].new \in Keys /\ step[t].new # Trash /\ step[t].at = "rekey"
        /\ objectTable[step[t].key] = step[t].folder
    BY <1>7 DEF RekeyRenamed, TrashInv, RenamedStays, AtLock, Named
  <2>2. PICK j \in Keys :
          /\ objectTable[j] = step[t].folder
          /\ objectTable' = [[objectTable EXCEPT ![j] = NULL] EXCEPT ![step[t].new] = step[t].folder]
    BY <2>1, RekeyEffect
  <2>3. j = step[t].key
    BY <1>4, <1>7, <2>1, <2>2
  <2>4. objectTable'[Trash] = objectTable[Trash]
    BY <1>2, <1>3, <2>1, <2>2, <2>3
  <2>5. \A k \in Keys : objectTable'[k] # NULL =>
          \/ objectTable'[k] = objectTable[k]
          \/ objectTable'[k] = objectTable[step[t].key]
    BY <1>3, <2>1, <2>2, <2>3
  <2>6. QED  BY <1>1, <1>2, <2>1, <2>4, <2>5, UnbindKeepsTrash
<1>8. QED  BY <1>5, <1>6, <1>7

LEMMA TrashStep ==
  ASSUME BagAssumption, StoreAssumption, ~RenameOntoOpen, "trash" \notin Races,
         StoreInv, TrashInv, [StoreNext]_allVars
  PROVE  TrashInv'
<1>1. CASE UNCHANGED allVars
  <2>1. UNCHANGED <<objectTable, ref, step, sources, deleted>>
    BY <1>1 DEF allVars, vars, bagVars, objVars, storeVars
  <2>2. \A v : Complete(v)' <=> Complete(v)
    BY <2>1 DEF Complete, Leaving
  <2>3. \A u \in Threads : MakesTrash(u)' <=> MakesTrash(u)
    BY <2>1 DEF MakesTrash
  <2>4. TrashComplete' /\ DeletedLeaves'
    BY <2>1, <2>2 DEF TrashInv, TrashComplete, Complete, DeletedLeaves, Live
  <2>5. \A u \in Threads : TrashFound(u)' /\ TrashMade(u)' /\ TrashJoined(u)' /\ RenamedStays(u)'
    BY <2>1, <2>2, <2>3 DEF TrashInv, TrashFound, TrashMade, TrashJoined, RenamedStays
  <2>6. QED  BY <2>4, <2>5 DEF TrashInv
<1>2. ASSUME NEW t \in Threads, Call(t)  PROVE TrashInv'
  BY <1>2, GetFolderKeepsTrash, OpeningKeepsTrash, RenameFolderKeepsTrash DEF Call
<1>3. ASSUME NEW t \in Threads, Inside(t)  PROVE TrashInv'
  BY <1>3, OpeningKeepsTrash, LookUpKeepsTrash, GetCachedKeepsTrash, JoinKeepsTrash,
     DeletingKeepsTrash, ListFoldersKeepsTrash, AddOrAbortKeepsTrash, RemoveCachedKeepsTrash
     DEF Inside
<1>4. QED  BY <1>1, <1>2, <1>3 DEF StoreNext

\* An open Trash is made of every open folder, and of no deleted one, as long
\* as no Trash is made between another thread's look for one and what it goes
\* on to do (store_get_special, camel_store_get_folder, cs_delete_cached_folder).
\* Renames may come at any time.
THEOREM TrashIsComplete ==
  ASSUME ~RenameOntoOpen, "trash" \notin Races
  PROVE  StoreSpec => []TrashComplete
<1>1. StoreInit => TrashInv
  BY BagAssumption, StoreAssumption
     DEF StoreAssumption, StoreInit, Init, Idle, TrashInv, TrashComplete, DeletedLeaves, TrashFound,
         TrashMade, MakesTrash, TrashJoined, RenamedStays
<1>2. ~RenameOntoOpen /\ "trash" \notin Races
  OBVIOUS
<1>3. StoreInv /\ TrashInv /\ [StoreNext]_allVars => TrashInv'
  BY <1>2, BagAssumption, StoreAssumption, TrashStep
<1>4. TrashInv => TrashComplete
  BY DEF TrashInv
<1>5. StoreSpec => []StoreInv
  BY <1>2, StoreInvariant
<1>6. QED  BY <1>1, <1>3, <1>4, <1>5, PTL DEF StoreSpec

-----------------------------------------------------------------------------
(* Threads never wait for one another.                                     *)

\* A thread has reserved at most the key whose folder it makes, it is inside
\* camel_object_bag_reserve only to wait, and it has a reference to the folder
\* that it takes out of the bag or renames.
AtGo(t) ==
  /\ pc[t] \notin Disposing
  /\ holds[t] = IF step[t].at \in Building THEN {step[t].key} ELSE {}
  /\ step[t].at = "reserve" => arg[t] # NULL
  /\ step[t].at \in {"leave", "left", "delete", "remove"} => step[t].folder \in ref[t]
  /\ step[t].at = "rekey" /\ step[t].folder # NULL => step[t].folder \in ref[t]

\* Until there is a Trash, there is an address for it.
TrashHasRoom ==
  objectTable[Trash] = NULL /\ (\A t \in Threads : ~MakesTrash(t)) => Unused # {}

GoInv ==
  /\ alive
  /\ \A t \in Threads : AtGo(t)
  /\ TrashHasRoom

\* No call of the bag that a store makes disposes of anything.
Undisposed == \A u \in Threads : pc[u] \notin Disposing
Disposes(phase) == \E u \in Threads : phase[u] \in Disposing

LEMMA SignalDisposes ==
  ASSUME NEW k, NEW phase \in [Threads -> Phases], ~Disposes(phase), Signal(k, phase)
  PROVE  Undisposed'
<1>1. ASSUME NEW p  PROVE WokenFrom(p) \notin Disposing
  BY DEF WokenFrom, Disposing
<1>2. ASSUME NEW u \in Threads, pc' = [phase EXCEPT ![u] = WokenFrom(@)]
      PROVE  Undisposed'
  BY <1>1, <1>2 DEF Undisposed, Disposes
<1>3. CASE pc' = phase
  BY <1>3 DEF Undisposed, Disposes
<1>4. QED  BY <1>2, <1>3 DEF Signal

LEMMA UnreserveGoesOn ==
  ASSUME NEW k, NEW w, NEW phase \in [Threads -> Phases], ~Disposes(phase), Unreserve(k, w, phase)
  PROVE  Undisposed'
<1>1. CASE pc' = phase
  BY <1>1 DEF Undisposed, Disposes
<1>2. QED  BY <1>1, SignalDisposes DEF Unreserve

\* The calls of the bag that a store makes.
BagCall(t) ==
  \/ \E k \in Keys : \/ Find(t, k) \/ GetWait(t, k) \/ GetBetween(t, k)
                     \/ ReserveNew(t, k) \/ ReserveWait(t, k) \/ ReserveBetween(t, k)
                     \/ Abort(t, k)
  \/ \E k \in Keys, o \in Objects : Add(t, k, o) \/ Rekey(t, o, k)
  \/ \E o \in Objects : Remove(t, o)
  \/ GetResume(t) \/ ReserveResume(t) \/ WaitAgain(t) \/ List(t)
  \/ UNCHANGED vars

\* They leave the bag alive, nothing disposed of, and every reference where it is.
References == \A u \in Threads : ref[u] \subseteq ref'[u]

LEMMA BagGoesOn ==
  ASSUME TypeOK, alive, Undisposed, NEW t \in Threads, BagCall(t)
  PROVE  alive' /\ Undisposed' /\ References
<1> USE DEF TypeOK, References
<1>1. ~Disposes(pc) /\ ~Disposes([pc EXCEPT ![t] = "idle"])
      /\ [pc EXCEPT ![t] = "idle"] \in [Threads -> Phases]
  BY DEF Undisposed, Disposes, Disposing, Phases
<1>2. ASSUME NEW k \in Keys, Find(t, k)  PROVE alive' /\ Undisposed' /\ References
  BY <1>2 DEF Find, Undisposed
<1>3. ASSUME NEW k \in Keys, GetWait(t, k) \/ ReserveWait(t, k)
      PROVE  alive' /\ Undisposed' /\ References
  BY <1>3 DEF GetWait, ReserveWait, WaitFor, objVars, Undisposed, Disposing
<1>4. ASSUME NEW k \in Keys, GetBetween(t, k)  PROVE alive' /\ Undisposed' /\ References
  BY <1>1, <1>4, UnreserveGoesOn DEF GetBetween, objVars
<1>5. ASSUME NEW k \in Keys, ReserveNew(t, k) \/ ReserveBetween(t, k)
      PROVE  alive' /\ Undisposed' /\ References
  BY <1>5 DEF ReserveNew, ReserveBetween, objVars, Undisposed
<1>6. ASSUME NEW k \in Keys, Abort(t, k)  PROVE alive' /\ Undisposed' /\ References
  BY <1>1, <1>6, UnreserveGoesOn DEF Abort, objVars
<1>7. ASSUME NEW k \in Keys, NEW o \in Objects, Add(t, k, o)
      PROVE  alive' /\ Undisposed' /\ References
  <2>1. alive' /\ References
    BY <1>7 DEF Add
  <2>2. CASE Unreserve(k, waiters[k], pc)
    BY <1>1, <2>1, <2>2, UnreserveGoesOn
  <2>3. CASE UNCHANGED pc
    BY <2>1, <2>3 DEF Undisposed
  <2>4. QED  BY <1>7, <2>2, <2>3 DEF Add
<1>8. ASSUME NEW k \in Keys, NEW o \in Objects, Rekey(t, o, k)
      PROVE  alive' /\ Undisposed' /\ References
  BY <1>8 DEF Rekey, objVars, Undisposed
<1>9. ASSUME NEW o \in Objects, Remove(t, o)  PROVE alive' /\ Undisposed' /\ References
  BY <1>9 DEF Remove, Undisposed
<1>10. CASE GetResume(t)
  BY <1>1, <1>10, UnreserveGoesOn DEF GetResume
<1>11. CASE ReserveResume(t)
  <2>1. CASE objectTable[arg[t]] = NULL
    BY <1>11, <2>1 DEF ReserveResume, TakeOver, objVars, Undisposed, Disposing
  <2>2. CASE objectTable[arg[t]] # NULL
    <3>1. /\ Unreserve(arg[t], waiters[arg[t]] - 1, [pc EXCEPT ![t] = "idle"])
          /\ ref' = [ref EXCEPT ![t] = @ \cup {objectTable[arg[t]]}] /\ UNCHANGED alive
      BY <1>11, <2>2 DEF ReserveResume
    <3>2. Undisposed'
      BY <1>1, <3>1, UnreserveGoesOn
    <3>3. QED  BY <3>1, <3>2
  <2>3. QED  BY <2>1, <2>2
<1>12. CASE WaitAgain(t)
  BY <1>12 DEF WaitAgain, objVars, Undisposed, Disposing
<1>13. CASE List(t) \/ UNCHANGED vars
  BY <1>13 DEF List, vars, Undisposed
<1>14. QED
  BY <1>2, <1>3, <1>4, <1>5, <1>6, <1>7, <1>8, <1>9, <1>10, <1>11, <1>12, <1>13 DEF BagCall

\* What is left of the other threads by a step of one.
OthersGo(t) ==
  \A u \in Threads : u # t => step'[u] = step[u] /\ arg'[u] = arg[u] /\ holds'[u] = holds[u]

\* A step that takes no new address, and leaves the Trash as it is.
KeepsRoom(t) ==
  /\ \A o \in Objects : Live(o)' => Live(o) \/ step[t].folder = o
  /\ step'[t].folder \in {step[t].folder, NULL} \/ Live(step'[t].folder)
  /\ objectTable'[Trash] = objectTable[Trash]
  /\ MakesTrash(t) => MakesTrash(t)'

LEMMA RoomKept ==
  ASSUME BagAssumption, TrashHasRoom, NEW t \in Threads, OthersGo(t), KeepsRoom(t)
  PROVE  TrashHasRoom'
<1>1. ASSUME NEW o \in Unused  PROVE o \in Unused'
  <2>1. o \in Objects /\ ~Live(o) /\ o # NULL /\ \A u \in Threads : step[u].folder # o
    BY <1>1, BagAssumption DEF Unused, Fresh, BagAssumption
  <2>2. ~Live(o)'
    BY <2>1 DEF KeepsRoom
  <2>3. \A u \in Threads : step'[u].folder # o
    BY <2>1 DEF KeepsRoom, OthersGo
  <2>4. QED  BY <2>1, <2>2, <2>3 DEF Unused, Fresh
<1>2. ASSUME \A u \in Threads : ~MakesTrash(u)'  PROVE \A u \in Threads : ~MakesTrash(u)
  BY <1>2 DEF KeepsRoom, OthersGo, MakesTrash
<1>3. QED  BY <1>1, <1>2 DEF TrashHasRoom, KeepsRoom

LEMMA MoveGoesOn ==
  ASSUME GoInv, NEW t \in Threads, OthersGo(t), alive', Undisposed', References, AtGo(t)',
         TrashHasRoom'
  PROVE  GoInv'
<1>1. ASSUME NEW u \in Threads, u # t  PROVE AtGo(u)'
  BY <1>1 DEF GoInv, AtGo, OthersGo, Undisposed, References
<1>2. QED  BY <1>1 DEF GoInv

\* A step that makes nothing live and does not touch the Trash.
LEMMA QuietRoom ==
  ASSUME NEW t \in Threads, \A o : Live(o)' <=> Live(o), UNCHANGED objectTable, ~MakesTrash(t),
         \/ step'[t].folder \in {step[t].folder, NULL}
         \/ \E k \in Keys : step'[t].folder = objectTable[k] /\ Live(objectTable[k])
  PROVE  KeepsRoom(t)
BY DEF KeepsRoom

\* A thread that goes on to another place has the folder it had.
LEMMA GoFields ==
  ASSUME NEW t \in Threads, step \in [Threads -> Steps], NEW place,
         step' = [step EXCEPT ![t].at = place]
  PROVE  /\ step'[t].at = place /\ step'[t].key = step[t].key /\ step'[t].folder = step[t].folder
         /\ \A u \in Threads : u # t => step'[u] = step[u]
BY DEF Steps

\* A step that changes nothing of what the invariant looks at.
LEMMA SameGoesOn ==
  ASSUME GoInv, UNCHANGED <<vars, step>>
  PROVE  GoInv'
<1>1. /\ pc' = pc /\ holds' = holds /\ arg' = arg /\ ref' = ref /\ alive' = alive
      /\ objectTable' = objectTable /\ step' = step
  BY DEF vars
<1>2. \A u \in Threads : AtGo(u)'
  BY <1>1 DEF GoInv, AtGo
<1>3. Unused' = Unused
  BY <1>1 DEF Unused, Fresh, Live
<1>4. TrashHasRoom'
  BY <1>1, <1>3 DEF GoInv, TrashHasRoom, MakesTrash
<1>5. QED  BY <1>1, <1>2, <1>4 DEF GoInv

\* camel_store_get_folder before it has a folder.
LEMMA GetFolderGoesOn ==
  ASSUME BagAssumption, StoreInv, GoInv, NEW t \in Threads, NEW k \in Keys, GetFolder(t, k)
  PROVE  GoInv'
<1> USE BagAssumption DEF StoreInv, PlaceInv, StoreTypeOK, At, Begin, Idle
<1>1. /\ step[t].at = "idle" /\ ~MakesTrash(t) /\ holds[t] = {}
      /\ IInv /\ TypeOK /\ alive /\ Undisposed
  BY DEF GetFolder, MakesTrash, GoInv, AtGo, Building, Undisposed, IInv, WaitIInv
<1>2. alive' /\ Undisposed' /\ References
  BY <1>1, BagGoesOn DEF GetFolder, BagCall
<1>3. CASE Find(t, k) /\ UNCHANGED step
  <2>1. (\A o : Live(o)' <=> Live(o)) /\ UNCHANGED <<objectTable, arg, holds>>
    BY <1>3, LookUpLives, FindEffect
  <2>2. AtGo(t)' /\ OthersGo(t)
    BY <1>1, <1>2, <1>3, <2>1 DEF AtGo, Building, OthersGo, Undisposed
  <2>3. TrashHasRoom'
    BY <1>1, <1>3, <2>1, <2>2, QuietRoom, RoomKept DEF GoInv
  <2>4. QED  BY <1>2, <2>2, <2>3, MoveGoesOn
<1>4. CASE (ReserveNew(t, k) \/ ReserveBetween(t, k)) /\ Begin(t, "open", k)
  <2>1. /\ step'[t].at = "open" /\ step'[t].key = k /\ step'[t].folder = NULL
        /\ \A u \in Threads : u # t => step'[u] = step[u]
    BY <1>4
  <2>2. /\ UNCHANGED <<objectTable, arg, ref>> /\ holds'[t] = {k}
        /\ \A u \in Threads : u # t => holds'[u] = holds[u]
    BY <1>1, <1>4, ReserveEffect DEF TypeOK
  <2>3. AtGo(t)' /\ OthersGo(t)
    BY <1>2, <2>1, <2>2 DEF AtGo, Building, OthersGo, Undisposed
  <2>4. TrashHasRoom'
    BY <1>1, <2>1, <2>2, <2>3, QuietRoom, RoomKept DEF GoInv, Live
  <2>5. QED  BY <1>2, <2>3, <2>4, MoveGoesOn
<1>5. CASE ReserveWait(t, k) /\ Begin(t, "reserve", k)
  <2>1. /\ step'[t].at = "reserve" /\ step'[t].folder = NULL
        /\ \A u \in Threads : u # t => step'[u] = step[u]
    BY <1>5
  <2>2. /\ UNCHANGED <<objectTable, holds, ref>> /\ arg'[t] = k /\ k # NULL
        /\ \A u \in Threads : u # t => arg'[u] = arg[u]
    BY <1>1, <1>5, WaitEffect DEF TypeOK, BagAssumption
  <2>3. AtGo(t)' /\ OthersGo(t)
    BY <1>1, <1>2, <2>1, <2>2 DEF AtGo, Building, OthersGo, Undisposed
  <2>4. TrashHasRoom'
    BY <1>1, <2>1, <2>2, <2>3, QuietRoom, RoomKept DEF GoInv, Live
  <2>5. QED  BY <1>2, <2>3, <2>4, MoveGoesOn
<1>6. QED  BY <1>3, <1>4, <1>5 DEF GetFolder

LEMMA ResumeReserveGoesOn ==
  ASSUME BagAssumption, StoreInv, GoInv, NEW t \in Threads, ResumeReserve(t)
  PROVE  GoInv'
<1> USE BagAssumption DEF StoreInv, PlaceInv, StoreTypeOK, At, Go, Return, Idle
<1>1. /\ step[t].at = "reserve" /\ ~MakesTrash(t) /\ holds[t] = {} /\ ReserveResume(t)
      /\ IInv /\ TypeOK /\ alive /\ Undisposed
  BY DEF ResumeReserve, MakesTrash, GoInv, AtGo, Building, Undisposed, IInv, WaitIInv
<1>2. alive' /\ Undisposed' /\ References
  BY <1>1, BagGoesOn DEF BagCall
<1>3. arg[t] = step[t].key
  BY <1>1, ReserveResumeEffect DEF AtWait
<1>4. /\ \A o : Live(o)' <=> Live(o)
      /\ objectTable' = objectTable
      /\ \A u \in Threads : u # t => arg'[u] = arg[u] /\ holds'[u] = holds[u]
  BY <1>1, LookUpLives, ReserveResumeEffect DEF TypeOK
<1>5. CASE objectTable[step[t].key] = NULL
  <2>1. /\ step'[t].at = "open" /\ step'[t].key = step[t].key /\ step'[t].folder = step[t].folder
        /\ \A u \in Threads : u # t => step'[u] = step[u]
    <3>1. step' = [step EXCEPT ![t].at = "open"] /\ step \in [Threads -> Steps]
      BY <1>5 DEF ResumeReserve
    <3>2. QED  BY <3>1, GoFields
  <2>2. holds'[t] = {step[t].key}
    BY <1>1, <1>3, <1>5, ReserveResumeEffect DEF TypeOK
  <2>3. AtGo(t)' /\ OthersGo(t)
    BY <1>2, <1>4, <2>1, <2>2 DEF AtGo, Building, OthersGo, Undisposed
  <2>4. TrashHasRoom'
    BY <1>1, <1>4, <2>1, <2>3, QuietRoom, RoomKept DEF GoInv
  <2>5. QED  BY <1>2, <2>3, <2>4, MoveGoesOn
<1>6. CASE objectTable[step[t].key] # NULL
  <2>1. step'[t] = Idle /\ \A u \in Threads : u # t => step'[u] = step[u]
    BY <1>6 DEF ResumeReserve
  <2>2. holds'[t] = {}
    BY <1>1, <1>3, <1>6, ReserveResumeEffect DEF TypeOK
  <2>3. AtGo(t)' /\ OthersGo(t)
    BY <1>2, <1>4, <2>1, <2>2 DEF AtGo, Building, OthersGo, Undisposed
  <2>4. TrashHasRoom'
    BY <1>1, <1>4, <2>1, <2>3, QuietRoom, RoomKept DEF GoInv
  <2>5. QED  BY <1>2, <2>3, <2>4, MoveGoesOn
<1>7. QED  BY <1>5, <1>6

LEMMA WaitsAgainGoesOn ==
  ASSUME StoreInv, GoInv, NEW t \in Threads, WaitsAgain(t)
  PROVE  GoInv'
<1>1. /\ UNCHANGED <<objectTable, arg, holds, ref, step>>
      /\ TypeOK /\ alive /\ Undisposed
  BY WaitAgainEffect DEF WaitsAgain, storeVars, StoreInv, IInv, WaitIInv, GoInv, AtGo, Undisposed
<1>2. alive' /\ Undisposed'
  BY <1>1, BagGoesOn DEF WaitsAgain, BagCall
<1>3. QED
  BY <1>1, <1>2 DEF GoInv, AtGo, TrashHasRoom, MakesTrash, Unused, Fresh, Live, Undisposed

\* A step of a thread that stays a maker of its folder.
LEMMA MakingGoesOn ==
  ASSUME StoreInv, GoInv, NEW t \in Threads,
         UNCHANGED vars, step'[t].key = step[t].key,
         step[t].at \in Building, step'[t].at \in Building,
         \A u \in Threads : u # t => step'[u] = step[u],
         TrashHasRoom'
  PROVE  GoInv'
<1>1. alive' /\ Undisposed' /\ References
  BY DEF GoInv, AtGo, Undisposed, References, vars
<1>2. AtGo(t)' /\ OthersGo(t)
  BY <1>1 DEF GoInv, AtGo, OthersGo, Building, Undisposed, vars
<1>3. QED  BY <1>1, <1>2, MoveGoesOn

LEMMA OpenGoesOn ==
  ASSUME BagAssumption, StoreInv, GoInv, NEW t \in Threads, Open(t)
  PROVE  GoInv'
<1> USE BagAssumption DEF StoreInv, PlaceInv, StoreTypeOK, At, Go
<1>1. step[t].at = "open" /\ step[t].key # Trash /\ UNCHANGED vars /\ ~MakesTrash(t)
  BY DEF Open, MakesTrash
<1>2. UNCHANGED objectTable /\ \A o : Live(o)' <=> Live(o)
  BY <1>1 DEF vars, Live
<1>3. OthersGo(t) <=> \A u \in Threads : u # t => step'[u] = step[u]
  BY <1>1 DEF OthersGo, vars
<1>4. CASE step' = [step EXCEPT ![t].at = "abort"]
  <2>1. /\ step'[t].at = "abort" /\ step'[t].key = step[t].key /\ step'[t].folder = step[t].folder
        /\ \A u \in Threads : u # t => step'[u] = step[u]
    BY <1>4
  <2>2. TrashHasRoom'
    BY <1>1, <1>2, <1>3, <2>1, QuietRoom, RoomKept DEF GoInv
  <2>3. QED  BY <1>1, <2>1, <2>2, MakingGoesOn DEF Building
<1>5. CASE Cardinality(Unused) > 1
           /\ step' = [step EXCEPT ![t].at = "look", ![t].folder = NewFolder]
  <2>1. /\ step'[t].at = "look" /\ step'[t].key = step[t].key /\ step'[t].folder = NewFolder
        /\ \A u \in Threads : u # t => step'[u] = step[u]
    BY <1>5
  <2>2. PICK o \in Unused : o # NewFolder
    <3>1. Unused # {} /\ Unused # {NewFolder}
      <4>1. Cardinality({}) = 0 /\ Cardinality({NewFolder}) = 1
        BY FS_EmptySet, FS_Singleton
      <4>2. Cardinality(Unused) # 0 /\ Cardinality(Unused) # 1
        BY <1>5
      <4>3. QED  BY <4>1, <4>2, Zenon
    <3>2. QED  BY <3>1
  <2>3. o \in Unused'
    BY <1>2, <2>1, <2>2 DEF Unused, Fresh
  <2>4. TrashHasRoom'
    BY <2>3 DEF TrashHasRoom
  <2>5. QED  BY <1>1, <2>1, <2>4, MakingGoesOn DEF Building
<1>6. QED  BY <1>4, <1>5 DEF Open

\* The Trash is made, and filled; a folder is given to a Trash that is open.
LEMMA FillTrashGoesOn ==
  ASSUME BagAssumption, StoreInv, GoInv, NEW t \in Threads, FillTrash(t) \/ Join(t)
  PROVE  GoInv'
<1> USE BagAssumption DEF StoreInv, PlaceInv, StoreTypeOK, At, Go
<1>1. /\ step[t].at \in {"fill", "join"} /\ UNCHANGED vars
      /\ step[t].at = "fill" => step[t].key = Trash
      /\ step' = [step EXCEPT ![t].at = "add"]
  BY DEF FillTrash, Join, AtBuild
<1>2. /\ step'[t].at = "add" /\ step'[t].key = step[t].key /\ step'[t].folder = step[t].folder
      /\ \A u \in Threads : u # t => step'[u] = step[u]
  BY <1>1
<1>3. KeepsRoom(t) /\ OthersGo(t)
  BY <1>1, <1>2 DEF KeepsRoom, OthersGo, MakesTrash, vars, Live
<1>4. TrashHasRoom'
  BY <1>3, RoomKept DEF GoInv
<1>5. QED  BY <1>1, <1>2, <1>4, MakingGoesOn DEF Building

LEMMA ListFoldersGoesOn ==
  ASSUME BagAssumption, StoreInv, GoInv, NEW t \in Threads, ListFolders(t)
  PROVE  GoInv'
<1> USE BagAssumption DEF StoreInv, PlaceInv, StoreTypeOK, At
<1>1. /\ step[t].at = "open" /\ List(t)
      /\ step' = [step EXCEPT ![t].at = "fill", ![t].folder = NewFolder]
      /\ TypeOK /\ alive /\ Undisposed
  BY DEF ListFolders, GoInv, AtGo, Undisposed, IInv, WaitIInv
<1>2. alive' /\ Undisposed' /\ References
  BY <1>1, BagGoesOn DEF BagCall
<1>3. UNCHANGED <<holds, arg>>
  BY <1>1, ListEffect
<1>4. /\ step'[t].at = "fill" /\ step'[t].key = step[t].key
      /\ \A u \in Threads : u # t => step'[u] = step[u]
  BY <1>1
<1>5. AtGo(t)' /\ OthersGo(t)
  BY <1>1, <1>2, <1>3, <1>4 DEF GoInv, AtGo, Building, OthersGo, Undisposed
<1>6. MakesTrash(t)'
  BY <1>4 DEF MakesTrash
<1>7. TrashHasRoom'
  BY <1>6 DEF TrashHasRoom
<1>8. QED  BY <1>2, <1>5, <1>7, MoveGoesOn

\* Both look-ups of the Trash.
LEMMA LookUpTrashGoesOn ==
  ASSUME BagAssumption, StoreAssumption, StoreInv, GoInv, NEW t \in Threads,
         NEW here, NEW absent, NEW present, LookUpTrash(t, here, absent, present),
         \/ here = "look" /\ absent = "add" /\ present = "join"
         \/ here = "leave" /\ absent = "delete" /\ present = "left"
  PROVE  GoInv'
<1> USE BagAssumption DEF StoreInv, PlaceInv, StoreTypeOK, At, Go
<1>1. /\ step[t].at = here /\ Trash \in Keys /\ ~MakesTrash(t)
      /\ here = "look" => step[t].key # Trash
      /\ IInv /\ TypeOK /\ alive /\ Undisposed
  BY StoreAssumption
     DEF LookUpTrash, MakesTrash, AtBuild, Named, GoInv, AtGo, Undisposed, IInv, WaitIInv
<1>2. alive' /\ Undisposed' /\ References
  BY <1>1, BagGoesOn DEF LookUpTrash, BagCall
<1>3. ASSUME \A o : Live(o)' <=> Live(o), UNCHANGED <<objectTable, holds>>,
             \A u \in Threads : u # t => step'[u] = step[u] /\ arg'[u] = arg[u],
             step'[t].key = step[t].key, step'[t].folder = step[t].folder,
             step'[t].at \in {here, absent, present}
      PROVE  GoInv'
  <2>1. AtGo(t)' /\ OthersGo(t)
    <3>1. OthersGo(t)
      BY <1>3 DEF OthersGo
    <3>2. AtGo(t) /\ pc'[t] \notin Disposing /\ ref[t] \subseteq ref'[t]
      BY <1>2 DEF GoInv, Undisposed, References
    <3>3. AtGo(t)'
      BY <1>1, <1>3, <3>2 DEF AtGo, Building
    <3>4. QED  BY <3>1, <3>3
  <2>2. TrashHasRoom'
    BY <1>1, <1>3, <2>1, QuietRoom, RoomKept DEF GoInv
  <2>3. QED  BY <1>2, <2>1, <2>2, MoveGoesOn
<1>4. CASE UNCHANGED vars /\ Go(t, absent)
  <2>1. (\A o : Live(o)' <=> Live(o)) /\ UNCHANGED <<objectTable, holds, arg>>
    BY <1>4 DEF vars, Live
  <2>2. QED  BY <1>3, <1>4, <2>1
<1>5. CASE GetBetween(t, Trash) /\ Go(t, absent)
  <2>1. (\A o : Live(o)' <=> Live(o)) /\ UNCHANGED <<objectTable, holds, arg>>
    BY <1>1, <1>5, GetBetweenEffect DEF Live
  <2>2. QED  BY <1>3, <1>5, <2>1
<1>6. CASE Find(t, Trash)
           /\ step' = [step EXCEPT ![t].at = present, ![t].trash = objectTable[Trash]]
  <2>1. (\A o : Live(o)' <=> Live(o)) /\ UNCHANGED <<objectTable, holds, arg>>
    BY <1>1, <1>6, LookUpLives, FindEffect
  <2>2. QED  BY <1>3, <1>6, <2>1
<1>7. CASE GetWait(t, Trash) /\ UNCHANGED step
  <2>1. /\ \A o : Live(o)' <=> Live(o)
        /\ UNCHANGED <<objectTable, holds>>
        /\ \A u \in Threads : u # t => arg'[u] = arg[u]
    BY <1>1, <1>7, WaitEffect DEF Live, TypeOK
  <2>2. QED  BY <1>1, <1>3, <1>7, <2>1
<1>8. CASE GetResume(t)
           /\ step' = [step EXCEPT ![t].at = IF objectTable[Trash] = NULL THEN absent ELSE present,
                                   ![t].trash = objectTable[Trash]]
  <2>1. /\ \A o : Live(o)' <=> Live(o)
        /\ UNCHANGED <<objectTable, holds>>
        /\ \A u \in Threads : u # t => arg'[u] = arg[u]
    BY <1>1, <1>8, LookUpLives, GetResumeEffect DEF TypeOK
  <2>2. QED  BY <1>3, <1>8, <2>1
<1>9. QED  BY <1>4, <1>5, <1>6, <1>7, <1>8 DEF LookUpTrash

\* The reservation is given up, with the folder in the bag or without one.
LEMMA AddOrAbortGoesOn ==
  ASSUME BagAssumption, StoreAssumption, StoreInv, GoInv, NEW t \in Threads, AddOrAbort(t)
  PROVE  GoInv'
<1> USE BagAssumption DEF StoreInv, PlaceInv, StoreTypeOK, At, Return, Idle
<1>1. /\ step[t].at \in {"add", "abort"} /\ holds[t] = {step[t].key} /\ step[t].key \in Keys
      /\ IInv /\ TypeOK /\ alive /\ Undisposed
  BY DEF AddOrAbort, GoInv, AtGo, Building, Undisposed, IInv, WaitIInv, TypeOK
<1>2. step'[t] = Idle /\ \A u \in Threads : u # t => step'[u] = step[u]
  BY DEF AddOrAbort
<1>3. CASE At(t, "add") /\ Add(t, step[t].key, step[t].folder)
  <2>1. step[t].folder \in Objects
    BY <1>3 DEF AtMake, Making
  <2>2. alive' /\ Undisposed' /\ References
    BY <1>1, <1>3, <2>1, BagGoesOn DEF BagCall
  <2>3. /\ UNCHANGED arg
        /\ objectTable' = [objectTable EXCEPT ![step[t].key] = step[t].folder]
        /\ holds' = [holds EXCEPT ![t] = @ \ {step[t].key}]
        /\ ref' = [ref EXCEPT ![t] = @ \cup {step[t].folder}]
    BY <1>1, <1>3, <2>1, AddEffect
  <2>4. AtGo(t)' /\ OthersGo(t)
    BY <1>1, <1>2, <2>2, <2>3 DEF AtGo, Building, OthersGo, Undisposed, TypeOK
  <2>5. CASE step[t].key = Trash
    <3>1. objectTable'[Trash] # NULL
      BY <1>1, <2>1, <2>3, <2>5 DEF TypeOK, BagAssumption
    <3>2. QED  BY <2>2, <2>4, <3>1, MoveGoesOn DEF TrashHasRoom
  <2>6. CASE step[t].key # Trash
    <3>1. ~MakesTrash(t) /\ objectTable'[Trash] = objectTable[Trash]
      BY <1>3, <2>3, <2>6, StoreAssumption DEF MakesTrash, TypeOK, StoreAssumption
    <3>2. \A o \in Objects : Live(o)' => Live(o) \/ step[t].folder = o
      BY <2>3 DEF Live, TypeOK
    <3>3. KeepsRoom(t)
      BY <1>2, <3>1, <3>2 DEF KeepsRoom
    <3>4. QED  BY <2>2, <2>4, <3>3, RoomKept, MoveGoesOn DEF GoInv
  <2>7. QED  BY <2>5, <2>6
<1>4. CASE At(t, "abort") /\ Abort(t, step[t].key)
  <2>1. alive' /\ Undisposed' /\ References
    BY <1>1, <1>4, BagGoesOn DEF BagCall
  <2>2. UNCHANGED <<objectTable, arg, ref>> /\ holds' = [holds EXCEPT ![t] = @ \ {step[t].key}]
    BY <1>1, <1>4, AbortEffect
  <2>3. AtGo(t)' /\ OthersGo(t)
    BY <1>1, <1>2, <2>1, <2>2 DEF AtGo, Building, OthersGo, Undisposed, TypeOK
  <2>4. TrashHasRoom'
    BY <1>2, <1>4, <2>2, <2>3, QuietRoom, RoomKept DEF GoInv, Live, MakesTrash
  <2>5. QED  BY <2>1, <2>3, <2>4, MoveGoesOn
<1>5. QED  BY <1>3, <1>4 DEF AddOrAbort

\* camel_store_create_folder, delete_folder and rename_folder.  A step of a
\* thread that leaves its bag alone and makes nothing:
LEMMA QuietGoesOn ==
  ASSUME BagAssumption, StoreInv, GoInv, NEW t \in Threads, UNCHANGED vars,
         \A u \in Threads : u # t => step'[u] = step[u],
         ~MakesTrash(t), step'[t].folder \in {step[t].folder, NULL}, AtGo(t)'
  PROVE  GoInv'
<1>1. alive' /\ Undisposed' /\ References /\ OthersGo(t)
  BY DEF GoInv, AtGo, Undisposed, References, OthersGo, vars
<1>2. KeepsRoom(t)
  BY QuietRoom DEF vars, Live
<1>3. QED  BY <1>1, <1>2, RoomKept, MoveGoesOn DEF GoInv

LEMMA DeletingGoesOn ==
  ASSUME BagAssumption, StoreInv, GoInv, NEW t \in Threads,
         \/ \E k \in Keys : CreateFolder(t, k) \/ DeleteFolder(t, k)
         \/ Leave(t) \/ MarkDeleted(t)
  PROVE  GoInv'
<1> USE BagAssumption DEF StoreInv, PlaceInv, StoreTypeOK, At, Begin, Go, Idle
<1>1. CASE \E k \in Keys : CreateFolder(t, k)
  <2>1. UNCHANGED <<vars, step>>
    BY <1>1 DEF CreateFolder
  <2>2. QED  BY <2>1, SameGoesOn
<1>2. ASSUME NEW k \in Keys, DeleteFolder(t, k)  PROVE GoInv'
  <2>1. /\ step[t].at = "idle" /\ UNCHANGED vars
        /\ step' = [step EXCEPT ![t] = [Idle EXCEPT !.at = "cached", !.key = k]]
    BY <1>2 DEF DeleteFolder
  <2>2. /\ step'[t].at = "cached" /\ step'[t].folder = NULL
        /\ \A u \in Threads : u # t => step'[u] = step[u]
    BY <2>1
  <2>3. AtGo(t)' /\ ~MakesTrash(t)
    BY <2>1, <2>2 DEF GoInv, AtGo, Building, MakesTrash, vars
  <2>4. QED  BY <2>1, <2>2, <2>3, QuietGoesOn
<1>3. CASE Leave(t) \/ MarkDeleted(t)
  <2>1. /\ step[t].at \in {"left", "delete"} /\ UNCHANGED vars
        /\ \/ step' = [step EXCEPT ![t].at = "delete"]
           \/ step' = [step EXCEPT ![t].at = "remove"]
    BY <1>3 DEF Leave, MarkDeleted
  <2>2. /\ step'[t].at \in {"delete", "remove"} /\ step'[t].folder = step[t].folder
        /\ \A u \in Threads : u # t => step'[u] = step[u]
    <3>1. step \in [Threads -> Steps]
      OBVIOUS
    <3>2. QED  BY <2>1, <3>1, GoFields
  <2>3. AtGo(t)' /\ ~MakesTrash(t)
    BY <2>1, <2>2 DEF GoInv, AtGo, Building, MakesTrash, vars
  <2>4. QED  BY <2>1, <2>2, <2>3, QuietGoesOn
<1>4. QED  BY <1>1, <1>2, <1>3

LEMMA RenameFolderGoesOn ==
  ASSUME BagAssumption, StoreInv, GoInv, NEW t \in Threads,
         NEW old \in Named, NEW new \in Named, RenameFolder(t, old, new)
  PROVE  GoInv'
<1> USE BagAssumption DEF StoreInv, PlaceInv, StoreTypeOK, At
<1>1. /\ step[t].at = "idle" /\ List(t) /\ ~MakesTrash(t) /\ holds[t] = {}
      /\ old \in Keys /\ IInv /\ TypeOK /\ alive /\ Undisposed
  BY DEF RenameFolder, MakesTrash, GoInv, AtGo, Building, Undisposed, IInv, WaitIInv, Named
<1>2. alive' /\ Undisposed' /\ References
  BY <1>1, BagGoesOn DEF BagCall
<1>3. /\ step'[t].at = "rekey" /\ step'[t].folder = objectTable[old]
      /\ \A u \in Threads : u # t => step'[u] = step[u]
  BY DEF RenameFolder, Idle
<1>4. /\ UNCHANGED <<objectTable, arg, holds>> /\ \A o : Live(o)' <=> Live(o)
      /\ ref'[t] = ref[t] \cup ({objectTable[k] : k \in Keys} \ {NULL})
  BY <1>1, ListEffect, LookUpLives DEF TypeOK
<1>5. AtGo(t)' /\ OthersGo(t)
  BY <1>1, <1>2, <1>3, <1>4 DEF AtGo, Building, OthersGo, Undisposed
<1>6. objectTable[old] = NULL \/ Live(objectTable[old])
  BY <1>1, BoundLive
<1>7. KeepsRoom(t)
  BY <1>1, <1>3, <1>4, <1>6, QuietRoom
<1>8. QED  BY <1>2, <1>5, <1>7, RoomKept, MoveGoesOn DEF GoInv

LEMMA GetCachedGoesOn ==
  ASSUME BagAssumption, StoreInv, GoInv, NEW t \in Threads, GetCached(t)
  PROVE  GoInv'
<1> USE BagAssumption DEF StoreInv, PlaceInv, StoreTypeOK, At, Unlock, Return, Idle
<1> DEFINE o == objectTable[step[t].key]
<1>1. /\ step[t].at = "cached" /\ ~MakesTrash(t) /\ holds[t] = {} /\ step[t].key \in Keys
      /\ IInv /\ TypeOK /\ alive /\ Undisposed
  BY DEF GetCached, MakesTrash, GoInv, AtGo, Building, Undisposed, IInv, WaitIInv, AtLock,
         Locking, Named
<1>2. alive' /\ Undisposed' /\ References
  BY <1>1, BagGoesOn DEF GetCached, BagCall
<1>3. ASSUME \A p : Live(p)' <=> Live(p), UNCHANGED <<objectTable, holds>>,
             \A u \in Threads : u # t => step'[u] = step[u] /\ arg'[u] = arg[u],
             \/ step'[t] = Idle \/ step'[t] = step[t]
             \/ step'[t].at = "leave" /\ step'[t].folder = o /\ o \in ref'[t] /\ Live(o)
      PROVE  GoInv'
  <2>1. AtGo(t)' /\ OthersGo(t)
    <3>1. OthersGo(t)
      BY <1>3 DEF OthersGo
    <3>2. pc'[t] \notin Disposing
      BY <1>2 DEF Undisposed
    <3>3. holds'[t] = {}
      BY <1>1, <1>3
    <3>4. \/ step'[t].at \in {"idle", "cached"}
          \/ step'[t].at = "leave" /\ step'[t].folder \in ref'[t]
      BY <1>1, <1>3
    <3>5. AtGo(t)'
      BY <3>2, <3>3, <3>4 DEF AtGo, Building
    <3>6. QED  BY <3>1, <3>5
  <2>2. KeepsRoom(t)
    BY <1>1, <1>3, QuietRoom
  <2>3. QED  BY <1>2, <2>1, <2>2, RoomKept, MoveGoesOn DEF GoInv
<1>4. o # NULL => Live(o)
  BY <1>1, BoundLive
<1>5. CASE UNCHANGED vars /\ Unlock(t)
  BY <1>3, <1>5 DEF vars, Live
<1>6. CASE GetBetween(t, step[t].key) /\ Unlock(t)
  <2>1. UNCHANGED <<objectTable, arg, holds, ref>>
    BY <1>1, <1>6, GetBetweenEffect
  <2>2. QED  BY <1>3, <1>6, <2>1 DEF Live
<1>7. CASE Find(t, step[t].key)
           /\ step' = [step EXCEPT ![t].at = "leave", ![t].folder = o]
  <2>1. UNCHANGED <<objectTable, arg, holds>> /\ o \in ref'[t]
    BY <1>1, <1>7, FindEffect DEF TypeOK
  <2>2. \A p : Live(p)' <=> Live(p)
    BY <1>1, <1>7, LookUpLives
  <2>3. o # NULL
    BY <1>7 DEF Find
  <2>4. QED  BY <1>3, <1>4, <1>7, <2>1, <2>2, <2>3
<1>8. CASE GetWait(t, step[t].key) /\ UNCHANGED <<step, lock>>
  <2>1. UNCHANGED <<objectTable, holds, ref>> /\ \A u \in Threads : u # t => arg'[u] = arg[u]
    BY <1>1, <1>8, WaitEffect DEF TypeOK
  <2>2. QED  BY <1>3, <1>8, <2>1 DEF Live
<1>9. CASE GetResume(t)
  <2>1. /\ UNCHANGED <<objectTable, holds>> /\ arg[t] = step[t].key
        /\ o # NULL => o \in ref'[t]
        /\ \A u \in Threads : u # t => arg'[u] = arg[u]
    BY <1>1, <1>9, GetResumeEffect DEF TypeOK, AtWait
  <2>2. \A p : Live(p)' <=> Live(p)
    BY <1>1, <1>9, LookUpLives
  <2>3. CASE o = NULL /\ Unlock(t)
    BY <1>3, <2>1, <2>2, <2>3
  <2>4. CASE o # NULL /\ step' = [step EXCEPT ![t].at = "leave", ![t].folder = o]
    BY <1>3, <1>4, <2>1, <2>2, <2>4
  <2>5. QED
    BY <1>1, <1>9, <2>3, <2>4 DEF GetCached, Find, GetBetween, GetWait, GetResume, MayBlockOn, Woken
<1>10. QED  BY <1>5, <1>6, <1>7, <1>8, <1>9 DEF GetCached

\* The folder is taken out of the bag, or gets its new name there.
LEMMA RemoveCachedGoesOn ==
  ASSUME BagAssumption, StoreAssumption, ~RenameOntoOpen, StoreInv, MailboxInv, GoInv,
         NEW t \in Threads, RemoveCached(t) \/ RekeyRenamed(t)
  PROVE  GoInv'
<1> USE BagAssumption DEF StoreInv, PlaceInv, StoreTypeOK, At, Unlock, Return, Idle
<1>1. /\ step[t].at \in {"remove", "rekey"} /\ ~MakesTrash(t) /\ holds[t] = {}
      /\ Trash \in Keys /\ step[t].key \in Named /\ IInv /\ TypeOK /\ alive /\ Undisposed
  BY StoreAssumption DEF RemoveCached, RekeyRenamed, MakesTrash, GoInv, AtGo, Building,
         Undisposed, IInv, WaitIInv, AtLock, Locking, StoreAssumption
<1>2. step'[t] = Idle /\ \A u \in Threads : u # t => step'[u] = step[u]
  BY DEF RemoveCached, RekeyRenamed
<1>3. /\ UNCHANGED <<arg, holds, ref>> /\ objectTable'[Trash] = objectTable[Trash]
      /\ BagCall(t)
  <2>1. CASE RemoveCached(t)
    <3>1. /\ step[t].folder \in Objects /\ objectTable[step[t].key] = step[t].folder
          /\ Remove(t, step[t].folder)
      BY <2>1 DEF RemoveCached, AtLock
    <3>2. UNCHANGED <<arg, holds, ref>> /\ objectTable' = [objectTable EXCEPT ![step[t].key] = NULL]
      BY <1>1, <3>1, RemoveEffect DEF Named
    <3>3. QED  BY <1>1, <3>1, <3>2 DEF Named, TypeOK, BagCall
  <2>2. CASE RekeyRenamed(t) /\ UNCHANGED vars
    BY <2>2 DEF vars, BagCall
  <2>3. CASE step[t].folder # NULL /\ Rekey(t, step[t].folder, step[t].new) /\ step[t].at = "rekey"
    <3>1. step[t].folder \in Objects /\ step[t].new \in Named /\ step[t].new \in Keys
      BY <2>3 DEF AtLock, Steps, Named
    <3>2. /\ UNCHANGED <<arg, holds, ref>>
          /\ \E j \in Keys :
               /\ objectTable[j] = step[t].folder
               /\ objectTable' = [[objectTable EXCEPT ![j] = NULL] EXCEPT ![step[t].new] = step[t].folder]
      BY <1>1, <2>3, <3>1, RekeyEffect
    <3>3. PICK j \in Keys :
            /\ objectTable[j] = step[t].folder
            /\ objectTable' = [[objectTable EXCEPT ![j] = NULL] EXCEPT ![step[t].new] = step[t].folder]
      BY <3>2
    <3>4. objectTable[step[t].key] = step[t].folder /\ step[t].key \in Keys
      BY <1>1, <2>3 DEF MailboxInv, RenamesAlone, Named
    <3>5. j = step[t].key
      BY <3>1, <3>3, <3>4 DEF IInv, ObjectInv, TablesInverse
    <3>6. objectTable'[Trash] = objectTable[Trash]
      BY <1>1, <3>1, <3>3, <3>5 DEF Named, TypeOK
    <3>7. QED  BY <2>3, <3>1, <3>2, <3>6 DEF BagCall
  <2>4. QED  BY <2>1, <2>2, <2>3 DEF RekeyRenamed
<1>4. alive' /\ Undisposed' /\ References
  BY <1>1, <1>3, BagGoesOn
<1>5. AtGo(t)' /\ OthersGo(t)
  BY <1>1, <1>2, <1>3, <1>4 DEF AtGo, Building, OthersGo, Undisposed
<1>6. KeepsRoom(t)
  BY <1>1, <1>2, <1>3 DEF KeepsRoom, Live
<1>7. QED  BY <1>4, <1>5, <1>6, RoomKept, MoveGoesOn DEF GoInv

LEMMA GoStep ==
  ASSUME BagAssumption, StoreAssumption, ~RenameOntoOpen, StoreInv, MailboxInv, GoInv,
         [StoreNext]_allVars
  PROVE  GoInv'
<1>1. CASE UNCHANGED allVars
  BY <1>1, SameGoesOn DEF allVars, storeVars
<1>2. ASSUME NEW t \in Threads, Call(t)  PROVE GoInv'
  BY <1>2, GetFolderGoesOn, DeletingGoesOn, RenameFolderGoesOn DEF Call
<1>3. ASSUME NEW t \in Threads, Inside(t)  PROVE GoInv'
  <2>1. CASE LookUpTrash(t, "look", "add", "join") \/ LookUpTrash(t, "leave", "delete", "left")
    BY <2>1, LookUpTrashGoesOn
  <2>2. QED
    BY <1>3, <2>1, ResumeReserveGoesOn, WaitsAgainGoesOn, OpenGoesOn, ListFoldersGoesOn,
       FillTrashGoesOn, AddOrAbortGoesOn, GetCachedGoesOn, DeletingGoesOn, RemoveCachedGoesOn
       DEF Inside
<1>4. QED  BY <1>1, <1>2, <1>3 DEF StoreNext

\* A thread that does not wait has what it needs, but for what others are at.
LEMMA OutsideIsReady ==
  ASSUME BagAssumption, StoreAssumption, StoreInv, MailboxInv, GoInv,
         NEW t \in Threads, ~At(t, "idle"), pc[t] \notin Waiting,
         At(t, "open") => step[t].key # Trash,
         ~At(t, "delete")
  PROVE  Ready(t)
<1> USE BagAssumption DEF StoreInv, PlaceInv, StoreTypeOK, At
<1>1. pc[t] \in Woken \/ (pc[t] = "idle" /\ arg[t] = NULL)
  BY DEF GoInv, AtGo, IInv, WaitIInv, WaitInv, TypeOK, PcArg, Phases
<1>2. CASE pc[t] \in Woken
  BY <1>2 DEF Ready
<1>3. CASE pc[t] = "idle" /\ arg[t] = NULL
  <2>1. alive /\ AtGo(t) /\ step[t].at \in Places
    BY DEF GoInv, Steps
  <2>2. CASE step[t].at \in {"open", "fill", "join", "left"}
    BY <1>3, <2>2 DEF Ready
  <2>3. CASE step[t].at \in {"look", "leave"}
    <3>1. \A h \in holds[t] : Rank[h] < Rank[Trash]
      BY <2>1, <2>3, StoreAssumption DEF AtGo, Building, AtBuild, Named, StoreAssumption
    <3>2. QED  BY <1>3, <2>1, <2>3, <3>1 DEF Ready, MayBlockOn
  <2>4. CASE step[t].at = "cached"
    <3>1. holds[t] = {}
      BY <2>1, <2>4 DEF AtGo, Building
    <3>2. QED  BY <1>3, <2>1, <2>4, <3>1 DEF Ready, MayBlockOn
  <2>5. CASE step[t].at = "add"
    <3>1. step[t].key \in holds[t] /\ Fresh(step[t].folder)
      BY <2>5 DEF AtBuild, Building, AtMake, Making, Fresh
    <3>2. QED  BY <1>3, <2>5, <3>1 DEF Ready
  <2>6. CASE step[t].at = "abort"
    <3>1. step[t].key \in holds[t] /\ owner[step[t].key] = t
      BY <2>6, BuildersOwn DEF AtBuild, Building
    <3>2. QED  BY <1>3, <2>6, <3>1 DEF Ready
  <2>7. CASE step[t].at = "remove"
    <3>1. step[t].folder \in ref[t] /\ step[t].key \in Keys /\ step[t].key # NULL
          /\ step[t].folder \in Objects /\ objectTable[step[t].key] = step[t].folder
      BY <2>1, <2>7 DEF AtGo, AtLock, Locking, Named, BagAssumption
    <3>2. keyTable[step[t].folder] # NULL
      BY <3>1 DEF IInv, ObjectInv, TablesInverse
    <3>3. QED  BY <1>3, <2>1, <2>7, <3>1, <3>2 DEF Ready, Uses
  <2>8. CASE step[t].at = "rekey"
    <3>1. objectTable[step[t].new] = NULL /\ step[t].new \notin reserved
      BY <2>8 DEF MailboxInv, RenamesAlone
    <3>2. ASSUME step[t].folder # NULL
          PROVE  step[t].folder \in ref[t] /\ keyTable[step[t].folder] # NULL
      <4>1. step[t].folder \in ref[t] /\ step[t].key \in Keys /\ step[t].key # NULL
            /\ step[t].folder \in Objects /\ objectTable[step[t].key] = step[t].folder
        BY <2>1, <2>8, <3>2
           DEF AtGo, AtLock, Locking, Named, MailboxInv, RenamesAlone, Steps, BagAssumption
      <4>2. QED  BY <4>1 DEF IInv, ObjectInv, TablesInverse
    <3>3. QED  BY <1>3, <2>1, <2>8, <3>1, <3>2 DEF Ready, Uses
  <2>9. step[t].at \notin {"reserve", "idle", "delete"}
    BY <1>3, <2>1 DEF AtGo
  <2>10. QED  BY <2>1, <2>2, <2>3, <2>4, <2>5, <2>6, <2>7, <2>8, <2>9 DEF Places
<1>4. QED  BY <1>1, <1>2, <1>3

\* A thread that makes the Trash and one that deletes a folder wait for others
\* at places from which these can go on.
LEMMA WorkingIsReady ==
  ASSUME BagAssumption, StoreAssumption, StoreInv, MailboxInv, GoInv,
         NEW t \in Threads, ~At(t, "idle"), pc[t] \notin Waiting
  PROVE  \E u \in Threads : Ready(u)
<1> USE BagAssumption DEF StoreInv, PlaceInv, StoreTypeOK, At
<1>1. ASSUME NEW u \in Threads, step[u].at \in {"add", "remove", "fill"}
      PROVE  Ready(u)
  <2>1. pc[u] \notin Waiting
    BY <1>1 DEF AtWait, IInv, WaitIInv, WaitInv, PcArg
  <2>2. QED  BY <1>1, <2>1, OutsideIsReady
<1>2. CASE At(t, "open") /\ step[t].key = Trash
  <2>1. Unused # {}
    <3>1. holds[t] = {Trash} /\ objectTable[Trash] = NULL /\ owner[Trash] = t
      BY <1>2, BuildersOwn DEF GoInv, AtGo, Building
    <3>2. ASSUME NEW u \in Threads, MakesTrash(u)  PROVE FALSE
      <4>1. step[u].key = Trash /\ step[u].at \in {"fill", "add"}
        BY <3>2 DEF MakesTrash, AtBuild
      <4>2. owner[Trash] = u
        BY <4>1, BuildersOwn DEF Building
      <4>3. QED  BY <1>2, <3>1, <4>1, <4>2
    <3>3. QED  BY <3>1, <3>2 DEF GoInv, TrashHasRoom
  <2>2. pc[t] = "idle" /\ alive
    <3>1. arg[t] = NULL
      BY <1>2 DEF AtWait
    <3>2. QED  BY <3>1 DEF GoInv, AtGo, IInv, WaitIInv, WaitInv, TypeOK, PcArg, Phases
  <2>3. CASE Overlooked = {}
    BY <1>2, <2>1, <2>2, <2>3 DEF Ready
  <2>4. CASE Overlooked # {}
    BY <1>1, <2>4 DEF Overlooked
  <2>5. QED  BY <2>3, <2>4
<1>3. CASE At(t, "delete")
  <2>1. pc[t] = "idle"
    <3>1. arg[t] = NULL
      BY <1>3 DEF AtWait
    <3>2. QED  BY <3>1 DEF GoInv, AtGo, IInv, WaitIInv, WaitInv, TypeOK, PcArg, Phases
  <2>2. CASE \A u \in Threads : ~At(u, "fill")
    BY <1>3, <2>1, <2>2 DEF Ready
  <2>3. CASE \E u \in Threads : At(u, "fill")
    BY <1>1, <2>3
  <2>4. QED  BY <2>2, <2>3
<1>4. QED  BY <1>2, <1>3, OutsideIsReady

\* Whoever waits for a key waits for a thread that builds its object, or for one
\* that has been woken; a builder waits for nothing but the Trash, and the
\* builder of the Trash for nothing.
LEMMA WaiterWaitsForOne ==
  ASSUME BagAssumption, StoreInv, GoInv, NEW t \in Threads, arg[t] # NULL
  PROVE  \/ \E u \in Threads : pc[u] \in Woken
         \/ \E u \in Threads : step[u].at \in Building /\ step[u].key = arg[t]
<1>1. PICK k \in reserved : k \in Keys /\ k = arg[t]
  BY DEF StoreInv, IInv, WaitIInv, TypeOK, WaitInv, WaitsOnReserved
<1>2. CASE owner[k] = NULL
  <2>1. \E u \in WaitersOf(k) : pc[u] \in Woken
    BY <1>2 DEF StoreInv, IInv, WaitIInv, WaitInv, NoLostWakeup
  <2>2. QED  BY <2>1 DEF WaitersOf
<1>3. CASE owner[k] # NULL
  <2>1. PICK u \in Threads : owner[k] = u
    BY <1>1, <1>3 DEF StoreInv, IInv, WaitIInv, TypeOK
  <2>2. k \in holds[u]
    BY <1>1, <2>1 DEF StoreInv, IInv, HoldsIsOwner
  <2>3. QED  BY <1>1, <2>2 DEF GoInv, AtGo
<1>4. QED  BY <1>2, <1>3

LEMMA WaitingIsMet ==
  ASSUME BagAssumption, StoreAssumption, StoreInv, MailboxInv, GoInv,
         NEW t \in Threads, ~At(t, "idle")
  PROVE  \E u \in Threads : Ready(u)
<1>1. ASSUME NEW u \in Threads, pc[u] \in Woken  PROVE Ready(u)
  BY <1>1 DEF Ready
<1>2. ASSUME NEW u \in Threads, step[u].at \in Building, arg[u] = NULL
      PROVE  \E v \in Threads : Ready(v)
  <2>1. pc[u] \notin Waiting /\ ~At(u, "idle")
    BY <1>2 DEF StoreInv, IInv, WaitIInv, WaitInv, PcArg, At, Building
  <2>2. QED  BY <2>1, WorkingIsReady
<1>3. ASSUME NEW u \in Threads, step[u].at \in Building, step[u].key = Trash
      PROVE  \E v \in Threads : Ready(v)
  <2>1. arg[u] = NULL
    BY <1>3 DEF StoreInv, PlaceInv, AtWait, AtBuild, Building, Named
  <2>2. QED  BY <1>2, <1>3, <2>1
<1>4. ASSUME NEW u \in Threads, arg[u] = Trash, arg[u] # NULL
      PROVE  \E v \in Threads : Ready(v)
  BY <1>1, <1>3, <1>4, BagAssumption, WaiterWaitsForOne
<1>5. ASSUME NEW u \in Threads, step[u].at \in Building
      PROVE  \E v \in Threads : Ready(v)
  <2>1. arg[u] = NULL \/ arg[u] = Trash
    BY <1>5 DEF StoreInv, PlaceInv, AtWait, Building
  <2>2. QED  BY <1>2, <1>4, <1>5, <2>1
<1>6. CASE arg[t] # NULL
  BY <1>1, <1>5, <1>6, BagAssumption, WaiterWaitsForOne
<1>7. CASE arg[t] = NULL
  <2>1. pc[t] \notin Waiting
    BY <1>7 DEF StoreInv, IInv, WaitIInv, WaitInv, PcArg
  <2>2. QED  BY <2>1, BagAssumption, StoreAssumption, WorkingIsReady
<1>8. QED  BY <1>6, <1>7

\* Threads of a store never wait for one another in a circle, however many there
\* are and whatever they open, delete and rename: a thread that opens a folder
\* asks for the Trash, with its reservation, but the one that makes the Trash
\* asks for nothing, and whoever has CAMEL_STORE_FOLDER_LOCK has reserved
\* nothing (camel_store_get_folder, store_get_special, cs_delete_cached_folder).
THEOREM SomeoneGoesOn ==
  ASSUME ~RenameOntoOpen, "rename" \notin Races
  PROVE  StoreSpec => []SomeoneReady
<1>1. StoreInit => GoInv
  <2> SUFFICES ASSUME StoreInit PROVE GoInv
    OBVIOUS
  <2>1. PICK o \in Objects : TRUE
    BY StoreAssumption DEF StoreAssumption
  <2>2. o \in Unused
    BY BagAssumption DEF StoreInit, Init, Idle, Unused, Fresh, Live, BagAssumption
  <2>3. QED
    BY <2>2 DEF StoreInit, Init, Idle, GoInv, AtGo, TrashHasRoom, Disposing, Building
<1>2. ~RenameOntoOpen /\ "rename" \notin Races
  OBVIOUS
<1>3. StoreInv /\ MailboxInv /\ GoInv /\ [StoreNext]_allVars => GoInv'
  BY <1>2, BagAssumption, StoreAssumption, GoStep
<1>4. StoreInv /\ MailboxInv /\ GoInv => SomeoneReady
  BY BagAssumption, StoreAssumption, WaitingIsMet DEF SomeoneReady
<1>5. StoreSpec => []StoreInv
  BY <1>2, StoreInvariant
<1>6. StoreSpec => []MailboxInv
  BY <1>2, MailboxInvariant
<1>7. QED  BY <1>1, <1>3, <1>4, <1>5, <1>6, PTL DEF StoreSpec
=============================================================================
