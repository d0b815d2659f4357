-------------------------- MODULE CamelStoreFolders --------------------------
(***************************************************************************)
(* camel/camel-store.c: the folders a store has open, kept in its object   *)
(* bag, and the virtual Trash folder made of all of them.  Threads open    *)
(* folders and the Trash, delete folders and rename them; each call is a   *)
(* sequence of calls of the bag (CamelObjectBag), the provider and the     *)
(* Trash, with nothing held in between but, in the last two,               *)
(* CAMEL_STORE_FOLDER_LOCK.                                                *)
(*                                                                         *)
(* The provider (class->get_folder and the like) does what it is asked to  *)
(* in one step, or fails.  Junk, which is made as Trash is, subfolders and *)
(* folders that are closed again (the disposal of CamelObjectBag) are left *)
(* out, and so is CAMEL_STORE_FOLDER_EXCL, which no caller passes.         *)
(***************************************************************************)
EXTENDS CamelObjectBag

CONSTANTS
  Trash,    \* CAMEL_VTRASH_NAME
  Opens,    \* the names each thread opens
  Deletes,  \* the names each thread creates and deletes
  Renames,  \* the pairs <<old, new>> each thread renames
  Races     \* what threads may do in between: "trash", "rename"

ASSUME StoreAssumption ==
  /\ Trash \in Keys
  /\ \A k \in Keys \ {Trash} : Rank[k] < Rank[Trash]   \* Trash is asked for last
  /\ Objects # {}
  /\ Opens \in [Threads -> SUBSET Keys]
  /\ Deletes \in [Threads -> SUBSET (Keys \ {Trash})]
  /\ Renames \in [Threads -> SUBSET ((Keys \ {Trash}) \X (Keys \ {Trash}))]
  /\ Races \subseteq {"trash", "rename"}

VARIABLES
  step,     \* what each thread is about to do, and with which folder
  mailbox,  \* the names that have a mailbox
  lock,     \* the thread that has CAMEL_STORE_FOLDER_LOCK
  sources,  \* the folders a Trash folder is made of
  deleted   \* folders with CAMEL_FOLDER_HAS_BEEN_DELETED

storeVars == <<step, mailbox, lock, sources, deleted>>
allVars   == <<vars, storeVars>>

Idle == [at |-> "idle", key |-> NULL, new |-> NULL, folder |-> NULL, trash |-> NULL]
Named == Keys \ {Trash}

StoreInit ==
  /\ Init
  /\ step = [t \in Threads |-> Idle]
  /\ mailbox \in SUBSET Named
  /\ lock = NULL
  /\ sources = [o \in Objects |-> {}]
  /\ deleted = {}

At(t, place)    == step[t].at = place
Go(t, place)    == step' = [step EXCEPT ![t].at = place]
Return(t)       == step' = [step EXCEPT ![t] = Idle]
Begin(t, place, k) == step' = [step EXCEPT ![t] = [Idle EXCEPT !.at = place, !.key = k]]

\* The address of the next new folder.  Bound: an address is used once, so it
\* does not matter which one is next, and the last one is for Trash.
Unused == {o \in Objects : Fresh(o) /\ \A t \in Threads : step[t].folder # o}
NewFolder == CHOOSE o \in Unused : TRUE

\* Without the race "rename" no other thread asks for a name a rename is about.
Renaming(k) == \E t \in Threads : At(t, "rekey") /\ k \in {step[t].key, step[t].new}
Asks(k) == "rename" \in Races \/ ~Renaming(k)

-----------------------------------------------------------------------------
(* camel_store_get_folder.                                                 *)

\* camel_object_bag_reserve: the open folder, or a reservation.
GetFolder(t, k) ==
  /\ At(t, "idle")
  /\ k \in Opens[t]
  /\ Asks(k)
  /\ \/ /\ Find(t, k)
        /\ UNCHANGED step
     \/ /\ ReserveNew(t, k) \/ ReserveBetween(t, k)
        /\ Begin(t, "open", k)
     \/ /\ ReserveWait(t, k)
        /\ Begin(t, "reserve", k)
  /\ UNCHANGED <<mailbox, lock, sources, deleted>>

\* ... after a wait.
ResumeReserve(t) ==
  /\ At(t, "reserve")
  /\ ReserveResume(t)
  /\ IF objectTable[step[t].key] = NULL THEN Go(t, "open") ELSE Return(t)
  /\ UNCHANGED <<mailbox, lock, sources, deleted>>

\* class->get_folder makes the folder object, if there is such a mailbox.
Open(t) ==
  /\ At(t, "open")
  /\ step[t].key # Trash
  /\ \/ Go(t, "abort")
     \/ /\ step[t].key \in mailbox
        /\ Cardinality(Unused) > 1
        /\ step' = [step EXCEPT ![t].at = "look", ![t].folder = NewFolder]
  /\ UNCHANGED <<vars, mailbox, lock, sources, deleted>>

\* camel_object_bag_get (Trash), here and in cs_delete_cached_folder: what to
\* do without a Trash, and with it.
LookUpTrash(t, here, without, with) ==
  /\ At(t, here)
  /\ \/ /\ objectTable[Trash] = NULL
        /\ Trash \notin reserved
        /\ Go(t, without)
        /\ UNCHANGED vars
     \/ /\ GetBetween(t, Trash)
        /\ Go(t, without)
     \/ /\ Find(t, Trash)
        /\ step' = [step EXCEPT ![t].at = with, ![t].trash = objectTable[Trash]]
     \/ /\ GetWait(t, Trash)
        /\ UNCHANGED step
     \/ /\ GetResume(t)
        /\ step' = [step EXCEPT ![t].at = IF objectTable[Trash] = NULL THEN without ELSE with,
                                ![t].trash = objectTable[Trash]]
  /\ UNCHANGED <<mailbox, lock, sources, deleted>>

\* Mutant: the folder is not given to a Trash folder that is open.
JoinNothing(t) ==
  /\ At(t, "join")
  /\ Go(t, "add")
  /\ UNCHANGED <<vars, mailbox, lock, sources, deleted>>

\* camel_vee_folder_add_folder.
Join(t) ==
  /\ At(t, "join")
  /\ sources' = [sources EXCEPT ![step[t].trash] = @ \cup {step[t].folder}]
  /\ Go(t, "add")
  /\ UNCHANGED <<vars, mailbox, lock, deleted>>

\* Mutant: a reservation whose folder cannot be opened is kept.
AddOnly(t) ==
  /\ \/ At(t, "add") /\ Add(t, step[t].key, step[t].folder)
     \/ At(t, "abort") /\ UNCHANGED vars
  /\ Return(t)
  /\ UNCHANGED <<mailbox, lock, sources, deleted>>

\* camel_object_bag_add, or abort when there is no folder.
AddOrAbort(t) ==
  /\ \/ At(t, "add") /\ Add(t, step[t].key, step[t].folder)
     \/ At(t, "abort") /\ Abort(t, step[t].key)
  /\ Return(t)
  /\ UNCHANGED <<mailbox, lock, sources, deleted>>

\* store_get_special makes the Trash of what the bag lists.  Without the race
\* "trash" this is not while a thread that has found no Trash goes on to add
\* its folder, or to remove it.
Overlooked == {t \in Threads : \/ At(t, "add") /\ step[t].key # Trash /\ step[t].trash = NULL
                               \/ At(t, "remove")}

ListFolders(t) ==
  /\ At(t, "open")
  /\ step[t].key = Trash
  /\ Overlooked # {} => "trash" \in Races
  /\ List(t)
  /\ Unused # {}
  /\ sources' = [sources EXCEPT ![NewFolder] = {objectTable[k] : k \in Named} \ {NULL}]
  /\ step' = [step EXCEPT ![t].at = "fill", ![t].folder = NewFolder]
  /\ UNCHANGED <<mailbox, lock, deleted>>

\* ... and adds them to it; from here on it hears what becomes of them.
FillTrash(t) ==
  /\ At(t, "fill")
  /\ Go(t, "add")
  /\ UNCHANGED <<vars, mailbox, lock, sources, deleted>>

-----------------------------------------------------------------------------
(* camel_store_delete_folder and camel_store_rename_folder, which exclude  *)
(* each other.                                                             *)

Lock(t) == lock = NULL /\ lock' = t

\* camel_store_create_folder: nothing is cached, and the lock is given back.
CreateFolder(t, k) ==
  /\ At(t, "idle")
  /\ k \in Deletes[t] \ mailbox
  /\ lock = NULL
  /\ Asks(k)
  /\ mailbox' = mailbox \cup {k}
  /\ UNCHANGED <<vars, step, lock, sources, deleted>>

\* class->delete_folder.
DeleteFolder(t, k) ==
  /\ At(t, "idle")
  /\ k \in Deletes[t]
  /\ k \in mailbox
  /\ Lock(t)
  /\ mailbox' = mailbox \ {k}
  /\ Begin(t, "cached", k)
  /\ UNCHANGED <<vars, sources, deleted>>

Unlock(t) == lock' = NULL /\ Return(t)

\* Mutant: the folder is looked up without waiting for a thread that opens it.
PeekCached(t) ==
  LET k == step[t].key IN
  /\ At(t, "cached")
  /\ IF objectTable[k] = NULL
     THEN /\ Unlock(t)
          /\ UNCHANGED vars
     ELSE /\ Find(t, k)
          /\ step' = [step EXCEPT ![t].at = "leave", ![t].folder = objectTable[k]]
          /\ UNCHANGED lock
  /\ UNCHANGED <<mailbox, sources, deleted>>

\* cs_delete_cached_folder: camel_object_bag_get of the folder.
GetCached(t) ==
  LET k == step[t].key
      found == /\ step' = [step EXCEPT ![t].at = "leave", ![t].folder = objectTable[k]]
               /\ UNCHANGED lock
  IN
  /\ At(t, "cached")
  /\ \/ objectTable[k] = NULL /\ k \notin reserved /\ UNCHANGED vars /\ Unlock(t)
     \/ GetBetween(t, k) /\ Unlock(t)
     \/ Find(t, k) /\ found
     \/ GetWait(t, k) /\ UNCHANGED <<step, lock>>
     \/ GetResume(t) /\ (IF objectTable[k] = NULL THEN Unlock(t) ELSE found)
  /\ UNCHANGED <<mailbox, sources, deleted>>

\* camel_vee_folder_remove_folder.
Leave(t) ==
  /\ At(t, "left")
  /\ sources' = [sources EXCEPT ![step[t].trash] = @ \ {step[t].folder}]
  /\ Go(t, "delete")
  /\ UNCHANGED <<vars, mailbox, lock, deleted>>

\* camel_folder_delete: every Trash the folder is in drops it on its signal.
MarkDeleted(t) ==
  LET unfilled == {step[u].folder : u \in {w \in Threads : At(w, "fill")}} IN
  /\ At(t, "delete")
  /\ unfilled # {} => "trash" \in Races
  /\ deleted' = deleted \cup {step[t].folder}
  /\ sources' = [o \in Objects |-> IF o \in unfilled THEN sources[o]
                                    ELSE sources[o] \ {step[t].folder}]
  /\ Go(t, "remove")
  /\ UNCHANGED <<vars, mailbox, lock>>

\* camel_object_bag_remove.
RemoveCached(t) ==
  /\ At(t, "remove")
  /\ Remove(t, step[t].folder)
  /\ Unlock(t)
  /\ UNCHANGED <<mailbox, sources, deleted>>

\* The open folder, if there is one, is found first; class->rename_folder then
\* succeeds or the call has changed nothing.
RenameFolder(t, old, new) ==
  /\ At(t, "idle")
  /\ <<old, new>> \in Renames[t]
  /\ old \in mailbox
  /\ new \notin mailbox
  /\ Asks(old) /\ Asks(new)
  /\ {old, new} \cap reserved # {} => "rename" \in Races
  /\ Lock(t)
  /\ List(t)
  /\ mailbox' = (mailbox \ {old}) \cup {new}
  /\ step' = [step EXCEPT ![t] = [Idle EXCEPT !.at = "rekey", !.key = old, !.new = new,
                                              !.folder = objectTable[old]]]
  /\ UNCHANGED <<sources, deleted>>

\* camel_object_bag_rekey and camel_folder_rename.
RekeyRenamed(t) ==
  /\ At(t, "rekey")
  /\ IF step[t].folder = NULL
     THEN UNCHANGED vars
     ELSE Rekey(t, step[t].folder, step[t].new)
  /\ Unlock(t)
  /\ UNCHANGED <<mailbox, sources, deleted>>

-----------------------------------------------------------------------------
\* What a thread does once it is inside a call.
WaitsAgain(t) == WaitAgain(t) /\ UNCHANGED storeVars

Inside(t) ==
  \/ ResumeReserve(t)
  \/ WaitsAgain(t)
  \/ Open(t)
  \/ ListFolders(t)
  \/ FillTrash(t)
  \/ LookUpTrash(t, "look", "add", "join")
  \/ Join(t)
  \/ AddOrAbort(t)
  \/ GetCached(t)
  \/ LookUpTrash(t, "leave", "delete", "left")
  \/ Leave(t)
  \/ MarkDeleted(t)
  \/ RemoveCached(t)
  \/ RekeyRenamed(t)

Call(t) ==
  \/ \E k \in Keys : GetFolder(t, k) \/ CreateFolder(t, k) \/ DeleteFolder(t, k)
  \/ \E old, new \in Named : RenameFolder(t, old, new)

StoreNext == \E t \in Threads : Call(t) \/ Inside(t)

StoreSpec == StoreInit /\ [][StoreNext]_allVars

\* A thread that is inside a call goes on with it; nobody has to make a call.
StoreFairSpec == StoreSpec /\ \A t \in Threads : WF_allVars(Inside(t))

-----------------------------------------------------------------------------
(* Properties.                                                             *)

Leaving(o) == \E t \in Threads : step[t].folder = o /\ step[t].at \in {"leave", "left", "delete", "remove"}

\* "Trash folders [...] are actually virtual search folders that display all
\* messages you have marked for later deletion" (help/C/evolution.xml:1508):
\* an open Trash is made of every open folder, whichever was opened first, and
\* of no deleted one (store_get_special, camel_store_get_folder).
TrashComplete ==
  LET v == objectTable[Trash] IN
  v # NULL => /\ \A k \in Named : \/ objectTable[k] \in sources[v] \cup {NULL}
                                  \/ Leaving(objectTable[k])
              /\ sources[v] \cap deleted = {}

\* A cached folder has a mailbox of its name, but for the time in which the
\* thread that deletes or renames it is at work: a folder opened meanwhile is
\* found too (cs_delete_cached_folder, camel_store_rename_folder).
CachedHasMailbox ==
  \A k \in Named :
    objectTable[k] # NULL /\ k \notin mailbox =>
      \E t \in Threads : step[t].key = k /\ lock = t

\* What a thread that is inside a call needs to go on with it.
Ready(t) ==
  LET now == step[t] IN
  \/ pc[t] \in Woken
  \/ /\ pc[t] = "idle"
     /\ \/ now.at = "open" /\ now.key # Trash
        \/ /\ now.at = "open" /\ now.key = Trash
           /\ alive /\ Unused # {}
           /\ Overlooked = {} \/ "trash" \in Races
        \/ now.at \in {"fill", "join", "left"}
        \/ now.at \in {"look", "leave"} /\ MayBlockOn(t, Trash)
        \/ now.at = "cached" /\ MayBlockOn(t, now.key)
        \/ now.at = "add" /\ now.key \in holds[t] /\ Fresh(now.folder)
        \/ now.at = "abort" /\ now.key \in holds[t] /\ owner[now.key] = t
        \/ now.at = "delete" /\ ((\A u \in Threads : ~At(u, "fill")) \/ "trash" \in Races)
        \/ now.at = "remove" /\ Uses(t, now.folder) /\ keyTable[now.folder] # NULL
        \/ /\ now.at = "rekey"
           /\ now.folder # NULL =>
                /\ Uses(t, now.folder) /\ keyTable[now.folder] # NULL
                /\ RenameOntoOpen \/ (objectTable[now.new] = NULL /\ now.new \notin reserved)

\* Threads that wait for reservations, some of them with a reservation or
\* CAMEL_STORE_FOLDER_LOCK of their own, never wait for one another: as long as
\* a thread is inside a call, one has what it needs,
SomeoneReady == (\E t \in Threads : ~At(t, "idle")) => \E t \in Threads : Ready(t)

\* and it goes on.
NoStandstill ==
  /\ SomeoneReady
  /\ \A t \in Threads : Ready(t) => ENABLED Inside(t)
=============================================================================
