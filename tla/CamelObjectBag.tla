---------------------------- MODULE CamelObjectBag ----------------------------
(***************************************************************************)
(* camel/camel-object-bag.c: the cache that keeps at most one object per   *)
(* key (a folder per name, a service per URL, a stream per cache file) and *)
(* lets one thread at a time build the missing object of a key.            *)
(*                                                                         *)
(* Every function of the file runs under bag->mutex, which g_cond_wait     *)
(* gives up, so one action is one stay inside the mutex.  A thread inside  *)
(* g_cond_wait is "Wait"; a signalled one that has yet to get the mutex    *)
(* back is "Woken".  Between the two any other thread may enter.           *)
(*                                                                         *)
(* GObject (external) is modelled from how the bag uses it: a strong       *)
(* reference is a member of ref[t]; giving up the last one first disposes  *)
(* of the object, which runs the bag's weak notify, and only then looks at *)
(* the count again.  An identity whose object is gone may be used again    *)
(* (the allocator returns the same address).                               *)
(***************************************************************************)
EXTENDS Naturals, FiniteSets

CONSTANTS Threads,        \* threads that use the bag
          Keys,           \* folder names, service URLs, cache file names
          Objects,        \* addresses of GObjects
          Rank,           \* the order in which callers nest reservations
          NULL,           \* a null pointer
          Freed,          \* a key that g_hash_table_insert has freed
          RenameOntoOpen  \* may a caller rekey onto a key that is in use?

ASSUME BagAssumption ==
  /\ IsFiniteSet(Threads)
  /\ Rank \in [Keys -> Nat]
  /\ NULL \notin Threads \cup Keys \cup Objects
  /\ Freed \notin Keys \cup {NULL}
  /\ RenameOntoOpen \in BOOLEAN

VARIABLES
  objectTable,  \* bag->object_table: key -> object
  keyTable,     \* bag->key_table: object -> key
  reserved,     \* keys that have a KeyReservation in bag->reserved
  owner,        \* reservation->owner
  waiters,      \* reservation->waiters
  pc,           \* where each thread is: outside the bag, waiting, disposing
  arg,          \* the key a waiting thread waits for
  holds,        \* keys whose camel_object_bag_reserve() returned NULL to the thread
  ref,          \* objects the thread owns a reference to
  weak,         \* objects that carry the bag's weak reference
  dying,        \* the object a thread is disposing of
  alive         \* between camel_object_bag_new and camel_object_bag_destroy

bagVars    == <<objectTable, keyTable>>
resVars    == <<reserved, owner, waiters>>
objVars    == <<ref, weak, dying>>
vars       == <<objectTable, keyTable, reserved, owner, waiters, pc, arg,
                holds, ref, weak, dying, alive>>

Waiting    == {"getWait", "reserveWait"}
Woken      == {"getWoken", "reserveWoken"}
Disposing  == {"dispose", "notify", "disposed"}
Phases     == {"idle"} \cup Waiting \cup Woken \cup Disposing

Live(o)    == \E t \in Threads : o \in ref[t]
Fresh(o)   == ~Live(o)

Init ==
  /\ objectTable = [k \in Keys |-> NULL]
  /\ keyTable = [o \in Objects |-> NULL]
  /\ reserved = {}
  /\ owner = [k \in Keys |-> NULL]
  /\ waiters = [k \in Keys |-> 0]
  /\ pc = [t \in Threads |-> "idle"]
  /\ arg = [t \in Threads |-> NULL]
  /\ holds = [t \in Threads |-> {}]
  /\ ref = [t \in Threads |-> {}]
  /\ weak = [o \in Objects |-> FALSE]
  /\ dying = [t \in Threads |-> NULL]
  /\ alive = TRUE

-----------------------------------------------------------------------------
(* The two hash tables.                                                    *)

\* g_hash_table_insert into both tables.  object_table owns the keys: when
\* it already has an entry for k it keeps its old key and frees the one it
\* was passed, which is the one key_table was given.
Bind(o, k, keyT, objT) ==
  /\ objectTable' = [objT EXCEPT ![k] = o]
  /\ keyTable' = [keyT EXCEPT ![o] = IF objT[k] = NULL THEN k ELSE Freed]

\* What object_table may look like after g_hash_table_remove by the key that
\* key_table has for o; looking up a freed key may find any entry or none.
WithoutKeyOf(o) ==
  IF keyTable[o] = Freed
  THEN {objectTable} \cup {[objectTable EXCEPT ![k] = NULL] : k \in Keys}
  ELSE {[objectTable EXCEPT ![keyTable[o]] = NULL]}

\* Mutant: the object leaves key_table only.
UnbindKeyTableOnly(o) ==
  /\ keyTable' = [keyTable EXCEPT ![o] = NULL]
  /\ UNCHANGED objectTable

Unbind(o) ==
  /\ objectTable' \in WithoutKeyOf(o)
  /\ keyTable' = [keyTable EXCEPT ![o] = NULL]

-----------------------------------------------------------------------------
(* Reservations.                                                           *)

WokenFrom(p) == IF p = "getWait" THEN "getWoken" ELSE "reserveWoken"

\* Mutant: nobody is signalled.
SignalNobody(k, phase) == pc' = phase

\* g_cond_signal (reservation->cond): wakes one thread, if any waits.
Signal(k, phase) ==
  LET sleepers == {t \in Threads : phase[t] \in Waiting /\ arg[t] = k}
  IN  IF sleepers = {}
      THEN pc' = phase
      ELSE \E t \in sleepers : pc' = [phase EXCEPT ![t] = WokenFrom(@)]

\* Mutant: the reservation is freed whether or not threads wait on it.
UnreserveFrees(k, w, phase) ==
  /\ owner' = [owner EXCEPT ![k] = NULL]
  /\ waiters' = [waiters EXCEPT ![k] = w]
  /\ reserved' = reserved \ {k}
  /\ Signal(k, phase)

\* object_bag_unreserve by the owner; w is the number of waiters left and
\* phase the program counters once the caller has left the bag.
Unreserve(k, w, phase) ==
  /\ owner' = [owner EXCEPT ![k] = NULL]
  /\ waiters' = [waiters EXCEPT ![k] = w]
  /\ IF w > 0
     THEN /\ Signal(k, phase)
          /\ UNCHANGED reserved
     ELSE /\ reserved' = reserved \ {k}
          /\ pc' = phase

\* Callers that hold a reservation ask for another key only upwards in Rank:
\* camel_store_get_folder asks for the trash and junk folders, the vfolder
\* store for the parents of the folder it opens.
MayBlockOn(t, k) ==
  /\ alive
  /\ pc[t] = "idle"
  /\ \A h \in holds[t] : Rank[h] < Rank[k]

WaitFor(t, k, phase) ==
  /\ waiters' = [waiters EXCEPT ![k] = @ + 1]
  /\ pc' = [pc EXCEPT ![t] = phase]
  /\ arg' = [arg EXCEPT ![t] = k]
  /\ UNCHANGED <<bagVars, reserved, owner, holds, objVars, alive>>

\* The object is in the bag: camel_object_bag_get, _peek and _reserve all
\* return it with a new reference, whether or not the key is reserved.
Find(t, k) ==
  /\ MayBlockOn(t, k)
  /\ objectTable[k] # NULL
  /\ ref' = [ref EXCEPT ![t] = @ \cup {objectTable[k]}]
  /\ UNCHANGED <<bagVars, resVars, pc, arg, holds, weak, dying, alive>>

\* camel_object_bag_get on a key another thread has reserved.
GetWait(t, k) ==
  /\ MayBlockOn(t, k)
  /\ objectTable[k] = NULL
  /\ k \in reserved
  /\ owner[k] # NULL
  /\ WaitFor(t, k, "getWait")

\* camel_object_bag_get on a reservation that is between two owners: it does
\* not wait, finds no object and passes the reservation on.
GetBetween(t, k) ==
  /\ MayBlockOn(t, k)
  /\ objectTable[k] = NULL
  /\ k \in reserved
  /\ owner[k] = NULL
  /\ Unreserve(k, waiters[k], pc)
  /\ UNCHANGED <<bagVars, arg, holds, objVars, alive>>

\* A woken thread finds that another one took the reservation meanwhile.
WaitAgain(t) ==
  /\ pc[t] \in Woken
  /\ owner[arg[t]] # NULL
  /\ pc' = [pc EXCEPT ![t] = IF @ = "getWoken" THEN "getWait" ELSE "reserveWait"]
  /\ UNCHANGED <<bagVars, resVars, arg, holds, objVars, alive>>

\* Mutant: get that has found an object does not wake the next waiter.
GetResumeSilently(t) ==
  LET k == arg[t] IN
  /\ pc[t] = "getWoken"
  /\ owner[k] = NULL
  /\ ref' = [ref EXCEPT ![t] = @ \cup ({objectTable[k]} \ {NULL})]
  /\ arg' = [arg EXCEPT ![t] = NULL]
  /\ waiters' = [waiters EXCEPT ![k] = @ - 1]
  /\ pc' = [pc EXCEPT ![t] = "idle"]
  /\ UNCHANGED <<bagVars, reserved, owner, holds, weak, dying, alive>>

\* The rest of camel_object_bag_get after the wait: take the object if there
\* is one, and give the reservation up in either case.
GetResume(t) ==
  LET k == arg[t] IN
  /\ pc[t] = "getWoken"
  /\ owner[k] = NULL
  /\ ref' = [ref EXCEPT ![t] = @ \cup ({objectTable[k]} \ {NULL})]
  /\ arg' = [arg EXCEPT ![t] = NULL]
  /\ Unreserve(k, waiters[k] - 1, [pc EXCEPT ![t] = "idle"])
  /\ UNCHANGED <<bagVars, holds, weak, dying, alive>>

\* camel_object_bag_reserve on a key that is neither in the bag nor reserved.
ReserveNew(t, k) ==
  /\ MayBlockOn(t, k)
  /\ objectTable[k] = NULL
  /\ k \notin reserved
  /\ reserved' = reserved \cup {k}
  /\ owner' = [owner EXCEPT ![k] = t]
  /\ holds' = [holds EXCEPT ![t] = @ \cup {k}]
  /\ UNCHANGED <<bagVars, waiters, pc, arg, objVars, alive>>

ReserveWait(t, k) ==
  /\ MayBlockOn(t, k)
  /\ objectTable[k] = NULL
  /\ k \in reserved
  /\ owner[k] # NULL
  /\ WaitFor(t, k, "reserveWait")

\* camel_object_bag_reserve that arrives between two owners takes the
\* reservation before the thread that was signalled for it.
ReserveBetween(t, k) ==
  /\ MayBlockOn(t, k)
  /\ objectTable[k] = NULL
  /\ k \in reserved
  /\ owner[k] = NULL
  /\ owner' = [owner EXCEPT ![k] = t]
  /\ holds' = [holds EXCEPT ![t] = @ \cup {k}]
  /\ UNCHANGED <<bagVars, reserved, waiters, pc, arg, objVars, alive>>

\* What reserve does when it keeps the reservation it waited for.
TakeOver(t, k) ==
  /\ owner' = [owner EXCEPT ![k] = t]
  /\ waiters' = [waiters EXCEPT ![k] = @ - 1]
  /\ arg' = [arg EXCEPT ![t] = NULL]
  /\ pc' = [pc EXCEPT ![t] = "idle"]
  /\ holds' = [holds EXCEPT ![t] = @ \cup {k}]
  /\ UNCHANGED <<bagVars, reserved, objVars, alive>>

\* Mutant: "if" in the place of "while" around g_cond_wait.
ReserveResumeIf(t) ==
  /\ pc[t] = "reserveWoken"
  /\ objectTable[arg[t]] = NULL
  /\ TakeOver(t, arg[t])

\* Mutant: the object table is not looked at again after the wait.
ReserveResumeBlind(t) ==
  /\ pc[t] = "reserveWoken"
  /\ owner[arg[t]] = NULL
  /\ TakeOver(t, arg[t])

\* The rest of camel_object_bag_reserve after the wait: either the object is
\* there now and the reservation goes on to the next, or the thread keeps it.
ReserveResume(t) ==
  LET k == arg[t] IN
  /\ pc[t] = "reserveWoken"
  /\ owner[k] = NULL
  /\ IF objectTable[k] = NULL
     THEN TakeOver(t, k)
     ELSE /\ arg' = [arg EXCEPT ![t] = NULL]
          /\ ref' = [ref EXCEPT ![t] = @ \cup {objectTable[k]}]
          /\ Unreserve(k, waiters[k] - 1, [pc EXCEPT ![t] = "idle"])
          /\ UNCHANGED <<bagVars, holds, weak, dying, alive>>

\* g_cond_wait may return without a signal.
SpuriousWakeup(t) ==
  /\ pc[t] \in Waiting
  /\ pc' = [pc EXCEPT ![t] = WokenFrom(@)]
  /\ UNCHANGED <<bagVars, resVars, arg, holds, objVars, alive>>

\* Mutant: the object gets no weak reference.
AddWithoutWeakRef(t, k, o) ==
  /\ pc[t] = "idle"
  /\ k \in holds[t]
  /\ Fresh(o)
  /\ ref' = [ref EXCEPT ![t] = @ \cup {o}]
  /\ Bind(o, k, keyTable, objectTable)
  /\ holds' = [holds EXCEPT ![t] = @ \ {k}]
  /\ Unreserve(k, waiters[k], pc)
  /\ UNCHANGED <<arg, weak, dying, alive>>

\* The caller that got NULL from reserve creates the object and calls
\* camel_object_bag_add.  An object that is in key_table already would leave
\* the reservation behind.
Add(t, k, o) ==
  /\ pc[t] = "idle"
  /\ k \in holds[t]
  /\ Fresh(o)
  /\ ref' = [ref EXCEPT ![t] = @ \cup {o}]
  /\ IF keyTable[o] = NULL
     THEN /\ Bind(o, k, keyTable, objectTable)
          /\ weak' = [weak EXCEPT ![o] = TRUE]
          /\ holds' = [holds EXCEPT ![t] = @ \ {k}]
          /\ Unreserve(k, waiters[k], pc)
     ELSE UNCHANGED <<bagVars, resVars, pc, holds, weak>>
  /\ UNCHANGED <<arg, dying, alive>>

\* camel_object_bag_abort: the object could not be created.
Abort(t, k) ==
  /\ pc[t] = "idle"
  /\ k \in holds[t]
  /\ owner[k] = t
  /\ holds' = [holds EXCEPT ![t] = @ \ {k}]
  /\ Unreserve(k, waiters[k], pc)
  /\ UNCHANGED <<bagVars, arg, objVars, alive>>

-----------------------------------------------------------------------------
(* Calls on an object that the caller has a reference to.                  *)

Uses(t, o) ==
  /\ alive
  /\ pc[t] = "idle"
  /\ o \in ref[t]

\* camel_object_bag_remove of an object that is in the bag.
Remove(t, o) ==
  /\ Uses(t, o)
  /\ keyTable[o] # NULL
  /\ weak' = [weak EXCEPT ![o] = FALSE]
  /\ Unbind(o)
  /\ UNCHANGED <<resVars, pc, arg, holds, ref, dying, alive>>

\* camel_object_bag_rekey.  The code lets the caller name any key; without
\* RenameOntoOpen the caller only names one that nobody has or opens.
Rekey(t, o, k) ==
  /\ Uses(t, o)
  /\ keyTable[o] # NULL
  /\ RenameOntoOpen \/ (objectTable[k] = NULL /\ k \notin reserved)
  /\ \E objT \in WithoutKeyOf(o) : Bind(o, k, keyTable, objT)
  /\ UNCHANGED <<resVars, pc, arg, holds, objVars, alive>>

\* camel_object_bag_list: a reference to everything in the bag.
List(t) ==
  /\ alive
  /\ pc[t] = "idle"
  /\ ref' = [ref EXCEPT ![t] = @ \cup ({objectTable[k] : k \in Keys} \ {NULL})]
  /\ UNCHANGED <<bagVars, resVars, pc, arg, holds, weak, dying, alive>>

-----------------------------------------------------------------------------
(* g_object_unref.                                                         *)

\* Not the last reference.
Unref(t, o) ==
  /\ pc[t] = "idle"
  /\ o \in ref[t]
  /\ \E u \in Threads \ {t} : o \in ref[u]
  /\ ref' = [ref EXCEPT ![t] = @ \ {o}]
  /\ UNCHANGED <<bagVars, resVars, pc, arg, holds, weak, dying, alive>>

\* The last reference: the object is disposed of while it still counts.
StartDispose(t, o) ==
  /\ pc[t] = "idle"
  /\ o \in ref[t]
  /\ \A u \in Threads \ {t} : o \notin ref[u]
  /\ pc' = [pc EXCEPT ![t] = "dispose"]
  /\ dying' = [dying EXCEPT ![t] = o]
  /\ UNCHANGED <<bagVars, resVars, arg, holds, ref, weak, alive>>

\* The weak references are taken off the object before they are notified.
TakeWeakRefs(t) ==
  /\ pc[t] = "dispose"
  /\ weak' = [weak EXCEPT ![dying[t]] = FALSE]
  /\ pc' = [pc EXCEPT ![t] = IF weak[dying[t]] THEN "notify" ELSE "disposed"]
  /\ UNCHANGED <<bagVars, resVars, arg, holds, ref, dying, alive>>

\* object_bag_notify: the first point at which the bag learns of it.
Notify(t) ==
  /\ pc[t] = "notify"
  /\ pc' = [pc EXCEPT ![t] = "disposed"]
  /\ IF keyTable[dying[t]] # NULL
     THEN Unbind(dying[t])
     ELSE UNCHANGED bagVars
  /\ UNCHANGED <<resVars, arg, holds, objVars, alive>>

\* The count is looked at again: the object goes, unless another thread has
\* taken a reference in between.
Drop(t) ==
  /\ pc[t] = "disposed"
  /\ ref' = [ref EXCEPT ![t] = @ \ {dying[t]}]
  /\ dying' = [dying EXCEPT ![t] = NULL]
  /\ pc' = [pc EXCEPT ![t] = "idle"]
  /\ UNCHANGED <<bagVars, resVars, arg, holds, weak, alive>>

-----------------------------------------------------------------------------
(* The life of the bag.                                                    *)

\* camel_object_bag_destroy refuses while keys are reserved.  Its callers
\* (the finalizers of store, session and data cache) see to it that no
\* notify of the bag is running.
Destroy ==
  /\ alive
  /\ reserved = {}
  /\ \A t \in Threads : pc[t] # "notify"
  /\ weak' = [o \in Objects |-> weak[o] /\ \A k \in Keys : objectTable[k] # o]
  /\ objectTable' = [k \in Keys |-> NULL]
  /\ keyTable' = [o \in Objects |-> NULL]
  /\ alive' = FALSE
  /\ UNCHANGED <<resVars, pc, arg, holds, ref, dying>>

\* camel_object_bag_new: another bag, for another owner.
New ==
  /\ ~alive
  /\ alive' = TRUE
  /\ UNCHANGED <<bagVars, resVars, pc, arg, holds, objVars>>

-----------------------------------------------------------------------------
Lookup(t)    == \E k \in Keys : Find(t, k) \/ GetWait(t, k) \/ GetBetween(t, k)
Reserve(t)   == \E k \in Keys : \/ ReserveNew(t, k)
                                \/ ReserveWait(t, k)
                                \/ ReserveBetween(t, k)
Resume(t)    == WaitAgain(t) \/ GetResume(t) \/ ReserveResume(t)
Finish(t, k) == Abort(t, k) \/ \E o \in Objects : Add(t, k, o)
Change(t)    == \E o \in Objects : Remove(t, o) \/ \E k \in Keys : Rekey(t, o, k)
Release(t)   == \E o \in Objects : Unref(t, o) \/ StartDispose(t, o)
Dispose(t)   == TakeWeakRefs(t) \/ Notify(t) \/ Drop(t)

Next ==
  \/ \E t \in Threads :
       \/ Lookup(t)
       \/ Reserve(t)
       \/ Resume(t)
       \/ SpuriousWakeup(t)
       \/ \E k \in Keys : Finish(t, k)
       \/ Change(t)
       \/ List(t)
       \/ Release(t)
       \/ Dispose(t)
  \/ Destroy
  \/ New

Spec == Init /\ [][Next]_vars

\* A woken thread gets bag->mutex back.  Nobody is obliged to call the bag,
\* to end a reservation or to drop a reference.
Fairness == \A t \in Threads : WF_vars(Resume(t))

FairSpec == Spec /\ Fairness
-----------------------------------------------------------------------------
(* Properties.                                                             *)

WaitersOf(k) == {t \in Threads : arg[t] = k}

\* The type invariant.
TypeOK ==
  /\ objectTable \in [Keys -> Objects \cup {NULL}]
  /\ keyTable \in [Objects -> Keys \cup {NULL, Freed}]
  /\ reserved \in SUBSET Keys
  /\ owner \in [Keys -> Threads \cup {NULL}]
  /\ waiters \in [Keys -> Nat]
  /\ pc \in [Threads -> Phases]
  /\ arg \in [Threads -> Keys \cup {NULL}]
  /\ holds \in [Threads -> SUBSET Keys]
  /\ ref \in [Threads -> SUBSET Objects]
  /\ weak \in [Objects -> BOOLEAN]
  /\ dying \in [Threads -> Objects \cup {NULL}]
  /\ alive \in BOOLEAN

\* The threads that build the object of a key exclude each other, and while one
\* of them does, the bag has none, so the add that ends the reservation never
\* replaces an object that others were given.
ExclusiveBuilder ==
  \A t \in Threads : \A k \in holds[t] : owner[k] = t /\ objectTable[k] = NULL

\* The two tables are inverse to each other: "each key is shared between both
\* hash tables", so an entry in one without its twin is a dangling pointer.
TablesInverse ==
  \A k \in Keys, o \in Objects : objectTable[k] = o <=> keyTable[o] = k

\* What the bag hands out is alive: an object cannot be finalized while it is
\* in object_table, however the last g_object_unref and the lookups interleave.
BoundAreLive ==
  \A k \in Keys : objectTable[k] # NULL => Live(objectTable[k])

\* The bag, the reservation and its condition variable are not freed under a
\* thread that waits: reservation->waiters counts the threads that do.
WaitersKeepReservation ==
  /\ \A k \in Keys : waiters[k] = Cardinality(WaitersOf(k))
  /\ \A t \in Threads : arg[t] # NULL => alive /\ arg[t] \in reserved

\* g_cond_signal wakes one thread only; a reservation that has lost its owner
\* always has a thread on its way to take it or to free it.
NoLostWakeup ==
  \A k \in reserved : owner[k] = NULL => \E t \in WaitersOf(k) : pc[t] \in Woken

\* The weak notify takes only dead objects out of the bag: as long as a thread
\* has the object of a key, asking for the key again returns that object
\* ("Services are cached, and asking for the same url_string multiple times
\* will return the same CamelService", camel-session.c:470-472).  No run has it,
\* since a lookup in the middle of a disposal breaks it (README).
OneObjectPerKey ==
  [][\A t \in Threads :
       (pc[t] = "notify" /\ pc'[t] = "disposed" /\ keyTable[dying[t]] # NULL)
         => \A u \in Threads \ {t} : dying[t] \notin ref[u]]_vars

\* One signal is enough for all: once the object of a key is in the bag, every
\* thread that waits for the key gets out, each waking the next, unless the
\* object leaves the bag again.
WaitersDrain ==
  \A t \in Threads, k \in Keys :
    (arg[t] = k /\ objectTable[k] # NULL) ~> (arg[t] # k \/ objectTable[k] = NULL)

\* A reservation between two owners does not stay there: somebody takes it over
\* or it is freed, so the key can be asked for again.
ReservationMovesOn ==
  \A k \in Keys :
    (k \in reserved /\ owner[k] = NULL) ~> (k \notin reserved \/ owner[k] # NULL)

\* The bag is the cache that KeyedCache describes: reservations look atomic
\* however lookups, waits, wake-ups and disposals interleave.
Cache == INSTANCE KeyedCache WITH object <- objectTable, builder <- owner
CacheSpec == Cache!Spec
=============================================================================
