------------------------------- MODULE KeyedCache -------------------------------
(***************************************************************************)
(* What camel-object-bag.c promises its users, without the waiting: "keyed *)
(* hash tables of objects that can be updated atomically using transaction *)
(* semantics".  A key is free, or one thread is building its object, or it *)
(* has an object, which then belongs to no other key.                      *)
(***************************************************************************)
CONSTANTS Threads, Keys, Objects, NULL

VARIABLES
  object,   \* the object of each key, or NULL
  builder   \* the thread that has been told to build it, or NULL

Free(k) == object[k] = NULL /\ builder[k] = NULL

Init ==
  /\ object = [k \in Keys |-> NULL]
  /\ builder = [k \in Keys |-> NULL]

\* camel_object_bag_reserve that returns NULL.
Begin(t, k) ==
  /\ Free(k)
  /\ builder' = [builder EXCEPT ![k] = t]
  /\ UNCHANGED object

\* camel_object_bag_add.
Commit(k, o) ==
  /\ builder[k] # NULL
  /\ object[k] = NULL
  /\ \A j \in Keys : object[j] # o
  /\ object' = [object EXCEPT ![k] = o]
  /\ builder' = [builder EXCEPT ![k] = NULL]

\* camel_object_bag_abort.
GiveUp(k) ==
  /\ builder[k] # NULL
  /\ builder' = [builder EXCEPT ![k] = NULL]
  /\ UNCHANGED object

\* camel_object_bag_remove, or the last reference to the object is gone.
Forget(k) ==
  /\ object[k] # NULL
  /\ object' = [object EXCEPT ![k] = NULL]
  /\ UNCHANGED builder

\* camel_object_bag_rekey.
Move(j, k) ==
  /\ object[j] # NULL
  /\ Free(k)
  /\ object' = [object EXCEPT ![j] = NULL, ![k] = object[j]]
  /\ UNCHANGED builder

\* camel_object_bag_destroy.
Clear ==
  /\ \A k \in Keys : builder[k] = NULL
  /\ object' = [k \in Keys |-> NULL]
  /\ UNCHANGED builder

Next ==
  \/ \E k \in Keys :
       \/ \E t \in Threads : Begin(t, k)
       \/ \E o \in Objects : Commit(k, o)
       \/ GiveUp(k)
       \/ Forget(k)
       \/ \E j \in Keys : Move(j, k)
  \/ Clear

Spec == Init /\ [][Next]_<<object, builder>>
=============================================================================
