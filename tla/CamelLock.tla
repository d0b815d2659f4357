------------------------------ MODULE CamelLock ------------------------------
(***************************************************************************)
(* The .lock files of camel-lock.c, the helper process that makes and      *)
(* refreshes them for a program (camel-lock-helper.c), its client          *)
(* (camel-lock-client.c), and camel_movemail, which takes a user's mail    *)
(* out of a spool file that other programs deliver to and read.            *)
(*                                                                         *)
(* There is one spool file.  Time passes in units of                       *)
(* CAMEL_DOT_LOCK_REFRESH; a request to a helper takes no such time.  The  *)
(* helper's second attempt, as root, and the fcntl and flock locks, which  *)
(* the helper does not use, are left out.                                  *)
(***************************************************************************)
EXTENDS Naturals, FiniteSets

CONSTANTS
  Programs,
  Threads,     \* the threads that fetch mail
  ProgramOf,   \* the program of each thread
  Mails,       \* bound: the messages that are delivered
  Retries,     \* CAMEL_LOCK_DOT_RETRY
  Stale,       \* CAMEL_LOCK_DOT_STALE, in units of the refresh
  MaxCrashes,  \* bound: programs that are killed and copies that fail
  Faults,      \* what else may go wrong, see the actions that ask
  NULL

ASSUME LockAssumption ==
  /\ ProgramOf \in [Threads -> Programs]
  /\ Retries \in Nat \ {0} /\ Stale \in Nat \ {0} /\ MaxCrashes \in Nat
  /\ NULL \notin Nat

VARIABLES
  lockFile,  \* the age of the .lock file, NULL if there is none
  helper,    \* what the helper of each program does
  tries,     \* the attempts the helper has made for the request
  has,       \* lock_info_list: programs whose helper has the lock
  depth,     \* info->depth
  stamp,     \* info->stamp: time since the last refresh
  thread,    \* what each thread is about to do
  id,        \* whether the lock id of the thread is the one its helper knows
  spool,     \* the messages in the spool file
  dest,      \* those in the file each program copies to
  coming,    \* the messages not delivered yet
  crashes

helperVars == <<helper, tries, has, depth, stamp>>
mailVars   == <<spool, dest, coming>>
vars       == <<lockFile, helperVars, thread, id, mailVars, crashes>>

Init ==
  /\ lockFile = NULL
  /\ helper = [p \in Programs |-> "off"]
  /\ tries = [p \in Programs |-> 0]
  /\ has = {} /\ depth = [p \in Programs |-> 0] /\ stamp = [p \in Programs |-> 0]
  /\ thread = [t \in Threads |-> "idle"]
  /\ id = [t \in Threads |-> FALSE]
  /\ spool = {} /\ dest = [p \in Programs |-> {}] /\ coming = Mails
  /\ crashes = 0

Step(t, from, to) == thread[t] = from /\ thread' = [thread EXCEPT ![t] = to]
Of(p) == {t \in Threads : ProgramOf[t] = p}

-----------------------------------------------------------------------------
(* The world.                                                              *)

\* Another program, which takes the lock and gives it back, delivers a message
\* (external).
Deliver ==
  /\ lockFile = NULL
  /\ \E m \in coming : spool' = spool \cup {m} /\ coming' = coming \ {m}
  /\ UNCHANGED <<lockFile, helperVars, thread, id, dest, crashes>>

\* A program was killed while its helper lives.
Orphan(p) == helper[p] # "off" /\ \A t \in Of(p) : thread[t] = "gone"
Due(p)    == p \in has /\ helper[p] = "idle" /\ ~Orphan(p) /\ stamp[p] > 0

\* A helper with a lock answers, refreshes the lock and exits in time.
Tick ==
  /\ lockFile # NULL
  /\ \A p \in has : helper[p] = "idle" /\ ~Due(p) /\ ~Orphan(p)
  /\ lockFile' = IF lockFile > Stale THEN lockFile ELSE lockFile + 1
  /\ stamp' = [p \in Programs |-> IF p \in has THEN 1 ELSE 0]
  /\ UNCHANGED <<helper, tries, has, depth, thread, id, mailVars, crashes>>

\* A program is killed, or it and its helper.  With the fault "helper" the
\* helper alone may be.
Crash(p) ==
  /\ crashes < MaxCrashes
  /\ helper[p] \notin {"off", "dead"} /\ ~Orphan(p)
  /\ crashes' = crashes + 1
  /\ \/ /\ thread' = [t \in Threads |-> IF t \in Of(p) THEN "gone" ELSE thread[t]]
        /\ UNCHANGED <<helper, has>>
     \/ /\ thread' = [t \in Threads |-> IF t \in Of(p) THEN "idle" ELSE thread[t]]
        /\ helper' = [helper EXCEPT ![p] = "off"]
        /\ has' = has \ {p}
     \/ /\ "helper" \in Faults
        /\ helper' = [helper EXCEPT ![p] = "dead"]
        /\ has' = has \ {p}
        /\ UNCHANGED thread
  /\ UNCHANGED <<lockFile, tries, depth, stamp, id, mailVars>>

-----------------------------------------------------------------------------
(* camel_lock_dot, in the helper.                                          *)

Refused(p) == /\ IF tries[p] + 1 = Retries
                 THEN helper' = [helper EXCEPT ![p] = "refuse"]
                 ELSE helper' = [helper EXCEPT ![p] = "try"]
              /\ tries' = [tries EXCEPT ![p] = @ + 1]

\* link: the file is ours if there was none.
Link(p) ==
  /\ helper[p] = "try"
  /\ IF lockFile = NULL
     THEN /\ lockFile' = 0
          /\ helper' = [helper EXCEPT ![p] = "grant"]
          /\ has' = has \cup {p}
          /\ depth' = [depth EXCEPT ![p] = 1]
          /\ stamp' = [stamp EXCEPT ![p] = 0]
     ELSE /\ helper' = [helper EXCEPT ![p] = "stat"]
          /\ UNCHANGED <<lockFile, has, depth, stamp>>
  /\ UNCHANGED <<tries, thread, id, mailVars, crashes>>

\* Mutant: an old lock is never taken for stale.
StatNeverStale(p) ==
  /\ helper[p] = "stat"
  /\ Refused(p)
  /\ UNCHANGED <<lockFile, has, depth, stamp, thread, id, mailVars, crashes>>

\* stat: a lock that is too old has been left behind.  Without the fault "steal"
\* two helpers do not find so at the same time.
Stat(p) ==
  /\ helper[p] = "stat"
  /\ IF lockFile # NULL /\ lockFile > Stale
     THEN /\ "steal" \in Faults \/ \A q \in Programs : helper[q] # "unlink"
          /\ helper' = [helper EXCEPT ![p] = "unlink"]
          /\ UNCHANGED tries
     ELSE Refused(p)
  /\ UNCHANGED <<lockFile, has, depth, stamp, thread, id, mailVars, crashes>>

\* unlink, of whatever lock is there by now.
RemoveStale(p) ==
  /\ helper[p] = "unlink"
  /\ lockFile' = NULL
  /\ Refused(p)
  /\ UNCHANGED <<has, depth, stamp, thread, id, mailVars, crashes>>

\* Mutant: only the time of the refresh is kept.
TouchStamp(p) ==
  /\ Due(p)
  /\ stamp' = [stamp EXCEPT ![p] = 0]
  /\ UNCHANGED <<lockFile, helper, tries, has, depth, thread, id, mailVars, crashes>>

\* lock_touch, when the wait for requests has timed out.
Touch(p) ==
  /\ Due(p)
  /\ stamp' = [stamp EXCEPT ![p] = 0]
  /\ lockFile' = IF lockFile = NULL THEN NULL ELSE 0
  /\ UNCHANGED <<helper, tries, has, depth, thread, id, mailVars, crashes>>

\* The program has gone, and is started again.  The end of main gives the lock
\* back, unless the helper is killed when it writes an answer to nobody.
Exit(p) ==
  /\ helper[p] \in {"idle", "grant", "refuse"} /\ Orphan(p)
  /\ helper' = [helper EXCEPT ![p] = "off"]
  /\ thread' = [t \in Threads |-> IF t \in Of(p) THEN "idle" ELSE thread[t]]
  /\ has' = has \ {p}
  /\ lockFile' \in (IF p \in has THEN {NULL} ELSE {lockFile})
                   \cup (IF helper[p] = "grant" THEN {lockFile} ELSE {})
  /\ UNCHANGED <<tries, depth, stamp, id, mailVars, crashes>>

-----------------------------------------------------------------------------
(* camel_lock_helper_lock and unlock, one thread of a program at a time.   *)

\* camel_movemail of a spool file that is not empty.  lock_path counts a lock
\* that the helper has already: with the fault "again" a second thread may ask
\* for it, and is granted it under an id that is not the lock's.
AskLock(t) ==
  LET p == ProgramOf[t]
      again == p \in has
  IN
  /\ spool # {}
  /\ \A u \in Of(p) : thread[u] # "asking"
  /\ helper[p] \in {"off", "idle", "dead"}
  /\ again => "again" \in Faults
  /\ Step(t, "idle", "asking")
  /\ helper' = [helper EXCEPT ![p] = CASE @ = "dead" -> "dead"
                                       [] again -> "grant"
                                       [] OTHER -> "try"]
  /\ tries' = [tries EXCEPT ![p] = 0]
  /\ depth' = [depth EXCEPT ![p] = IF again THEN @ + 1 ELSE @]
  /\ id' = [id EXCEPT ![t] = ~again]
  /\ UNCHANGED <<lockFile, has, stamp, mailVars, crashes>>

\* The answer.  When the helper has gone the status PROTOCOL, 1, is returned as
\* the lock id; the next call starts a new helper.
Answered(t) ==
  LET p == ProgramOf[t] IN
  /\ helper[p] \in {"grant", "refuse", "dead"}
  /\ Step(t, "asking", IF helper[p] = "refuse" THEN "idle" ELSE "copy")
  /\ helper' = [helper EXCEPT ![p] = IF @ = "dead" THEN "off" ELSE "idle"]
  /\ id' = [id EXCEPT ![t] = @ /\ helper[p] # "dead"]
  /\ UNCHANGED <<lockFile, tries, has, depth, stamp, mailVars, crashes>>

\* unlock_id: an id that the helper does not know unlocks nothing.
Unlock(t) ==
  LET p == ProgramOf[t]
      known == helper[p] = "idle" /\ p \in has /\ id[t]
      last == known /\ depth[p] = 1
  IN
  /\ helper[p] \in {"off", "idle", "dead"}
  /\ Step(t, "unlock", "idle")
  /\ depth' = [depth EXCEPT ![p] = IF known THEN @ - 1 ELSE @]
  /\ has' = IF last THEN has \ {p} ELSE has
  /\ lockFile' = IF last THEN NULL ELSE lockFile
  /\ helper' = [helper EXCEPT ![p] = IF @ = "dead" THEN "off" ELSE @]
  /\ UNCHANGED <<tries, stamp, id, mailVars, crashes>>

-----------------------------------------------------------------------------
(* camel_movemail, with the lock.                                          *)

\* Mutant: the result of the copy is not looked at.
CopyUnchecked(t) ==
  /\ Step(t, "copy", "truncate")
  /\ \/ /\ dest' = [dest EXCEPT ![ProgramOf[t]] = @ \cup spool]
        /\ UNCHANGED crashes
     \/ /\ crashes < MaxCrashes
        /\ crashes' = crashes + 1
        /\ UNCHANGED dest
  /\ UNCHANGED <<lockFile, helperVars, id, spool, coming>>

\* camel_movemail_copy_file and close, which may fail.
Copy(t) ==
  /\ \/ /\ Step(t, "copy", "truncate")
        /\ dest' = [dest EXCEPT ![ProgramOf[t]] = @ \cup spool]
        /\ UNCHANGED crashes
     \/ /\ Step(t, "copy", "unlock")
        /\ crashes < MaxCrashes
        /\ crashes' = crashes + 1
        /\ UNCHANGED dest
  /\ UNCHANGED <<lockFile, helperVars, id, spool, coming>>

Truncate(t) ==
  /\ Step(t, "truncate", "unlock")
  /\ spool' = {}
  /\ UNCHANGED <<lockFile, helperVars, id, dest, coming, crashes>>

Helper(p) == Link(p) \/ Stat(p) \/ RemoveStale(p) \/ Touch(p) \/ Exit(p)
Works(t)  == Answered(t) \/ Copy(t) \/ Truncate(t) \/ Unlock(t)

Next ==
  \/ Deliver \/ Tick
  \/ \E p \in Programs : Crash(p) \/ Helper(p)
  \/ \E t \in Threads : AskLock(t) \/ Works(t)

Spec == Init /\ [][Next]_vars

\* Time passes, processes run, and each account is checked again and again
\* (auto_account_commit and auto_timeout of mail/mail-send-recv.c).
FairSpec ==
  /\ Spec
  /\ WF_vars(Tick)
  /\ \A p \in Programs : WF_vars(Helper(p))
  /\ \A t \in Threads : WF_vars(Works(t)) /\ SF_vars(AskLock(t))

-----------------------------------------------------------------------------
(* Properties.                                                             *)

\* The type of each variable (camel-lock-helper.c:80 for the helper's list).
TypeOK ==
  /\ lockFile \in Nat \cup {NULL}
  /\ helper \in [Programs -> {"off", "idle", "try", "stat", "unlink", "grant", "refuse", "dead"}]
  /\ tries \in [Programs -> Nat]
  /\ has \subseteq Programs
  /\ depth \in [Programs -> Nat] /\ stamp \in [Programs -> {0, 1}]
  /\ thread \in [Threads -> {"idle", "asking", "copy", "truncate", "unlock", "gone"}]
  /\ id \in [Threads -> BOOLEAN]
  /\ spool \subseteq Mails /\ dest \in [Programs -> SUBSET Mails]
  /\ coming \subseteq Mails
  /\ crashes \in Nat

InSpool(t) == thread[t] \in {"copy", "truncate"}

\* "All locks are equivalent to write locks (exclusive)" (camel-lock.c:67): no
\* two threads take mail out of the spool file at once, however long it takes
\* them and whoever was killed before.
ExclusiveLock == \A t, u \in Threads : InSpool(t) /\ InSpool(u) => t = u

\* A message that was delivered is in the spool file or in a file it has been
\* copied to (camel_movemail truncates the spool file after the copy).
SpoolMailKept ==
  \A m \in Mails \ coming : m \in spool \/ \E p \in Programs : m \in dest[p]

\* Mail is picked up, also when a program has died and left its lock behind
\* (the check for stale locks in camel_lock_dot).
MailPickedUp == spool # {} ~> spool = {}

\* A helper "check[s] to see if we have it locked already, make the lock
\* 'recursive'" (camel-lock-helper.c:119): when every thread of a program that
\* was given the lock has unlocked it, the helper does not have it.
UnlockedInTheEnd ==
  \A p \in has : \/ helper[p] # "idle"
                 \/ \E t \in Of(p) : thread[t] # "idle"
=============================================================================
