------------------------- MODULE CamelFolderChangeInfo -------------------------
(***************************************************************************)
(* CamelFolderChangeInfo of camel/camel-folder.c: what happened to the     *)
(* messages of a folder, as sets of uids.  uid_stored files each uid under *)
(* at most one of added, removed and changed.  recent and filter are the   *)
(* messages that are new to the program; they are sets because no provider *)
(* reports a uid as recent twice.                                          *)
(***************************************************************************)
CONSTANT Uids

ChangeInfo == [added : SUBSET Uids, removed : SUBSET Uids, changed : SUBSET Uids,
               recent : SUBSET Uids, filter : SUBSET Uids]

NoChanges == [added |-> {}, removed |-> {}, changed |-> {},
              recent |-> {}, filter |-> {}]

Stored(i) == i.added \cup i.removed \cup i.changed

\* Mutant: a message that was removed and is added again leaves no trace.
AddUidsCancels(i, U) ==
  [i EXCEPT !.added = @ \cup (U \ Stored(i)),
            !.removed = @ \ U]

\* A removed message that is added again counts as changed, and an added or
\* changed one stays what it was.
AddUids(i, U) ==
  [i EXCEPT !.added = @ \cup (U \ Stored(i)),
            !.removed = @ \ U,
            !.changed = @ \cup (U \cap i.removed)]

RemoveUids(i, U) ==
  [i EXCEPT !.added = @ \ U,
            !.changed = @ \ U,
            !.removed = @ \cup U]

ChangeUids(i, U) == [i EXCEPT !.changed = @ \cup (U \ Stored(i))]

RecentUids(i, U) == [i EXCEPT !.recent = @ \cup U, !.filter = @ \cup U]

Cat(i, source) ==
  LET three == ChangeUids(RemoveUids(AddUids(i, source.added), source.removed),
                          source.changed)
  IN  [three EXCEPT !.recent = @ \cup source.recent,
                    !.filter = @ \cup source.filter]

Changed(i) == Stored(i) \cup i.recent # {}

\* Every uid is filed once.
Filed(i) ==
  /\ i.added \cap i.removed = {}
  /\ i.added \cap i.changed = {}
  /\ i.removed \cap i.changed = {}

\* What a reader who goes by the lists alone makes of a set V of messages.
Apply(i, V) == (V \ i.removed) \cup i.added
================================================================================
