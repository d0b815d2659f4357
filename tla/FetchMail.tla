------------------------------ MODULE FetchMail ------------------------------
(***************************************************************************)
(* fetch_mail_exec of mail/mail-ops.c for a POP3 account: the inbox of the *)
(* account is opened, its new messages are retrieved through the data      *)
(* cache and filed by the filter driver into the local inbox, the UID      *)
(* cache is saved, the messages are deleted on the server unless they are  *)
(* to stay there, and the connection is closed.  The program may be killed *)
(* and started again between any two steps, and the user may cancel.       *)
(*                                                                         *)
(* The account has no filter rules; camel_pop3_delete_old is left out.     *)
(***************************************************************************)
EXTENDS CamelPOP3

CONSTANTS
  Ahead,       \* how many messages are retrieved ahead; 10 in the code
  MaxCrashes   \* bound: crashes and failures to save the UID cache

ASSUME FetchAssumption == Ahead \in Nat /\ MaxCrashes \in Nat

VARIABLES
  at,       \* what the job is about to do
  delete,   \* fm->delete: messages do not stay on the server
  view,     \* the messages of the folder, pop3_folder->uids
  cmd,      \* what fi->cmd of each message is: "", "RETR" or "DELE"
  todo,     \* the messages that the loop the job is in has still to do
  keep,     \* the uids of the UID cache that are to be saved
  failed,   \* fm->base.error is set
  arrived,  \* the messages up to this one have come to the maildrop
  inbox,    \* how often each message is in the local inbox
  saved,    \* the UID cache on disk
  crashes   \* how often the job was cut off, or could not save

jobVars  == <<at, delete, view, cmd, todo, keep, failed>>
diskVars == <<inbox, saved, crashes>>
vars     == <<popVars, jobVars, diskVars, arrived>>

\* The loops go by the places of the messages.
uid == Min(todo)

Sorted(S) ==
  CHOOSE s \in [1 .. Cardinality(S) -> S] : \A i, j \in DOMAIN s : i < j => s[i] < s[j]

NoCommands == [u \in Uids |-> ""]

Init ==
  /\ PopInit
  /\ at = "idle" /\ delete = FALSE /\ view = {} /\ cmd = NoCommands
  /\ todo = {} /\ keep = {} /\ failed = FALSE
  /\ arrived = 0
  /\ inbox = [u \in Uids |-> 0] /\ saved = {} /\ crashes = 0

-----------------------------------------------------------------------------
(* The world.                                                              *)

NewMail ==
  /\ arrived < Messages
  /\ arrived' = arrived + 1
  /\ drop' = drop \cup {arrived + 1}
  /\ UNCHANGED <<marked, up, toServer, wire, pipe, engineVars, cache, err, jobVars, diskVars>>

Disconnected ==
  /\ at' = "idle"
  /\ delete' = FALSE /\ view' = {} /\ cmd' = NoCommands /\ todo' = {}
  /\ keep' = {} /\ failed' = FALSE
  /\ marked' = {} /\ up' = FALSE /\ toServer' = <<>> /\ wire' = <<>> /\ pipe' = FALSE
  /\ sent' = <<>> /\ queue' = <<>> /\ sentlen' = 0
  /\ reading' = "line" /\ ioerror' = FALSE /\ cancelled' = FALSE
  /\ err' = [u \in Uids |-> FALSE]

\* The files stay as they are.
Crash ==
  /\ at # "idle"
  /\ crashes < MaxCrashes
  /\ crashes' = crashes + 1
  /\ Disconnected
  /\ UNCHANGED <<drop, cache, inbox, saved, arrived>>

\* camel_operation_cancel, while the operation is registered.
Cancel ==
  /\ at \in {"get", "await", "retrieve", "file"}
  /\ ~cancelled
  /\ cancelled' = TRUE
  /\ UNCHANGED <<netVars, sent, queue, sentlen, reading, ioerror, cache, err,
                 jobVars, diskVars, arrived>>

Lost == ConnectionLost /\ UNCHANGED <<jobVars, diskVars, arrived>>

Server == ServerAnswers /\ UNCHANGED <<jobVars, diskVars, arrived>>

-----------------------------------------------------------------------------
(* The folder is opened and its new messages are filed.                    *)

\* mail_tool_get_inbox connects and lists the maildrop, or there is no folder.
\* With the fault "refused" the server may answer -ERR to LIST or UIDL, which
\* pop3_refresh_info takes for an empty maildrop.  camel_uid_cache_get_new_uids
\* drops the uids that are not listed.
GetInbox ==
  /\ at = "idle"
  /\ delete' \in BOOLEAN
  /\ pipe' \in BOOLEAN
  /\ view' \in {drop} \cup IF "refused" \in Faults THEN {{}} ELSE {}
  /\ keep' = saved \cap view'
  /\ todo' = view' \ saved
  /\ up' = TRUE
  /\ at' = IF todo' = {} THEN "save" ELSE "get"
  /\ UNCHANGED <<drop, marked, toServer, wire, engineVars, cache, err, cmd, failed,
                 diskVars, arrived>>

\* camel_data_cache_add makes an empty file of each, in place of what there is.
Emptied(us) == cache' = [u \in Uids |-> IF u \in us THEN NoFile ELSE cache[u]]

\* pop3_get_message begins to retrieve the message, and some that follow it.
Retrieve ==
  LET place(u) == Cardinality({v \in view : v < u})
      ahead == {u \in view : /\ place(u) \in place(uid) + 1 .. place(uid) + Ahead
                             /\ cmd[u] = ""}
      retrieved == Sorted({uid} \cup ahead)
  IN
  /\ Emptied({uid} \cup ahead)
  /\ err' = [u \in Uids |-> u \in {uid} \cup ahead \/ err[u]]
  /\ cmd' = [u \in Uids |-> IF u \in ahead THEN "RETR" ELSE IF u = uid THEN "" ELSE cmd[u]]
  /\ Issue([i \in DOMAIN retrieved |-> Retr(retrieved[i])])
  /\ at' = "retrieve"
  /\ UNCHANGED failed

\* The error ends camel_filter_driver_filter_folder.
Fail ==
  /\ failed' = TRUE
  /\ at' = "save"
  /\ cmd' = [cmd EXCEPT ![uid] = ""]
  /\ UNCHANGED <<sent, queue, sentlen, toServer, cache, err>>

\* camel_data_cache_get: the file is good when it begins with '#'.  A file whose
\* first byte cannot be read, as none can after a cancellation, is retrieved
\* anew; an error in the rest of it (a cancellation, too) is one of the message.
FromCache ==
  \/ /\ cache[uid].mark = "#"
     /\ ~cancelled
     /\ at' = "file"
     /\ cmd' = [cmd EXCEPT ![uid] = ""]
     /\ UNCHANGED <<sent, queue, sentlen, toServer, cache, err, failed>>
  \/ cache[uid].mark = "#" /\ ~cancelled /\ Fail
  \/ Retrieve

\* pop3_get_message: it waits for a retrieval that is under way.
GetMessage ==
  /\ at = "get"
  /\ IF cmd[uid] # ""
     THEN /\ at' = "await"
          /\ UNCHANGED <<sent, queue, sentlen, toServer, cache, err, cmd, failed>>
     ELSE FromCache
  /\ UNCHANGED <<drop, marked, up, wire, pipe, reading, ioerror, cancelled,
                 delete, view, todo, keep, diskVars, arrived>>

\* Mutant: after an error the message is asked for once more.
AwaitedAgain ==
  /\ at = "await"
  /\ ~Iterates(Retr(uid))
  /\ ioerror' = FALSE
  /\ IF ioerror \/ err[uid]
     THEN /\ at' = "get"
          /\ UNCHANGED <<sent, queue, sentlen, toServer, cache, err, cmd, failed>>
     ELSE FromCache
  /\ UNCHANGED <<drop, marked, up, wire, pipe, reading, cancelled,
                 delete, view, todo, keep, diskVars, arrived>>

\* ... after the wait for a retrieval begun earlier.
Awaited ==
  /\ at = "await"
  /\ ~Iterates(Retr(uid))
  /\ ioerror' = FALSE
  /\ IF ioerror \/ err[uid] THEN Fail ELSE FromCache
  /\ UNCHANGED <<drop, marked, up, wire, pipe, reading, cancelled,
                 delete, view, todo, keep, diskVars, arrived>>

\* ... and for the one just begun.  The command is freed, in the queue too.
\* To read what has come may fail, and does after a cancellation.
Retrieved ==
  /\ at = "retrieve"
  /\ ~Iterates(Retr(uid))
  /\ ioerror' = FALSE
  /\ \/ failed' = TRUE /\ at' = "save"
     \/ /\ ~(ioerror \/ err[uid] \/ cancelled)
        /\ cache[uid].mark = "#"
        /\ at' = "file" /\ UNCHANGED failed
  /\ queue' = RemoveFirst(queue, Retr(uid))
  /\ UNCHANGED <<netVars, sent, sentlen, reading, cancelled, cache, err,
                 delete, view, cmd, todo, keep, diskVars, arrived>>

\* camel_filter_driver_filter_message appends the message to the local inbox,
\* and filter_folder marks its uid for saving.  An append that fails, as every
\* one does when the operation is cancelled, leaves its error in the driver and
\* counts as done.  Without the fault "append" none fails: a cancellation that
\* comes when the message has been read is noticed after the append.
FileMessage ==
  /\ at = "file"
  /\ \/ inbox' = [u \in Uids |-> IF Contains(cache[uid].lines, u) THEN inbox[u] + 1
                                                                  ELSE inbox[u]]
     \/ "append" \in Faults /\ UNCHANGED inbox
  /\ keep' = keep \cup {uid}
  /\ todo' = todo \ {uid}
  /\ at' = IF todo' = {} THEN "save" ELSE "get"
  /\ UNCHANGED <<popVars, delete, view, cmd, failed, saved, crashes, arrived>>

-----------------------------------------------------------------------------
(* The end of the job.                                                     *)

WithCommand == {u \in view : cmd[u] # ""}

\* Mutant: the messages are deleted after an error, too.
SyncAnyway ==
  /\ cancelled' = FALSE
  /\ IF ~delete
     THEN at' = "dispose" /\ todo' = WithCommand
     ELSE at' = "sync" /\ todo' = view
  /\ UNCHANGED <<netVars, sent, queue, sentlen, reading, ioerror, cache, err,
                 delete, view, cmd, keep, failed, inbox, arrived>>

\* After an error the folder is disposed of; otherwise, unless the messages
\* stay on the server, all of them are marked as deleted and expunged.
AfterSave ==
  /\ cancelled' = FALSE
  /\ IF failed \/ ~delete
     THEN at' = "dispose" /\ todo' = WithCommand
     ELSE at' = "sync" /\ todo' = view
  /\ UNCHANGED <<netVars, sent, queue, sentlen, reading, ioerror, cache, err,
                 delete, view, cmd, keep, failed, inbox, arrived>>

\* Mutant: the UID cache is not saved after an error.
SaveUnlessFailed ==
  /\ at = "save"
  /\ saved' = IF failed THEN saved ELSE keep
  /\ UNCHANGED crashes
  /\ AfterSave

\* camel_uid_cache_save writes a new file and renames it, or fails and leaves
\* the old one.  The operation is not registered any more.
SaveUids ==
  /\ at = "save"
  /\ \/ saved' = keep /\ UNCHANGED crashes
     \/ crashes < MaxCrashes /\ crashes' = crashes + 1 /\ UNCHANGED saved
  /\ AfterSave

\* pop3_sync: a retrieval under way is waited for; then the message is deleted
\* on the server and in the cache.
DeleteMessage ==
  /\ at = "sync"
  /\ todo # {}
  /\ cmd[uid] = "RETR" => ~Iterates(Retr(uid))
  /\ Issue(<<Dele(uid)>>)
  /\ ioerror' = FALSE
  /\ cmd' = [cmd EXCEPT ![uid] = "DELE"]
  /\ Emptied({uid})
  /\ todo' = todo \ {uid}
  /\ UNCHANGED <<drop, marked, up, wire, pipe, reading, cancelled, err,
                 at, delete, view, keep, failed, diskVars, arrived>>

Settle ==
  /\ at = "sync"
  /\ todo = {}
  /\ at' = "dispose"
  /\ todo' = WithCommand
  /\ UNCHANGED <<popVars, delete, view, cmd, keep, failed, diskVars, arrived>>

\* The commands still outstanding are waited for, in pop3_sync or in
\* pop3_folder_dispose.
FreeCommand ==
  LET c == IF cmd[uid] = "RETR" THEN Retr(uid) ELSE Dele(uid) IN
  /\ at = "dispose"
  /\ todo # {}
  /\ ~Iterates(c)
  /\ ioerror' = FALSE
  /\ queue' = RemoveFirst(queue, c)
  /\ cmd' = [cmd EXCEPT ![uid] = ""]
  /\ todo' = todo \ {uid}
  /\ UNCHANGED <<netVars, sent, sentlen, reading, cancelled, cache, err,
                 at, delete, view, keep, failed, diskVars, arrived>>

\* camel_pop3_store_expunge, or pop3_store_disconnect when the store goes.
SendQuit ==
  /\ at = "dispose"
  /\ todo = {}
  /\ Issue(<<Quit>>)
  /\ at' = "quit"
  /\ UNCHANGED <<drop, marked, up, wire, pipe, reading, ioerror, cancelled, cache, err,
                 delete, view, cmd, todo, keep, failed, diskVars, arrived>>

Disconnect ==
  /\ at = "quit"
  /\ ~Iterates(Quit)
  /\ Disconnected
  /\ UNCHANGED <<drop, cache, diskVars, arrived>>

\* camel_pop3_engine_iterate, in whichever loop calls it.
Iterate ==
  /\ \/ at = "await" /\ Iterates(Retr(uid))
     \/ at = "retrieve" /\ Iterates(Retr(uid))
     \/ at = "sync" /\ todo # {} /\ cmd[uid] = "RETR" /\ Iterates(Retr(uid))
     \/ /\ at = "dispose" /\ todo # {}
        /\ Iterates(IF cmd[uid] = "RETR" THEN Retr(uid) ELSE Dele(uid))
     \/ at = "quit" /\ Iterates(Quit)
  /\ Read
  /\ UNCHANGED <<jobVars, diskVars, arrived>>

Job ==
  \/ GetMessage \/ Awaited \/ Retrieved \/ FileMessage
  \/ SaveUids \/ DeleteMessage \/ Settle \/ FreeCommand \/ SendQuit \/ Disconnect
  \/ Iterate

Next == NewMail \/ Crash \/ Cancel \/ Lost \/ Server \/ GetInbox \/ Job

Spec == Init /\ [][Next]_vars

\* The job goes on, and the server answers what reaches it.  Nobody has to
\* fetch, cancel or lose a connection.
FairSpec == Spec /\ WF_vars(Job) /\ WF_vars(Server)

-----------------------------------------------------------------------------
(* Properties.                                                             *)

\* A file that says that it is complete ('#', camel-pop3-folder.c:532) holds
\* its own message and all of it, whatever was lost, cancelled or killed while
\* it was written.
CachedIsOwn == \A u \in Uids : cache[u].mark = "#" => cache[u].lines = <<u>>

\* A message that has come is in the maildrop or in the local inbox
\* (fetch_mail_exec deletes what it has filed).
NoMailLost == \A u \in 1 .. arrived : u \in drop \/ inbox[u] > 0

\* A message is filed once, also when it stays on the server and the job is
\* cancelled or fails half way; only a job that is killed, or cannot save the
\* UID cache, may file again (camel_uid_cache_save).
FiledOnce == \A u \in Uids : inbox[u] <= 1 + crashes

\* No more is sent than the server answers before it must be read from, and
\* without pipelining one command at a time (CAMEL_POP3_SEND_LIMIT).
SendWindow == Len(sent) <= IF pipe THEN Limit ELSE 1

\* Every fetch ends: no wait for a reply goes on for ever.
FetchEnds == at # "idle" ~> at = "idle"
=============================================================================
