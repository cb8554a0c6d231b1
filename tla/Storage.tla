------------------------------ MODULE Storage ------------------------------
(***************************************************************************)
(* The rows that drop-storage keeps for ONE transfer, and the statements   *)
(* that change them.  Every operator takes the rows and returns the rows   *)
(* after one SQLite transaction; who calls it, and in which order, is the  *)
(* business of the modules that hold a "db" variable.                      *)
(*                                                                         *)
(*   row      the row of "transfers" exists                                *)
(*   deleted  its is_deleted flag                                          *)
(*   cancel   a row of "transfer_cancel_states" (or failed) refers to it   *)
(*   sync     local_state of its "sync_transfer" row, "None" without one   *)
(*   file     local_state of each row of sync_incoming_files, resp.        *)
(*            sync_outgoing_files (dangling values once sync is "None")    *)
(*   inflight the rows of sync_incoming_files_inflight                     *)
(*   hist     the terminal rows of the *_path_{rejected,completed,failed}  *)
(*            _states tables, per file                                     *)
(*                                                                         *)
(* Foreign keys cascade: deleting sync_transfer deletes the sync rows of   *)
(* its files, deleting transfers deletes everything.                       *)
(***************************************************************************)
CONSTANT Files

Verdicts == {"Rejected", "Completed", "Failed"}

SyncState == {"New", "Active", "Canceled"}

Rows == [row      : BOOLEAN,
         deleted  : BOOLEAN,
         cancel   : BOOLEAN,
         sync     : SyncState \cup {"None"},
         file     : [Files -> {"Alive", "Terminal"}],
         inflight : SUBSET Files,
         hist     : [Files -> SUBSET Verdicts]]

NoRows == [row      |-> FALSE,
           deleted  |-> FALSE,
           cancel   |-> FALSE,
           sync     |-> "None",
           file     |-> [f \in Files |-> "Alive"],
           inflight |-> {},
           hist     |-> [f \in Files |-> {}]]

-----------------------------------------------------------------------------
\* INSERT ... ON CONFLICT DO NOTHING: refused (None) when the row is there.
inserts_transfer(db) == ~db.row

\* The transfers row, its paths, the sync row and the sync file rows: one
\* SQL transaction.
insert_transfer(db) == [NoRows EXCEPT !.row = TRUE, !.sync = "New"]

\* UPDATE sync_transfer: no effect when the row was cleared.
update_transfer_sync_states(db, s) ==
  IF db.sync = "None" THEN db ELSE [db EXCEPT !.sync = s]

\* DELETE FROM sync_transfer, cascading to the sync rows of the files.
transfer_sync_clear(db) ==
  [db EXCEPT !.sync = "None",
             !.file = [f \in Files |-> "Alive"],
             !.inflight = {}]

\* UPDATE sync_{incoming,outgoing}_files, joined with sync_transfer.
update_file_sync_states(db, f) ==
  IF db.sync = "None" THEN db ELSE [db EXCEPT !.file[f] = "Terminal"]

\* INSERT INTO sync_incoming_files_inflight, joined with sync_transfer.
start_incoming_file(db, f) ==
  IF db.sync = "None" THEN db ELSE [db EXCEPT !.inflight = @ \cup {f}]

stop_incoming_file(db, f) == [db EXCEPT !.inflight = @ \ {f}]

\* INSERT INTO *_path_*_states, selecting the path from its table: no row is
\* added for a transfer whose rows are gone.
insert_path_state(db, f, v) ==
  IF db.row THEN [db EXCEPT !.hist[f] = @ \cup {v}] ELSE db

insert_transfer_cancel_state(db) ==
  IF db.row THEN [db EXCEPT !.cancel = TRUE] ELSE db

\* Only a transfer that is canceled or failed can be purged.
purge_transfers(db) == IF db.cancel THEN [db EXCEPT !.deleted = TRUE] ELSE db

\* Purged transfers that have nothing left to synchronize are deleted.
cleanup_garbage_transfers(db) ==
  IF db.row /\ db.deleted /\ db.sync = "None" THEN NoRows ELSE db

-----------------------------------------------------------------------------
\* Mutant: a terminal file without history is taken for a completed one.
RestoredVerdictOptimist(db, f) ==
  CASE "Rejected" \in db.hist[f] -> "Rejected"
    [] "Rejected" \notin db.hist[f] /\ "Failed" \in db.hist[f] -> "Failed"
    [] OTHER -> "Completed"

(***************************************************************************)
(* What restore_incoming and restore_outgoing make of the rows of a file:  *)
(* the recorded history decides first, in a fixed order; a file that is    *)
(* terminal without any history is assumed to have failed.                 *)
(***************************************************************************)
RestoredVerdict(db, f) ==
  CASE "Rejected"  \in db.hist[f] -> "Rejected"
    [] "Rejected"  \notin db.hist[f] /\ "Completed" \in db.hist[f] -> "Completed"
    [] OTHER -> "Failed"

IsRestoredTerminal(db, f) == db.hist[f] # {} \/ db.file[f] = "Terminal"

\* incoming_files_in_flight selects only rows whose file is still Alive.
incoming_files_to_resume(db) == {f \in db.inflight : db.file[f] = "Alive"}
=============================================================================
