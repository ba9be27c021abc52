------------------------------- MODULE Storage -------------------------------
(***************************************************************************)
(* The content of the attachments, next to the rows of Reports: uploads in *)
(* chunks to encrypted temporary files whose keys are only in memory, the  *)
(* delivery job that commits the rows first and writes the content after,  *)
(* the daily cleaning of content that no row refers to, and the restart    *)
(* of the process, which loses what is in memory.                          *)
(*                                                                         *)
(* The transactions are those of Reports.  Between two of them the reactor *)
(* thread runs the steps of this module, each without interruption.        *)
(***************************************************************************)
EXTENDS Reports

CONSTANTS
  Parts,    (* Chunks of every attachment.                                  *)
  Faults    (* What may go wrong: "restart", "write".                       *)

ASSUME StorageAssumption ==
  /\ Parts \in Nat \ {0}
  /\ Faults \subseteq {"restart", "write"}

VARIABLES
  sent,      (* file |-> chunks that the client has sent so far.            *)
  entry,     (* Files that have an entry in State.TempUploadFiles.          *)
  chunks,    (* file |-> chunks in the temporary file of the entry.         *)
  pending,   (* Files of the delivery in progress, whose rows are committed.*)
  disk,      (* file |-> "absent", or the age of the content in the         *)
             (* attachments directory: "fresh", "day" or "old".             *)
  stored,    (* file |-> chunks in that content.                            *)
  cleaning,  (* The cleaning job has its list of tracked attachments.       *)
  tracked,   (* That list.                                                  *)
  mishap     (* History: files met by an expiry, a fault or a restart       *)
             (* before their content was written.                           *)

tempVars    == <<sent, entry, chunks>>
diskVars    == <<disk, stored>>
cleanerVars == <<cleaning, tracked>>
storageVars == <<tempVars, pending, diskVars, cleanerVars, mishap>>
storageAll  == <<vars, storageVars>>

All        == 1 .. Parts
Tracked    == {f \in Files : ifile[f] \in {"new", "delivered"}}
Unwritten  == {f \in Files : sent[f] > 0 /\ disk[f] = "absent"}

-----------------------------------------------------------------------------
(* Uploads. *)

UploadChunkMutant(f) ==
  /\ sent[f] < Parts
  /\ sent' = [sent EXCEPT ![f] = @ + 1]
  /\ entry' = entry \cup {f}
  /\ chunks' = [chunks EXCEPT ![f] = {sent[f] + 1}]
  /\ UNCHANGED <<vars, pending, diskVars, cleanerVars, mishap>>

(* A chunk is appended to the temporary file of its entry; when there is   *)
(* no entry, be it the first chunk or not, a new file is begun.            *)
UploadChunk(f) ==
  /\ sent[f] < Parts
  /\ sent' = [sent EXCEPT ![f] = @ + 1]
  /\ entry' = entry \cup {f}
  /\ chunks' = [chunks EXCEPT ![f] =
                  (IF f \in entry THEN @ ELSE {}) \cup {sent[f] + 1}]
  /\ UNCHANGED <<vars, pending, diskVars, cleanerVars, mishap>>

(* An hour after the first chunk the entry goes, in use or not. *)
ExpireUpload(f) ==
  /\ f \in entry
  /\ entry' = entry \ {f}
  /\ chunks' = [chunks EXCEPT ![f] = {}]
  /\ mishap' = mishap \cup {f}
  /\ UNCHANGED <<vars, sent, pending, diskVars, cleanerVars>>

-----------------------------------------------------------------------------
(* Transactions.  A file gets its row only when its last chunk has come.   *)
Transaction ==
  /\ WhistleblowerStep \/ CaseStep \/ AccessStep \/ AdminStep
       \/ CleanExpiredReports \/ Tick
  /\ \A f \in Files : ifile[f] = "none" /\ ifile'[f] = "new" => sent[f] = Parts
  /\ UNCHANGED storageVars

-----------------------------------------------------------------------------
(* Delivery. *)

(* The job never overlaps with itself. *)
StartDelivery(B) ==
  /\ pending = {}
  /\ FileDelivery(B)
  /\ pending' = B
  /\ UNCHANGED <<tempVars, diskVars, cleanerVars, mishap>>

(* The entries of the batch are popped and their content is written.  A    *)
(* missing entry is skipped, a failing write is logged and skipped: the    *)
(* rows say delivered in any case.                                         *)
WriteFiles(W) ==
  LET popped == pending \cap entry IN
  /\ pending # {}
  /\ W \subseteq popped
  /\ "write" \notin Faults => W = popped
  /\ entry' = entry \ pending
  /\ chunks' = [f \in Files |-> IF f \in pending THEN {} ELSE chunks[f]]
  /\ disk' = [f \in Files |-> IF f \in popped THEN "fresh" ELSE disk[f]]
  /\ stored' = [f \in Files |-> IF f \in W THEN chunks[f]
                                ELSE IF f \in popped THEN {} ELSE stored[f]]
  /\ mishap' = mishap \cup (popped \ W)
  /\ pending' = {}
  /\ UNCHANGED <<vars, sent, cleanerVars>>

-----------------------------------------------------------------------------
(* Cleaning, once a day. *)

StartCleaningMutant ==
  /\ ~cleaning
  /\ cleaning' = TRUE
  /\ tracked' = {f \in Files : home[f] # NoReport}
  /\ disk' = [f \in Files |-> CASE disk[f] = "fresh"  -> "day"
                                [] disk[f] = "absent" -> "absent"
                                [] OTHER              -> "old"]
  /\ UNCHANGED <<vars, tempVars, pending, stored, mishap>>

(* The tracked attachments are read in a transaction.  A day has passed    *)
(* since the last run: content met by two runs before is a day old.        *)
StartCleaning ==
  /\ ~cleaning
  /\ cleaning' = TRUE
  /\ tracked' = Tracked
  /\ disk' = [f \in Files |-> CASE disk[f] = "fresh"  -> "day"
                                [] disk[f] = "absent" -> "absent"
                                [] OTHER              -> "old"]
  /\ UNCHANGED <<vars, tempVars, pending, stored, mishap>>

(* Content in set D goes. *)
Wipe(D) ==
  /\ disk' = [f \in Files |-> IF f \in D THEN "absent" ELSE disk[f]]
  /\ stored' = [f \in Files |-> IF f \in D THEN {} ELSE stored[f]]

RemoveUntrackedMutant ==
  /\ cleaning
  /\ cleaning' = FALSE
  /\ tracked' = {}
  /\ Wipe(Files \ tracked)
  /\ UNCHANGED <<vars, tempVars, pending, mishap>>

(* Later, with that list in hand, what is not in it and old is removed.    *)
RemoveUntracked ==
  /\ cleaning
  /\ cleaning' = FALSE
  /\ tracked' = {}
  /\ Wipe({f \in Files \ tracked : disk[f] = "old"})
  /\ UNCHANGED <<vars, tempVars, pending, mishap>>

-----------------------------------------------------------------------------
(* The process stops at any point between two steps and starts again: the  *)
(* database and the attachments stay, what was in memory does not, and     *)
(* untracked attachments are removed at once, whatever their age.          *)
Restart ==
  /\ "restart" \in Faults
  /\ sent' = [f \in Files |-> IF ifile[f] = "none" THEN 0 ELSE sent[f]]
  /\ entry' = {}
  /\ chunks' = [f \in Files |-> {}]
  /\ pending' = {}
  /\ Wipe(Files \ Tracked)
  /\ cleaning' = FALSE
  /\ tracked' = {}
  /\ mishap' = {f \in mishap \cup Unwritten : ifile[f] # "none"}
  /\ UNCHANGED vars

StorageInit ==
  /\ Init
  /\ sent = [f \in Files |-> 0]
  /\ entry = {}
  /\ chunks = [f \in Files |-> {}]
  /\ pending = {}
  /\ disk = [f \in Files |-> "absent"]
  /\ stored = [f \in Files |-> {}]
  /\ cleaning = FALSE
  /\ tracked = {}
  /\ mishap = {}

StorageNext ==
  \/ Transaction
  \/ \E f \in Files : UploadChunk(f) \/ ExpireUpload(f)
  \/ \E B \in SUBSET Files : StartDelivery(B) \/ WriteFiles(B)
  \/ StartCleaning
  \/ RemoveUntracked
  \/ Restart

StorageSpec == StorageInit /\ [][StorageNext]_storageAll

(* The jobs are scheduled for as long as the process runs. *)
FairStorageSpec ==
  /\ StorageSpec
  /\ WF_storageAll(\E W \in SUBSET Files : WriteFiles(W))
  /\ WF_storageAll(StartCleaning)
  /\ WF_storageAll(RemoveUntracked)

-----------------------------------------------------------------------------
(* Properties. *)

(* Type invariant of the variables of this module. *)
StorageTypeOK ==
  /\ sent \in [Files -> 0 .. Parts]
  /\ entry \subseteq Files
  /\ chunks \in [Files -> SUBSET All]
  /\ pending \subseteq Files
  /\ disk \in [Files -> {"absent", "fresh", "day", "old"}]
  /\ stored \in [Files -> SUBSET All]
  /\ cleaning \in BOOLEAN
  /\ tracked \subseteq Files
  /\ mishap \subseteq Files

(* An attachment that its recipients see as delivered is on the disk, and  *)
(* whole, once the delivery is over, unless its temporary file expired,    *)
(* its write failed or the process was restarted before it was written.    *)
DeliveredIsStored ==
  \A f \in Files : ifile[f] = "delivered" /\ f \notin pending \cup mishap =>
    disk[f] # "absent" /\ stored[f] = All

(* The test of the cleaning job counts, after a delivery, one file on the  *)
(* disk for each attachment of the reports, without such an exception      *)
(* (test_cleaning.py, check1).                                             *)
EveryDeliveredIsOnDisk ==
  \A f \in Files : ifile[f] = "delivered" /\ f \notin pending => disk[f] # "absent"

(* Neither the cleaning, working on a list that is no longer up to date,   *)
(* nor a restart ever touches the content of an attachment that has a row, *)
(* and no second write replaces it.                                        *)
ContentStays ==
  [][\A f \in Files : disk[f] # "absent" /\ ifile'[f] \in {"new", "delivered"} =>
       disk'[f] # "absent" /\ stored'[f] = stored[f]]_storageAll

(* The content of an attachment that was deleted, by redaction, with its   *)
(* report or at its expiration, goes from the disk for good, even when the *)
(* deletion meets a delivery that is about to write it.                    *)
DeletedContentGoes ==
  \A f \in Files : ifile[f] = "deleted" ~> [](disk[f] = "absent")

=============================================================================
