---------------------------- MODULE LibraryImport ----------------------------
(***************************************************************************)
(* Uploads of a novel-platform library: inspect, commit and delete         *)
(* requests of the administrator, the two directories of the library       *)
(* volume (temporary and permanent objects), and the cleanup command.      *)
(*                                                                         *)
(* A commit moves an import's temporary objects to permanent names and     *)
(* publishes them with one PostgreSQL transaction that holds the row lock  *)
(* of the import; a failed commit first rolls back, which releases the     *)
(* lock, and then moves the objects back.  The cleanup command works on    *)
(* the same rows and directories from another process.                     *)
(*                                                                         *)
(* Every change of a row or of a directory that another request or the     *)
(* cleanup can observe is a step of its own.  An import has a source and   *)
(* perhaps one more object: the normalized text of a TXT upload, or the    *)
(* cover of an EPUB (the cover and its thumbnail go together).  All        *)
(* imports go to one book, so that their covers replace each other.        *)
(***************************************************************************)
EXTENDS Integers, FiniteSets

CONSTANTS
    Import,         \* ids of library_imports rows
    Epub,           \* the imports of EPUB files; the others are texts
    Key,            \* keys of temporary objects
    File,           \* storage keys of permanent objects
    Req,            \* requests that can be open at the same time
    NoImport, NoKey, NoFile,
    MaxFaults,      \* bound: crashes of the server and failures of a restore
    DeleteOrphans   \* the --delete-orphans option of the cleanup command

ASSUME LibraryImportAssumption ==
    /\ Epub \subseteq Import
    /\ MaxFaults \in Nat /\ DeleteOrphans \in BOOLEAN
    /\ NoImport \notin Import /\ NoKey \notin Key /\ NoFile \notin File

VARIABLES
    imports,    \* library_imports
    stored,     \* storage keys of the stored_files rows
    temp,       \* the temporary directory
    perm,       \* the permanent directory
    cover,      \* the cover file of the book
    req,        \* open requests
    job,        \* the cleanup command
    faults

vars == <<imports, stored, temp, perm, cover, req, job, faults>>
tables == <<imports, stored, cover>>
disk == <<temp, perm>>

Status == {"none", "pending", "processing", "ready", "failed", "succeeded", "deleted"}
Steps == {"idle", "process", "write", "record", "parse", "finish",
          "move", "link", "publish", "restore", "drop", "check", "mark"}
JobSteps == {"idle", "referenced", "remaining", "expired", "sweep", "list", "old", "orphans"}

ImportRow == [status : Status, source : Key \cup {NoKey}, extra : Key \cup {NoKey},
              file : File \cup {NoFile}, old : BOOLEAN]
Object == [present : BOOLEAN, old : BOOLEAN]
PermObject == [present : BOOLEAN, old : BOOLEAN, from : Key \cup {NoKey}]
Request == [imp : Import \cup {NoImport}, step : Steps, source : Key \cup {NoKey},
            extra : Key \cup {NoKey}, todo : SUBSET Key, moved : SUBSET File,
            cur : File \cup {NoFile}, drop : SUBSET Key,
            gone : File \cup {NoFile}, fatal : BOOLEAN]
Job == [step : JobSteps, expired : SUBSET Key, keep : SUBSET Key,
        known : SUBSET File, listed : SUBSET File]

Idle == [imp |-> NoImport, step |-> "idle", source |-> NoKey, extra |-> NoKey,
         todo |-> {}, moved |-> {}, cur |-> NoFile, drop |-> {}, gone |-> NoFile,
         fatal |-> FALSE]
NoJob == [step |-> "idle", expired |-> {}, keep |-> {}, known |-> {}, listed |-> {}]

TypeOK ==
    /\ imports \in [Import -> ImportRow]
    /\ stored \in SUBSET File
    /\ temp \in [Key -> Object] /\ perm \in [File -> PermObject]
    /\ req \in [Req -> Request] /\ job \in Job
    /\ cover \in File \cup {NoFile}
    /\ faults \in 0 .. MaxFaults

Init ==
    /\ imports = [i \in Import |-> [status |-> "none", source |-> NoKey,
                                    extra |-> NoKey, file |-> NoFile, old |-> FALSE]]
    /\ stored = {}
    /\ temp = [k \in Key |-> [present |-> FALSE, old |-> FALSE]]
    /\ perm = [f \in File |-> [present |-> FALSE, old |-> FALSE, from |-> NoKey]]
    /\ req = [p \in Req |-> Idle]
    /\ job = NoJob
    /\ cover = NoFile
    /\ faults = 0

-----------------------------------------------------------------------------
(* Rows and objects.                                                       *)

KeysOf(i) == {imports[i].source, imports[i].extra} \ {NoKey}

RowExists(i) == imports[i].status \notin {"none", "deleted"}

\* Keys are random, so a key is used for one object only.
FreshKey == {k \in Key : /\ ~temp[k].present /\ k \notin job.expired
                         /\ \A i \in Import : k \notin KeysOf(i)
                         /\ \A f \in File : perm[f].from # k
                         /\ \A p \in Req : k \notin {req[p].source, req[p].extra}
                                                     \cup req[p].todo \cup req[p].drop}
FreshFile == {f \in File : perm[f].from = NoKey}

TempFile(k, present, old) == temp' = [temp EXCEPT ![k] = [present |-> present, old |-> old]]

\* The commit requests hold the row lock of their import until they end their
\* transaction; every other request locks the row within one step.
Locked(i) == \E p \in Req : req[p].imp = i /\ req[p].step \in {"move", "link", "publish"}

\* get_import(for_update=True)
CommitRow(i) == ~Locked(i)

-----------------------------------------------------------------------------
(* Requests.                                                               *)

Move(p, r) == req' = [req EXCEPT ![p] = r]
Close(p) == Move(p, Idle)

\* UPDATE of the columns of row i; a row that is gone makes the flush fail.
SetStatus(i, s) == imports' = [imports EXCEPT ![i].status = s]

-----------------------------------------------------------------------------
(* inspect: the row is committed in four transactions, around the writing  *)
(* and the parsing of the upload.                                          *)

InspectStart(p, i) ==
    /\ req[p].step = "idle" /\ imports[i].status = "none"
    /\ SetStatus(i, "pending")
    /\ Move(p, [Idle EXCEPT !.imp = i, !.step = "process"])
    /\ UNCHANGED <<stored, cover, disk, job, faults>>

InspectProcess(p) ==
    /\ req[p].step = "process"
    /\ IF RowExists(req[p].imp)
       THEN SetStatus(req[p].imp, "processing") /\ Move(p, [req[p] EXCEPT !.step = "write"])
       ELSE Close(p) /\ UNCHANGED imports
    /\ UNCHANGED <<stored, cover, disk, job, faults>>

\* write_temporary
InspectWrite(p, k) ==
    /\ req[p].step = "write" /\ k \in FreshKey
    /\ TempFile(k, TRUE, FALSE)
    /\ Move(p, [req[p] EXCEPT !.step = "record", !.source = k])
    /\ UNCHANGED <<tables, perm, job, faults>>

\* The key of the upload is committed before the upload is parsed.
InspectRecord(p) ==
    /\ req[p].step = "record"
    /\ IF RowExists(req[p].imp)
       THEN /\ imports' = [imports EXCEPT ![req[p].imp].source = req[p].source]
            /\ Move(p, [req[p] EXCEPT !.step = "parse"])
       ELSE Close(p) /\ UNCHANGED imports
    /\ UNCHANGED <<stored, cover, disk, job, faults>>

\* The parser reads the upload; it leaves the normalized text or a cover.
InspectExtra(p, k) ==
    /\ req[p].step = "parse" /\ k \in FreshKey
    /\ temp[req[p].source].present
    /\ TempFile(k, TRUE, FALSE)
    /\ Move(p, [req[p] EXCEPT !.step = "finish", !.extra = k])
    /\ UNCHANGED <<tables, perm, job, faults>>

InspectPlain(p) ==
    /\ req[p].step = "parse"
    /\ temp[req[p].source].present
    /\ Move(p, [req[p] EXCEPT !.step = "finish"])
    /\ UNCHANGED <<tables, disk, job, faults>>

InspectReady(p) ==
    LET i == req[p].imp
    IN  /\ req[p].step = "finish"
        /\ imports' = IF RowExists(i)
                      THEN [imports EXCEPT ![i].status = "ready", ![i].extra = req[p].extra]
                      ELSE imports
        /\ Close(p)
        /\ UNCHANGED <<stored, cover, disk, job, faults>>

\* _record_failure: a bad or oversized upload, a storage error.
InspectFail(p) ==
    LET i == req[p].imp
    IN  /\ req[p].step \in {"write", "parse"}
        /\ imports' = IF RowExists(i) THEN [imports EXCEPT ![i].status = "failed"] ELSE imports
        /\ Close(p)
        /\ UNCHANGED <<stored, cover, disk, job, faults>>

\* A commit of the inspection fails, and with it what the session was to
\* write; recording the failure succeeds or fails, too.
InspectLost(p) ==
    LET i == req[p].imp
    IN  /\ req[p].step \in {"process", "record", "finish"}
        /\ \/ UNCHANGED imports
           \/ /\ req[p].step # "process" /\ RowExists(i)
              /\ SetStatus(i, "failed")
        /\ Close(p)
        /\ UNCHANGED <<stored, cover, disk, job, faults>>

-----------------------------------------------------------------------------
(* delete                                                                  *)

DeleteRow(p, i) ==
    /\ req[p].step = "idle" /\ CommitRow(i)
    /\ RowExists(i) /\ imports[i].status # "succeeded"
    /\ imports' = [imports EXCEPT ![i].status = "deleted", ![i].source = NoKey,
                                  ![i].extra = NoKey, ![i].file = NoFile]
    /\ Move(p, [Idle EXCEPT !.imp = i, !.step = "drop", !.drop = KeysOf(i)])
    /\ UNCHANGED <<stored, cover, disk, job, faults>>

\* After the transaction: objects that nothing refers to any more.
DropUnused(p) ==
    /\ req[p].step = "drop"
    /\ temp' = [k \in Key |-> IF k \in req[p].drop
                              THEN [temp[k] EXCEPT !.present = FALSE] ELSE temp[k]]
    /\ perm' = [f \in File |-> IF f = req[p].gone
                               THEN [perm[f] EXCEPT !.present = FALSE] ELSE perm[f]]
    /\ Close(p)
    /\ UNCHANGED <<tables, job, faults>>

-----------------------------------------------------------------------------
(* commit                                                                  *)

\* The objects a commit takes: the source, the normalized text, and the
\* cover if the administrator wants it.
Selections(i) == IF i \in Epub THEN {{imports[i].source}, KeysOf(i)} ELSE {KeysOf(i)}

\* The row is locked and ready, and the selected objects are all there.
CommitStart(p, i, sel) ==
    /\ req[p].step = "idle" /\ CommitRow(i)
    /\ imports[i].status = "ready" /\ imports[i].source # NoKey
    /\ sel \in Selections(i) /\ \A k \in sel : temp[k].present
    /\ Move(p, [Idle EXCEPT !.imp = i, !.step = "move", !.todo = sel,
                            !.source = imports[i].source,
                            !.extra = IF i \in Epub /\ imports[i].extra \in sel
                                      THEN imports[i].extra ELSE NoKey,
                            !.drop = KeysOf(i) \ sel])
    /\ UNCHANGED <<tables, disk, job, faults>>

\* file_integrity_error: a selected object is missing.
CommitRefused(p, i, sel) ==
    /\ req[p].step = "idle" /\ CommitRow(i)
    /\ imports[i].status = "ready" /\ sel \in Selections(i)
    /\ imports[i].source = NoKey \/ \E k \in sel : ~temp[k].present
    /\ Move(p, [Idle EXCEPT !.imp = i, !.step = "check", !.fatal = TRUE])
    /\ UNCHANGED <<tables, disk, job, faults>>

\* Mutant: the temporary key is returned instead of the permanent one.
LinkPermanent_TemporaryKey(p, k, f) ==
    /\ req[p].step = "move" /\ k \in req[p].todo /\ f \in FreshFile
    /\ temp[k].present
    /\ perm' = [perm EXCEPT ![f] = [present |-> TRUE, old |-> temp[k].old, from |-> k]]
    /\ Move(p, [req[p] EXCEPT !.step = "link", !.todo = @ \ {k}, !.cur = k])
    /\ UNCHANGED <<tables, temp, job, faults>>

\* commit_temporary, first half: the permanent name is linked.  A hard link
\* shares the modification time of the temporary name.
LinkPermanent(p, k, f) ==
    /\ req[p].step = "move" /\ k \in req[p].todo /\ f \in FreshFile
    /\ temp[k].present
    /\ perm' = [perm EXCEPT ![f] = [present |-> TRUE, old |-> temp[k].old, from |-> k]]
    /\ Move(p, [req[p] EXCEPT !.step = "link", !.todo = @ \ {k}, !.cur = f])
    /\ UNCHANGED <<tables, temp, job, faults>>

\* Second half: the new name gets the present time, the temporary name goes.
UnlinkTemporary(p) ==
    LET f == req[p].cur
        k == perm[f].from
    IN  /\ req[p].step = "link"
        /\ perm[f].present /\ temp[k].present
        /\ perm' = [perm EXCEPT ![f].old = FALSE]
        /\ TempFile(k, FALSE, FALSE)
        /\ Move(p, [req[p] EXCEPT !.step = "move", !.moved = @ \cup {f}, !.cur = NoFile])
        /\ UNCHANGED <<tables, job, faults>>

\* Mutant: the book's cover is replaced although the commit brings none.
Apply_AnyCover(p) ==
    /\ req[p].step = "move" /\ req[p].todo = {}
    /\ Move(p, [req[p] EXCEPT !.step = "publish", !.gone = cover])
    /\ UNCHANGED <<tables, disk, job, faults>>

\* The domain operations: the book is read, without a lock, and its cover is
\* to be replaced if this commit brings one.
Apply(p) ==
    /\ req[p].step = "move" /\ req[p].todo = {}
    /\ Move(p, [req[p] EXCEPT !.step = "publish",
                              !.gone = IF req[p].extra = NoKey THEN NoFile ELSE cover])
    /\ UNCHANGED <<tables, disk, job, faults>>

\* The session rolls back.  "fatal" errors are the terminal and the
\* unexpected ones, which mark the import as failed.
Rollback(p, fatal) ==
    Move(p, [req[p] EXCEPT !.step = "restore", !.todo = {}, !.cur = NoFile, !.source = NoKey,
                           !.extra = NoKey, !.drop = {}, !.gone = NoFile, !.fatal = fatal])

\* A storage or a database error, a refused operation, a conflict.
CommitFail(p, fatal) ==
    /\ req[p].step \in {"move", "publish"}
    /\ Rollback(p, fatal)
    /\ UNCHANGED <<tables, disk, job, faults>>

\* commit_temporary removes the name it linked.
LinkFail(p) ==
    /\ req[p].step = "link"
    /\ perm' = [perm EXCEPT ![req[p].cur].present = FALSE]
    /\ Rollback(p, FALSE)
    /\ UNCHANGED <<tables, temp, job, faults>>

\* The permanent file a temporary object has become.
MovedFrom(p, k) == CHOOSE f \in req[p].moved : perm[f].from = k

\* Mutant: the row of the replaced cover is kept.
Published_KeepsCover(p) ==
    /\ stored' = stored \cup req[p].moved
    /\ cover' = IF req[p].extra = NoKey THEN cover
                ELSE MovedFrom(p, req[p].extra)
    /\ imports' = [imports EXCEPT ![req[p].imp].status = "succeeded",
                                  ![req[p].imp].source = NoKey, ![req[p].imp].extra = NoKey,
                                  ![req[p].imp].file = MovedFrom(p, req[p].source)]

\* The transaction commits: files, book, and the import together.
Published(p) ==
    /\ stored' = (stored \cup req[p].moved) \ {req[p].gone}
    /\ cover' = IF req[p].extra = NoKey THEN cover
                ELSE MovedFrom(p, req[p].extra)
    /\ imports' = [imports EXCEPT ![req[p].imp].status = "succeeded",
                                  ![req[p].imp].source = NoKey, ![req[p].imp].extra = NoKey,
                                  ![req[p].imp].file = MovedFrom(p, req[p].source)]

\* Mutant: an error of the work after the COMMIT is handled like one before.
Publish_InTry(p) ==
    /\ req[p].step = "publish"
    /\ Published(p)
    /\ Move(p, [req[p] EXCEPT !.step = "drop"]) \/ Rollback(p, TRUE)
    /\ UNCHANGED <<disk, job, faults>>

Publish(p) ==
    /\ req[p].step = "publish"
    /\ Published(p)
    /\ Move(p, [req[p] EXCEPT !.step = "drop"])
    /\ UNCHANGED <<disk, job, faults>>

\* The transaction is committed but the connection breaks before the reply.
PublishUnseen(p) ==
    /\ req[p].step = "publish"
    /\ Published(p)
    /\ Rollback(p, TRUE)
    /\ UNCHANGED <<disk, job, faults>>

\* Mutant: the last object is not restored.
RestoreTodo_NotAll(p) == IF Cardinality(req[p].moved) > 1 THEN req[p].moved ELSE {}

RestoreTodo(p) == req[p].moved

\* restore_committed, one object after the other, unless the temporary name
\* is taken or the object is gone.
Restore(p, f) ==
    LET k == perm[f].from
    IN  /\ req[p].step = "restore" /\ f \in RestoreTodo(p)
        /\ IF perm[f].present /\ ~temp[k].present
           THEN TempFile(k, TRUE, perm[f].old) /\ perm' = [perm EXCEPT ![f].present = FALSE]
           ELSE UNCHANGED disk
        /\ Move(p, [req[p] EXCEPT !.moved = @ \ {f}])
        /\ UNCHANGED <<tables, job, faults>>

\* An object that cannot be restored is logged and skipped.
RestoreFail(p, f) ==
    /\ faults < MaxFaults
    /\ req[p].step = "restore" /\ f \in RestoreTodo(p)
    /\ faults' = faults + 1
    /\ Move(p, [req[p] EXCEPT !.moved = @ \ {f}])
    /\ UNCHANGED <<tables, disk, job>>

RestoreDone(p) ==
    /\ req[p].step = "restore" /\ RestoreTodo(p) = {}
    /\ IF req[p].fatal THEN Move(p, [req[p] EXCEPT !.step = "check"]) ELSE Close(p)
    /\ UNCHANGED <<tables, disk, job, faults>>

\* record_expected_failure and record_unexpected_failure read the import
\* without a lock ...
FailureCheck(p) ==
    /\ req[p].step = "check"
    /\ IF imports[req[p].imp].status = "ready"
       THEN Move(p, [req[p] EXCEPT !.step = "mark"])
       ELSE Close(p)
    /\ UNCHANGED <<tables, disk, job, faults>>

\* ... and update it, when the row lock is free, whatever became of it.
FailureMark(p) ==
    LET i == req[p].imp
    IN  /\ req[p].step = "mark" /\ ~Locked(i)
        /\ imports' = IF RowExists(i) THEN [imports EXCEPT ![i].status = "failed"] ELSE imports
        /\ Close(p)
        /\ UNCHANGED <<stored, cover, disk, job, faults>>

-----------------------------------------------------------------------------
(* scripts/cleanup_library_storage.py                                      *)

\* Mutant: only complete previews expire.
Stale_ReadyOnly == {i \in Import : imports[i].old /\ ~Locked(i) /\ imports[i].status = "ready"}

\* One transaction: stale imports that nobody has locked expire.
Stale == {i \in Import : /\ imports[i].old /\ ~Locked(i)
                         /\ imports[i].status \in {"pending", "processing", "ready", "failed"}}

JobStart ==
    /\ job.step = "idle"
    /\ job' = [NoJob EXCEPT !.step = "referenced", !.expired = UNION {KeysOf(i) : i \in Stale}]
    /\ imports' = [i \in Import |->
                     IF i \in Stale
                     THEN [imports[i] EXCEPT !.status = "failed", !.source = NoKey, !.extra = NoKey]
                     ELSE imports[i]]
    /\ UNCHANGED <<stored, cover, disk, req, faults>>

JobReferenced ==
    /\ job.step = "referenced"
    /\ job' = [job EXCEPT !.step = "remaining", !.known = stored]
    /\ UNCHANGED <<tables, disk, req, faults>>

\* Mutant: the keys of the imports that were skipped are not read.
Remaining_None == {}

\* The temporary keys of every import.
Remaining == UNION {KeysOf(i) : i \in Import}

JobRemaining ==
    /\ job.step = "remaining"
    /\ job' = [job EXCEPT !.step = "expired", !.keep = Remaining]
    /\ UNCHANGED <<tables, disk, req, faults>>

JobDeleteExpired ==
    /\ job.step = "expired"
    /\ temp' = [k \in Key |-> IF k \in job.expired \ job.keep
                              THEN [temp[k] EXCEPT !.present = FALSE] ELSE temp[k]]
    /\ job' = [job EXCEPT !.step = "sweep"]
    /\ UNCHANGED <<tables, perm, req, faults>>

\* Mutant: only objects of expired imports are swept.
SweepKeys_Expired == {k \in Key : temp[k].present /\ temp[k].old /\ k \in job.expired \ job.keep}

\* cleanup_temporary_files
SweepKeys == {k \in Key : temp[k].present /\ temp[k].old /\ k \notin job.keep}

JobSweep ==
    /\ job.step = "sweep"
    /\ temp' = [k \in Key |-> IF k \in SweepKeys
                              THEN [temp[k] EXCEPT !.present = FALSE] ELSE temp[k]]
    /\ job' = [job EXCEPT !.step = "list"]
    /\ UNCHANGED <<tables, perm, req, faults>>

\* list_storage_keys, then list_storage_keys_older_than
JobList ==
    /\ job.step = "list"
    /\ job' = [job EXCEPT !.step = "old",
                          !.listed = {f \in File : perm[f].present} \ job.known]
    /\ UNCHANGED <<tables, disk, req, faults>>

\* Mutant: the comparison with the threshold is turned around.
JobListOld_Recent ==
    /\ job.step = "old"
    /\ job' = [job EXCEPT !.step = "orphans",
                          !.listed = {f \in @ : perm[f].present /\ ~perm[f].old}]
    /\ UNCHANGED <<tables, disk, req, faults>>

JobListOld ==
    /\ job.step = "old"
    /\ job' = [job EXCEPT !.step = "orphans",
                          !.listed = {f \in @ : perm[f].present /\ perm[f].old}]
    /\ UNCHANGED <<tables, disk, req, faults>>

JobDeleteOrphan(f) ==
    /\ job.step = "orphans" /\ DeleteOrphans
    /\ f \in job.listed
    /\ perm' = [perm EXCEPT ![f].present = FALSE]
    /\ job' = [job EXCEPT !.listed = @ \ {f}]
    /\ UNCHANGED <<tables, temp, req, faults>>

JobEnd ==
    /\ job.step = "orphans" /\ (DeleteOrphans => job.listed = {})
    /\ job' = NoJob
    /\ UNCHANGED <<tables, disk, req, faults>>

-----------------------------------------------------------------------------
(* Crashes and time.                                                       *)

\* The server process is killed: its transactions roll back, nothing is undone
\* on disk.
Crash ==
    /\ faults < MaxFaults
    /\ faults' = faults + 1
    /\ req' = [p \in Req |-> Idle]
    /\ UNCHANGED <<tables, disk, job>>

\* No request is open.
Quiet == \A p \in Req : req[p] = Idle

\* The time to live of a preview passes.  It is at least an hour, which no
\* request and no run of the cleanup takes.
TimePasses ==
    /\ Quiet /\ job = NoJob
    /\ imports' = [i \in Import |-> [imports[i] EXCEPT !.old = RowExists(i)]]
    /\ temp' = [k \in Key |-> [temp[k] EXCEPT !.old = temp[k].present]]
    /\ perm' = [f \in File |-> [perm[f] EXCEPT !.old = perm[f].present]]
    /\ UNCHANGED <<stored, cover, req, job, faults>>

-----------------------------------------------------------------------------
(* The specification.                                                      *)

Inspect(p) ==
    \/ InspectProcess(p) \/ InspectRecord(p) \/ InspectPlain(p) \/ InspectReady(p)
    \/ \E k \in Key : InspectWrite(p, k) \/ InspectExtra(p, k)
    \/ InspectFail(p) \/ InspectLost(p)

Commit(p) ==
    \/ \E k \in Key, f \in File : LinkPermanent(p, k, f)
    \/ UnlinkTemporary(p) \/ LinkFail(p)
    \/ \E fatal \in BOOLEAN : CommitFail(p, fatal)
    \/ Apply(p) \/ Publish(p)
    \/ \E f \in File : Restore(p, f) \/ RestoreFail(p, f)
    \/ RestoreDone(p) \/ FailureCheck(p) \/ FailureMark(p)

\* The steps an open request goes on with.
Continue(p) == Inspect(p) \/ Commit(p) \/ DropUnused(p)

Start(p) == \E i \in Import :
               \/ InspectStart(p, i) \/ DeleteRow(p, i)
               \/ \E sel \in SUBSET Key : CommitStart(p, i, sel) \/ CommitRefused(p, i, sel)

JobNext == \/ JobReferenced \/ JobRemaining \/ JobDeleteExpired \/ JobSweep
           \/ JobList \/ JobListOld \/ JobEnd
           \/ \E f \in File : JobDeleteOrphan(f)

Server == (\E p \in Req : Start(p) \/ Continue(p)) \/ Crash

Next == Server \/ JobStart \/ JobNext \/ TimePasses

Spec == Init /\ [][Next]_vars

\* The same with a database connection that can break at the wrong moment.
LossySpec == Init /\ [][Next \/ \E p \in Req : PublishUnseen(p)]_vars

\* An open request goes on (its locks are granted in the order they were asked
\* for) and a cleanup ends; time passes, and the cleanup is run again and again,
\* as long as the administrator lets both rest now and then.
Fairness ==
    /\ \A p \in Req : WF_vars(Continue(p))
    /\ WF_vars(JobNext)
    /\ SF_vars(Quiet /\ JobStart) /\ SF_vars(TimePasses)
    /\ []<>(Quiet /\ job = NoJob)

FairSpec == Spec /\ Fairness

-----------------------------------------------------------------------------
(* Properties.                                                             *)

\* A file that a committed stored_files row names is in the library, whatever
\* commits fail or crash around it: rows are published after their files are in
\* place, and a file goes only after its row (commit, _apply_cover).
PublishedFilesPresent == \A f \in stored : perm[f].present

\* What a ready preview still needs for its commit has not been lost: each
\* object is in the temporary directory, or a commit has moved it and it is in
\* the permanent one (_restore_moved, and what the cleanup preserves).
Needed(i) == IF i \in Epub THEN {imports[i].source} ELSE KeysOf(i)

ReadyContentKept ==
    \A i \in Import : imports[i].status = "ready" =>
        \A k \in Needed(i) :
            temp[k].present \/ \E f \in File : perm[f].present /\ perm[f].from = k

\* A failed commit leaves nothing behind in the library: without a crash or a
\* failure of the disk, every permanent file has its row once no request is
\* open (commit's except clauses, _restore_moved).
NoOrphanWithoutFault ==
    (faults = 0 /\ Quiet) => \A f \in File : perm[f].present => f \in stored

\* The book shows a cover whose file has its row, although the commits that
\* replace it read it without a lock (_apply_cover).
CoverIsStored == cover # NoFile => cover \in stored

\* An import that is complete, whose row names the file it brought, "cannot be
\* deleted as a temporary upload" (ImportInspectionService.delete).
CompletedNotDeleted ==
    [][\A i \in Import : imports[i].file # NoFile => imports'[i].status # "deleted"]_vars

\* Every object of the temporary directory leaves it in the end: it is
\* published, or dropped, or swept by the cleanup after its time to live, also
\* when the server was killed while it was written.
TemporaryReclaimed == \A k \in Key : temp[k].present ~> ~temp[k].present

\* An inspection that was cut off does not stay "processing" for ever: the
\* cleanup expires its import.
InspectionSettles ==
    \A i \in Import : imports[i].status \in {"pending", "processing"}
                       ~> imports[i].status \notin {"pending", "processing"}

\* With --delete-orphans, a file that a crashed commit left behind goes in the
\* end.
OrphanReclaimed ==
    \A f \in File : (perm[f].present /\ f \notin stored)
                     ~> (~perm[f].present \/ f \in stored)
=============================================================================
