--------------------------- MODULE ReadingProgress ---------------------------
(***************************************************************************)
(* The saved position of one reader in one edition: opening the edition    *)
(* and saving a position, from several devices at once, while the          *)
(* administrator replaces the edition's file.                              *)
(*                                                                         *)
(* row is the committed reading_progresses row (version 0: there is none), *)
(* revision the revision of the edition's current file.  A request reads   *)
(* the file without a lock, then takes the row lock, or the place of the   *)
(* row in the unique index (user, edition), which a second insert waits    *)
(* for; a SELECT ... FOR UPDATE does not see the insert of an open         *)
(* transaction and does not wait for it.  The row is never deleted while   *)
(* its edition exists.                                                     *)
(*                                                                         *)
(* told is what the answers have said to each device.  A device may base a *)
(* request on any answer, also an old one: an answer that is late or lost, *)
(* or a request that is delayed, is one that uses an older answer.         *)
(***************************************************************************)
EXTENDS Naturals

CONSTANTS
    Device,
    Req,            \* requests that can be open at the same time
    Place,          \* positions: section, block and percentages
    First,          \* the start of the first section
    Last,           \* the end of the last section (99.5 % and more)
    Chosen,         \* statuses a device may send; else the server decides
    NoDevice, NoPlace,
    MaxVersion,     \* bound: versions of the row
    MaxRevision     \* bound: revisions of the file

Status == {"not_started", "reading", "finished"}

ASSUME ReadingProgressAssumption ==
    /\ Chosen \subseteq Status
    /\ First \in Place /\ Last \in Place
    /\ NoDevice \notin Device /\ NoPlace \notin Place
    /\ MaxVersion \in Nat \ {0} /\ MaxRevision \in Nat \ {0}

VARIABLES
    row,        \* reading_progresses
    revision,   \* of the current edition_files row
    told,       \* the positions each device was answered
    req         \* open requests

vars == <<row, revision, told, req>>

Position == [version : 1 .. MaxVersion, place : Place,
             revision : 1 .. MaxRevision, status : Status]
NoRow == [version |-> 0, place |-> NoPlace, revision |-> 0, status |-> "none"]
Request == [op : {"none", "open", "save"}, step : {"idle", "read", "insert", "commit"},
            dev : Device \cup {NoDevice}, expected : 0 .. MaxVersion,
            place : Place \cup {NoPlace}, revision : 0 .. MaxRevision,
            status : Status \cup {"none"}]      \* "none": left to the server
Idle == [op |-> "none", step |-> "idle", dev |-> NoDevice, expected |-> 0,
         place |-> NoPlace, revision |-> 0, status |-> "none"]

TypeOK ==
    /\ row \in Position \cup {NoRow}
    /\ revision \in 1 .. MaxRevision
    /\ told \in [Device -> SUBSET Position]
    /\ req \in [Req -> Request]

Init ==
    /\ row = NoRow /\ revision = 1
    /\ told = [d \in Device |-> {}]
    /\ req = [p \in Req |-> Idle]

\* The versions a device can name; every client knows that 0 means "no row".
Known(d) == {0} \cup {t.version : t \in told[d]}

Answer(d, position) == told' = [told EXCEPT ![d] = @ \cup {position}]

\* No other request holds the row or its place in the index.
Free(p) == \A q \in Req \ {p} : req[q].step # "commit"

Goto(p, step) == req' = [req EXCEPT ![p].step = step]
End(p) == req' = [req EXCEPT ![p] = Idle]

-----------------------------------------------------------------------------
(* Opening an edition.                                                     *)

\* _readable_edition and the publication of its current file.
OpenRead(p, d) ==
    /\ req[p] = Idle
    /\ req' = [req EXCEPT ![p] = [op |-> "open", step |-> "read", dev |-> d,
                                  expected |-> 0, place |-> NoPlace,
                                  revision |-> revision, status |-> "none"]]
    /\ UNCHANGED <<row, revision, told>>

\* create_progress_if_missing, then the row FOR UPDATE.
OpenLock(p) ==
    /\ req[p].op = "open" /\ req[p].step = "read" /\ Free(p)
    /\ row.version < MaxVersion
    /\ Goto(p, "commit")
    /\ UNCHANGED <<row, revision, told>>

\* Mutant: the status changes without a new version.
Opened_SameVersion(p) ==
    CASE row = NoRow -> [version |-> 1, place |-> First,
                         revision |-> req[p].revision, status |-> "reading"]
      [] row # NoRow -> IF row.status = "not_started"
                        THEN [row EXCEPT !.status = "reading"] ELSE row

\* The row after an open: inserted, marked as being read, or as it was.
Opened(p) ==
    CASE row = NoRow -> [version |-> 1, place |-> First,
                         revision |-> req[p].revision, status |-> "reading"]
      [] row # NoRow -> IF row.status = "not_started"
                        THEN [row EXCEPT !.status = "reading", !.version = @ + 1]
                        ELSE row

OpenCommit(p) ==
    /\ req[p].op = "open" /\ req[p].step = "commit"
    /\ row' = Opened(p)
    /\ Answer(req[p].dev, Opened(p))
    /\ End(p)
    /\ UNCHANGED revision

-----------------------------------------------------------------------------
(* Saving a position.                                                      *)

\* The device names a version it was told and the current revision, which the
\* details of the book show to every reader (another one is refused, with 409
\* reader_file_changed).
SaveRead(p, d, v, place, status) ==
    /\ req[p] = Idle
    /\ v \in Known(d) /\ v < MaxVersion
    /\ req' = [req EXCEPT ![p] = [op |-> "save", step |-> "read", dev |-> d,
                                  expected |-> v, place |-> place,
                                  revision |-> revision, status |-> status]]
    /\ UNCHANGED <<row, revision, told>>

\* Mutant: the version is not compared.
SaveLock_AnyVersion(p) ==
    /\ req[p].op = "save" /\ req[p].step = "read"
    /\ row # NoRow /\ Free(p) /\ row.version < MaxVersion
    /\ Goto(p, "commit")
    /\ UNCHANGED <<row, revision, told>>

\* The row FOR UPDATE, with the expected version.
SaveLock(p) ==
    /\ req[p].op = "save" /\ req[p].step = "read"
    /\ row # NoRow /\ Free(p) /\ row.version = req[p].expected
    /\ Goto(p, "commit")
    /\ UNCHANGED <<row, revision, told>>

\* _progress_conflict: the answer shows the row.
SaveConflict(p) ==
    /\ req[p].op = "save" /\ req[p].step = "read"
    /\ row # NoRow /\ Free(p) /\ row.version # req[p].expected
    /\ Answer(req[p].dev, row)
    /\ End(p)
    /\ UNCHANGED <<row, revision>>

\* There is no row, or it is not committed yet.  (No device knows a version
\* other than 0 as long as there is none.)
SaveNoRow(p) ==
    /\ req[p].op = "save" /\ req[p].step = "read"
    /\ row = NoRow /\ req[p].expected = 0
    /\ Goto(p, "insert")
    /\ UNCHANGED <<row, revision, told>>

\* create_progress_if_missing inserts the row.
SaveInsert(p) ==
    /\ req[p].step = "insert" /\ row = NoRow /\ Free(p)
    /\ Goto(p, "commit")
    /\ UNCHANGED <<row, revision, told>>

\* Mutant: the save goes on with the row that another request has inserted.
SaveLate_GoesOn(p) ==
    /\ req[p].step = "insert" /\ row # NoRow /\ Free(p)
    /\ row.version < MaxVersion
    /\ Goto(p, "commit")
    /\ UNCHANGED <<row, revision, told>>

\* The insert does nothing, another request has inserted the row: conflict.
SaveLate(p) ==
    /\ req[p].step = "insert" /\ row # NoRow /\ Free(p)
    /\ Answer(req[p].dev, row)
    /\ End(p)
    /\ UNCHANGED <<row, revision>>

\* Mutant: an absent status is stored.
SavedStatus_AsSent(p) == req[p].status

\* An explicit status wins; otherwise finished stays finished.
SavedStatus(p) ==
    CASE req[p].status # "none" -> req[p].status
      [] req[p].status = "none" ->
           IF row.status = "finished" \/ req[p].place = Last
           THEN "finished" ELSE "reading"

Saved(p) == [version |-> row.version + 1, place |-> req[p].place,
             revision |-> req[p].revision, status |-> SavedStatus(p)]

SaveCommit(p) ==
    /\ req[p].op = "save" /\ req[p].step = "commit"
    /\ row' = Saved(p)
    /\ Answer(req[p].dev, Saved(p))
    /\ End(p)
    /\ UNCHANGED revision

\* A request fails or its client goes away: its transaction is rolled back.
Rollback(p) ==
    /\ req[p] # Idle
    /\ End(p)
    /\ UNCHANGED <<row, revision, told>>

\* The commit of an import replaces the file of the edition.
ReplaceFile ==
    /\ revision < MaxRevision
    /\ revision' = revision + 1
    /\ UNCHANGED <<row, told, req>>

-----------------------------------------------------------------------------
OpenRequest(p) == (\E d \in Device : OpenRead(p, d)) \/ OpenLock(p) \/ OpenCommit(p)

SaveRequest(p) ==
    \/ \E d \in Device, v \in 0 .. MaxVersion, place \in Place,
         status \in Chosen \cup {"none"} : SaveRead(p, d, v, place, status)
    \/ SaveLock(p) \/ SaveConflict(p)
    \/ SaveNoRow(p) \/ SaveInsert(p) \/ SaveLate(p)
    \/ SaveCommit(p)

Next == \/ \E p \in Req : OpenRequest(p) \/ SaveRequest(p) \/ Rollback(p)
        \/ ReplaceFile

Spec == Init /\ [][Next]_vars

-----------------------------------------------------------------------------
(* Properties.                                                             *)

\* A version names one position: whatever two devices were told of a version,
\* and whatever the row says of it, is the same.  A client may therefore keep
\* what it was told and compare versions only (open, save_progress).
VersionNamesOnePosition ==
    \A s, t \in {row} \cup UNION {told[d] : d \in Device} :
        s.version = t.version => s = t

\* The file revision of the saved position never goes back, although the check
\* of the revision comes before the row lock: a save that has passed it before a
\* replacement does not undo one that was made with the new file.
RevisionNeverGoesBack == [][row'.revision >= row.revision]_vars

\* The server implements the register of ADR 0011: "Concurrent Devices cannot
\* overwrite one another silently."
Register == INSTANCE VersionedRegister
    WITH Writer <- Device,
         Content <- Place \X (1 .. MaxRevision),
         Nothing <- <<NoPlace, 0>>,
         version <- row.version,
         content <- <<row.place, row.revision>>,
         seen <- [d \in Device |-> Known(d)]

NoSilentOverwrite == Register!RegSpec
==============================================================================
