------------------------------ MODULE ImportPages ------------------------------
(***************************************************************************)
(* The two pages of the web client that import files.                      *)
(*                                                                         *)
(* The upload page: what is chosen (operation, target, file, encoding) is  *)
(* sent to be inspected, the preview of the answer is corrected and        *)
(* committed.  The choices stay enabled while an answer is due, so a late  *)
(* inspection comes to a form that has changed.  The page of a series      *)
(* sends the chosen files one after another, each on its own.              *)
(*                                                                         *)
(* An import of the server is a member of Import, a new one for every      *)
(* inspection.  The fields of the metadata, with their wording, are left   *)
(* out; a page that was left is forgotten.                                 *)
(***************************************************************************)
EXTENDS Naturals, Sequences, FiniteSets

CONSTANTS
    File,
    TooLarge,       \* the files over the limit of one upload
    NoFile,
    Encoding,
    AutoEncoding,   \* the encoding that is chosen first
    Target,         \* books of the library, with one edition each
    NoTarget,
    Import,         \* bound: imports the page starts
    NoImport,
    MaxFiles        \* bound: files of one batch

ASSUME ImportPagesAssumption ==
    /\ NoFile \notin File /\ TooLarge \subseteq File
    /\ AutoEncoding \in Encoding
    /\ NoTarget \notin Target /\ NoImport \notin Import
    /\ MaxFiles \in Nat

VARIABLES
    form,       \* the upload page
    inspecting, \* its inspection under way
    committing, \* its commit under way
    deleting,   \* its deletions of failed imports under way
    offering,   \* the books it has asked for, for their editions
    batch,      \* the page of a series
    imported    \* the files the server has imported for it

importPagesVars == <<form, inspecting, committing, deleting, offering, batch, imported>>

Operation == {"create_book", "add_edition", "replace_edition_file"}

\* What an inspection depends on.
FormChoices == [mode : Operation, book : Target \cup {NoTarget},
            edition : Target \cup {NoTarget}, file : File \cup {NoFile}, encoding : Encoding]

\* A preview: its import, what was inspected, and whether the form had changed when
\* it came.  None: of is no import.
Preview == [of : Import \cup {NoImport}, choices : FormChoices, late : BOOLEAN]

ImportPagesTypeOK ==
    /\ form \in [left : BOOLEAN, choices : FormChoices, offers : Target \cup {NoTarget},
                 inspection : Preview, isInspecting : BOOLEAN,
                 isCommitting : BOOLEAN, confirm : BOOLEAN, failed : SUBSET Import,
                 deletingId : Import \cup {NoImport}]
    /\ inspecting \in [step : {"no", "sent", "done", "failed"}, of : Import \cup {NoImport},
                       choices : FormChoices]
    /\ committing \in [step : {"no", "sent", "done", "failed"}, of : Import \cup {NoImport}]
    /\ deleting \subseteq Import /\ offering \subseteq Target
    /\ batch \in [shown : BOOLEAN, files : Seq(File),
                  rows : Seq([file : File,
                              status : {"waiting", "inspecting", "committing",
                                        "succeeded", "failed"}]),
                  \* "no": not uploading
                  step : {"no", "inspecting", "committing", "done"},
                  queue : Seq(File),        \* the files of the upload under way
                  index : Nat,
                  rechosen : BOOLEAN]       \* were files chosen during the upload?
    /\ imported \subseteq File

\* The imports of the server so far.
Started == form.failed \cup deleting \cup {inspecting.of, form.inspection.of, committing.of}

-----------------------------------------------------------------------------
(* Choosing.                                                               *)

NoPreview == [of |-> NoImport, choices |-> [mode |-> "create_book", book |-> NoTarget,
                 edition |-> NoTarget, file |-> NoFile, encoding |-> AutoEncoding], late |-> FALSE]

NoCommit == [step |-> "no", of |-> NoImport]
NoInspection == [step |-> "no", of |-> NoImport, choices |-> NoPreview.choices]
LeftForm ==
    [left |-> TRUE, choices |-> NoPreview.choices, offers |-> NoTarget,
     inspection |-> NoPreview, isInspecting |-> FALSE, isCommitting |-> FALSE,
     confirm |-> FALSE, failed |-> {}, deletingId |-> NoImport]

OnUpload == ~form.left
UnchangedRest == UNCHANGED <<inspecting, committing, deleting, batch, imported>>

\* Every choice takes the preview away; another book clears the editions offered,
\* and is asked for its own.
Choose(choices) ==
    /\ OnUpload /\ ~form.confirm /\ choices # form.choices
    /\ form' = [form EXCEPT !.choices = choices, !.inspection = NoPreview,
                            !.offers = IF choices.book = form.choices.book THEN @
                                       ELSE NoTarget]
    /\ offering' = IF choices.book \in {form.choices.book, NoTarget} THEN offering
                   ELSE offering \cup {choices.book}
    /\ UnchangedRest

ChooseMode(mode) ==
    Choose(IF mode = "create_book"
           THEN [form.choices EXCEPT !.mode = mode, !.book = NoTarget, !.edition = NoTarget]
           ELSE [form.choices EXCEPT !.mode = mode])

ChooseFile(file) == Choose([form.choices EXCEPT !.file = file])
ChooseEncoding(encoding) == Choose([form.choices EXCEPT !.encoding = encoding])

\* Mutant: the preview of the book before is kept.
ChooseTargetBook_KeepsPreview(b) ==
    /\ OnUpload /\ form.choices.mode # "create_book" /\ b # form.choices.book
    /\ form' = [form EXCEPT !.choices.book = b, !.choices.edition = NoTarget,
                            !.offers = NoTarget]
    /\ offering' = IF b = NoTarget THEN offering ELSE offering \cup {b}
    /\ UnchangedRest

ChooseTargetBook(b) ==
    /\ form.choices.mode # "create_book"
    /\ Choose([form.choices EXCEPT !.book = b, !.edition = NoTarget])

\* The editions are those of the book that answered last.
ChooseTargetEdition(e) ==
    /\ form.choices.mode = "replace_edition_file" /\ e \in {NoTarget, form.offers}
    /\ Choose([form.choices EXCEPT !.edition = e])

\* A book that was asked for answers, whatever book is chosen by now; or it fails.
BookAnswers(b) ==
    /\ b \in offering /\ OnUpload
    /\ offering' = offering \ {b}
    /\ \/ form' = [form EXCEPT !.offers = b]
       \/ UNCHANGED form
    /\ UnchangedRest

-----------------------------------------------------------------------------
(* Inspection and commit.                                                  *)

\* The form is complete.
MayInspect(c) ==
    /\ c.file \in File \ TooLarge
    /\ c.mode # "create_book" => c.book # NoTarget
    /\ c.mode = "replace_edition_file" => c.edition # NoTarget

Inspect ==
    /\ OnUpload /\ ~form.confirm /\ ~form.isInspecting /\ MayInspect(form.choices)
    /\ form' = [form EXCEPT !.isInspecting = TRUE]
    /\ \E i \in Import \ Started :
         inspecting' = [step |-> "sent", of |-> i, choices |-> form.choices]
    /\ UNCHANGED <<committing, deleting, offering, batch, imported>>

ServerInspects ==
    /\ inspecting.step = "sent"
    /\ \E outcome \in {"done", "failed"} : inspecting' = [inspecting EXCEPT !.step = outcome]
    /\ UNCHANGED <<form, committing, deleting, offering, batch, imported>>

\* The preview is shown.
InspectionArrives ==
    /\ inspecting.step = "done"
    /\ form' = [form EXCEPT !.isInspecting = FALSE,
                  !.inspection = [of |-> inspecting.of, choices |-> inspecting.choices,
                                  late |-> form.choices # inspecting.choices]]
    /\ inspecting' = NoInspection
    /\ UNCHANGED <<committing, deleting, offering, batch, imported>>

\* An import that was refused is kept with its identifier; of a lost one nothing
\* is known.
InspectionFails ==
    /\ inspecting.step # "no"
    /\ form' = [form EXCEPT !.isInspecting = FALSE,
                  !.failed = IF inspecting.step = "failed" THEN @ \cup {inspecting.of} ELSE @]
    /\ inspecting' = NoInspection
    /\ UNCHANGED <<committing, deleting, offering, batch, imported>>

\* A replacement is asked about first.  (A title, a name and a language are there.)
SendCommit ==
    /\ form' = [form EXCEPT !.isCommitting = TRUE]
    /\ committing' = [step |-> "sent", of |-> form.inspection.of]

\* The preview is shown, and its button is not waiting for a commit.
Previewed ==
    OnUpload /\ ~form.confirm /\ ~form.isCommitting /\ form.inspection.of # NoImport

Commit ==
    /\ Previewed
    /\ IF form.choices.mode = "replace_edition_file"
       THEN form' = [form EXCEPT !.confirm = TRUE] /\ UNCHANGED committing
       ELSE SendCommit
    /\ UNCHANGED <<inspecting, deleting, offering, batch, imported>>

ConfirmReplacement ==
    /\ form.confirm /\ ~form.isCommitting /\ form.inspection.of # NoImport /\ SendCommit
    /\ UNCHANGED <<inspecting, deleting, offering, batch, imported>>

CancelReplacement ==
    /\ form.confirm /\ form' = [form EXCEPT !.confirm = FALSE]
    /\ UNCHANGED offering /\ UnchangedRest

ServerCommits ==
    /\ committing.step = "sent"
    /\ \E outcome \in {"done", "failed"} : committing' = [committing EXCEPT !.step = outcome]
    /\ UNCHANGED <<form, inspecting, deleting, offering, batch, imported>>

\* The page gives way to the one of the book.
CommitSucceeds ==
    /\ committing.step = "done"
    /\ form' = LeftForm /\ inspecting' = NoInspection /\ committing' = NoCommit
    /\ deleting' = {} /\ offering' = {} /\ UNCHANGED <<batch, imported>>

CommitFails ==
    /\ committing.step # "no"
    /\ form' = [form EXCEPT !.isCommitting = FALSE] /\ committing' = NoCommit
    /\ UNCHANGED <<inspecting, deleting, offering, batch, imported>>

\* Only the failed import whose deletion was asked for last is disabled; a second
\* deletion of one is refused.
DeleteFailedImport(i) ==
    /\ OnUpload /\ ~form.confirm /\ i \in form.failed \ {form.deletingId}
    /\ form' = [form EXCEPT !.deletingId = i] /\ deleting' = deleting \cup {i}
    /\ UNCHANGED <<inspecting, committing, offering, batch, imported>>

ImportDeleted(i) ==
    /\ i \in deleting /\ deleting' = deleting \ {i}
    /\ \E gone \in {{}, {i}} :
         form' = [form EXCEPT !.deletingId = NoImport, !.failed = @ \ gone]
    /\ UNCHANGED <<inspecting, committing, offering, batch, imported>>

-----------------------------------------------------------------------------
(* The page of a series.                                                   *)

UnchangedForm == UNCHANGED <<form, inspecting, committing, deleting, offering>>
Ends == {"succeeded", "failed"}

\* Files can be chosen during an upload, too.
ChooseFiles(files) ==
    /\ batch.shown /\ files # batch.files
    /\ batch' = [batch EXCEPT !.files = files, !.rechosen = batch.step # "no",
                    !.rows = [i \in DOMAIN files |->
                                [file |-> files[i], status |-> "waiting"]]]
    /\ UNCHANGED imported /\ UnchangedForm

\* update: the row at a position, whatever file it shows.
Marked(b, i, status) ==
    [b EXCEPT !.rows = [j \in DOMAIN @ |-> IF j = i THEN [@[j] EXCEPT !.status = status]
                                           ELSE @[j]]]

\* The loop goes on at position i: files that are too large fail at once.
GoesOn(b, i) ==
    LET next == CHOOSE k \in i .. Len(b.queue) + 1 :
                  /\ \A j \in i .. k - 1 : b.queue[j] \in TooLarge
                  /\ k <= Len(b.queue) => b.queue[k] \notin TooLarge
        c    == [b EXCEPT !.rows = [j \in DOMAIN @ |->
                                      IF j \in i .. next - 1
                                      THEN [@[j] EXCEPT !.status = "failed"] ELSE @[j]]]
    IN  IF next > Len(b.queue) THEN [c EXCEPT !.step = "no", !.index = 0, !.queue = <<>>]
        ELSE [Marked(c, next, "inspecting") EXCEPT !.step = "inspecting", !.index = next]

\* The button of the form waits for files, and while an upload is under way.
Uploadable == batch.shown /\ batch.step = "no" /\ batch.files # <<>>

Upload ==
    /\ Uploadable
    /\ batch' = GoesOn([batch EXCEPT !.queue = batch.files], 1)
    /\ UNCHANGED imported /\ UnchangedForm

FileInspected ==
    /\ batch.step = "inspecting"
    /\ batch' = [Marked(batch, batch.index, "committing") EXCEPT !.step = "committing"]
    /\ UNCHANGED imported /\ UnchangedForm

FileCommitted ==
    /\ batch.step = "committing"
    /\ batch' = [batch EXCEPT !.step = "done"]
    /\ imported' = imported \cup {batch.queue[batch.index]} /\ UnchangedForm

FileSucceeds ==
    /\ batch.step = "done"
    /\ batch' = GoesOn(Marked(batch, batch.index, "succeeded"), batch.index + 1)
    /\ UNCHANGED imported /\ UnchangedForm

\* Mutant: the error of a file ends the loop.
FileFails_EndsTheLoop ==
    /\ batch.step # "no"
    /\ batch' = [batch EXCEPT !.step = "no", !.index = 0, !.queue = <<>>]
    /\ UNCHANGED imported /\ UnchangedForm

\* The file is refused, or one of its two requests or answers is lost.
FileFails ==
    /\ batch.step # "no"
    /\ batch' = GoesOn(Marked(batch, batch.index, "failed"), batch.index + 1)
    /\ UNCHANGED imported /\ UnchangedForm

-----------------------------------------------------------------------------
\* The upload page, as the URL of a link fills it, or the page of a series.
ImportPagesInit ==
    /\ batch \in [shown : BOOLEAN, files : {<<>>}, rows : {<<>>}, step : {"no"},
                  queue : {<<>>}, index : {0}, rechosen : {FALSE}]
    /\ \E mode \in Operation, b \in Target \cup {NoTarget} :
         /\ (b = NoTarget) = (mode = "create_book")
         /\ batch.shown => b = NoTarget
         /\ form = IF batch.shown THEN LeftForm
                   ELSE [LeftForm EXCEPT !.left = FALSE,
                           !.choices = [NoPreview.choices EXCEPT !.mode = mode, !.book = b,
                                          !.edition = IF mode = "replace_edition_file" THEN b
                                                      ELSE NoTarget]]
         /\ offering = {b} \ {NoTarget}
    /\ inspecting = NoInspection /\ committing = NoCommit
    /\ deleting = {} /\ imported = {}

UploadPage ==
    \/ \E mode \in Operation : ChooseMode(mode)
    \/ \E file \in File \cup {NoFile} : ChooseFile(file)
    \/ \E encoding \in Encoding : ChooseEncoding(encoding)
    \/ \E b \in Target \cup {NoTarget} : ChooseTargetBook(b) \/ ChooseTargetEdition(b)
    \/ \E b \in Target : BookAnswers(b)
    \/ Inspect \/ ServerInspects \/ InspectionArrives \/ InspectionFails
    \/ Commit \/ ConfirmReplacement \/ CancelReplacement
    \/ ServerCommits \/ CommitSucceeds \/ CommitFails
    \/ \E i \in Import : DeleteFailedImport(i) \/ ImportDeleted(i)

SeriesUploadPage ==
    \/ \E n \in 0 .. MaxFiles : \E files \in [1 .. n -> File] : ChooseFiles(files)
    \/ Upload \/ FileInspected \/ FileCommitted \/ FileSucceeds \/ FileFails

ImportPagesNext == UploadPage \/ SeriesUploadPage

ImportPagesSpec == ImportPagesInit /\ [][ImportPagesNext]_importPagesVars

-----------------------------------------------------------------------------
(* Properties.                                                             *)

\* The preview that can be committed is the one of the operation, the target, the file
\* and the encoding that the form shows, unless a choice was changed while the
\* inspection was under way (chooseMode, chooseFile, chooseTargetBook,
\* chooseTargetEdition, chooseEncoding, inspect): nothing that was not inspected for it
\* is committed, and no preview stays while its target changes.
CommitsWhatWasInspected ==
    form.inspection.of # NoImport /\ ~form.inspection.late =>
        form.inspection.choices = form.choices

\* Each file of a batch has an outcome of its own: one that fails stops no other, what
\* is marked as under way is under way, and a file that is shown as uploaded was
\* imported, unless other files were chosen during the upload (upload, update).
EachFileOnItsOwn ==
    ~batch.rechosen => \A i \in DOMAIN batch.rows :
        LET row == batch.rows[i]
        IN  /\ row.status = "succeeded" => row.file \in imported
            /\ batch.step # "no" /\ i < batch.index => row.status \in Ends
            /\ row.status \in {"inspecting", "committing"} =>
                 batch.step # "no" /\ i = batch.index
=============================================================================
