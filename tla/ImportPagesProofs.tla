--------------------------- MODULE ImportPagesProofs ---------------------------
(***************************************************************************)
(* What the two pages that import files keep true for any number of files  *)
(* and imports.                                                            *)
(*                                                                         *)
(* The upload page: FormInv, with the preview.  The page of a series:      *)
(* BatchInv, which says how far the loop over the files is; the position   *)
(* it goes on to exists because a set of numbers has a least element.      *)
(*                                                                         *)
(* At the end, the web client as a whole: a behaviour of MCWebClient is    *)
(* one of every part, so that what the other proof modules show of the     *)
(* parts holds in it.                                                      *)
(***************************************************************************)
EXTENDS MCWebClient, ReadingProgressProofs, ClientSessionProofs, PagesProofs,
        FiniteSetTheorems, TLAPS

-----------------------------------------------------------------------------
(* The upload page.                                                        *)

\* The rows of ImportPagesTypeOK for the upload page.
FormRow == [left : BOOLEAN, choices : FormChoices, offers : Target \cup {NoTarget},
            inspection : Preview, isInspecting : BOOLEAN,
            isCommitting : BOOLEAN, confirm : BOOLEAN, failed : SUBSET Import,
            deletingId : Import \cup {NoImport}]
InspectionRow == [step : {"no", "sent", "done", "failed"}, of : Import \cup {NoImport},
                  choices : FormChoices]

\* The inductive invariant of the upload page; an inspection under way has an import.
FormInv ==
    /\ form \in FormRow /\ inspecting \in InspectionRow
    /\ committing \in [step : {"no", "sent", "done", "failed"}, of : Import \cup {NoImport}]
    /\ deleting \subseteq Import /\ offering \subseteq Target
    /\ inspecting.step # "no" => inspecting.of \in Import
    /\ CommitsWhatWasInspected

\* No preview, no inspection and a form that was left have their types.
LEMMA EmptyChoices ==
  /\ NoPreview.choices \in FormChoices /\ NoPreview \in Preview /\ NoPreview.of = NoImport
  /\ NoInspection \in InspectionRow /\ LeftForm \in FormRow
  /\ LeftForm.inspection = NoPreview
  <1>1. NoPreview.choices \in FormChoices
    BY ImportPagesAssumption DEF NoPreview, FormChoices, Operation
  <1>2. NoPreview \in Preview /\ NoPreview.of = NoImport
    <2>1. PICK c : c = NoPreview.choices  OBVIOUS
    <2>2. NoPreview = [of |-> NoImport, choices |-> c, late |-> FALSE]  BY <2>1 DEF NoPreview
    <2> QED  BY <1>1, <2>1, <2>2 DEF Preview
  <1>3. NoInspection \in InspectionRow  BY <1>1 DEF NoInspection, InspectionRow
  <1>4. LeftForm \in FormRow  BY <1>1, <1>2 DEF LeftForm, FormRow
  <1>5. LeftForm.inspection = NoPreview  BY DEF LeftForm
  <1> QED  BY <1>1, <1>2, <1>3, <1>4, <1>5

\* A choice takes the preview away.
LEMMA ChooseKeeps ==
  ASSUME FormInv, NEW c \in FormChoices, Choose(c)
  PROVE  FormInv'
  <1>1. form \in FormRow  BY DEF FormInv
  <1>2. PICK o \in Target \cup {NoTarget} :
          o = IF c.book = form.choices.book THEN form.offers ELSE NoTarget
    BY <1>1 DEF FormRow
  <1>3. form' = [form EXCEPT !.choices = c, !.inspection = NoPreview, !.offers = o]
    BY <1>2 DEF Choose
  <1>4. form' \in FormRow /\ form'.inspection.of = NoImport
    BY <1>1, <1>2, <1>3, EmptyChoices DEF FormRow
  <1>5. offering' \subseteq Target
    BY DEF Choose, FormInv, FormChoices
  <1>6. UNCHANGED <<inspecting, committing, deleting>>  BY DEF Choose, UnchangedRest
  <1> QED  BY <1>4, <1>5, <1>6 DEF FormInv, CommitsWhatWasInspected

\* Every control of the form that is a choice.
LEMMA ChoosersKeep ==
  ASSUME FormInv,
         \/ \E mode \in Operation : ChooseMode(mode)
         \/ \E file \in File \cup {NoFile} : ChooseFile(file)
         \/ \E encoding \in Encoding : ChooseEncoding(encoding)
         \/ \E b \in Target \cup {NoTarget} : ChooseTargetBook(b) \/ ChooseTargetEdition(b)
  PROVE  FormInv'
  <1>0. form.choices \in FormChoices  BY DEF FormInv, FormRow
  <1>1. \E c \in FormChoices : Choose(c)
    <2>1. ASSUME NEW mode \in Operation, ChooseMode(mode) PROVE \E c \in FormChoices : Choose(c)
      <3>1. PICK c : c = IF mode = "create_book"
                         THEN [form.choices EXCEPT !.mode = mode, !.book = NoTarget,
                                                   !.edition = NoTarget]
                         ELSE [form.choices EXCEPT !.mode = mode]
        OBVIOUS
      <3>2. c \in FormChoices  BY <1>0, <3>1 DEF FormChoices
      <3> QED  BY <2>1, <3>1, <3>2 DEF ChooseMode
    <2>2. ASSUME NEW file \in File \cup {NoFile}, ChooseFile(file)
          PROVE  \E c \in FormChoices : Choose(c)
      <3>1. PICK c : c = [form.choices EXCEPT !.file = file]  OBVIOUS
      <3>2. c \in FormChoices  BY <1>0, <3>1 DEF FormChoices
      <3> QED  BY <2>2, <3>1, <3>2 DEF ChooseFile
    <2>3. ASSUME NEW encoding \in Encoding, ChooseEncoding(encoding)
          PROVE  \E c \in FormChoices : Choose(c)
      <3>1. PICK c : c = [form.choices EXCEPT !.encoding = encoding]  OBVIOUS
      <3>2. c \in FormChoices  BY <1>0, <3>1 DEF FormChoices
      <3> QED  BY <2>3, <3>1, <3>2 DEF ChooseEncoding
    <2>4. ASSUME NEW b \in Target \cup {NoTarget}, ChooseTargetBook(b)
          PROVE  \E c \in FormChoices : Choose(c)
      <3>1. PICK c : c = [form.choices EXCEPT !.book = b, !.edition = NoTarget]  OBVIOUS
      <3>2. c \in FormChoices  BY <1>0, <3>1 DEF FormChoices
      <3> QED  BY <2>4, <3>1, <3>2 DEF ChooseTargetBook
    <2>5. ASSUME NEW e \in Target \cup {NoTarget}, ChooseTargetEdition(e)
          PROVE  \E c \in FormChoices : Choose(c)
      <3>1. PICK c : c = [form.choices EXCEPT !.edition = e]  OBVIOUS
      <3>2. c \in FormChoices  BY <1>0, <3>1 DEF FormChoices
      <3> QED  BY <2>5, <3>1, <3>2 DEF ChooseTargetEdition
    <2> QED  BY <2>1, <2>2, <2>3, <2>4, <2>5
  <1> QED  BY <1>1, ChooseKeeps

\* Every other step of the upload page.
LEMMA UploadKeeps ==
  ASSUME FormInv, UploadPage
  PROVE  FormInv'
  <1>0. form \in FormRow /\ inspecting \in InspectionRow  BY DEF FormInv
  <1>1. CASE \E b \in Target : BookAnswers(b)
    <2>1. PICK b \in Target : BookAnswers(b)  BY <1>1
    <2>2. form' \in FormRow /\ form'.inspection = form.inspection
          /\ form'.choices = form.choices /\ offering' \subseteq Target
      BY <1>0, <2>1 DEF BookAnswers, FormInv, FormRow
    <2> QED  BY <2>1, <2>2 DEF BookAnswers, UnchangedRest, FormInv, CommitsWhatWasInspected
  <1>2. CASE Inspect
    <2>1. PICK i \in Import : inspecting' = [step |-> "sent", of |-> i, choices |-> form.choices]
      BY <1>2 DEF Inspect
    <2>2. inspecting' \in InspectionRow /\ inspecting'.step = "sent"
      BY <1>0, <2>1 DEF InspectionRow, FormRow
    <2>3. form' \in FormRow /\ form'.inspection = form.inspection
          /\ form'.choices = form.choices
      BY <1>0, <1>2 DEF Inspect, FormRow
    <2> QED  BY <1>2, <2>2, <2>3 DEF Inspect, FormInv, CommitsWhatWasInspected
  <1>3. CASE ServerInspects
    <2>1. PICK outcome \in {"done", "failed"} :
            inspecting' = [inspecting EXCEPT !.step = outcome] /\ inspecting.step = "sent"
      BY <1>3 DEF ServerInspects
    <2>2. inspecting' \in InspectionRow /\ inspecting'.of = inspecting.of
      BY <1>0, <2>1 DEF InspectionRow
    <2> QED  BY <1>3, <2>1, <2>2 DEF ServerInspects, FormInv, CommitsWhatWasInspected
  <1>4. CASE InspectionArrives
    <2>1. PICK v : v = [of |-> inspecting.of, choices |-> inspecting.choices,
                        late |-> form.choices # inspecting.choices]
      OBVIOUS
    <2>2. v \in Preview /\ v.choices = inspecting.choices
          /\ (~v.late => form.choices = inspecting.choices)
      BY <1>0, <2>1 DEF Preview, InspectionRow
    <2>3. form' = [form EXCEPT !.isInspecting = FALSE, !.inspection = v]
      BY <1>4, <2>1 DEF InspectionArrives
    <2>4. form' \in FormRow /\ form'.inspection = v /\ form'.choices = form.choices
      BY <1>0, <2>2, <2>3 DEF FormRow
    <2>5. inspecting' = NoInspection /\ NoInspection.step = "no"
      BY <1>4 DEF InspectionArrives, NoInspection
    <2> QED
      BY <1>4, <2>2, <2>4, <2>5, EmptyChoices
         DEF InspectionArrives, FormInv, CommitsWhatWasInspected
  <1>5. CASE InspectionFails
    <2>1. PICK f : f = IF inspecting.step = "failed" THEN form.failed \cup {inspecting.of}
                       ELSE form.failed
      OBVIOUS
    <2>2. f \in SUBSET Import  BY <1>0, <2>1 DEF FormInv, FormRow
    <2>3. form' = [form EXCEPT !.isInspecting = FALSE, !.failed = f]
      BY <1>5, <2>1 DEF InspectionFails
    <2>4. form' \in FormRow /\ form'.inspection = form.inspection
          /\ form'.choices = form.choices
      BY <1>0, <2>2, <2>3 DEF FormRow
    <2>5. inspecting' = NoInspection /\ NoInspection.step = "no"
      BY <1>5 DEF InspectionFails, NoInspection
    <2> QED
      BY <1>5, <2>4, <2>5, EmptyChoices DEF InspectionFails, FormInv, CommitsWhatWasInspected
  <1>6. CASE Commit \/ ConfirmReplacement \/ CancelReplacement
    <2>1. form' \in FormRow /\ form'.inspection = form.inspection
          /\ form'.choices = form.choices
      BY <1>0, <1>6 DEF Commit, Previewed, ConfirmReplacement, CancelReplacement, SendCommit, FormRow
    <2>2. form.inspection.of \in Import \cup {NoImport}  BY <1>0 DEF FormRow, Preview
    <2>3. committing' \in [step : {"no", "sent", "done", "failed"}, of : Import \cup {NoImport}]
      BY <1>6, <2>2 DEF Commit, Previewed, ConfirmReplacement, CancelReplacement, SendCommit,
           UnchangedRest, FormInv
    <2>4. UNCHANGED <<inspecting, deleting, offering>>
      BY <1>6 DEF Commit, Previewed, ConfirmReplacement, CancelReplacement, UnchangedRest
    <2> QED  BY <2>1, <2>3, <2>4 DEF FormInv, CommitsWhatWasInspected
  <1>7. CASE ServerCommits
    BY <1>7 DEF ServerCommits, FormInv, CommitsWhatWasInspected
  <1>8. CASE CommitSucceeds
    <2>1. form' = LeftForm /\ inspecting' = NoInspection /\ committing' = NoCommit
          /\ deleting' = {} /\ offering' = {}
      BY <1>8 DEF CommitSucceeds
    <2>2. NoInspection.step = "no"  BY DEF NoInspection
    <2>3. NoCommit \in [step : {"no", "sent", "done", "failed"}, of : Import \cup {NoImport}]
      BY DEF NoCommit
    <2>4. FormInv' =
            (/\ LeftForm \in FormRow /\ NoInspection \in InspectionRow
             /\ NoCommit \in [step : {"no", "sent", "done", "failed"}, of : Import \cup {NoImport}]
             /\ {} \subseteq Import /\ {} \subseteq Target
             /\ NoInspection.step # "no" => NoInspection.of \in Import
             /\ LeftForm.inspection.of # NoImport /\ ~LeftForm.inspection.late =>
                  LeftForm.inspection.choices = LeftForm.choices)
      BY <2>1 DEF FormInv, CommitsWhatWasInspected
    <2> QED  BY <2>2, <2>3, <2>4, EmptyChoices
  <1>9. CASE CommitFails
    <2>1. form' \in FormRow /\ form'.inspection = form.inspection
          /\ form'.choices = form.choices
      BY <1>0, <1>9 DEF CommitFails, FormRow
    <2>2. committing' \in [step : {"no", "sent", "done", "failed"}, of : Import \cup {NoImport}]
      BY <1>9 DEF CommitFails, NoCommit
    <2> QED  BY <1>9, <2>1, <2>2 DEF CommitFails, FormInv, CommitsWhatWasInspected
  <1>10. CASE \E i \in Import : DeleteFailedImport(i)
    <2>1. PICK i \in Import : DeleteFailedImport(i)  BY <1>10
    <2>2. form' \in FormRow /\ form'.inspection = form.inspection
          /\ form'.choices = form.choices /\ deleting' \subseteq Import
      BY <1>0, <2>1 DEF DeleteFailedImport, FormRow, FormInv
    <2> QED  BY <2>1, <2>2 DEF DeleteFailedImport, FormInv, CommitsWhatWasInspected
  <1>11. CASE \E i \in Import : ImportDeleted(i)
    <2>1. PICK i \in Import : ImportDeleted(i)  BY <1>11
    <2>2. PICK gone : form' = [form EXCEPT !.deletingId = NoImport, !.failed = @ \ gone]
      BY <2>1 DEF ImportDeleted
    <2>3. form' \in FormRow /\ form'.inspection = form.inspection
          /\ form'.choices = form.choices
      BY <1>0, <2>2 DEF FormRow
    <2>4. deleting' \subseteq Import  BY <2>1 DEF ImportDeleted, FormInv
    <2> QED  BY <2>1, <2>3, <2>4 DEF ImportDeleted, FormInv, CommitsWhatWasInspected
  <1> QED
    BY <1>1, <1>2, <1>3, <1>4, <1>5, <1>6, <1>7, <1>8, <1>9, <1>10, <1>11, ChoosersKeep
       DEF UploadPage

\* A form starts without a preview.
LEMMA FormStart == ImportPagesInit => FormInv
  <1> SUFFICES ASSUME ImportPagesInit PROVE FormInv  OBVIOUS
  <1>1. PICK mode \in Operation, b \in Target \cup {NoTarget} :
          /\ form = IF batch.shown THEN LeftForm
                    ELSE [LeftForm EXCEPT !.left = FALSE,
                            !.choices = [NoPreview.choices EXCEPT !.mode = mode, !.book = b,
                                          !.edition = IF mode = "replace_edition_file" THEN b
                                                      ELSE NoTarget]]
          /\ offering = {b} \ {NoTarget}
    BY DEF ImportPagesInit
  <1>2. PICK c : c = [NoPreview.choices EXCEPT !.mode = mode, !.book = b,
                         !.edition = IF mode = "replace_edition_file" THEN b ELSE NoTarget]
    OBVIOUS
  <1>3. c \in FormChoices  BY <1>2, EmptyChoices DEF FormChoices
  <1>4. form = LeftForm \/ form = [LeftForm EXCEPT !.left = FALSE, !.choices = c]
    BY <1>1, <1>2
  <1>5. form \in FormRow /\ form.inspection = NoPreview
    BY <1>3, <1>4, EmptyChoices DEF FormRow
  <1>6. inspecting = NoInspection /\ committing = NoCommit /\ deleting = {}
    BY DEF ImportPagesInit
  <1>7. NoInspection.step = "no"
        /\ NoCommit \in [step : {"no", "sent", "done", "failed"}, of : Import \cup {NoImport}]
    BY DEF NoInspection, NoCommit
  <1>8. offering \subseteq Target  BY <1>1
  <1> QED  BY <1>5, <1>6, <1>7, <1>8, EmptyChoices DEF FormInv, CommitsWhatWasInspected

\* Every step of the two pages keeps FormInv.
LEMMA FormStep ==
  ASSUME FormInv, [ImportPagesNext]_importPagesVars
  PROVE  FormInv'
  <1>1. CASE SeriesUploadPage
    <2>1. UnchangedForm
      BY <1>1 DEF SeriesUploadPage, ChooseFiles, Upload, FileInspected, FileCommitted,
           FileSucceeds, FileFails
    <2> QED  BY <2>1 DEF UnchangedForm, FormInv, CommitsWhatWasInspected
  <1>2. CASE UNCHANGED importPagesVars
    BY <1>2 DEF importPagesVars, FormInv, CommitsWhatWasInspected
  <1> QED  BY <1>1, <1>2, UploadKeeps DEF ImportPagesNext

\* The preview that can be committed is of the operation, target, file and encoding the form
\* shows, unless a choice was changed while the inspection was under way: every choice takes
\* the preview away, whatever is asked for, answered or deleted beside it (chooseMode,
\* chooseFile, chooseTargetBook, chooseTargetEdition, chooseEncoding, inspect).
THEOREM OnlyInspectedIsCommitted == ImportPagesSpec => []CommitsWhatWasInspected
  <1>1. FormInv => CommitsWhatWasInspected  BY DEF FormInv
  <1> QED  BY <1>1, FormStart, FormStep, PTL DEF ImportPagesSpec

-----------------------------------------------------------------------------
(* The page of a series.                                                   *)

-----------------------------------------------------------------------------
(* The page of a series.                                                   *)

\* Any set of natural numbers has a least element: the numbers up to it are counted.
LEMMA Least ==
  ASSUME NEW S, S \subseteq Nat, NEW s \in S
  PROVE  \E n \in S : \A m \in S : n <= m
  <1>d. PICK D : D = {k \in 0 .. s : \A m \in S : k <= m}  OBVIOUS
  <1>e. /\ \A k \in D : k \in 0 .. s /\ \A m \in S : k <= m
        /\ \A k \in 0 .. s : (\A m \in S : k <= m) => k \in D
    BY <1>d
  <1>0. s \in Nat /\ \A m \in S : m \in Nat  OBVIOUS
  <1>1. IsFiniteSet(0 .. s)  BY <1>0, FS_Interval
  <1>2. D \subseteq 0 .. s  BY <1>e
  <1>3. IsFiniteSet(D)  BY <1>1, <1>2, FS_Subset
  <1>4. PICK c \in Nat : c = Cardinality(D)  BY <1>3, FS_CardinalityType
  <1>5. 0 \in D
    <2>1. 0 \in 0 .. s /\ \A m \in S : 0 <= m  BY <1>0
    <2> QED  BY <1>e, <2>1
  <1>6. c # 0  BY <1>3, <1>4, <1>5, FS_EmptySet
  <1>7. \A k \in D, j \in 0 .. s : j <= k => j \in D
    <2> TAKE k \in D, j \in 0 .. s
    <2>1. k \in 0 .. s /\ \A m \in S : k <= m  BY <1>e
    <2>2. ASSUME j <= k PROVE \A m \in S : j <= m
      BY <1>0, <2>1, <2>2
    <2> QED  BY <1>e, <2>2
  <1>8. c - 1 \in D
    <2> SUFFICES ASSUME c - 1 \notin D PROVE FALSE  OBVIOUS
    <2>1. D \subseteq 0 .. c - 2
      <3> SUFFICES ASSUME NEW k \in D PROVE k \in 0 .. c - 2  OBVIOUS
      <3>1. k \in 0 .. s  BY <1>e
      <3>2. ASSUME ~(k <= c - 2) PROVE FALSE
        <4>1. c - 1 \in 0 .. s /\ c - 1 <= k  BY <1>6, <3>1, <3>2
        <4> QED  BY <1>7, <4>1
      <3> QED  BY <3>1, <3>2
    <2>2. IsFiniteSet(0 .. c - 2) /\ Cardinality(0 .. c - 2) = IF 0 > c - 2 THEN 0 ELSE c - 2 - 0 + 1
      BY FS_Interval
    <2>3. c <= Cardinality(0 .. c - 2)  BY <1>4, <2>1, <2>2, FS_Subset
    <2> QED  BY <1>6, <2>2, <2>3
  <1>9. c \notin D
    <2> SUFFICES ASSUME c \in D PROVE FALSE  OBVIOUS
    <2>1. 0 .. c \subseteq D
      <3> SUFFICES ASSUME NEW k \in 0 .. c PROVE k \in D  OBVIOUS
      <3>1. c \in 0 .. s  BY <1>e
      <3>2. k \in 0 .. s /\ k <= c  BY <3>1
      <3> QED  BY <1>7, <3>2
    <2>2. Cardinality(0 .. c) = IF 0 > c THEN 0 ELSE c - 0 + 1
      BY FS_Interval
    <2>3. Cardinality(0 .. c) <= c  BY <1>3, <1>4, <2>1, FS_Subset
    <2> QED  BY <2>2, <2>3
  <1>10. c - 1 \in S
    <2> SUFFICES ASSUME c - 1 \notin S PROVE FALSE  OBVIOUS
    <2>1. \A m \in S : c - 1 <= m /\ m # c - 1  BY <1>8, <1>e
    <2>2. \A m \in S : c <= m  BY <1>0, <1>6, <2>1
    <2>3. c \in 0 .. s  BY <1>0, <2>2
    <2> QED  BY <1>9, <1>e, <2>2, <2>3
  <1>11. \A m \in S : c - 1 <= m  BY <1>8, <1>e
  <1> QED  BY <1>10, <1>11

\* The rows of ImportPagesTypeOK for the page of a series.
Row == [file : File,
        status : {"waiting", "inspecting", "committing", "succeeded", "failed"}]
BatchRow == [shown : BOOLEAN, files : Seq(File), rows : Seq(Row),
             step : {"no", "inspecting", "committing", "done"},
             queue : Seq(File), index : Nat, rechosen : BOOLEAN]

\* How far the upload of a batch is: every row shows the file at its position; while an
\* upload is under way and no other files have been chosen, the rows before the index have
\* their outcome, the row at the index shows what is done, and no other one does.
UnderWay ==
    /\ batch.queue = batch.files
    /\ \A i \in DOMAIN batch.rows :
         /\ i < batch.index => batch.rows[i].status \in Ends
         /\ i # batch.index => batch.rows[i].status \notin {"inspecting", "committing"}

BatchInv ==
    /\ batch \in BatchRow /\ imported \subseteq File
    /\ Len(batch.rows) = Len(batch.files)
    /\ \A i \in DOMAIN batch.rows : batch.rows[i].file = batch.files[i]
    /\ batch.step # "no" => batch.index \in 1 .. Len(batch.queue)
    /\ batch.step = "done" => batch.queue[batch.index] \in imported
    /\ ~batch.rechosen =>
         /\ \A i \in DOMAIN batch.rows :
              batch.rows[i].status = "succeeded" => batch.rows[i].file \in imported
         /\ batch.step # "no" => UnderWay
         /\ batch.step = "no" => \A i \in DOMAIN batch.rows :
              batch.rows[i].status \notin {"inspecting", "committing"}

Statuses == {"waiting", "inspecting", "committing", "succeeded", "failed"}

\* The rows ts are the rows rs, some with another outcome.
OtherOutcomes(ts, rs) ==
    /\ DOMAIN ts = DOMAIN rs /\ ts = [j \in DOMAIN ts |-> ts[j]]
    /\ \A j \in DOMAIN rs : \/ ts[j] = rs[j]
                            \/ \E s \in Statuses : ts[j] = [rs[j] EXCEPT !.status = s]

SameFiles(ts, rs) ==
    /\ ts \in Seq(Row) /\ Len(ts) = Len(rs)
    /\ \A j \in DOMAIN rs : ts[j].file = rs[j].file

\* Rows with other outcomes show the files they showed.
LEMMA RowsMarked ==
  ASSUME NEW rs \in Seq(Row), NEW ts, OtherOutcomes(ts, rs)
  PROVE  SameFiles(ts, rs)
  <1>1. \A j \in 1 .. Len(rs) : rs[j] \in Row  OBVIOUS
  <1>2. ASSUME NEW j \in 1 .. Len(rs) PROVE ts[j] \in Row /\ ts[j].file = rs[j].file
    BY <1>1 DEF Row, Statuses, OtherOutcomes
  <1>3. DOMAIN ts = 1 .. Len(rs) /\ ts = [j \in 1 .. Len(rs) |-> ts[j]]
    BY DEF OtherOutcomes
  <1>4. Len(rs) \in Nat  OBVIOUS
  <1>5. ts \in Seq(Row) /\ Len(ts) = Len(rs)  BY <1>2, <1>3, <1>4
  <1> QED  BY <1>2, <1>5 DEF SameFiles

\* update: one row gets another outcome, the page stays the same otherwise.
LEMMA MarkedOne ==
  ASSUME NEW b \in BatchRow, NEW i, NEW s \in Statuses
  PROVE  /\ Marked(b, i, s) \in BatchRow
         /\ Marked(b, i, s).shown = b.shown /\ Marked(b, i, s).files = b.files
         /\ Marked(b, i, s).rechosen = b.rechosen /\ Marked(b, i, s).step = b.step
         /\ Marked(b, i, s).queue = b.queue /\ Marked(b, i, s).index = b.index
         /\ DOMAIN Marked(b, i, s).rows = DOMAIN b.rows
         /\ Len(Marked(b, i, s).rows) = Len(b.rows)
         /\ \A j \in DOMAIN b.rows :
              /\ Marked(b, i, s).rows[j].file = b.rows[j].file
              /\ Marked(b, i, s).rows[j].status = IF j = i THEN s ELSE b.rows[j].status
  <1>1. b.rows \in Seq(Row)  BY DEF BatchRow
  <1>2. PICK ts : ts = [j \in DOMAIN b.rows |->
                          IF j = i THEN [b.rows[j] EXCEPT !.status = s] ELSE b.rows[j]]
    OBVIOUS
  <1>3. DOMAIN ts = DOMAIN b.rows /\ ts = [j \in DOMAIN ts |-> ts[j]]
    BY <1>2
  <1>4. \A j \in DOMAIN b.rows : ts[j] = IF j = i THEN [b.rows[j] EXCEPT !.status = s]
                                         ELSE b.rows[j]
    BY <1>2
  <1>5. ts \in Seq(Row) /\ Len(ts) = Len(b.rows)
        /\ \A j \in DOMAIN b.rows : ts[j].file = b.rows[j].file
    <2>1. \A j \in DOMAIN b.rows : \/ ts[j] = b.rows[j]
                                  \/ \E t \in Statuses : ts[j] = [b.rows[j] EXCEPT !.status = t]
      BY <1>4
    <2>2. OtherOutcomes(ts, b.rows)  BY <1>2, <1>3, <2>1 DEF OtherOutcomes
    <2>3. SameFiles(ts, b.rows)  BY <1>1, <2>2, RowsMarked
    <2> QED  BY <2>3 DEF SameFiles
  <1>6. \A j \in DOMAIN b.rows : ts[j].status = IF j = i THEN s ELSE b.rows[j].status
    <2> SUFFICES ASSUME NEW j \in DOMAIN b.rows
                 PROVE  ts[j].status = IF j = i THEN s ELSE b.rows[j].status
      OBVIOUS
    <2>1. b.rows[j] \in Row  BY <1>1
    <2> QED  BY <1>4, <2>1 DEF Row
  <1>7. PICK m : m = Marked(b, i, s)  OBVIOUS
  <1>8. m = [b EXCEPT !.rows = ts]  BY <1>2, <1>7 DEF Marked
  <1>9. /\ m \in BatchRow /\ m.rows = ts
        /\ m.shown = b.shown /\ m.files = b.files /\ m.rechosen = b.rechosen
        /\ m.step = b.step /\ m.queue = b.queue /\ m.index = b.index
    BY <1>5, <1>8 DEF BatchRow
  <1> QED  BY <1>3, <1>5, <1>6, <1>7, <1>9

\* The page g of b whose loop has gone on from i to n.
GoneOn(g, b, i, n) ==
    /\ g \in BatchRow /\ g.shown = b.shown /\ g.files = b.files /\ g.rechosen = b.rechosen
    /\ DOMAIN g.rows = DOMAIN b.rows /\ Len(g.rows) = Len(b.rows)
    /\ \A j \in DOMAIN b.rows :
         /\ g.rows[j].file = b.rows[j].file
         /\ g.rows[j].status = IF j \in i .. n - 1 THEN "failed"
                               ELSE IF j = n /\ n <= Len(b.queue) THEN "inspecting"
                               ELSE b.rows[j].status
    /\ n > Len(b.queue) => g.step = "no"
    /\ n <= Len(b.queue) => g.step = "inspecting" /\ g.index = n /\ g.queue = b.queue

\* The loop stops at the first file that is not too large, or at the end; the position
\* CHOOSEn is the least one, and every file before it has failed.
LEMMA LoopGoesOn ==
  ASSUME NEW b \in BatchRow, NEW i \in 1 .. Len(b.queue) + 1
  PROVE  \E n \in i .. Len(b.queue) + 1 : GoneOn(GoesOn(b, i), b, i, n)
  <1>0. b.queue \in Seq(File) /\ b.rows \in Seq(Row)  BY DEF BatchRow
  <1>1. PICK l \in Nat : l = Len(b.queue)  BY <1>0
  <1>2. i \in Nat /\ i <= l + 1  BY <1>1
  <1>3. PICK S : S = {k \in i .. l + 1 : k <= l => b.queue[k] \notin TooLarge}  OBVIOUS
  <1>4. S \subseteq Nat /\ l + 1 \in S  BY <1>1, <1>2, <1>3
  <1>5. PICK m \in S : \A k \in S : m <= k  BY <1>4, Least
  <1>6. m \in i .. l + 1 /\ (m <= l => b.queue[m] \notin TooLarge)  BY <1>3
  <1>7. \A j \in i .. m - 1 : b.queue[j] \in TooLarge
    <2> SUFFICES ASSUME NEW j \in i .. m - 1, b.queue[j] \notin TooLarge PROVE FALSE
      OBVIOUS
    <2>1. j \in i .. l + 1 /\ j < m  BY <1>1, <1>2, <1>6
    <2>2. j \in S  BY <1>3, <2>1
    <2> QED  BY <1>1, <1>2, <1>5, <1>6, <2>1, <2>2
  <1>8. PICK n : n = CHOOSE k \in i .. Len(b.queue) + 1 :
                       /\ \A j \in i .. k - 1 : b.queue[j] \in TooLarge
                       /\ k <= Len(b.queue) => b.queue[k] \notin TooLarge
    OBVIOUS
  <1>9. n \in i .. Len(b.queue) + 1
    BY <1>1, <1>6, <1>7, <1>8
  <1>10. PICK ts : ts = [j \in DOMAIN b.rows |->
                           IF j \in i .. n - 1 THEN [b.rows[j] EXCEPT !.status = "failed"]
                           ELSE b.rows[j]]
    OBVIOUS
  <1>11. /\ DOMAIN ts = DOMAIN b.rows /\ ts = [j \in DOMAIN ts |-> ts[j]]
         /\ \A j \in DOMAIN b.rows :
              ts[j] = IF j \in i .. n - 1 THEN [b.rows[j] EXCEPT !.status = "failed"]
                      ELSE b.rows[j]
    BY <1>10
  <1>12. "failed" \in Statuses /\ "inspecting" \in Statuses  BY DEF Statuses
  <1>13. /\ ts \in Seq(Row) /\ Len(ts) = Len(b.rows)
         /\ \A j \in DOMAIN b.rows : ts[j].file = b.rows[j].file
    <2>1. \A j \in DOMAIN b.rows : \/ ts[j] = b.rows[j]
                                  \/ \E t \in Statuses : ts[j] = [b.rows[j] EXCEPT !.status = t]
      BY <1>11, <1>12
    <2>2. OtherOutcomes(ts, b.rows)  BY <1>11, <2>1 DEF OtherOutcomes
    <2>3. SameFiles(ts, b.rows)  BY <1>0, <2>2, RowsMarked
    <2> QED  BY <2>3 DEF SameFiles
  <1>14. \A j \in DOMAIN b.rows :
           ts[j].status = IF j \in i .. n - 1 THEN "failed" ELSE b.rows[j].status
    <2> SUFFICES ASSUME NEW j \in DOMAIN b.rows
                 PROVE  ts[j].status = IF j \in i .. n - 1 THEN "failed" ELSE b.rows[j].status
      OBVIOUS
    <2>1. b.rows[j] \in Row  BY <1>0
    <2> QED  BY <1>11, <2>1 DEF Row
  <1>15. PICK c : c = [b EXCEPT !.rows = ts]  OBVIOUS
  <1>16. /\ c \in BatchRow /\ c.rows = ts /\ c.queue = b.queue
         /\ c.shown = b.shown /\ c.files = b.files /\ c.rechosen = b.rechosen
    BY <1>13, <1>15 DEF BatchRow
  <1>17. PICK g : g = GoesOn(b, i)  OBVIOUS
  <1>18. g = IF n > Len(b.queue) THEN [c EXCEPT !.step = "no", !.index = 0, !.queue = <<>>]
             ELSE [Marked(c, n, "inspecting") EXCEPT !.step = "inspecting", !.index = n]
    BY <1>8, <1>10, <1>15, <1>17 DEF GoesOn
  <1>19. ASSUME n > Len(b.queue) PROVE GoneOn(g, b, i, n)
    <2>1. g = [c EXCEPT !.step = "no", !.index = 0, !.queue = <<>>]  BY <1>18, <1>19
    <2>2. /\ g \in BatchRow /\ g.rows = ts /\ g.step = "no"
          /\ g.shown = b.shown /\ g.files = b.files /\ g.rechosen = b.rechosen
      <3>1. PICK q : q = <<>>  OBVIOUS
      <3>2. q \in Seq(File) /\ 0 \in Nat  BY <3>1
      <3>3. g = [c EXCEPT !.step = "no", !.index = 0, !.queue = q]  BY <2>1, <3>1
      <3> QED  BY <1>16, <3>2, <3>3 DEF BatchRow
    <2>3. ~(n <= Len(b.queue))  BY <1>1, <1>9, <1>19
    <2> QED  BY <1>11, <1>13, <1>14, <2>2, <2>3 DEF GoneOn
  <1>20. ASSUME ~(n > Len(b.queue)) PROVE GoneOn(g, b, i, n)
    <2>1. PICK d : d = Marked(c, n, "inspecting")  OBVIOUS
    <2>2. /\ d \in BatchRow /\ d.shown = b.shown /\ d.files = b.files
          /\ d.rechosen = b.rechosen /\ d.queue = b.queue
          /\ DOMAIN d.rows = DOMAIN b.rows /\ Len(d.rows) = Len(b.rows)
          /\ \A j \in DOMAIN b.rows :
               /\ d.rows[j].file = b.rows[j].file
               /\ d.rows[j].status = IF j = n THEN "inspecting" ELSE ts[j].status
      BY <1>11, <1>12, <1>13, <1>16, <2>1, MarkedOne
    <2>3. g = [d EXCEPT !.step = "inspecting", !.index = n]  BY <1>18, <1>20, <2>1
    <2>4. n \in Nat /\ n <= Len(b.queue)  BY <1>1, <1>9, <1>20
    <2>5. /\ g \in BatchRow /\ g.rows = d.rows /\ g.step = "inspecting" /\ g.index = n
          /\ g.shown = b.shown /\ g.files = b.files /\ g.rechosen = b.rechosen
          /\ g.queue = b.queue
      BY <2>2, <2>3, <2>4 DEF BatchRow
    <2>6. \A j \in DOMAIN b.rows :
            g.rows[j].status = IF j \in i .. n - 1 THEN "failed"
                               ELSE IF j = n /\ n <= Len(b.queue) THEN "inspecting"
                               ELSE b.rows[j].status
      <3> SUFFICES ASSUME NEW j \in DOMAIN b.rows
                   PROVE  g.rows[j].status = IF j \in i .. n - 1 THEN "failed"
                                             ELSE IF j = n /\ n <= Len(b.queue) THEN "inspecting"
                                             ELSE b.rows[j].status
        OBVIOUS
      <3>1. j = n => j \notin i .. n - 1  BY <2>4
      <3> QED  BY <1>14, <2>2, <2>4, <2>5, <3>1
    <2>7. ~(n > Len(b.queue))  BY <1>20
    <2> QED  BY <2>2, <2>4, <2>5, <2>6, <2>7 DEF GoneOn
  <1> QED  BY <1>9, <1>17, <1>19, <1>20

\* The page b, the one before with the row before i settled.
BatchSettled(b, i) ==
    /\ b \in BatchRow /\ i \in 1 .. Len(b.queue) + 1
    /\ b.files = batch.files /\ b.rechosen = batch.rechosen
    /\ DOMAIN b.rows = DOMAIN batch.rows /\ Len(b.rows) = Len(batch.rows)
    /\ \A j \in DOMAIN b.rows : b.rows[j].file = batch.rows[j].file
    /\ ~b.rechosen =>
         /\ b.queue = b.files
         /\ \A j \in DOMAIN b.rows :
              /\ b.rows[j].status = "succeeded" => b.rows[j].file \in imported
              /\ j < i => b.rows[j].status \in Ends
              /\ j >= i => b.rows[j].status \notin {"inspecting", "committing"}

\* The loop goes on from a page whose earlier rows are settled; BatchInv is kept.
LEMMA LoopKeeps ==
  ASSUME BatchInv, NEW b, NEW i, BatchSettled(b, i), batch' = GoesOn(b, i), UNCHANGED imported
  PROVE  BatchInv'
  <1>1. b \in BatchRow /\ i \in 1 .. Len(b.queue) + 1  BY DEF BatchSettled
  <1>2. PICK g : g = GoesOn(b, i)  OBVIOUS
  <1>3. PICK n \in i .. Len(b.queue) + 1 : GoneOn(g, b, i, n)
    BY <1>1, <1>2, LoopGoesOn
  <1>4. PICK l \in Nat : l = Len(b.queue)
    <2>1. b.queue \in Seq(File)  BY <1>1 DEF BatchRow
    <2> QED  BY <2>1
  <1>5. i \in Nat /\ n \in Nat /\ i >= 1 /\ n >= i /\ n <= l + 1  BY <1>1, <1>3, <1>4
  <1>6. PICK R : R = DOMAIN b.rows  OBVIOUS
  <1>7. \A j \in R : j \in Nat
    <2>1. b.rows \in Seq(Row)  BY <1>1 DEF BatchRow
    <2> QED  BY <1>6, <2>1
  <1>8. /\ g \in BatchRow /\ g.files = batch.files /\ g.rechosen = batch.rechosen
        /\ DOMAIN g.rows = R /\ Len(g.rows) = Len(batch.files)
        /\ \A j \in R : g.rows[j].file = batch.files[j] /\ g.rows[j].file = b.rows[j].file
    BY <1>3, <1>6 DEF GoneOn, BatchSettled, BatchInv
  <1>9. \A j \in R :
          g.rows[j].status = IF j \in i .. n - 1 THEN "failed"
                             ELSE IF j = n /\ n <= l THEN "inspecting"
                             ELSE b.rows[j].status
    BY <1>3, <1>4, <1>6 DEF GoneOn
  <1>10. /\ n > l => g.step = "no"
         /\ n <= l => g.step = "inspecting" /\ g.index = n /\ g.queue = b.queue
    BY <1>3, <1>4 DEF GoneOn
  <1>11. g.step # "no" => g.index \in 1 .. Len(g.queue)
    BY <1>4, <1>5, <1>10
  <1>12. g.step # "done"  BY <1>5, <1>10
  <1>13. ASSUME ~g.rechosen
         PROVE  /\ \A j \in R : g.rows[j].status = "succeeded" => g.rows[j].file \in imported
                /\ g.step # "no" =>
                     /\ g.queue = g.files
                     /\ \A j \in R :
                          /\ j < g.index => g.rows[j].status \in Ends
                          /\ j # g.index => g.rows[j].status \notin {"inspecting", "committing"}
                /\ g.step = "no" => \A j \in R :
                     g.rows[j].status \notin {"inspecting", "committing"}
    <2>1. /\ b.queue = batch.files
          /\ \A j \in R :
               /\ b.rows[j].status = "succeeded" => b.rows[j].file \in imported
               /\ j < i => b.rows[j].status \in Ends
               /\ j >= i => b.rows[j].status \notin {"inspecting", "committing"}
      BY <1>6, <1>8, <1>13 DEF BatchSettled
    <2>2. \A j \in R : b.rows[j].status \in Ends => b.rows[j].status \notin {"inspecting", "committing"}
      BY DEF Ends
    <2>3. \A j \in R : b.rows[j].status \notin {"inspecting", "committing"}
      BY <1>5, <1>7, <2>1, <2>2
    <2>4. \A j \in R : g.rows[j].status = "succeeded" => g.rows[j].file \in imported
      BY <1>8, <1>9, <2>1
    <2>5. \A j \in R : j < n => g.rows[j].status \in Ends
      <3> SUFFICES ASSUME NEW j \in R, j < n PROVE g.rows[j].status \in Ends  OBVIOUS
      <3>1. CASE j < i
        BY <1>5, <1>7, <1>9, <2>1, <3>1
      <3>2. CASE j >= i
        <4>1. j \in i .. n - 1  BY <1>5, <1>7, <3>2
        <4> QED  BY <1>9, <4>1 DEF Ends
      <3> QED  BY <1>5, <1>7, <3>1, <3>2
    <2>6. \A j \in R : j # n \/ n > l => g.rows[j].status \notin {"inspecting", "committing"}
      BY <1>5, <1>9, <2>3
    <2> QED  BY <1>5, <1>8, <1>10, <2>1, <2>4, <2>5, <2>6
  <1>14. imported \subseteq File  BY DEF BatchInv
  <1>15. batch' = g /\ imported' = imported  BY <1>2
  <1> QED  BY <1>8, <1>11, <1>12, <1>13, <1>14, <1>15 DEF BatchInv, UnderWay

\* The page of a series starts without files.
LEMMA BatchStart ==
  ASSUME ImportPagesInit
  PROVE  BatchInv
  <1>1. batch \in [shown : BOOLEAN, files : {<<>>}, rows : {<<>>}, step : {"no"},
                   queue : {<<>>}, index : {0}, rechosen : {FALSE}]
    BY DEF ImportPagesInit
  <1>2. PICK q : q = <<>>  OBVIOUS
  <1>3. q \in Seq(File) /\ q \in Seq(Row) /\ Len(q) = 0 /\ DOMAIN q = {}  BY <1>2
  <1>4. batch.rows = q /\ batch.files = q /\ batch.queue = q /\ batch.index = 0
    BY <1>1, <1>2
  <1>5. batch \in BatchRow /\ batch.step = "no"
    <2>1. batch = [shown |-> batch.shown, files |-> q, rows |-> q, step |-> "no",
                   queue |-> q, index |-> 0, rechosen |-> FALSE]
          /\ batch.shown \in BOOLEAN
      BY <1>1, <1>2
    <2>2. q \in Seq(File) /\ q \in Seq(Row) /\ 0 \in Nat  BY <1>3
    <2>3. PICK z : z = batch.shown  OBVIOUS
    <2>4. PICK g : g = [shown |-> z, files |-> q, rows |-> q, step |-> "no",
                        queue |-> q, index |-> 0, rechosen |-> FALSE]
      OBVIOUS
    <2>5. z \in BOOLEAN /\ batch = g  BY <2>1, <2>3, <2>4
    <2>6. g \in BatchRow  BY <2>2, <2>4, <2>5 DEF BatchRow
    <2>7. g.step = "no"  BY <2>4
    <2> QED  BY <2>5, <2>6, <2>7
  <1>6. imported = {}  BY DEF ImportPagesInit
  <1> QED  BY <1>3, <1>4, <1>5, <1>6 DEF BatchInv

\* A mark on the row at the index, and the step that goes with it.
LEMMA OutcomeSettles ==
  ASSUME BatchInv, batch.step # "no", NEW s \in Ends,
         s = "succeeded" => batch.step = "done"
  PROVE  BatchSettled(Marked(batch, batch.index, s), batch.index + 1)
  <1>1. batch \in BatchRow /\ batch.rows \in Seq(Row) /\ batch.queue \in Seq(File)
        /\ batch.index \in 1 .. Len(batch.queue)
    BY DEF BatchInv, BatchRow
  <1>2. s \in Statuses  BY DEF Statuses, Ends
  <1>3. PICK b : b = Marked(batch, batch.index, s)  OBVIOUS
  <1>4. PICK i : i = batch.index  OBVIOUS
  <1>5. /\ b \in BatchRow /\ b.files = batch.files /\ b.rechosen = batch.rechosen
        /\ b.queue = batch.queue
        /\ DOMAIN b.rows = DOMAIN batch.rows /\ Len(b.rows) = Len(batch.rows)
        /\ \A j \in DOMAIN batch.rows :
             /\ b.rows[j].file = batch.rows[j].file
             /\ b.rows[j].status = IF j = i THEN s ELSE batch.rows[j].status
    BY <1>1, <1>2, <1>3, <1>4, MarkedOne
  <1>6. i \in Nat /\ i + 1 \in 1 .. Len(b.queue) + 1  BY <1>1, <1>4, <1>5
  <1>7. ASSUME ~b.rechosen
        PROVE  /\ b.queue = b.files
               /\ \A j \in DOMAIN b.rows :
                    /\ b.rows[j].status = "succeeded" => b.rows[j].file \in imported
                    /\ j < i + 1 => b.rows[j].status \in Ends
                    /\ j >= i + 1 => b.rows[j].status \notin {"inspecting", "committing"}
    <2>1. UnderWay  BY <1>5, <1>7 DEF BatchInv
    <2>2. \A j \in DOMAIN batch.rows :
            /\ batch.rows[j].status = "succeeded" => batch.rows[j].file \in imported
            /\ batch.rows[j].file = batch.files[j]
      BY <1>5, <1>7 DEF BatchInv
    <2>3. s = "succeeded" => batch.queue[i] \in imported  BY <1>4 DEF BatchInv
    <2>4. b.queue = b.files  BY <1>5, <2>1 DEF UnderWay
    <2> SUFFICES ASSUME NEW j \in DOMAIN b.rows
                 PROVE  /\ b.rows[j].status = "succeeded" => b.rows[j].file \in imported
                        /\ j < i + 1 => b.rows[j].status \in Ends
                        /\ j >= i + 1 => b.rows[j].status \notin {"inspecting", "committing"}
      BY <2>4
    <2>5. j \in DOMAIN batch.rows /\ j \in Nat  BY <1>1, <1>5
    <2>6. CASE j = i
      <3>1. b.rows[j].status = s  BY <1>5, <2>5, <2>6
      <3>2. b.rows[j].file = batch.queue[i]  BY <1>5, <2>1, <2>2, <2>5, <2>6 DEF UnderWay
      <3> QED  BY <1>6, <2>3, <2>6, <3>1, <3>2
    <2>7. CASE j # i
      <3>1. b.rows[j].status = batch.rows[j].status /\ b.rows[j].file = batch.rows[j].file
        BY <1>5, <2>5, <2>7
      <3>2. /\ j < i => batch.rows[j].status \in Ends
            /\ batch.rows[j].status \notin {"inspecting", "committing"}
        BY <1>4, <2>1, <2>5, <2>7 DEF UnderWay
      <3> QED  BY <1>6, <2>2, <2>5, <2>7, <3>1, <3>2
    <2> QED  BY <2>6, <2>7
  <1>8. BatchSettled(b, i + 1)  BY <1>5, <1>6, <1>7 DEF BatchSettled
  <1> QED  BY <1>3, <1>4, <1>8

\* Every step keeps it.
LEMMA BatchStep ==
  ASSUME BatchInv, [ImportPagesNext]_importPagesVars
  PROVE  BatchInv'
  <1>0. /\ batch \in BatchRow /\ batch.rows \in Seq(Row) /\ batch.queue \in Seq(File)
        /\ batch.files \in Seq(File)
    BY DEF BatchInv, BatchRow
  <1>1. ASSUME NEW n \in 0 .. MaxFiles, NEW files \in [1 .. n -> File], ChooseFiles(files)
        PROVE  BatchInv'
    <2>1. n \in Nat /\ files \in Seq(File) /\ DOMAIN files = 1 .. n /\ Len(files) = n
      BY ImportPagesAssumption
    <2>2. PICK ts : ts = [i \in DOMAIN files |-> [file |-> files[i], status |-> "waiting"]]
      OBVIOUS
    <2>3. ts \in Seq(Row) /\ Len(ts) = n /\ DOMAIN ts = 1 .. n
      <3>1. \A i \in 1 .. n : [file |-> files[i], status |-> "waiting"] \in Row
        BY <2>1 DEF Row
      <3>2. ts \in [1 .. n -> Row]  BY <2>1, <2>2, <3>1
      <3> QED  BY <2>1, <3>2
    <2>4. \A i \in 1 .. n : ts[i].file = files[i] /\ ts[i].status = "waiting"
      BY <2>1, <2>2
    <2>5. PICK x \in BOOLEAN : x = (batch.step # "no")  OBVIOUS
    <2>6. batch' = [batch EXCEPT !.files = files, !.rechosen = x, !.rows = ts]
      BY <1>1, <2>2, <2>5 DEF ChooseFiles
    <2>7. PICK g : g = batch'  OBVIOUS
    <2>8. /\ g \in BatchRow /\ g.files = files /\ g.rechosen = x /\ g.rows = ts
          /\ g.step = batch.step /\ g.index = batch.index /\ g.queue = batch.queue
      BY <1>0, <2>1, <2>3, <2>6, <2>7 DEF BatchRow
    <2>9. /\ g.step # "no" => g.index \in 1 .. Len(g.queue)
          /\ g.step = "done" => g.queue[g.index] \in imported
          /\ imported \subseteq File
      BY <2>8 DEF BatchInv
    <2>10. imported' = imported /\ batch' = g  BY <1>1, <2>7 DEF ChooseFiles
    <2>11. ~g.rechosen => g.step = "no"  BY <2>5, <2>8
    <2> QED  BY <2>1, <2>3, <2>4, <2>8, <2>9, <2>10, <2>11 DEF BatchInv
  <1>2. CASE Upload
    <2>1. PICK b : b = [batch EXCEPT !.queue = batch.files]  OBVIOUS
    <2>2. /\ b \in BatchRow /\ b.files = batch.files /\ b.rechosen = batch.rechosen
          /\ b.rows = batch.rows /\ b.queue = b.files
      BY <1>0, <2>1 DEF BatchRow
    <2>3. 1 \in 1 .. Len(b.queue) + 1  BY <1>0, <2>2
    <2>4. \A j \in DOMAIN b.rows : j \in Nat /\ ~(j < 1)  BY <1>0, <2>2
    <2>5. batch.step = "no"  BY <1>2 DEF Upload, Uploadable
    <2>6. ~batch.rechosen => \A j \in DOMAIN batch.rows :
            /\ batch.rows[j].status = "succeeded" => batch.rows[j].file \in imported
            /\ batch.rows[j].status \notin {"inspecting", "committing"}
      BY <2>5 DEF BatchInv
    <2>7. BatchSettled(b, 1)  BY <2>2, <2>3, <2>4, <2>6 DEF BatchSettled
    <2>8. batch' = GoesOn(b, 1) /\ UNCHANGED imported  BY <1>2, <2>1 DEF Upload
    <2> QED  BY <2>7, <2>8, LoopKeeps
  <1>3. CASE FileInspected
    <2>1. "committing" \in Statuses  BY DEF Statuses
    <2>2. PICK i : i = batch.index  OBVIOUS
    <2>3. PICK m : m = Marked(batch, i, "committing")  OBVIOUS
    <2>4. /\ m \in BatchRow /\ m.files = batch.files /\ m.rechosen = batch.rechosen
          /\ m.queue = batch.queue /\ m.index = i
          /\ DOMAIN m.rows = DOMAIN batch.rows /\ Len(m.rows) = Len(batch.rows)
          /\ \A j \in DOMAIN batch.rows :
               /\ m.rows[j].file = batch.rows[j].file
               /\ m.rows[j].status = IF j = i THEN "committing" ELSE batch.rows[j].status
      BY <1>0, <2>1, <2>2, <2>3, MarkedOne
    <2>5. PICK g : g = [m EXCEPT !.step = "committing"]  OBVIOUS
    <2>6. /\ g \in BatchRow /\ g.files = batch.files /\ g.rechosen = batch.rechosen
          /\ g.queue = batch.queue /\ g.index = i /\ g.step = "committing"
          /\ g.rows = m.rows
      BY <2>4, <2>5 DEF BatchRow
    <2>7. batch' = g /\ imported' = imported /\ batch.step = "inspecting"
      BY <1>3, <2>2, <2>3, <2>5 DEF FileInspected
    <2>8. ~batch.rechosen =>
            /\ batch.queue = batch.files
            /\ \A j \in DOMAIN batch.rows :
                 /\ j < i => batch.rows[j].status \in Ends
                 /\ j # i => batch.rows[j].status \notin {"inspecting", "committing"}
                 /\ batch.rows[j].status = "succeeded" => batch.rows[j].file \in imported
      BY <2>2, <2>7 DEF BatchInv, UnderWay
    <2>9. i \in 1 .. Len(batch.queue) /\ i \in Nat /\ ~(i < i)
      <3>1. i \in 1 .. Len(batch.queue)  BY <2>2, <2>7 DEF BatchInv
      <3> QED  BY <1>0, <3>1
    <2>10. /\ Len(g.rows) = Len(g.files) /\ imported \subseteq File
           /\ \A j \in DOMAIN g.rows : g.rows[j].file = g.files[j]
      BY <2>4, <2>6 DEF BatchInv
    <2>11. ~g.rechosen =>
             /\ g.queue = g.files
             /\ \A j \in DOMAIN g.rows :
                  /\ j < g.index => g.rows[j].status \in Ends
                  /\ j # g.index => g.rows[j].status \notin {"inspecting", "committing"}
                  /\ g.rows[j].status = "succeeded" => g.rows[j].file \in imported
      BY <2>4, <2>6, <2>8, <2>9
    <2> QED  BY <2>6, <2>7, <2>9, <2>10, <2>11 DEF BatchInv, UnderWay
  <1>4. CASE FileCommitted
    <2>1. PICK g : g = [batch EXCEPT !.step = "done"]  OBVIOUS
    <2>2. /\ g \in BatchRow /\ g.files = batch.files /\ g.rechosen = batch.rechosen
          /\ g.queue = batch.queue /\ g.index = batch.index /\ g.step = "done"
          /\ g.rows = batch.rows
      BY <1>0, <2>1 DEF BatchRow
    <2>3. PICK f : f = batch.queue[batch.index]  OBVIOUS
    <2>4. batch' = g /\ imported' = imported \cup {f} /\ batch.step = "committing"
      BY <1>4, <2>1, <2>3 DEF FileCommitted
    <2>5. batch.index \in 1 .. Len(batch.queue)  BY <2>4 DEF BatchInv
    <2>6. f \in File  BY <1>0, <2>3, <2>5
    <2> QED  BY <2>2, <2>3, <2>4, <2>5, <2>6 DEF BatchInv, UnderWay
  <1>5. CASE FileSucceeds
    <2>1. batch.step = "done" /\ "succeeded" \in Ends  BY <1>5 DEF FileSucceeds, Ends
    <2>2. PICK b, i : b = Marked(batch, batch.index, "succeeded") /\ i = batch.index + 1
      OBVIOUS
    <2>3. BatchSettled(b, i)  BY <2>1, <2>2, OutcomeSettles
    <2>4. batch' = GoesOn(b, i) /\ UNCHANGED imported  BY <1>5, <2>2 DEF FileSucceeds
    <2> QED  BY <2>3, <2>4, LoopKeeps
  <1>6. CASE FileFails
    <2>1. batch.step # "no" /\ "failed" \in Ends  BY <1>6 DEF FileFails, Ends
    <2>2. PICK b, i : b = Marked(batch, batch.index, "failed") /\ i = batch.index + 1
      OBVIOUS
    <2>3. BatchSettled(b, i)  BY <2>1, <2>2, OutcomeSettles
    <2>4. batch' = GoesOn(b, i) /\ UNCHANGED imported  BY <1>6, <2>2 DEF FileFails
    <2> QED  BY <2>3, <2>4, LoopKeeps
  <1>7. ASSUME UNCHANGED <<batch, imported>> PROVE BatchInv'
    BY <1>7 DEF BatchInv, UnderWay
  <1>8. CASE UploadPage
    <2>1. \/ \E c : Choose(c)
          \/ \E b \in Target : BookAnswers(b)
          \/ Inspect \/ ServerInspects \/ InspectionArrives \/ InspectionFails
          \/ Commit \/ ConfirmReplacement \/ CancelReplacement
          \/ ServerCommits \/ CommitSucceeds \/ CommitFails
          \/ \E i \in Import : DeleteFailedImport(i) \/ ImportDeleted(i)
      BY <1>8 DEF UploadPage, ChooseMode, ChooseFile, ChooseEncoding, ChooseTargetBook,
                  ChooseTargetEdition
    <2>2. UNCHANGED <<batch, imported>>
      BY <2>1 DEF Choose, BookAnswers, Inspect, ServerInspects, InspectionArrives,
                  InspectionFails, Commit, ConfirmReplacement, CancelReplacement,
                  ServerCommits, CommitSucceeds, CommitFails, DeleteFailedImport,
                  ImportDeleted, UnchangedRest
    <2> QED  BY <1>7, <2>2
  <1>9. CASE UNCHANGED importPagesVars  BY <1>7, <1>9 DEF importPagesVars
  <1> QED
    BY <1>1, <1>2, <1>3, <1>4, <1>5, <1>6, <1>8, <1>9 DEF ImportPagesNext, SeriesUploadPage

\* Each file of a batch of any length has an outcome of its own: one that fails stops no
\* other, what is marked as under way is, and one that is shown as uploaded was imported,
\* unless other files were chosen meanwhile (upload, update of SeriesUploadPage).
THEOREM FilesDoNotStopEachOther == ImportPagesSpec => []EachFileOnItsOwn
  <1>1. ImportPagesInit => BatchInv  BY BatchStart
  <1>2. BatchInv /\ [ImportPagesNext]_importPagesVars => BatchInv'  BY BatchStep
  <1>3. BatchInv => EachFileOnItsOwn
    <2> SUFFICES ASSUME BatchInv, ~batch.rechosen, NEW i \in DOMAIN batch.rows
                 PROVE  /\ batch.rows[i].status = "succeeded" => batch.rows[i].file \in imported
                        /\ batch.step # "no" /\ i < batch.index => batch.rows[i].status \in Ends
                        /\ batch.rows[i].status \in {"inspecting", "committing"} =>
                             batch.step # "no" /\ i = batch.index
      BY DEF EachFileOnItsOwn
    <2> QED  BY DEF BatchInv, UnderWay
  <1> QED  BY <1>1, <1>2, <1>3, PTL DEF ImportPagesSpec

\* The forms, their requests and the batch have their types.
THEOREM ImportPagesTypeCorrect == ImportPagesSpec => []ImportPagesTypeOK
  <1>1. FormInv /\ BatchInv => ImportPagesTypeOK
    <2> SUFFICES ASSUME FormInv, BatchInv PROVE ImportPagesTypeOK  OBVIOUS
    <2>1. batch \in BatchRow /\ imported \subseteq File  BY DEF BatchInv
    <2>2. form \in FormRow /\ inspecting \in InspectionRow  BY DEF FormInv
    <2> QED
      BY <2>1, <2>2 DEF FormInv, FormRow, InspectionRow, BatchRow, Row, ImportPagesTypeOK
  <1> QED  BY <1>1, FormStart, FormStep, BatchStart, BatchStep, PTL DEF ImportPagesSpec

-----------------------------------------------------------------------------
(* The web client as a whole.                                              *)

\* Every step of the instance leaves a part alone or is a step of its specification:
\* what MCWebClient bounds restricts the parts and adds nothing to them.
LEMMA EachPartSteps ==
  ASSUME e1 \in Edition, [WebNext]_webVars
  PROVE  /\ [Next]_vars /\ [ReaderNext]_readerVars /\ [SettingsNext]_settingsVars
         /\ [SessionNext]_sessionVars /\ [PagesNext]_pagesVars
         /\ [ImportPagesNext]_importPagesVars /\ [ReaderAdminNext]_adminVars
         /\ UNCHANGED part
  <1>1. Top(e1, Sections) \in ReaderLocation
    BY ReaderPageAssumption DEF Top, ReaderLocation
  <1>2. ReaderStep => ReaderNext
    BY <1>1 DEF ReaderStep, ReaderNext, Reading
  <1>3. /\ SettingsStep => SettingsNext
        /\ SessionStep => SessionNext
        /\ PageStep => PagesNext
        /\ ImportStep => ImportPagesNext
        /\ AdminStep => ReaderAdminNext
    <2>1. (\E t \in Tab : Refreshes(t)) \/ (\E r \in Slot : Refused(r)) => SessionNext
      BY DEF SessionNext, Answers
    <2> QED
      BY <2>1 DEF SettingsStep, SessionStep, ImportStep, AdminStep, PageStep
  <1>4. CASE WebNext
    BY <1>2, <1>3, <1>4 DEF WebNext
  <1>5. CASE UNCHANGED webVars
    BY <1>5 DEF webVars
  <1> QED
    BY <1>4, <1>5

\* The names the runs give the parts.
PartNames == {"progress", "reader", "settings", "session", "pages", "import", "admin"}

\* Every part of the instance starts as its specification does.
LEMMA EachPartStarts ==
  ASSUME WebInit
  PROVE  /\ Init /\ ReaderInit /\ SettingsInit /\ SessionInit /\ PagesInit
         /\ ImportPagesInit /\ ReaderAdminInit
         /\ part \in PartNames /\ e1 \in Edition
  <1>1. page.url \in Edition
    <2>1. ReaderInit
      BY DEF WebInit
    <2> QED
      BY <2>1 DEF ReaderInit, LoadReader
  <1>2. page.url = e1
    BY DEF WebInit, ReadBefore
  <1> QED
    BY <1>1, <1>2 DEF WebInit, PartNames

\* A behaviour of the instance is one of every part.
THEOREM WebImplementsItsParts ==
  WebSpec => /\ Spec /\ ReaderSpec /\ SettingsSpec /\ SessionSpec /\ PagesSpec
             /\ ImportPagesSpec /\ ReaderAdminSpec
             /\ [](part \in PartNames)
  <1>1. e1 \in Edition => (e1 \in Edition)'
    OBVIOUS
  <1>2. WebInit => e1 \in Edition
    BY EachPartStarts
  <1>3. WebSpec => [](e1 \in Edition)
    BY <1>1, <1>2, PTL DEF WebSpec
  <1>4. part \in PartNames /\ UNCHANGED part => (part \in PartNames)'
    OBVIOUS
  <1> QED
    BY <1>3, <1>4, EachPartStarts, EachPartSteps, PTL
    DEF WebSpec, Spec, ReaderSpec, SettingsSpec, SessionSpec, PagesSpec, ImportPagesSpec,
        ReaderAdminSpec

\* WebTypeCorrect: the state of each part of the web client has the shape its code gives
\* it in every behaviour of the instance, for every value of the constants.
THEOREM WebTypeCorrect == WebSpec => []WebTypeOK
  <1>1. TypeInv => SessionTypeOK
    BY DEF TypeInv
  <1>2. /\ part \in PartNames /\ TypeOK /\ ReaderTypeOK /\ SettingsTypeOK
        /\ SessionTypeOK /\ PagesTypeOK /\ ImportPagesTypeOK /\ ReaderAdminTypeOK
        => WebTypeOK
    BY DEF WebTypeOK, PartNames
  <1> QED
    BY <1>1, <1>2, WebImplementsItsParts, ProgressTypeCorrect, ReaderTypeCorrect,
       SettingsTypeCorrect, SessionTypeCorrect, PagesTypeCorrect, ImportPagesTypeCorrect,
       AdminTypeCorrect, PTL
=============================================================================
