---------------------------- MODULE ReaderAdminPage ----------------------------
(***************************************************************************)
(* The administrator's page of the invited readers: a list with a filter,  *)
(* the detail of the selected reader with its actions, the form for a new  *)
(* reader, and the window that shows an issued credential once.            *)
(*                                                                         *)
(* A task is an async function of the page that waits for an answer.  An   *)
(* action of the detail (runAction) is one task from its request through   *)
(* the reload of the list to the reload of the devices and events.  A task *)
(* whose detail has been unmounted goes on, with its effects on the page.  *)
(* The page is lost when the user leaves it, and when the refresh for one  *)
(* of its requests is refused, which ends the login.                       *)
(*                                                                         *)
(* A reader is the lifecycle of its credential; the server's data are all  *)
(* its revisions, and what the page shows is the number of one.  A window  *)
(* that is open keeps the user from what is below it.  The fields of the   *)
(* forms, the tabs, the search text and the focus are left out.            *)
(***************************************************************************)
EXTENDS Naturals, Sequences, FiniteSets

LOCAL INSTANCE SequencesExt

CONSTANTS
    Invited,        \* the readers
    NoReader,
    Filters,        \* the filters that are used, beside "all"
    MaxPast,        \* bound: revisions of the server's data
    MaxTasks        \* bound: tasks at the same time

ASSUME ReaderAdminAssumption ==
    /\ NoReader \notin Invited /\ Filters \subseteq {"all", "active", "restricted"}
    /\ MaxPast \in Nat \ {0} /\ MaxTasks \in Nat \ {0}

VARIABLES
    admin,      \* the page
    detail,     \* the mounted detail
    tasks,      \* what waits for an answer
    past,       \* the revisions of the server's data
    unsaved,    \* history: credentials the page was given and has not been told are saved
    acted,      \* history: the revision of the last action on each reader that was answered
    overlap,    \* history: did tasks overlap, and were two credentials issued at once?
    pageLost    \* has the page been unmounted?

adminVars == <<admin, detail, tasks, past, unsaved, acted, overlap, pageLost>>

Lifecycle == {"missing", "active", "suspended", "revoked"}
OfReader == {"save", "suspend", "resume", "reissue", "revoke", "revoke-sessions",
             "revoke-device"}
Confirmed == {"reissue", "revoke", "revoke-sessions"}

\* knew: the task will load the devices and events, at the end or at once.
Task == [do : OfReader \cup {"create", "list", "details"},
         reader : Invited \cup {NoReader}, mounted : BOOLEAN, knew : BOOLEAN,
         step : {"sent", "done", "refused", "list", "details"},
         revision : 0 .. MaxPast]       \* of the answer, 0: none yet

Detail == [reader : Invited \cup {NoReader},
           known : 0 .. MaxPast,        \* devices and events, 0: null
           reading : BOOLEAN, busy : BOOLEAN, error : BOOLEAN,
           confirm : Confirmed \cup {"no"}]

ReaderAdminTypeOK ==
    /\ admin \in [loading : BOOLEAN, error : BOOLEAN, revision : 0 .. MaxPast,
                  filter : {"all", "active", "restricted"},
                  selected : Invited \cup {NoReader}, issued : 0 .. MaxPast,
                  createOpen : BOOLEAN, creating : BOOLEAN]
    /\ detail \in Detail
    /\ tasks \in Seq(Task) /\ Len(tasks) <= MaxTasks
    /\ past \in Seq([Invited -> Lifecycle]) /\ Len(past) \in 1 .. MaxPast
    /\ unsaved \subseteq 1 .. MaxPast /\ acted \in [Invited -> 0 .. MaxPast]
    /\ overlap \in {"no", "tasks", "issues"} /\ pageLost \in BOOLEAN

-----------------------------------------------------------------------------
(* What the page shows.                                                    *)

Listed(a) == IF a.revision = 0 THEN {}
             ELSE {r \in Invited : past[a.revision][r] # "missing"}

Filtered(a) ==
    {r \in Listed(a) : CASE a.filter = "all" -> TRUE
                         [] a.filter = "active" -> past[a.revision][r] = "active"
                         [] a.filter = "restricted" -> past[a.revision][r] # "active"}

\* The effect of the selection: the selected reader is one of the list.
Selected(a) ==
    [a EXCEPT !.selected =
        IF Listed(a) = {} THEN NoReader
        ELSE IF Filtered(a) # {} /\ @ \notin Filtered(a) THEN CHOOSE r \in Filtered(a) : TRUE
        ELSE @]

\* The reader whose detail is mounted; an error takes the whole workbench away.
Detailed(a) == IF ~a.loading /\ ~a.error /\ a.selected \in Filtered(a)
               THEN a.selected ELSE NoReader

Fresh(r) == [reader |-> r, known |-> 0, reading |-> FALSE,
             busy |-> FALSE, error |-> FALSE, confirm |-> "no"]

\* History: have tasks overlapped, or even two that issue a credential?
Issues(t) == t.do \in {"create", "reissue"}
Overlap(ts) ==
    IF \E i, j \in DOMAIN ts : i # j /\ Issues(ts[i]) /\ Issues(ts[j]) THEN "issues"
    ELSE IF Len(ts) > 1 /\ overlap = "no" THEN "tasks" ELSE overlap

\* The page becomes a, its detail d and its tasks ts, unless a rendering mounts another
\* detail: the page is rendered with the selection as it is (a reader who is not listed
\* has no detail), and again when the effect has changed the selection.
Render(a, d, ts) ==
    LET shown == Selected(a)
        r     == Detailed(shown)
    IN  /\ admin' = shown
        /\ IF Detailed(a) = d.reader /\ r = d.reader
           THEN detail' = d /\ tasks' = ts
           ELSE /\ detail' = Fresh(r)
                /\ tasks' = [i \in DOMAIN ts |-> [ts[i] EXCEPT !.mounted = FALSE]]
        /\ overlap' = Overlap(ts) /\ UNCHANGED pageLost

NewTask(do, knew, step) ==
    [do |-> do, reader |-> detail.reader, mounted |-> TRUE, knew |-> knew,
     step |-> step, revision |-> 0]

TaskRoom == Len(tasks) < MaxTasks
Unblocked == admin.issued = 0 /\ ~admin.createOpen /\ detail.confirm = "no"
AtDetail == Unblocked /\ detail.reader # NoReader

\* The menu of a reader's detail is disabled while an action is under way, the tabs of
\* devices, sessions and events do not ask twice.
AtMenu == AtDetail /\ ~detail.busy
MayRead == AtDetail /\ ~detail.reading

\* What the menu offers depends on the reader's credential.
Life == past[admin.revision][detail.reader]

-----------------------------------------------------------------------------
(* The user.                                                               *)

\* load: the list is asked for again.
RetryReaders ==
    /\ Unblocked /\ ~admin.loading /\ admin.error /\ TaskRoom
    /\ Render([admin EXCEPT !.error = FALSE], detail,
              Append(tasks, NewTask("list", FALSE, "list")))
    /\ UNCHANGED <<past, unsaved, acted>>

Filter(f) ==
    /\ Unblocked /\ ~admin.loading /\ ~admin.error /\ f # admin.filter
    /\ Render([admin EXCEPT !.filter = f], detail, tasks)
    /\ UNCHANGED <<past, unsaved, acted>>

SelectReader(r) ==
    /\ Unblocked /\ ~admin.loading /\ ~admin.error
    /\ r \in Filtered(admin) \ {admin.selected}
    /\ Render([admin EXCEPT !.selected = r], detail, tasks)
    /\ UNCHANGED <<past, unsaved, acted>>

\* A tab with devices or events is opened for the first time, or refreshed.
LoadDetails ==
    /\ MayRead /\ TaskRoom
    /\ Render(admin, [detail EXCEPT !.reading = TRUE, !.error = FALSE],
              Append(tasks, NewTask("details", TRUE, "details")))
    /\ UNCHANGED <<past, unsaved, acted>>

\* runAction, up to its request; the closure knows whether there are devices and
\* events to load again.
RunAction(do) ==
    /\ ~detail.busy /\ TaskRoom
    /\ Render(admin, [detail EXCEPT !.busy = TRUE, !.error = FALSE],
              Append(tasks, NewTask(do, detail.known # 0, "sent")))
    /\ UNCHANGED <<past, unsaved, acted>>

SaveReader == AtDetail /\ RunAction("save")
Suspend == AtMenu /\ Life = "active" /\ RunAction("suspend")
Resume == AtMenu /\ Life = "suspended" /\ RunAction("resume")
RevokeReaderDevice == AtDetail /\ detail.known # 0 /\ RunAction("revoke-device")

\* The actions that are asked about first.
Ask(do) ==
    /\ AtMenu
    /\ do = "revoke" => Life # "revoked"
    /\ Render(admin, [detail EXCEPT !.confirm = do], tasks)
    /\ UNCHANGED <<past, unsaved, acted>>

\* Cancelling does not stop an action that is under way.
Cancel ==
    /\ admin.issued = 0 /\ detail.confirm # "no"
    /\ Render(admin, [detail EXCEPT !.confirm = "no"], tasks)
    /\ UNCHANGED <<past, unsaved, acted>>

ExecuteConfirmed ==
    /\ admin.issued = 0 /\ detail.confirm # "no" /\ RunAction(detail.confirm)

OpenCreate ==
    /\ Unblocked
    /\ Render([admin EXCEPT !.createOpen = TRUE], detail, tasks)
    /\ UNCHANGED <<past, unsaved, acted>>

CloseCreate ==
    /\ admin.issued = 0 /\ admin.createOpen /\ ~admin.creating
    /\ Render([admin EXCEPT !.createOpen = FALSE], detail, tasks)
    /\ UNCHANGED <<past, unsaved, acted>>

Create ==
    /\ admin.issued = 0 /\ admin.createOpen /\ ~admin.creating /\ TaskRoom
    /\ Render([admin EXCEPT !.creating = TRUE], detail,
              Append(tasks, NewTask("create", FALSE, "sent")))
    /\ UNCHANGED <<past, unsaved, acted>>

\* The credential is saved, says the user.
Acknowledge ==
    /\ admin.issued # 0
    /\ Render([admin EXCEPT !.issued = 0], detail, tasks)
    /\ unsaved' = unsaved \ {admin.issued} /\ UNCHANGED <<past, acted>>

-----------------------------------------------------------------------------
(* The server.                                                             *)

After(do, life) ==
    CASE do = "suspend" -> "suspended"
      [] do \in {"resume", "reissue"} -> "active"
      [] do = "revoke" -> "revoked"
      [] OTHER -> life

\* An action is done or refused; a new reader has a new identity.
ServerActs(i) ==
    /\ tasks[i].step = "sent"
    /\ \/ /\ Len(past) < MaxPast
          /\ \E r \in Invited :
               /\ IF tasks[i].do = "create" THEN past[Len(past)][r] = "missing"
                  ELSE r = tasks[i].reader
               /\ past' = Append(past, [past[Len(past)] EXCEPT ![r] =
                              IF tasks[i].do = "create" THEN "active"
                              ELSE After(tasks[i].do, @)])
               /\ tasks' = [tasks EXCEPT ![i].step = "done", ![i].reader = r,
                                         ![i].revision = Len(past')]
       \/ tasks' = [tasks EXCEPT ![i].step = "refused"] /\ UNCHANGED past
    /\ UNCHANGED <<admin, detail, unsaved, acted, overlap, pageLost>>

ServerLists(i) ==
    /\ tasks[i].step \in {"list", "details"} /\ tasks[i].revision = 0
    /\ tasks' = [tasks EXCEPT ![i].revision = Len(past)]
    /\ UNCHANGED <<admin, detail, past, unsaved, acted, overlap, pageLost>>

-----------------------------------------------------------------------------
(* Answers.                                                                *)

\* The detail d when task t has set its own state to f.
Own(t, d, f) == IF t.mounted THEN f ELSE d

\* A task ends: of a detail's, the mark is taken away, and the question when all
\* went well.
ActionEnds(t, d, ok) ==
    IF t.do \in OfReader
    THEN Own(t, d, [d EXCEPT !.busy = FALSE, !.confirm = IF ok /\ t.do \in Confirmed
                                                         THEN "no" ELSE @])
    ELSE d

EndsCreate(t, a) == IF t.do = "create" THEN [a EXCEPT !.creating = FALSE] ELSE a

\* The action is done: an issued credential is shown, and the list is asked for.
ActionDone(i) ==
    LET t == tasks[i]
        a == [admin EXCEPT !.error = FALSE,
                !.issued = IF Issues(t) THEN t.revision ELSE @,
                !.createOpen = @ /\ t.do # "create",
                !.selected = IF t.do = "create" THEN t.reader ELSE @]
    IN  /\ t.step = "done"
        /\ Render(a, detail, [tasks EXCEPT ![i].step = "list", ![i].revision = 0])
        /\ unsaved' = IF Issues(t) THEN unsaved \cup {t.revision} ELSE unsaved
        /\ acted' = [acted EXCEPT ![t.reader] = t.revision] /\ UNCHANGED past

\* It is refused, or it or its answer is lost.
ActionFails(i) ==
    LET t == tasks[i]
    IN  /\ t.step \in {"sent", "done", "refused"}
        /\ IF t.do = "create"
           THEN Render([admin EXCEPT !.creating = FALSE], detail,
                       RemoveAt(tasks, i))
           ELSE Render(admin, Own(t, detail, [detail EXCEPT !.busy = FALSE, !.error = TRUE]),
                       RemoveAt(tasks, i))
        /\ UNCHANGED <<past, unsaved, acted>>

\* Mutant: the window of the credential belongs to the detail and goes with it.
ListArrives_Forgets(i) ==
    LET t == tasks[i]
    IN  /\ t.step = "list" /\ t.revision # 0
        /\ Render([admin EXCEPT !.loading = FALSE, !.revision = t.revision, !.issued = 0,
                                !.creating = FALSE],
                  ActionEnds(t, detail, TRUE), RemoveAt(tasks, i))
        /\ UNCHANGED <<past, unsaved, acted>>

\* What follows the list: the devices and events, or the end.
AfterList(i, a) ==
    LET t == tasks[i]
    IN  IF t.knew
        THEN Render(a, Own(t, detail, [detail EXCEPT !.reading = TRUE, !.error = FALSE]),
                    [tasks EXCEPT ![i].step = "details", ![i].revision = 0])
        ELSE Render(EndsCreate(t, a), ActionEnds(t, detail, TRUE), RemoveAt(tasks, i))

\* load catches its errors: a list that does not come ends nothing.
ListArrives(i) ==
    /\ tasks[i].step = "list" /\ tasks[i].revision # 0
    /\ AfterList(i, [admin EXCEPT !.loading = FALSE, !.revision = tasks[i].revision])
    /\ UNCHANGED <<past, unsaved, acted>>

ListFails(i) ==
    /\ tasks[i].step = "list"
    /\ AfterList(i, [admin EXCEPT !.loading = FALSE, !.error = TRUE])
    /\ UNCHANGED <<past, unsaved, acted>>

\* loadSecurityDetails catches its errors, too.
DetailsArrive(i) ==
    LET t == tasks[i]
        d == Own(t, detail, [detail EXCEPT !.known = t.revision, !.reading = FALSE])
    IN  /\ t.step = "details" /\ t.revision # 0
        /\ Render(admin, ActionEnds(t, d, TRUE), RemoveAt(tasks, i))
        /\ UNCHANGED <<past, unsaved, acted>>

DetailsFail(i) ==
    LET t == tasks[i]
        d == Own(t, detail, [detail EXCEPT !.error = TRUE, !.reading = FALSE])
    IN  /\ t.step = "details"
        /\ Render(admin, ActionEnds(t, d, TRUE), RemoveAt(tasks, i))
        /\ UNCHANGED <<past, unsaved, acted>>

-----------------------------------------------------------------------------
(* The end of the page.                                                    *)

Mounted == [loading |-> TRUE, error |-> FALSE, revision |-> 0, filter |-> "all",
            selected |-> NoReader, issued |-> 0, createOpen |-> FALSE, creating |-> FALSE]

\* What the page shows is gone, the credential in its window, too.  An answer that is
\* still to come changes no page: the next visit mounts a new one.
Unmount ==
    /\ admin' = Mounted /\ detail' = Fresh(NoReader) /\ tasks' = <<>> /\ pageLost' = TRUE
    /\ UNCHANGED <<past, unsaved, acted, overlap>>

\* A request of a task meets a 401, and the refresh or the second attempt is refused:
\* the login is cleared, and the route shows the page of the login.
LoginEnds(i) == tasks[i].revision = 0 /\ Unmount

-----------------------------------------------------------------------------
ReaderAdminInit ==
    /\ admin = Mounted /\ pageLost = FALSE
    /\ detail = Fresh(NoReader)
    /\ past \in {<<[r \in Invited |-> IF r \in known THEN "active" ELSE "missing"]>> :
                    known \in SUBSET Invited}
    /\ tasks = <<[do |-> "list", reader |-> NoReader, mounted |-> TRUE, knew |-> FALSE,
                  step |-> "list", revision |-> 0]>>
    /\ unsaved = {} /\ acted = [r \in Invited |-> 0] /\ overlap = "no"

Administer ==
    \/ RetryReaders \/ LoadDetails \/ SaveReader \/ Suspend \/ Resume
    \/ RevokeReaderDevice \/ Cancel \/ ExecuteConfirmed
    \/ OpenCreate \/ CloseCreate \/ Create \/ Acknowledge
    \/ \E f \in Filters : Filter(f)
    \/ \E r \in Invited : SelectReader(r)
    \/ \E do \in Confirmed : Ask(do)

\* The user leaves the page at any time, by the browser when a window is open.
ReaderAdminNext ==
    /\ ~pageLost
    /\ \/ Administer
       \/ \E i \in DOMAIN tasks :
            \/ ServerActs(i) \/ ServerLists(i) \/ ActionDone(i) \/ ActionFails(i)
            \/ ListArrives(i) \/ ListFails(i) \/ DetailsArrive(i) \/ DetailsFail(i)
            \/ LoginEnds(i)
       \/ Unmount

ReaderAdminSpec == ReaderAdminInit /\ [][ReaderAdminNext]_adminVars

-----------------------------------------------------------------------------
(* Properties.                                                             *)

\* The page keeps what the server has told it, as long as it is there: a credential that
\* can be shown only once stays on the screen until the user has saved it, whatever list,
\* detail or error of the page comes next, unless two are issued at once or the page is
\* lost (the login ends with a refused refresh, or the user leaves); and as long as no
\* tasks overlap, when nothing is under way and no error is shown neither the list nor
\* the open devices and events are older than the last action (showIssued, runAction,
\* load).
KeepsWhatItWasTold ==
    ~pageLost =>
      /\ overlap # "issues" => unsaved \subseteq {admin.issued}
      /\ overlap = "no" /\ tasks = <<>> =>
           /\ ~admin.error => \A r \in Invited : admin.revision >= acted[r]
           /\ ~detail.error /\ detail.known # 0 => detail.known >= acted[detail.reader]
=============================================================================
