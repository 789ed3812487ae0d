-------------------------------- MODULE Pages --------------------------------
(***************************************************************************)
(* The pages of the web client that load something, show it and change it: *)
(* the library, books, series, the account pages, the administrator's      *)
(* pages, and the protected image.                                         *)
(*                                                                         *)
(* They are written alike.  A page loads when it is mounted and whenever   *)
(* what it is asked for changes (the key: filters, the identifier in the   *)
(* URL, the path of an image); its controls send a change and load again   *)
(* when that has succeeded.  Nothing but the image cancels an answer, so   *)
(* the answers of several loads and changes come in any order.  An action  *)
(* is one callback of the page with the renderings it causes.              *)
(*                                                                         *)
(* What is loaded is its key and the revision of the server's data it was  *)
(* read from; the page of a book loads the reader's preference beside it.   *)
(* A control that is disabled or shows that it is loading does nothing when *)
(* it is used (antd).  A page that is left is forgotten.                    *)
(***************************************************************************)
EXTENDS Naturals, Sequences, FiniteSets

LOCAL INSTANCE SequencesExt

CONSTANTS
    Key,            \* what a page can be asked for
    NoFilter,       \* the key without filters
    Item,           \* the cards or rows of a page
    NoItem,
    MaxData,    \* bound: changes of the server's data
    MaxLoads,       \* bound: loads at the same time
    MaxChanges      \* bound: changes at the same time

ASSUME PagesAssumption ==
    /\ NoFilter \in Key /\ NoItem \notin Item
    /\ MaxData \in Nat \ {0} /\ MaxLoads \in Nat \ {0} /\ MaxChanges \in Nat

VARIABLES
    view,       \* the mounted page
    loads,      \* its loads under way, in the order they were started
    changes,    \* its changes under way
    data,       \* the revision of the server's data
    liked,      \* the preference shown with a book, and as history the revision of
                \* the last choice of one that the page was told of
    saved,      \* history: the revision of the last other change it was told of
    crossed     \* history: two loads overlapped, or a load and the choice of a
                \* preference, or two such choices; a load was for another key; or a
                \* change took the message of a failed load away

pagesVars == <<view, loads, changes, data, liked, saved, crossed>>

PageName == {"library", "book", "series", "seriesDetail", "sessions", "devices",
             "security", "site", "audit", "dashboard", "status", "profile", "image"}

\* A control: what it does, and the card or row it belongs to.
Control == [do : {"create", "save", "delete", "add", "remove", "rename", "revoke",
                  "register", "edit", "prefer", "download"},
            item : Item \cup {NoItem}]

Answered == {"sent", "done", "refused"}

PagesTypeOK ==
    /\ view \in [page : PageName \cup {"away"}, key : Key, shown : Key,
                 revision : 0 .. MaxData,       \* 0: nothing is shown
                 loading : BOOLEAN, error : {"no", "load", "change"},
                 recovery : BOOLEAN, naming : BOOLEAN, busy : SUBSET Control]
    /\ loads \in Seq([key : Key, revision : 0 .. MaxData, preference : 0 .. MaxData,
                      active : BOOLEAN, ends : SUBSET Control])
    /\ Len(loads) <= MaxLoads
    /\ changes \in Seq([control : Control, key : Key, step : Answered,
                        revision : 0 .. MaxData])
    /\ Len(changes) <= MaxChanges
    /\ data \in 1 .. MaxData /\ saved \in 0 .. MaxData
    /\ liked \in [of : Key, revision : 0 .. MaxData, told : 0 .. MaxData]
    /\ crossed \in BOOLEAN

-----------------------------------------------------------------------------
(* Loads.                                                                  *)

On(page) == view.page = page
ControlOf(do, item) == [do |-> do, item |-> item]

\* What was loaded is on the screen: the spinner or the message of an error would be there
\* instead.
Showing == ~view.loading /\ view.error = "no" /\ view.revision # 0

\* The placeholder of a loading book takes the cards and the form for editions
\* away, with their marks.
Loading(v) ==
    [v EXCEPT !.loading = TRUE, !.error = "no",
              !.busy = IF v.page = "book" THEN @ \cap {ControlOf("save", NoItem)} ELSE @]

\* A load as it is sent; ends are the marks of the controls that wait for it.
NewLoad(key, ends) ==
    [key |-> key, revision |-> 0, preference |-> 0, active |-> TRUE, ends |-> ends]

\* A preference is chosen, and the page waits for the answer.
Preferring == \E i \in DOMAIN changes : changes[i].control.do = "prefer"

\* v is the page with what was done before the load.
Start(v, key, ends) ==
    /\ Len(loads) < MaxLoads
    /\ view' = Loading(v)
    /\ loads' = Append(loads, NewLoad(key, ends))
    /\ crossed' = (crossed \/ loads # <<>> \/ key # v.key \/ Preferring)

Load(v, key) == Start(v, key, {}) /\ UNCHANGED <<changes, data, liked, saved>>
Reload(v) == Load(v, v.key)

\* The server reads what a load asks for.
ServerReads(i) ==
    /\ loads[i].revision = 0
    /\ loads' = [loads EXCEPT ![i].revision = data]
    /\ UNCHANGED <<view, changes, data, liked, saved, crossed>>

\* The other request of loadBook; the two are read in any order.
ServerReadsPreference(i) ==
    /\ On("book") /\ loads[i].preference = 0
    /\ loads' = [loads EXCEPT ![i].preference = data]
    /\ UNCHANGED <<view, changes, data, liked, saved, crossed>>

\* What every end of a load does.
LoadEnds(v, i) == [v EXCEPT !.loading = FALSE, !.busy = @ \ loads[i].ends]

\* Mutant: the preference is only loaded as long as none is known.
LoadSucceeds_KeepsPreference(i) ==
    /\ loads[i].revision # 0 /\ loads[i].active
    /\ On("book") => loads[i].preference # 0
    /\ view' = [LoadEnds(view, i) EXCEPT !.shown = loads[i].key,
                                         !.revision = loads[i].revision]
    /\ liked' = IF On("book") /\ liked.revision = 0
                THEN [liked EXCEPT !.of = loads[i].key, !.revision = loads[i].preference]
                ELSE liked
    /\ loads' = RemoveAt(loads, i)
    /\ UNCHANGED <<changes, data, saved, crossed>>

\* The answer is shown, and the fields of the page are filled with it.
LoadSucceeds(i) ==
    /\ loads[i].revision # 0 /\ loads[i].active
    /\ On("book") => loads[i].preference # 0
    /\ view' = [LoadEnds(view, i) EXCEPT !.shown = loads[i].key,
                                         !.revision = loads[i].revision]
    /\ liked' = IF On("book")
                THEN [liked EXCEPT !.of = loads[i].key, !.revision = loads[i].preference]
                ELSE liked
    /\ loads' = RemoveAt(loads, i)
    /\ UNCHANGED <<changes, data, saved, crossed>>

\* Mutant: the spinner is only taken away when the load has succeeded.
LoadFails_KeepsLoading(i) ==
    /\ loads[i].active
    /\ view' = [view EXCEPT !.error = "load"]
    /\ loads' = RemoveAt(loads, i)
    /\ UNCHANGED <<changes, data, liked, saved, crossed>>

LoadFails(i) ==
    /\ loads[i].active
    /\ view' = [LoadEnds(view, i) EXCEPT !.error = "load"]
    /\ loads' = RemoveAt(loads, i)
    /\ UNCHANGED <<changes, data, liked, saved, crossed>>

-----------------------------------------------------------------------------
(* Changes.                                                                *)

\* The marks that one piece of state shows: the row that is busy on the lists of
\* sessions and devices, one mark for the whole security page, or the control's.
Marks(control) ==
    CASE On("devices") -> {c \in Control : c.item # NoItem}
      [] On("sessions") /\ control.item # NoItem -> {c \in Control : c.item # NoItem}
      [] On("security") -> Control
      [] OTHER -> {control}

\* The controls that show their own mark are ignored while they do; the row of a
\* device or of a session has one mark for its controls.
Usable(control) ==
    CASE On("security") -> view.busy = {}
      [] On("devices") \/ On("sessions") -> \A c \in view.busy : c.item # control.item
      [] OTHER -> control \notin view.busy

\* The forms and cards of these pages have messages of their own.
OwnMessage == On("book") \/ On("library")

\* History: is the message of a failed load taken away?
Hides == ~OwnMessage /\ view.error = "load"

\* A control sends a change.  Without a mark it can be used again at once.
Change(control, marked) ==
    /\ Usable(control) /\ Len(changes) < MaxChanges
    /\ view' = [view EXCEPT !.error = IF OwnMessage THEN @ ELSE "no",
                            !.busy = IF marked THEN (@ \ Marks(control)) \cup {control}
                                     ELSE @]
    /\ changes' = Append(changes, [control |-> control, key |-> view.key,
                                   step |-> "sent", revision |-> 0])
    /\ crossed' = (crossed \/ Hides \/ (control.do = "prefer" /\ Preferring))
    /\ UNCHANGED <<loads, data, liked, saved>>

\* The server makes the change, or refuses it.
ServerChanges(i) ==
    /\ changes[i].step = "sent"
    /\ \/ /\ data < MaxData
          /\ IF changes[i].control.do = "download" THEN UNCHANGED data
             ELSE data' = data + 1
          /\ changes' = [changes EXCEPT ![i].step = "done", ![i].revision = data']
       \/ changes' = [changes EXCEPT ![i].step = "refused"] /\ UNCHANGED data
    /\ UNCHANGED <<view, loads, liked, saved, crossed>>

Unmarked(v, control) == [v EXCEPT !.busy = @ \ Marks(control)]

\* The change is refused, or it or its answer is lost.
ChangeFails(i) ==
    /\ view' = [Unmarked(view, changes[i].control) EXCEPT
                  !.error = IF OwnMessage THEN @ ELSE "change"]
    /\ changes' = RemoveAt(changes, i) /\ crossed' = (crossed \/ Hides)
    /\ UNCHANGED <<loads, data, liked, saved>>

\* The page is left for good: for the library or the series when it was about
\* something that is deleted, for the login when its own session is revoked.
Away == /\ view' = [view EXCEPT !.page = "away", !.busy = {}, !.loading = FALSE]
        /\ loads' = <<>> /\ changes' = <<>>
        /\ UNCHANGED <<data, liked, saved, crossed>>

\* Mutant: the page is not loaded again when a card or a form has changed it.
ChangeSucceeds_Stays(i) ==
    LET c == changes[i].control
    IN  /\ changes[i].step = "done"
        /\ view' = Unmarked(view, c) /\ UNCHANGED <<loads, crossed>>
        /\ changes' = RemoveAt(changes, i) /\ saved' = changes[i].revision
        /\ UNCHANGED <<data, liked>>

\* The later of two revisions.
Later(a, b) == IF a > b THEN a ELSE b

\* What a page does after a change: a download changes nothing that is loaded, the
\* preference and the site's settings are those of the answer, and every other change
\* loads the page again, for the key it was sent from.
ChangeSucceeds(i) ==
    LET c == changes[i].control
        revision == changes[i].revision
    IN  /\ changes[i].step = "done"
        /\ \/ c.do = "delete" /\ c.item = NoItem /\ Away
           \/ c.do = "revoke" /\ c.item # NoItem /\ Away
           \/ /\ c.do = "download" \/ On("profile")
              /\ view' = Unmarked(view, c)
              /\ UNCHANGED <<loads, liked, saved, crossed>>
              /\ changes' = RemoveAt(changes, i) /\ UNCHANGED data
           \/ /\ c.do = "prefer"
              /\ view' = Unmarked(view, c)
              /\ liked' = [of |-> changes[i].key, revision |-> revision,
                           told |-> Later(revision, liked.told)]
              /\ changes' = RemoveAt(changes, i)
              /\ UNCHANGED <<loads, data, saved, crossed>>
           \/ /\ On("site")
              /\ view' = [Unmarked(view, c) EXCEPT !.revision = revision]
              /\ saved' = revision /\ UNCHANGED <<loads, liked, crossed>>
              /\ changes' = RemoveAt(changes, i) /\ UNCHANGED data
           \/ /\ ~(c.do = "delete" /\ c.item = NoItem) /\ ~On("site") /\ ~On("profile")
              /\ c.do \notin {"download", "prefer"} /\ ~view.recovery
              /\ Start(view, changes[i].key, Marks(c))
              /\ saved' = Later(revision, saved)
              /\ changes' = RemoveAt(changes, i) /\ UNCHANGED <<data, liked>>
           \/ /\ view.recovery        \* the session is a normal one from now on
              /\ Start([Unmarked(view, c) EXCEPT !.recovery = FALSE], view.key, {})
              /\ saved' = revision
              /\ changes' = RemoveAt(changes, i) /\ UNCHANGED <<data, liked>>

\* Somebody else changes the server's data.
OthersChange ==
    /\ data < MaxData /\ data' = data + 1
    /\ UNCHANGED <<view, loads, changes, liked, saved, crossed>>

-----------------------------------------------------------------------------
(* The library.                                                            *)

LoadBooks(key) == On("library") /\ Load([view EXCEPT !.key = key], key)

SubmitSearch(key) == LoadBooks(key)
ResetSearch == LoadBooks(NoFilter)
RemoveFilter(key) == view.key \notin {key, NoFilter} /\ LoadBooks(key)
RefreshLibrary == LoadBooks(view.key)
CreateBook == On("library") /\ Change(ControlOf("create", NoItem), TRUE)

Library ==
    \/ \E key \in Key : SubmitSearch(key) \/ RemoveFilter(key)
    \/ ResetSearch \/ RefreshLibrary \/ CreateBook

-----------------------------------------------------------------------------
(* A book, with a card for each edition.                                   *)

\* The browser goes to another book, or series, on the same page.
GoToAnother(key) ==
    /\ On("book") \/ On("seriesDetail")
    /\ key # view.key /\ Load([view EXCEPT !.key = key], key)

BookShown == On("book") /\ Showing

RetryBook == On("book") /\ ~view.loading /\ view.error # "no" /\ Reload(view)
RefreshBook == BookShown /\ Reload(view)

SaveBook == BookShown /\ Change(ControlOf("save", NoItem), TRUE)
DeleteBook == BookShown /\ Change(ControlOf("delete", NoItem), FALSE)
CreateEdition == BookShown /\ Change(ControlOf("create", NoItem), TRUE)

\* The controls on the card of an edition, each with a mark of its own.
OnCard(do, e) == BookShown /\ Change(ControlOf(do, e), TRUE)

EditEdition(e) == OnCard("edit", e)

\* Which edition is the preferred one is not kept here; its own button is disabled.
SelectPreferred(e) == OnCard("prefer", e)

DownloadFile(e) == OnCard("download", e)
DeleteEdition(e) == OnCard("delete", e)

Book ==
    \/ RetryBook \/ RefreshBook \/ SaveBook \/ DeleteBook \/ CreateEdition
    \/ \E e \in Item : \/ EditEdition(e) \/ SelectPreferred(e)
                       \/ DownloadFile(e) \/ DeleteEdition(e)

-----------------------------------------------------------------------------
(* The list of series, and a series.                                       *)

RefreshSeries == On("series") /\ Reload(view)
CreateSeries == On("series") /\ Change(ControlOf("create", NoItem), TRUE)

\* A series that was shown once stays, below the message of an error.
SeriesShown == On("seriesDetail") /\ ~view.loading /\ view.revision # 0

RetrySeries ==
    /\ On("seriesDetail") /\ ~view.loading /\ view.revision = 0
    /\ view.error # "no" /\ Reload(view)
SaveSeries == SeriesShown /\ Change(ControlOf("save", NoItem), TRUE)
AddBook == SeriesShown /\ Change(ControlOf("add", NoItem), FALSE)
RemoveBook(b) == SeriesShown /\ Change(ControlOf("remove", b), FALSE)
DeleteSeries == SeriesShown /\ Change(ControlOf("delete", NoItem), FALSE)

Series ==
    \/ RefreshSeries \/ CreateSeries
    \/ RetrySeries \/ SaveSeries \/ AddBook \/ DeleteSeries
    \/ \E b \in Item : RemoveBook(b)

-----------------------------------------------------------------------------
(* The account: sessions, devices, profile.                                *)

Rows(page) == On(page) /\ view.revision # 0

RetrySessions == On("sessions") /\ ~view.loading /\ view.error # "no" /\ Reload(view)
RevokeSession(s) == Rows("sessions") /\ Change(ControlOf("revoke", s), TRUE)
RevokeOthers == On("sessions") /\ Change(ControlOf("revoke", NoItem), TRUE)

RefreshDevices == On("devices") /\ Reload(view)
RenameDevice(d) == Rows("devices") /\ Change(ControlOf("rename", d), TRUE)
RevokeDevice(d) == Rows("devices") /\ Change(ControlOf("revoke", d), TRUE)

SaveProfile == On("profile") /\ Change(ControlOf("save", NoItem), TRUE)

Account ==
    \/ RetrySessions \/ RevokeOthers \/ RefreshDevices \/ SaveProfile
    \/ \E i \in Item : RevokeSession(i) \/ RenameDevice(i) \/ RevokeDevice(i)

-----------------------------------------------------------------------------
(* The administrator's pages.                                              *)

RetrySecurity == On("security") /\ view.error # "no" /\ ~view.recovery /\ Reload(view)
RegisterPasskey == On("security") /\ Change(ControlOf("register", NoItem), TRUE)

Passkeys == Rows("security") /\ ~view.recovery /\ ~view.loading

RenamePasskey(p) == Passkeys /\ Change(ControlOf("rename", p), TRUE)
RevokePasskey(p) == Passkeys /\ Change(ControlOf("delete", p), TRUE)
RevokeAdminSession(s) == Passkeys /\ Change(ControlOf("revoke", s), TRUE)

RetrySite == On("site") /\ view.revision = 0 /\ view.error # "no" /\ Reload(view)
SaveSite == Rows("site") /\ Change(ControlOf("save", NoItem), TRUE)

\* A retry forgets the filters; it is offered below a load that is under way as well.
LoadAudit(key) == On("audit") /\ Load([view EXCEPT !.key = key], key)
FilterAudit(key) == ~view.loading /\ LoadAudit(key)
RetryAudit == view.error # "no" /\ LoadAudit(NoFilter)

\* The names of the readers, asked for beside the first load.
ReadersNamed(failed) ==
    /\ On("audit") /\ view.naming
    /\ view' = [view EXCEPT !.naming = FALSE, !.error = IF failed THEN "load" ELSE @]
    /\ UNCHANGED <<loads, changes, data, liked, saved, crossed>>

Probe == On("status") /\ Reload(view)

Administration ==
    \/ RetrySecurity \/ RegisterPasskey \/ RetrySite
    \/ SaveSite \/ RetryAudit \/ Probe
    \/ \E i \in Item : RenamePasskey(i) \/ RevokePasskey(i) \/ RevokeAdminSession(i)
    \/ \E key \in Key : FilterAudit(key)

-----------------------------------------------------------------------------
(* The protected image: the only one that gives up an answer it waits for. *)

\* Mutant: the answer for the path before is not given up.
PathChanges_AnyAnswer(path) ==
    /\ On("image") /\ path # view.key
    /\ Load([view EXCEPT !.key = path, !.revision = 0], path)

PathChanges(path) ==
    /\ On("image") /\ path # view.key /\ Len(loads) < MaxLoads
    /\ view' = Loading([view EXCEPT !.key = path, !.revision = 0])
    /\ loads' = Append([i \in DOMAIN loads |-> [loads[i] EXCEPT !.active = FALSE]],
                       NewLoad(path, {}))
    /\ crossed' = (crossed \/ loads # <<>>)
    /\ UNCHANGED <<changes, data, liked, saved>>

LateImage(i) ==
    /\ ~loads[i].active /\ loads' = RemoveAt(loads, i)
    /\ UNCHANGED <<view, changes, data, liked, saved, crossed>>

-----------------------------------------------------------------------------
\* A page is mounted and loads; the security page of a recovery session and the
\* profile do not.
PagesInit ==
    \E page \in PageName, recovery \in BOOLEAN, key \in Key :
        /\ recovery => page = "security"
        /\ page \notin {"book", "seriesDetail", "image"} => key = NoFilter
        /\ LET loading == page # "profile" /\ ~recovery
           IN  /\ view = [page |-> page, key |-> key, shown |-> key, revision |-> 0,
                          loading |-> loading, error |-> "no",
                          recovery |-> recovery, naming |-> page = "audit",
                          busy |-> {}]
               /\ loads = IF loading THEN <<NewLoad(key, {})>> ELSE <<>>
        /\ liked = [of |-> key, revision |-> 0, told |-> 0]
        /\ changes = <<>> /\ data = 1 /\ saved = 0 /\ crossed = FALSE

PagesUse == Library \/ Book \/ Series \/ Account \/ Administration

PagesNext ==
    \/ PagesUse
    \/ \E key \in Key : GoToAnother(key) \/ PathChanges(key)
    \/ \E i \in DOMAIN loads :
         \/ ServerReads(i) \/ ServerReadsPreference(i)
         \/ LoadSucceeds(i) \/ LoadFails(i) \/ LateImage(i)
    \/ \E i \in DOMAIN changes : ServerChanges(i) \/ ChangeSucceeds(i) \/ ChangeFails(i)
    \/ \E failed \in BOOLEAN : ReadersNamed(failed)
    \/ OthersChange

PagesSpec == PagesInit /\ [][PagesNext]_pagesVars

-----------------------------------------------------------------------------
(* Properties.                                                             *)

\* A page that is loaded shows what its URL, its filters or its path ask for, and
\* every change it has confirmed itself, the preference of a book included, unless two
\* of its loads overlapped, or a load and the choice of a preference, or two choices of
\* one, a change of another key loaded again, or a change took the message of a failed
\* load away (load, loadBook, setPreferred, loadBooks, save); an image is always the one
\* of its path (ProtectedImage).
ShowsWhatWasAsked ==
    /\ view.page # "away" /\ Showing
    /\ crossed => On("image")
    => /\ view.shown = view.key /\ view.revision >= saved
       /\ On("book") => liked.of = view.key /\ liked.revision >= liked.told

\* Nothing waits for nothing: a page that shows a spinner has a load under way, and
\* a control that is marked has its change, or the load after it, under way (the
\* finally blocks of load, submit, rename, revoke, whatever fails in between).
WaitingHasACause ==
    /\ view.loading => \E i \in DOMAIN loads : loads[i].active
    /\ \A c \in view.busy :
        \/ \E i \in DOMAIN changes : changes[i].control = c
        \/ \E i \in DOMAIN loads : c \in loads[i].ends
=============================================================================
