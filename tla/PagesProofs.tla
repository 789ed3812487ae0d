------------------------------ MODULE PagesProofs ------------------------------
(***************************************************************************)
(* What the pages of the web client keep true for any number of cards,     *)
(* rows, loads, changes and settings.                                      *)
(*                                                                         *)
(* A page that loads, shows and changes something: PagesInv says what a    *)
(* spinner and a mark wait for; ShownInv, on top of it, says what a page   *)
(* shows as long as its loads come one by one, and PreferInv what the page *)
(* of a book shows as preferred.                                           *)
(*                                                                         *)
(* The settings of the reader page: ChoiceInv says where the reader's last *)
(* choice is until it is saved, in the page's timer, in its one request or *)
(* in the row.                                                             *)
(*                                                                         *)
(* The administrator's page of the readers: AdminInv says that at most one *)
(* task issues a credential, and only when the one before was saved, and   *)
(* what the only task of a page without overlaps leaves as it is.          *)
(*                                                                         *)
(* The reader page: ReaderInv says that a page that shows an edition knows *)
(* its version and a position, and that all of a page belongs to one       *)
(* edition as long as it was not led to another one with answers due; only *)
(* the save of a cleanup may still be of the edition before.               *)
(***************************************************************************)
EXTENDS Pages, ReaderSettings, ReaderAdminPage, ReaderPage, TLAPS

LOCAL INSTANCE SequencesExt

-----------------------------------------------------------------------------
(* Lists of loads, changes and requests.                                   *)

\* t has the rows of s, without the one at i.
Without(t, s, i) ==
    /\ Len(t) = Len(s) - 1
    /\ \A j \in DOMAIN t : \E k \in DOMAIN s : k # i /\ t[j] = s[k]
    /\ \A k \in DOMAIN s : k # i => \E j \in DOMAIN t : t[j] = s[k]

\* Where the rows of a list are once the one at a position is gone.
LEMMA RowsShifted ==
  ASSUME NEW S, NEW s \in Seq(S), NEW i \in 1 .. Len(s), NEW t, t = RemoveAt(s, i)
  PROVE  /\ t \in Seq(S) /\ Len(t) = Len(s) - 1
         /\ \A j \in 1 .. Len(t) : t[j] = IF j < i THEN s[j] ELSE s[j + 1]
  <1>0. Len(s) \in Nat /\ i \in Nat  OBVIOUS
  <1>1. PICK a, b : a = SubSeq(s, 1, i - 1) /\ b = SubSeq(s, i + 1, Len(s))
    OBVIOUS
  <1>2. /\ a \in Seq(S) /\ Len(a) = i - 1
        /\ \A j \in 1 .. i - 1 : a[j] = s[j]
    BY <1>1
  <1>3. /\ b \in Seq(S) /\ Len(b) = Len(s) - i
        /\ \A j \in 1 .. Len(s) - i : b[j] = s[j + i]
    BY <1>1
  <1>4. t = a \o b  BY <1>1 DEF RemoveAt
  <1>5. /\ t \in Seq(S) /\ Len(t) = Len(s) - 1
        /\ \A j \in 1 .. Len(t) : t[j] = IF j <= Len(a) THEN a[j] ELSE b[j - Len(a)]
    BY <1>0, <1>2, <1>3, <1>4
  <1>6. \A j \in 1 .. Len(t) : t[j] = IF j < i THEN s[j] ELSE s[j + 1]
    <2> TAKE j \in 1 .. Len(t)
    <2>1. CASE j < i  BY <1>0, <1>2, <1>5, <2>1
    <2>2. CASE ~(j < i)
      <3>1. j - Len(a) \in 1 .. Len(s) - i  BY <1>0, <1>2, <1>5, <2>2
      <3>2. b[j - Len(a)] = s[(j - Len(a)) + i]  BY <1>3, <3>1
      <3>3. (j - Len(a)) + i = j + 1  BY <1>0, <1>2
      <3> QED  BY <1>0, <1>2, <1>5, <2>2, <3>2, <3>3
    <2> QED  BY <2>1, <2>2
  <1> QED  BY <1>5, <1>6

\* Two rows of what is left were two rows of the list, and neither was taken away.
LEMMA TwoRowsLeft ==
  ASSUME NEW S, NEW s \in Seq(S), NEW i \in 1 .. Len(s), NEW t, t = RemoveAt(s, i),
         NEW j \in DOMAIN t, NEW k \in DOMAIN t, j # k
  PROVE  \E a, b \in DOMAIN s : a # b /\ t[j] = s[a] /\ t[k] = s[b]
  <1>0. Len(s) \in Nat /\ i \in Nat  OBVIOUS
  <1>s. /\ t \in Seq(S) /\ Len(t) = Len(s) - 1
        /\ \A m \in 1 .. Len(t) : t[m] = IF m < i THEN s[m] ELSE s[m + 1]
    BY RowsShifted
  <1>1. /\ t \in Seq(S) /\ Len(t) = Len(s) - 1 /\ Len(s) \in Nat /\ i \in Nat
        /\ \A m \in 1 .. Len(t) : t[m] = IF m < i THEN s[m] ELSE s[m + 1]
    BY <1>0, <1>s
  <1>2. DOMAIN t = 1 .. Len(t) /\ DOMAIN s = 1 .. Len(s)  BY <1>1
  <1>3. j \in 1 .. Len(t) /\ k \in 1 .. Len(t)  BY <1>2
  <1>4. PICK a : a = IF j < i THEN j ELSE j + 1  OBVIOUS
  <1>5. PICK b : b = IF k < i THEN k ELSE k + 1  OBVIOUS
  <1>6. a \in 1 .. Len(s) /\ b \in 1 .. Len(s) /\ a # b  BY <1>1, <1>3, <1>4, <1>5
  <1>7. t[j] = s[a] /\ t[k] = s[b]  BY <1>1, <1>3, <1>4, <1>5
  <1> QED  BY <1>2, <1>6, <1>7

\* The rows of a list without the one at a position.
LEMMA RowRemoved ==
  ASSUME NEW S, NEW s \in Seq(S), NEW i \in 1 .. Len(s)
  PROVE  RemoveAt(s, i) \in Seq(S) /\ Without(RemoveAt(s, i), s, i)
  <1>t. PICK t : t = RemoveAt(s, i)  OBVIOUS
  <1>0. Len(s) \in Nat /\ i \in Nat  OBVIOUS
  <1>5. t \in Seq(S) /\ Len(t) = Len(s) - 1  BY <1>t, RowsShifted
  <1>6. \A j \in 1 .. Len(t) : t[j] = IF j < i THEN s[j] ELSE s[j + 1]
    BY <1>t, RowsShifted
  <1>7. ASSUME NEW j \in 1 .. Len(t)
        PROVE  \E k \in 1 .. Len(s) : k # i /\ t[j] = s[k]
    <2>1. CASE j < i  BY <1>0, <1>5, <1>6, <2>1
    <2>2. CASE ~(j < i)
      <3>1. j + 1 \in 1 .. Len(s) /\ j + 1 # i  BY <1>0, <1>5, <2>2
      <3> QED  BY <1>6, <2>2, <3>1
    <2> QED  BY <2>1, <2>2
  <1>8. ASSUME NEW k \in 1 .. Len(s), k # i
        PROVE  \E j \in 1 .. Len(t) : t[j] = s[k]
    <2>1. CASE k < i
      <3>1. k \in 1 .. Len(t)  BY <1>0, <1>5, <2>1
      <3> QED  BY <1>6, <2>1, <3>1
    <2>2. CASE ~(k < i)
      <3>1. k - 1 \in 1 .. Len(t) /\ ~(k - 1 < i) /\ (k - 1) + 1 = k
        BY <1>0, <1>5, <1>8, <2>2
      <3> QED  BY <1>6, <3>1
    <2> QED  BY <2>1, <2>2
  <1>9. DOMAIN t = 1 .. Len(t) /\ DOMAIN s = 1 .. Len(s)  BY <1>5
  <1>10. \A j \in DOMAIN t : \E k \in DOMAIN s : k # i /\ t[j] = s[k]  BY <1>7, <1>9
  <1>11. \A k \in DOMAIN s : k # i => \E j \in DOMAIN t : t[j] = s[k]  BY <1>8, <1>9
  <1>12. Without(t, s, i)  BY <1>5, <1>10, <1>11 DEF Without
  <1> QED  BY <1>5, <1>12, <1>t

\* A row at the end of a list; the others stay where they are.
LEMMA RowAppended ==
  ASSUME NEW S, NEW s \in Seq(S), NEW x \in S, NEW t, t = Append(s, x)
  PROVE  /\ t \in Seq(S) /\ Len(t) = Len(s) + 1
         /\ t[Len(t)] = x
         /\ \A j \in 1 .. Len(s) : j \in 1 .. Len(t) /\ t[j] = s[j]
         /\ \A j \in 1 .. Len(t) : j \in 1 .. Len(s) \/ j = Len(t)
  OBVIOUS

-----------------------------------------------------------------------------
(* The pages.                                                              *)

\* The rows of PagesTypeOK.
LoadRow == [key : Key, revision : 0 .. MaxData, preference : 0 .. MaxData,
            active : BOOLEAN, ends : SUBSET Control]
ChangeRow == [control : Control, key : Key, step : Answered, revision : 0 .. MaxData]
ViewRow == [page : PageName \cup {"away"}, key : Key, shown : Key,
            revision : 0 .. MaxData, loading : BOOLEAN, error : {"no", "load", "change"},
            recovery : BOOLEAN, naming : BOOLEAN, busy : SUBSET Control]
LikedRow == [of : Key, revision : 0 .. MaxData, told : 0 .. MaxData]

\* What the pages never do: an image has no controls, a load that was given up has none
\* of their marks, and every change of the list of devices is one of a device.
PageRules ==
    /\ On("image") => changes = <<>> /\ saved = 0
    /\ \A i \in DOMAIN loads :
         /\ ~loads[i].active => loads[i].ends = {}
         /\ On("image") => loads[i].ends = {}
    /\ On("devices") => \A i \in DOMAIN changes : changes[i].control.item # NoItem

\* The inductive invariant.
PagesInv == PagesTypeOK /\ PageRules /\ WaitingHasACause

\* PagesTypeOK, in the form the proofs use it.
LEMMA PagesTypes ==
  ASSUME PagesTypeOK
  PROVE  /\ view \in ViewRow
         /\ loads \in Seq(LoadRow) /\ Len(loads) \in Nat /\ Len(loads) <= MaxLoads
         /\ DOMAIN loads = 1 .. Len(loads)
         /\ changes \in Seq(ChangeRow) /\ Len(changes) \in Nat /\ Len(changes) <= MaxChanges
         /\ DOMAIN changes = 1 .. Len(changes)
         /\ data \in 1 .. MaxData /\ saved \in 0 .. MaxData
         /\ liked \in LikedRow /\ crossed \in BOOLEAN
  BY DEF PagesTypeOK, ViewRow, LoadRow, ChangeRow, LikedRow

\* PagesTypeOK, part by part.
LEMMA PagesParts ==
  PagesTypeOK <=>
    /\ view \in ViewRow
    /\ loads \in Seq(LoadRow) /\ Len(loads) <= MaxLoads
    /\ changes \in Seq(ChangeRow) /\ Len(changes) <= MaxChanges
    /\ data \in 1 .. MaxData /\ saved \in 0 .. MaxData
    /\ liked \in LikedRow /\ crossed \in BOOLEAN
  BY DEF PagesTypeOK, ViewRow, LoadRow, ChangeRow, LikedRow

\* A control of a page loads it again or sends a change; the image has none.
LEMMA UseLoadsOrChanges ==
  ASSUME PagesTypeOK, PagesUse
  PROVE  \/ \E key \in Key :
              /\ ~On("image") /\ (On("site") => view.revision = 0)
              /\ Load([view EXCEPT !.key = key], key)
         \/ \E c \in Control, marked \in BOOLEAN :
              /\ ~On("image") /\ ~On("away")
              /\ On("devices") => c.item # NoItem
              /\ On("site") => view.revision # 0
              /\ c.do = "prefer" => ~view.loading
              /\ Change(c, marked)
  <1>0. view \in ViewRow  BY PagesTypes
  <1>1. view.key \in Key /\ NoFilter \in Key /\ [view EXCEPT !.key = view.key] = view
    BY <1>0, PagesAssumption DEF ViewRow
  <1>2. \A do \in {"create", "save", "delete", "add", "remove", "rename", "revoke",
                  "register", "edit", "prefer", "download"}, item \in Item \cup {NoItem} :
          /\ ControlOf(do, item) \in Control
          /\ ControlOf(do, item).item = item /\ ControlOf(do, item).do = do
    BY DEF ControlOf, Control
  <1>3. \A item \in Item : item # NoItem  BY PagesAssumption
  <1>4. CASE Library
    <2>1. CASE CreateBook  BY <1>2, <2>1 DEF CreateBook, On
    <2>2. CASE ~CreateBook
      BY <1>1, <1>4, <2>2 DEF Library, SubmitSearch, ResetSearch, RemoveFilter,
           RefreshLibrary, LoadBooks, On
    <2> QED  BY <2>1, <2>2
  <1>5. CASE Book
    <2>1. CASE RetryBook \/ RefreshBook
      BY <1>1, <2>1 DEF RetryBook, RefreshBook, BookShown, Showing, Reload, On
    <2>2. CASE SaveBook \/ DeleteBook \/ CreateEdition
      BY <1>2, <2>2 DEF SaveBook, DeleteBook, CreateEdition, BookShown, Showing, On
    <2>3. ASSUME NEW e \in Item, EditEdition(e) \/ SelectPreferred(e)
                 \/ DownloadFile(e) \/ DeleteEdition(e)
          PROVE  \E c \in Control, marked \in BOOLEAN :
                   On("book") /\ ~view.loading /\ Change(c, marked)
      BY <1>2, <2>3 DEF EditEdition, SelectPreferred, DownloadFile, DeleteEdition, OnCard, BookShown,
           Showing
    <2> QED  BY <1>5, <2>1, <2>2, <2>3 DEF Book, On
  <1>6. CASE Series
    <2>1. CASE RefreshSeries \/ RetrySeries
      BY <1>1, <2>1 DEF RefreshSeries, RetrySeries, Reload, On
    <2>2. CASE CreateSeries \/ SaveSeries \/ AddBook \/ DeleteSeries
      BY <1>2, <2>2 DEF CreateSeries, SaveSeries, AddBook, DeleteSeries, SeriesShown, On
    <2>3. ASSUME NEW b \in Item, RemoveBook(b)
          PROVE  \E c \in Control, marked \in BOOLEAN :
                   On("seriesDetail") /\ c.do # "prefer" /\ Change(c, marked)
      BY <1>2, <2>3 DEF RemoveBook, SeriesShown
    <2> QED  BY <1>6, <2>1, <2>2, <2>3 DEF Series, On
  <1>7. CASE Account
    <2>1. CASE RetrySessions \/ RefreshDevices
      BY <1>1, <2>1 DEF RetrySessions, RefreshDevices, Reload, On
    <2>2. CASE RevokeOthers \/ SaveProfile
      BY <1>2, <2>2 DEF RevokeOthers, SaveProfile, On
    <2>3. ASSUME NEW i \in Item, RevokeSession(i) \/ RenameDevice(i) \/ RevokeDevice(i)
          PROVE  \E c \in Control, marked \in BOOLEAN :
                   /\ On("sessions") \/ On("devices")
                   /\ c.item # NoItem /\ c.do # "prefer" /\ Change(c, marked)
      <3>1. \A do \in {"revoke", "rename"} :
              /\ ControlOf(do, i) \in Control /\ ControlOf(do, i).item # NoItem
              /\ ControlOf(do, i).do # "prefer"
        BY <1>2, <1>3
      <3>2. CASE RevokeSession(i)  BY <3>1, <3>2 DEF RevokeSession, Rows
      <3>3. CASE RenameDevice(i)  BY <3>1, <3>3 DEF RenameDevice, Rows
      <3>4. CASE RevokeDevice(i)  BY <3>1, <3>4 DEF RevokeDevice, Rows
      <3> QED  BY <2>3, <3>2, <3>3, <3>4
    <2> QED  BY <1>7, <2>1, <2>2, <2>3 DEF Account, On
  <1>8. CASE Administration
    <2>1. CASE RetrySecurity \/ RetrySite \/ Probe
      BY <1>1, <2>1 DEF RetrySecurity, RetrySite, Probe, Reload, On
    <2>2. CASE RetryAudit \/ \E key \in Key : FilterAudit(key)
      BY <1>1, <2>2 DEF RetryAudit, FilterAudit, LoadAudit, On
    <2>3. CASE RegisterPasskey \/ SaveSite
      BY <1>2, <2>3 DEF RegisterPasskey, SaveSite, Rows, On
    <2>4. ASSUME NEW i \in Item, RenamePasskey(i) \/ RevokePasskey(i) \/ RevokeAdminSession(i)
          PROVE  \E c \in Control, marked \in BOOLEAN :
                   On("security") /\ c.do # "prefer" /\ Change(c, marked)
      BY <1>2, <2>4 DEF RenamePasskey, RevokePasskey, RevokeAdminSession, Passkeys, Rows
    <2> QED  BY <1>8, <2>1, <2>2, <2>3, <2>4 DEF Administration, On
  <1> QED  BY <1>4, <1>5, <1>6, <1>7, <1>8 DEF PagesUse

-----------------------------------------------------------------------------
\* What the start of a load does, whatever the page has done before it.
LEMMA LoadStarted ==
  ASSUME PagesTypeOK, NEW v \in ViewRow, NEW key \in Key, NEW ends \in SUBSET Control,
         Start(v, key, ends)
  PROVE  /\ view' \in ViewRow /\ view'.page = v.page /\ view'.loading
         /\ view'.busy \subseteq v.busy /\ view'.error = "no"
         /\ view'.key = v.key /\ view'.revision = v.revision /\ view'.shown = v.shown
         /\ loads' \in Seq(LoadRow) /\ Len(loads') = Len(loads) + 1 /\ Len(loads') <= MaxLoads
         /\ loads'[Len(loads')].active /\ loads'[Len(loads')].ends = ends
         /\ loads'[Len(loads')].key = key /\ loads'[Len(loads')].revision = 0
         /\ loads'[Len(loads')].preference = 0
         /\ \A j \in 1 .. Len(loads) : j \in 1 .. Len(loads') /\ loads'[j] = loads[j]
         /\ \A j \in 1 .. Len(loads') : j \in 1 .. Len(loads) \/ j = Len(loads')
  <1> USE PagesTypes
  <1>1. PICK r : r = NewLoad(key, ends)  OBVIOUS
  <1>2. r \in LoadRow /\ r.active /\ r.ends = ends /\ r.key = key /\ r.revision = 0
        /\ r.preference = 0
    BY <1>1, PagesAssumption DEF LoadRow, NewLoad
  <1>3. loads' = Append(loads, r)  BY <1>1 DEF Start
  <1>4. /\ loads' \in Seq(LoadRow) /\ Len(loads') = Len(loads) + 1
        /\ loads'[Len(loads')] = r
        /\ \A j \in 1 .. Len(loads) : j \in 1 .. Len(loads') /\ loads'[j] = loads[j]
        /\ \A j \in 1 .. Len(loads') : j \in 1 .. Len(loads) \/ j = Len(loads')
    BY <1>2, <1>3, RowAppended
  <1>5. Len(loads) < MaxLoads  BY DEF Start
  <1>6. Len(loads') <= MaxLoads  BY <1>4, <1>5, PagesAssumption
  <1>7. view' = Loading(v)  BY DEF Start
  <1>8. /\ view' \in ViewRow /\ view'.page = v.page /\ view'.loading
        /\ view'.busy \subseteq v.busy /\ view'.error = "no"
        /\ view'.key = v.key /\ view'.revision = v.revision /\ view'.shown = v.shown
    BY <1>7 DEF Loading, ViewRow
  <1> QED  BY <1>2, <1>4, <1>6, <1>8

\* An answered load is no longer under way.
LEMMA LoadsFewer ==
  ASSUME PagesTypeOK, NEW i \in DOMAIN loads, loads' = RemoveAt(loads, i)
  PROVE  /\ loads' \in Seq(LoadRow) /\ Len(loads') <= MaxLoads
         /\ Without(loads', loads, i)
  <1>1. loads \in Seq(LoadRow) /\ Len(loads) \in Nat /\ Len(loads) <= MaxLoads /\ i \in 1 .. Len(loads)
    BY PagesTypes
  <1>2. loads' \in Seq(LoadRow) /\ Without(loads', loads, i)  BY <1>1, RowRemoved
  <1>3. Len(loads') = Len(loads) - 1  BY <1>2 DEF Without
  <1>4. MaxLoads \in Nat  BY PagesAssumption
  <1>5. Len(loads) - 1 <= MaxLoads  BY <1>1, <1>4
  <1> QED  BY <1>2, <1>3, <1>5

\* An answered change is no longer under way.
LEMMA ChangesFewer ==
  ASSUME PagesTypeOK, NEW i \in DOMAIN changes, changes' = RemoveAt(changes, i)
  PROVE  /\ changes' \in Seq(ChangeRow) /\ Len(changes') <= MaxChanges
         /\ Without(changes', changes, i)
  <1>1. changes \in Seq(ChangeRow) /\ Len(changes) \in Nat /\ Len(changes) <= MaxChanges /\ i \in 1 .. Len(changes)
    BY PagesTypes
  <1>2. changes' \in Seq(ChangeRow) /\ Without(changes', changes, i)  BY <1>1, RowRemoved
  <1>3. Len(changes') = Len(changes) - 1  BY <1>2 DEF Without
  <1>4. MaxChanges \in Nat  BY PagesAssumption
  <1>5. Len(changes) - 1 <= MaxChanges  BY <1>1, <1>4
  <1> QED  BY <1>2, <1>3, <1>5

\* A control's own mark is one of those it takes away.
LEMMA OwnMark ==
  ASSUME PagesTypeOK, NEW c \in Control, On("devices") => c.item # NoItem
  PROVE  c \in Marks(c) /\ Marks(c) \in SUBSET Control
  BY DEF Marks, On

-----------------------------------------------------------------------------
\* A load started by a control or by another key of the URL; PagesInv is kept.
LEMMA LoadKeeps ==
  ASSUME PagesInv, NEW key \in Key, ~On("image"), Load([view EXCEPT !.key = key], key)
  PROVE  PagesInv'
  <1> USE PagesTypes
  <1>0. PagesTypeOK /\ PageRules /\ WaitingHasACause  BY DEF PagesInv
  <1>1. PICK v : v = [view EXCEPT !.key = key]  OBVIOUS
  <1>2. v \in ViewRow /\ v.page = view.page /\ v.busy = view.busy
    BY <1>0, <1>1 DEF ViewRow
  <1>3. Start(v, key, {}) /\ UNCHANGED <<changes, data, liked, saved>>  BY <1>1 DEF Load
  <1>4. {} \in SUBSET Control  OBVIOUS
  <1>5. /\ view' \in ViewRow /\ view'.page = view.page /\ view'.loading
        /\ view'.busy \subseteq view.busy
        /\ loads' \in Seq(LoadRow) /\ Len(loads') = Len(loads) + 1 /\ Len(loads') <= MaxLoads
        /\ loads'[Len(loads')].active /\ loads'[Len(loads')].ends = {}
        /\ \A j \in 1 .. Len(loads) : j \in 1 .. Len(loads') /\ loads'[j] = loads[j]
        /\ \A j \in 1 .. Len(loads') : j \in 1 .. Len(loads) \/ j = Len(loads')
    BY <1>0, <1>2, <1>3, <1>4, LoadStarted
  <1>6. DOMAIN loads' = 1 .. Len(loads') /\ DOMAIN loads = 1 .. Len(loads) /\ Len(loads) \in Nat
    BY <1>0, <1>5
  <1>7. PagesTypeOK'
    <2>1. crossed' \in BOOLEAN  BY <1>0, <1>3 DEF Start
    <2> QED  BY <1>0, <1>3, <1>5, <2>1 DEF PagesTypeOK, ViewRow, LoadRow
  <1>8. PageRules'
    BY <1>0, <1>3, <1>5, <1>6 DEF PageRules, On
  <1>9. WaitingHasACause'
    <2>1. \E i \in DOMAIN loads' : loads'[i].active
      BY <1>0, <1>5, <1>6
    <2>2. ASSUME NEW c \in view'.busy
          PROVE  \/ \E i \in DOMAIN changes' : changes'[i].control = c
                 \/ \E i \in DOMAIN loads' : c \in loads'[i].ends
      BY <1>0, <1>3, <1>5, <1>6, <2>2 DEF WaitingHasACause
    <2> QED  BY <2>1, <2>2 DEF WaitingHasACause
  <1> QED  BY <1>7, <1>8, <1>9 DEF PagesInv

\* A control sends a change and may be marked; PagesInv is kept.
LEMMA ChangeKeeps ==
  ASSUME PagesInv, NEW c \in Control, NEW marked \in BOOLEAN, ~On("image"),
         On("devices") => c.item # NoItem, Change(c, marked)
  PROVE  PagesInv'
  <1>0. PagesTypeOK /\ PageRules /\ WaitingHasACause  BY DEF PagesInv
  <1>t. view \in ViewRow  BY <1>0, PagesTypes
  <1>1. PICK r : r = [control |-> c, key |-> view.key, step |-> "sent", revision |-> 0]
    OBVIOUS
  <1>2. r \in ChangeRow /\ r.control = c
    BY <1>1, <1>t, PagesAssumption DEF ChangeRow, Answered, ViewRow
  <1>3. changes' = Append(changes, r) /\ Len(changes) < MaxChanges
    BY <1>1 DEF Change
  <1>4. changes \in Seq(ChangeRow) /\ Len(changes) \in Nat /\ DOMAIN changes = 1 .. Len(changes)
    BY <1>0, PagesTypes
  <1>5. /\ changes' \in Seq(ChangeRow) /\ Len(changes') = Len(changes) + 1
        /\ changes'[Len(changes')] = r
        /\ \A j \in 1 .. Len(changes) : j \in 1 .. Len(changes') /\ changes'[j] = changes[j]
        /\ \A j \in 1 .. Len(changes') : j \in 1 .. Len(changes) \/ j = Len(changes')
    BY <1>2, <1>3, <1>4, RowAppended
  <1>6. DOMAIN changes' = 1 .. Len(changes') /\ Len(changes') <= MaxChanges
    BY <1>3, <1>4, <1>5, PagesAssumption
  <1>7. /\ view' \in ViewRow /\ view'.page = view.page /\ view'.loading = view.loading
        /\ view'.busy \subseteq view.busy \cup {c}
    <2>1. PICK e \in {"no", "load", "change"} :
            e = IF OwnMessage THEN view.error ELSE "no"
      BY <1>t DEF ViewRow
    <2>2. PICK b : b = IF marked THEN (view.busy \ Marks(c)) \cup {c} ELSE view.busy  OBVIOUS
    <2>3. b \in SUBSET Control /\ b \subseteq view.busy \cup {c}  BY <1>t, <2>2 DEF ViewRow
    <2>4. view' = [view EXCEPT !.error = e, !.busy = b]  BY <2>1, <2>2 DEF Change
    <2> QED  BY <1>t, <2>3, <2>4 DEF ViewRow
  <1>8. UNCHANGED <<loads, data, liked, saved>> /\ crossed' \in BOOLEAN
    BY <1>0, PagesTypes DEF Change, Hides
  <1>9. PagesTypeOK'
    BY <1>0, <1>5, <1>6, <1>7, <1>8 DEF PagesTypeOK, ViewRow, ChangeRow
  <1>10. PageRules'
    BY <1>0, <1>2, <1>4, <1>5, <1>6, <1>7, <1>8 DEF PageRules, On
  <1>11. WaitingHasACause'
    <2>1. view'.loading => \E i \in DOMAIN loads' : loads'[i].active
      BY <1>0, <1>7, <1>8 DEF WaitingHasACause
    <2>2. ASSUME NEW d \in view'.busy
          PROVE  \/ \E i \in DOMAIN changes' : changes'[i].control = d
                 \/ \E i \in DOMAIN loads' : d \in loads'[i].ends
      <3>1. CASE d = c
        <4>1. Len(changes') \in DOMAIN changes'  BY <1>4, <1>5, <1>6
        <4> QED  BY <1>2, <1>5, <3>1, <4>1
      <3>2. CASE d \in view.busy
        BY <1>0, <1>4, <1>5, <1>6, <1>8, <3>2 DEF WaitingHasACause
      <3> QED  BY <1>7, <2>2, <3>1, <3>2
    <2> QED  BY <2>1, <2>2 DEF WaitingHasACause
  <1> QED  BY <1>9, <1>10, <1>11 DEF PagesInv

\* The server reads what a load asks for, or the preference; PagesInv is kept.
LEMMA ReadKeeps ==
  ASSUME PagesInv, NEW i \in DOMAIN loads, ServerReads(i) \/ ServerReadsPreference(i)
  PROVE  PagesInv'
  <1>0. PagesTypeOK /\ PageRules /\ WaitingHasACause  BY DEF PagesInv
  <1>1. loads \in Seq(LoadRow) /\ Len(loads) \in Nat /\ DOMAIN loads = 1 .. Len(loads)
        /\ data \in 1 .. MaxData
    BY <1>0, PagesTypes
  <1>2. loads[i] \in LoadRow  BY <1>1
  <1>m. data \in 0 .. MaxData  BY <1>1, PagesAssumption
  <1>4. PICK r \in LoadRow : /\ r.active = loads[i].active /\ r.ends = loads[i].ends
                             /\ loads' = [loads EXCEPT ![i] = r]
    <2>1. CASE ServerReads(i)
      <3>1. PICK r : r = [loads[i] EXCEPT !.revision = data]  OBVIOUS
      <3>2. r \in LoadRow /\ r.active = loads[i].active /\ r.ends = loads[i].ends
        BY <1>2, <1>m, <3>1 DEF LoadRow
      <3>3. loads' = [loads EXCEPT ![i] = r]  BY <2>1, <3>1 DEF ServerReads
      <3> QED  BY <3>2, <3>3
    <2>2. CASE ServerReadsPreference(i)
      <3>1. PICK r : r = [loads[i] EXCEPT !.preference = data]  OBVIOUS
      <3>2. r \in LoadRow /\ r.active = loads[i].active /\ r.ends = loads[i].ends
        BY <1>2, <1>m, <3>1 DEF LoadRow
      <3>3. loads' = [loads EXCEPT ![i] = r]  BY <2>2, <3>1 DEF ServerReadsPreference
      <3> QED  BY <3>2, <3>3
    <2> QED  BY <2>1, <2>2
  <1>5. UNCHANGED <<view, changes, data, liked, saved, crossed>>
    BY DEF ServerReads, ServerReadsPreference
  <1>6. /\ loads' \in Seq(LoadRow) /\ Len(loads') = Len(loads) /\ DOMAIN loads' = DOMAIN loads
        /\ \A j \in DOMAIN loads : loads'[j].active = loads[j].active
                                   /\ loads'[j].ends = loads[j].ends
    BY <1>1, <1>4
  <1>7. PagesTypeOK'
    BY <1>0, <1>5, <1>6 DEF PagesTypeOK, LoadRow
  <1>8. PageRules'
    BY <1>0, <1>5, <1>6 DEF PageRules, On
  <1>9. WaitingHasACause'
    BY <1>0, <1>5, <1>6 DEF WaitingHasACause
  <1> QED  BY <1>7, <1>8, <1>9 DEF PagesInv

\* The names of the readers arrive or not; PagesInv is kept.
LEMMA NamedKeeps ==
  ASSUME PagesInv, NEW failed \in BOOLEAN, ReadersNamed(failed)
  PROVE  PagesInv'
  <1>0. PagesTypeOK /\ PageRules /\ WaitingHasACause  BY DEF PagesInv
  <1>1. view \in ViewRow  BY <1>0, PagesTypes
  <1>2. PICK e : e = IF failed THEN "load" ELSE view.error  OBVIOUS
  <1>3. view' = [view EXCEPT !.naming = FALSE, !.error = e]  BY <1>2 DEF ReadersNamed
  <1>4. /\ view' \in ViewRow /\ view'.page = view.page /\ view'.loading = view.loading
        /\ view'.busy = view.busy
    BY <1>1, <1>2, <1>3 DEF ViewRow
  <1>5. UNCHANGED <<loads, changes, data, liked, saved, crossed>>  BY DEF ReadersNamed
  <1>6. PagesTypeOK'  BY <1>0, <1>4, <1>5 DEF PagesTypeOK, ViewRow
  <1>7. PageRules'  BY <1>0, <1>4, <1>5 DEF PageRules, On
  <1>8. WaitingHasACause'  BY <1>0, <1>4, <1>5 DEF WaitingHasACause
  <1> QED  BY <1>6, <1>7, <1>8 DEF PagesInv

\* The end of a load: the spinner goes, and the marks that waited for it.
LEMMA EndKeeps ==
  ASSUME PagesInv, NEW i \in DOMAIN loads, LoadSucceeds(i) \/ LoadFails(i)
  PROVE  PagesInv'
  <1>0. PagesTypeOK /\ PageRules /\ WaitingHasACause  BY DEF PagesInv
  <1>1. view \in ViewRow /\ loads \in Seq(LoadRow) /\ DOMAIN loads = 1 .. Len(loads)
    BY <1>0, PagesTypes
  <1>2. loads[i] \in LoadRow  BY <1>1
  <1>3. loads' = RemoveAt(loads, i) /\ UNCHANGED <<changes, data, saved, crossed>>
    BY DEF LoadSucceeds, LoadFails
  <1>4. loads' \in Seq(LoadRow) /\ Len(loads') <= MaxLoads /\ Without(loads', loads, i)
    BY <1>0, <1>3, LoadsFewer
  <1>5. DOMAIN loads' = 1 .. Len(loads')  BY <1>4
  <1>6. /\ view' \in ViewRow /\ view'.page = view.page /\ ~view'.loading
        /\ view'.busy = view.busy \ loads[i].ends
    <2>1. PICK b : b = view.busy \ loads[i].ends  OBVIOUS
    <2>2. PICK v : v = LoadEnds(view, i)  OBVIOUS
    <2>3. v = [view EXCEPT !.loading = FALSE, !.busy = b]  BY <2>1, <2>2 DEF LoadEnds
    <2>4. v \in ViewRow /\ v.page = view.page /\ ~v.loading /\ v.busy = b
      BY <1>1, <2>1, <2>3 DEF ViewRow
    <2>5. loads[i].key \in Key /\ loads[i].revision \in 0 .. MaxData  BY <1>2 DEF LoadRow
    <2>6. CASE LoadSucceeds(i)
      <3>1. view' = [v EXCEPT !.shown = loads[i].key, !.revision = loads[i].revision]
        BY <2>2, <2>6 DEF LoadSucceeds
      <3> QED  BY <2>1, <2>4, <2>5, <3>1 DEF ViewRow
    <2>7. CASE LoadFails(i)
      <3>1. view' = [v EXCEPT !.error = "load"]  BY <2>2, <2>7 DEF LoadFails
      <3> QED  BY <2>1, <2>4, <3>1 DEF ViewRow
    <2> QED  BY <2>6, <2>7
  <1>l. liked' \in LikedRow
    <2>1. liked \in LikedRow  BY <1>0, PagesTypes
    <2>2. loads[i].key \in Key /\ loads[i].preference \in 0 .. MaxData  BY <1>2 DEF LoadRow
    <2>3. \/ liked' = liked
          \/ liked' = [liked EXCEPT !.of = loads[i].key, !.revision = loads[i].preference]
      BY DEF LoadSucceeds, LoadFails
    <2> QED  BY <2>1, <2>2, <2>3 DEF LikedRow
  <1>7. PagesTypeOK'
    BY <1>0, <1>3, <1>4, <1>6, <1>l DEF PagesTypeOK, ViewRow, LoadRow, LikedRow
  <1>8. PageRules'
    <2>1. \A j \in DOMAIN loads' : \E k \in DOMAIN loads : loads'[j] = loads[k]
      BY <1>1, <1>4, <1>5 DEF Without
    <2> QED  BY <1>0, <1>3, <1>6, <2>1 DEF PageRules, On
  <1>9. ASSUME NEW c \in view'.busy
        PROVE  \/ \E k \in DOMAIN changes' : changes'[k].control = c
               \/ \E k \in DOMAIN loads' : c \in loads'[k].ends
    <2>1. c \in view.busy /\ c \notin loads[i].ends  BY <1>6, <1>9
    <2>2. CASE \E k \in DOMAIN changes : changes[k].control = c  BY <1>3, <2>2
    <2>3. ASSUME NEW k \in DOMAIN loads, c \in loads[k].ends
          PROVE  \E j \in DOMAIN loads' : c \in loads'[j].ends
      BY <1>1, <1>4, <1>5, <2>1, <2>3 DEF Without
    <2> QED  BY <1>0, <2>1, <2>2, <2>3 DEF WaitingHasACause
  <1> QED  BY <1>6, <1>7, <1>8, <1>9 DEF PagesInv, WaitingHasACause

\* The answer of an image that was given up carries no spinner and no mark.
LEMMA LateImageKeeps ==
  ASSUME PagesInv, NEW i \in DOMAIN loads, LateImage(i)
  PROVE  PagesInv'
  <1>0. PagesTypeOK /\ PageRules /\ WaitingHasACause  BY DEF PagesInv
  <1>1. loads \in Seq(LoadRow) /\ DOMAIN loads = 1 .. Len(loads)
    BY <1>0, PagesTypes
  <1>2. ~loads[i].active /\ loads[i].ends = {}  BY <1>0 DEF LateImage, PageRules
  <1>3. loads' = RemoveAt(loads, i) /\ UNCHANGED <<view, changes, data, liked, saved, crossed>>
    BY DEF LateImage
  <1>4. loads' \in Seq(LoadRow) /\ Len(loads') <= MaxLoads /\ Without(loads', loads, i)
    BY <1>0, <1>3, LoadsFewer
  <1>5. DOMAIN loads' = 1 .. Len(loads')  BY <1>4
  <1>7. PagesTypeOK'
    BY <1>0, <1>3, <1>4 DEF PagesTypeOK, LoadRow
  <1>8. PageRules'
    <2>1. \A j \in DOMAIN loads' : \E k \in DOMAIN loads : loads'[j] = loads[k]
      BY <1>1, <1>4, <1>5 DEF Without
    <2> QED  BY <1>0, <1>3, <2>1 DEF PageRules, On
  <1>9. WaitingHasACause'
    <2>1. \A k \in DOMAIN loads : k # i => \E j \in DOMAIN loads' : loads'[j] = loads[k]
      BY <1>1, <1>4, <1>5 DEF Without
    <2>2. view'.loading => \E k \in DOMAIN loads' : loads'[k].active
      BY <1>0, <1>2, <1>3, <2>1 DEF WaitingHasACause
    <2>3. ASSUME NEW c \in view'.busy
          PROVE  \/ \E k \in DOMAIN changes' : changes'[k].control = c
                 \/ \E k \in DOMAIN loads' : c \in loads'[k].ends
      BY <1>0, <1>2, <1>3, <2>1, <2>3 DEF WaitingHasACause
    <2> QED  BY <2>2, <2>3 DEF WaitingHasACause
  <1> QED  BY <1>7, <1>8, <1>9 DEF PagesInv

\* The server makes or refuses a change, which stays under way.
LEMMA ServerChangesKeeps ==
  ASSUME PagesInv, NEW i \in DOMAIN changes, ServerChanges(i)
  PROVE  PagesInv' /\ data <= data'
  <1>0. PagesTypeOK /\ PageRules /\ WaitingHasACause  BY DEF PagesInv
  <1>1. changes \in Seq(ChangeRow) /\ DOMAIN changes = 1 .. Len(changes)
        /\ data \in 1 .. MaxData /\ MaxData \in Nat
    BY <1>0, PagesTypes, PagesAssumption
  <1>2. changes[i] \in ChangeRow  BY <1>1
  <1>3. UNCHANGED <<view, loads, liked, saved, crossed>>  BY DEF ServerChanges
  <1>4. data' \in 1 .. MaxData /\ data <= data'  BY <1>1 DEF ServerChanges
  <1>5. PICK r \in ChangeRow : r.control = changes[i].control
                               /\ changes' = [changes EXCEPT ![i] = r]
    <2>1. CASE changes' = [changes EXCEPT ![i].step = "done", ![i].revision = data']
      <3>1. PICK r : r = [changes[i] EXCEPT !.step = "done", !.revision = data']  OBVIOUS
      <3>m. data' \in 0 .. MaxData  BY <1>4, <1>1
      <3>2. r \in ChangeRow /\ r.control = changes[i].control
        BY <1>2, <3>1, <3>m DEF ChangeRow, Answered
      <3>3. changes' = [changes EXCEPT ![i] = r]  BY <2>1, <3>1
      <3> QED  BY <3>2, <3>3
    <2>2. CASE changes' = [changes EXCEPT ![i].step = "refused"]
      <3>1. PICK r : r = [changes[i] EXCEPT !.step = "refused"]  OBVIOUS
      <3>2. r \in ChangeRow /\ r.control = changes[i].control
        BY <1>2, <3>1 DEF ChangeRow, Answered
      <3>3. changes' = [changes EXCEPT ![i] = r]  BY <2>2, <3>1
      <3> QED  BY <3>2, <3>3
    <2> QED  BY <2>1, <2>2 DEF ServerChanges
  <1>6. /\ changes' \in Seq(ChangeRow) /\ Len(changes') = Len(changes)
        /\ DOMAIN changes' = DOMAIN changes
        /\ \A j \in DOMAIN changes : changes'[j].control = changes[j].control
    BY <1>1, <1>5
  <1>7. PagesTypeOK'
    BY <1>0, <1>3, <1>4, <1>6 DEF PagesTypeOK, ChangeRow
  <1>8. PageRules'
    <2>1. On("image") => changes' = <<>>  BY <1>0, <1>1, <1>6 DEF PageRules
    <2> QED  BY <1>0, <1>3, <1>6, <2>1 DEF PageRules, On
  <1>9. WaitingHasACause'
    BY <1>0, <1>3, <1>6 DEF WaitingHasACause
  <1> QED  BY <1>4, <1>7, <1>8, <1>9 DEF PagesInv

\* An image is given up for another one, which is loading then.
LEMMA PathKeeps ==
  ASSUME PagesInv, NEW path \in Key, PathChanges(path)
  PROVE  PagesInv'
  <1>0. PagesTypeOK /\ PageRules /\ WaitingHasACause  BY DEF PagesInv
  <1>1. view \in ViewRow /\ loads \in Seq(LoadRow) /\ Len(loads) \in Nat
        /\ DOMAIN loads = 1 .. Len(loads) /\ crossed \in BOOLEAN
    BY <1>0, PagesTypes
  <1>2. PICK old : old = [i \in DOMAIN loads |-> [loads[i] EXCEPT !.active = FALSE]]
    OBVIOUS
  <1>3. /\ old \in Seq(LoadRow) /\ Len(old) = Len(loads)
        /\ \A j \in 1 .. Len(old) : ~old[j].active /\ old[j].ends = loads[j].ends
    <2>1. \A j \in 1 .. Len(loads) : old[j] \in LoadRow
      <3> TAKE j \in 1 .. Len(loads)
      <3>1. loads[j] \in LoadRow /\ old[j] = [loads[j] EXCEPT !.active = FALSE]
        BY <1>1, <1>2
      <3> QED  BY <3>1 DEF LoadRow
    <2>2. \A j \in 1 .. Len(loads) : ~old[j].active /\ old[j].ends = loads[j].ends
      <3> TAKE j \in 1 .. Len(loads)
      <3>1. loads[j] \in LoadRow /\ old[j] = [loads[j] EXCEPT !.active = FALSE]
        BY <1>1, <1>2
      <3> QED  BY <3>1 DEF LoadRow
    <2>3. old \in Seq(LoadRow) /\ Len(old) = Len(loads)  BY <1>1, <1>2, <2>1
    <2> QED  BY <2>2, <2>3
  <1>4. PICK r : r = NewLoad(path, {})  OBVIOUS
  <1>5. r \in LoadRow /\ r.active /\ r.ends = {}
    BY <1>4, PagesAssumption DEF LoadRow, NewLoad
  <1>6. loads' = Append(old, r) /\ Len(loads) < MaxLoads /\ On("image")
    BY <1>2, <1>4 DEF PathChanges
  <1>7. /\ loads' \in Seq(LoadRow) /\ Len(loads') = Len(loads) + 1
        /\ loads'[Len(loads')] = r
        /\ \A j \in 1 .. Len(loads') : j \in 1 .. Len(old) \/ j = Len(loads')
        /\ \A j \in 1 .. Len(old) : loads'[j] = old[j]
    BY <1>3, <1>5, <1>6, RowAppended
  <1>8. DOMAIN loads' = 1 .. Len(loads') /\ Len(loads') <= MaxLoads
        /\ Len(loads') \in DOMAIN loads'
    BY <1>1, <1>6, <1>7, PagesAssumption
  <1>9. UNCHANGED <<changes, data, liked, saved>> /\ crossed' \in BOOLEAN
    BY <1>1 DEF PathChanges
  <1>10. view' \in ViewRow /\ view'.page = view.page /\ view'.busy = view.busy
    <2>1. PICK v : v = [view EXCEPT !.key = path, !.revision = 0]  OBVIOUS
    <2>2. v \in ViewRow /\ v.page = view.page /\ v.busy = view.busy /\ v.page = "image"
      <3>1. view.page = "image" /\ 0 \in 0 .. MaxData
        BY <1>6, PagesAssumption DEF On
      <3> QED  BY <1>1, <2>1, <3>1 DEF ViewRow
    <2>3. view' = Loading(v)  BY <2>1 DEF PathChanges
    <2>4. view' = [v EXCEPT !.loading = TRUE, !.error = "no", !.busy = v.busy]
      BY <2>2, <2>3 DEF Loading
    <2> QED  BY <2>2, <2>4 DEF ViewRow
  <1>11. PagesTypeOK'
    BY <1>0, <1>7, <1>8, <1>9, <1>10 DEF PagesTypeOK, LoadRow, ViewRow
  <1>12. \A j \in 1 .. Len(loads') : loads'[j].ends = {}
    BY <1>0, <1>1, <1>3, <1>5, <1>6, <1>7 DEF PageRules
  <1>13. PageRules'
    BY <1>0, <1>6, <1>8, <1>9, <1>10, <1>12 DEF PageRules, On
  <1>14. \A c \in view.busy : FALSE
    BY <1>0, <1>6 DEF PageRules, WaitingHasACause
  <1>15. WaitingHasACause'
    BY <1>5, <1>7, <1>8, <1>10, <1>14 DEF WaitingHasACause
  <1> QED  BY <1>11, <1>13, <1>15 DEF PagesInv

\* A change is over and takes its marks away; what starts after it, if anything, waits
\* for the same marks.
LEMMA UnmarkedKeeps ==
  ASSUME PagesInv, NEW i \in DOMAIN changes, changes' = RemoveAt(changes, i),
         view' \in ViewRow, view'.page = view.page, view'.loading = view.loading,
         view'.busy = view.busy \ Marks(changes[i].control),
         saved' \in 0 .. MaxData, On("image") => saved' = 0,
         crossed' \in BOOLEAN, liked' \in LikedRow, UNCHANGED <<loads, data>>
  PROVE  PagesInv'
  <1>0. PagesTypeOK /\ PageRules /\ WaitingHasACause  BY DEF PagesInv
  <1>1. changes \in Seq(ChangeRow) /\ DOMAIN changes = 1 .. Len(changes)
    BY <1>0, PagesTypes
  <1>2. changes[i] \in ChangeRow  BY <1>1
  <1>3. changes[i].control \in Control /\ (On("devices") => changes[i].control.item # NoItem)
    BY <1>0, <1>2 DEF ChangeRow, PageRules
  <1>4. changes[i].control \in Marks(changes[i].control)  BY <1>0, <1>3, OwnMark
  <1>5. changes' \in Seq(ChangeRow) /\ Len(changes') <= MaxChanges /\ Without(changes', changes, i)
    BY <1>0, ChangesFewer
  <1>6. DOMAIN changes' = 1 .. Len(changes')  BY <1>5
  <1>7. PagesTypeOK'
    BY <1>0, <1>5 DEF PagesTypeOK, ChangeRow, ViewRow, LikedRow
  <1>8. /\ \A j \in DOMAIN changes' : \E k \in DOMAIN changes : changes'[j] = changes[k]
        /\ \A k \in DOMAIN changes : k # i => \E j \in DOMAIN changes' : changes'[j] = changes[k]
    BY <1>5 DEF Without
  <1>9. ~On("image")  BY <1>0, <1>1 DEF PageRules
  <1>10. PageRules'
    BY <1>0, <1>8, <1>9 DEF PageRules, On
  <1>11. WaitingHasACause'
    <2>1. view'.loading => \E k \in DOMAIN loads' : loads'[k].active
      BY <1>0 DEF WaitingHasACause
    <2>2. ASSUME NEW c \in view'.busy
          PROVE  \/ \E k \in DOMAIN changes' : changes'[k].control = c
                 \/ \E k \in DOMAIN loads' : c \in loads'[k].ends
      <3>1. c \in view.busy /\ c # changes[i].control  BY <1>4, <2>2
      <3> QED  BY <1>0, <1>8, <3>1 DEF WaitingHasACause
    <2> QED  BY <2>1, <2>2 DEF WaitingHasACause
  <1> QED  BY <1>7, <1>10, <1>11 DEF PagesInv

\* A change is over and the page is loaded again; the marks of the change are gone or
\* wait for the load.
LEMMA ReloadKeeps ==
  ASSUME PagesInv, NEW i \in DOMAIN changes, changes' = RemoveAt(changes, i),
         NEW v \in ViewRow, NEW key \in Key, NEW ends \in SUBSET Control,
         Start(v, key, ends), v.page = view.page, v.busy \subseteq view.busy,
         \A c \in v.busy : c = changes[i].control => c \in ends,
         saved' \in 0 .. MaxData, UNCHANGED <<data, liked>>
  PROVE  PagesInv'
  <1>0. PagesTypeOK /\ PageRules /\ WaitingHasACause  BY DEF PagesInv
  <1>1. changes \in Seq(ChangeRow) /\ DOMAIN changes = 1 .. Len(changes)
        /\ Len(loads) \in Nat /\ DOMAIN loads = 1 .. Len(loads)
    BY <1>0, PagesTypes
  <1>2. changes' \in Seq(ChangeRow) /\ Len(changes') <= MaxChanges /\ Without(changes', changes, i)
    BY <1>0, ChangesFewer
  <1>3. DOMAIN changes' = 1 .. Len(changes')  BY <1>2
  <1>4. /\ \A j \in DOMAIN changes' : \E k \in DOMAIN changes : changes'[j] = changes[k]
        /\ \A k \in DOMAIN changes : k # i => \E j \in DOMAIN changes' : changes'[j] = changes[k]
    BY <1>2 DEF Without
  <1>5. /\ view' \in ViewRow /\ view'.page = view.page /\ view'.loading
        /\ view'.busy \subseteq v.busy
        /\ loads' \in Seq(LoadRow) /\ Len(loads') = Len(loads) + 1 /\ Len(loads') <= MaxLoads
        /\ loads'[Len(loads')].active /\ loads'[Len(loads')].ends = ends
        /\ \A j \in 1 .. Len(loads) : j \in 1 .. Len(loads') /\ loads'[j] = loads[j]
        /\ \A j \in 1 .. Len(loads') : j \in 1 .. Len(loads) \/ j = Len(loads')
    BY <1>0, LoadStarted
  <1>6. DOMAIN loads' = 1 .. Len(loads') /\ Len(loads') \in DOMAIN loads'
    BY <1>1, <1>5
  <1>7. crossed' \in BOOLEAN  BY <1>0, PagesTypes DEF Start
  <1>8. PagesTypeOK'
    BY <1>0, <1>2, <1>5, <1>7 DEF PagesTypeOK, ChangeRow, ViewRow, LoadRow
  <1>9. ~On("image")  BY <1>0, <1>1 DEF PageRules
  <1>10. PageRules'
    <2>1. \A j \in DOMAIN loads' : ~loads'[j].active => loads'[j].ends = {}
      BY <1>0, <1>1, <1>5, <1>6 DEF PageRules
    <2> QED  BY <1>0, <1>4, <1>5, <1>9, <2>1 DEF PageRules, On
  <1>11. WaitingHasACause'
    <2>1. view'.loading => \E k \in DOMAIN loads' : loads'[k].active
      BY <1>5, <1>6
    <2>2. ASSUME NEW c \in view'.busy
          PROVE  \/ \E k \in DOMAIN changes' : changes'[k].control = c
                 \/ \E k \in DOMAIN loads' : c \in loads'[k].ends
      <3>1. CASE c = changes[i].control  BY <1>5, <1>6, <2>2, <3>1
      <3>2. CASE c # changes[i].control
        <4>1. c \in view.busy  BY <1>5, <2>2
        <4>2. CASE \E k \in DOMAIN changes : changes[k].control = c
          BY <1>4, <3>2, <4>2
        <4>3. CASE \E k \in DOMAIN loads : c \in loads[k].ends
          BY <1>1, <1>5, <1>6, <4>3
        <4> QED  BY <1>0, <4>1, <4>2, <4>3 DEF WaitingHasACause
      <3> QED  BY <3>1, <3>2
    <2> QED  BY <2>1, <2>2 DEF WaitingHasACause
  <1> QED  BY <1>8, <1>10, <1>11 DEF PagesInv

\* A page that is left shows no spinner and no mark.
LEMMA AwayKeeps ==
  ASSUME PagesInv, Away
  PROVE  PagesInv'
  <1>0. PagesTypeOK /\ PageRules /\ WaitingHasACause  BY DEF PagesInv
  <1>1. view \in ViewRow  BY <1>0, PagesTypes
  <1>2. view' \in ViewRow /\ view'.page = "away" /\ view'.busy = {} /\ ~view'.loading
    BY <1>1 DEF Away, ViewRow
  <1>3. loads' = <<>> /\ changes' = <<>> /\ UNCHANGED <<data, liked, saved, crossed>>
    BY DEF Away
  <1>4. /\ loads' \in Seq(LoadRow) /\ Len(loads') = 0 /\ DOMAIN loads' = {}
        /\ changes' \in Seq(ChangeRow) /\ Len(changes') = 0 /\ DOMAIN changes' = {}
    BY <1>3
  <1>5. 0 <= MaxLoads /\ 0 <= MaxChanges  BY PagesAssumption
  <1>6. PagesTypeOK'
    BY <1>0, <1>2, <1>3, <1>4, <1>5 DEF PagesTypeOK, ViewRow, LoadRow, ChangeRow
  <1> QED  BY <1>2, <1>4, <1>6 DEF PagesInv, PageRules, WaitingHasACause, On

\* The end of a change, whatever the page does after it.
LEMMA ChangeEndsKeeps ==
  ASSUME PagesInv, NEW i \in DOMAIN changes, ChangeSucceeds(i) \/ ChangeFails(i)
  PROVE  PagesInv'
  <1>0. PagesTypeOK /\ PageRules /\ WaitingHasACause  BY DEF PagesInv
  <1>1. view \in ViewRow /\ changes \in Seq(ChangeRow) /\ saved \in 0 .. MaxData
        /\ crossed \in BOOLEAN /\ DOMAIN changes = 1 .. Len(changes)
    BY <1>0, PagesTypes
  <1>2. changes[i] \in ChangeRow  BY <1>1
  <1>3. /\ changes[i].control \in Control /\ changes[i].key \in Key
        /\ changes[i].revision \in 0 .. MaxData
        /\ On("devices") => changes[i].control.item # NoItem
    BY <1>0, <1>2 DEF ChangeRow, PageRules
  <1>4. PICK c : c = changes[i].control  OBVIOUS
  <1>5. c \in Marks(c) /\ Marks(c) \in SUBSET Control  BY <1>0, <1>3, <1>4, OwnMark
  <1>6. PICK u : u = Unmarked(view, c)  OBVIOUS
  <1>7. u \in ViewRow /\ u.page = view.page /\ u.loading = view.loading
        /\ u.busy = view.busy \ Marks(c)
    <2>1. PICK b : b = view.busy \ Marks(c)  OBVIOUS
    <2>2. u = [view EXCEPT !.busy = b]  BY <1>6, <2>1 DEF Unmarked
    <2> QED  BY <1>1, <2>1, <2>2 DEF ViewRow
  <1>8. ~On("image")  BY <1>0, <1>1 DEF PageRules
  <1>l. liked \in LikedRow  BY <1>0, PagesTypes
  <1>9. CASE ChangeFails(i)
    <2>1. PICK e \in {"no", "load", "change"} : e = IF OwnMessage THEN u.error ELSE "change"
      BY <1>7 DEF ViewRow
    <2>2. view' = [u EXCEPT !.error = e]
      BY <1>4, <1>6, <1>9, <2>1 DEF ChangeFails
    <2>3. view' \in ViewRow /\ view'.page = view.page /\ view'.loading = view.loading
          /\ view'.busy = view.busy \ Marks(c)
      BY <1>7, <2>2 DEF ViewRow
    <2>4. changes' = RemoveAt(changes, i) /\ UNCHANGED <<loads, data, liked, saved>>
          /\ crossed' \in BOOLEAN
      BY <1>1, <1>9 DEF ChangeFails, Hides
    <2> QED  BY <1>0, <1>1, <1>4, <1>8, <1>l, <2>3, <2>4, UnmarkedKeeps
  <1>10. CASE ChangeSucceeds(i)
    <2>1. CASE Away  BY <2>1, AwayKeeps
    <2>l. ASSUME liked' = [of |-> changes[i].key, revision |-> changes[i].revision,
                           told |-> Later(changes[i].revision, liked.told)]
          PROVE  liked' \in LikedRow
      <3>1. Later(changes[i].revision, liked.told) \in 0 .. MaxData
        BY <1>3, <1>l DEF Later, LikedRow
      <3> QED  BY <1>3, <2>l, <3>1 DEF LikedRow
    <2>2. CASE /\ view' = u /\ UNCHANGED <<loads, saved, crossed, data>>
               /\ liked' \in LikedRow /\ changes' = RemoveAt(changes, i)
      BY <1>1, <1>4, <1>7, <1>8, <2>2, UnmarkedKeeps
    <2>3. CASE /\ view' = [u EXCEPT !.revision = changes[i].revision]
               /\ saved' = changes[i].revision /\ UNCHANGED <<loads, crossed, data, liked>>
               /\ changes' = RemoveAt(changes, i)
      <3>1. view' \in ViewRow /\ view'.page = view.page /\ view'.loading = view.loading
            /\ view'.busy = view.busy \ Marks(c)
        BY <1>3, <1>7, <2>3 DEF ViewRow
      <3> QED  BY <1>1, <1>3, <1>4, <1>8, <1>l, <2>3, <3>1, UnmarkedKeeps
    <2>4. CASE /\ Start(view, changes[i].key, Marks(c))
               /\ saved' = Later(changes[i].revision, saved)
               /\ changes' = RemoveAt(changes, i) /\ UNCHANGED <<data, liked>>
      <3>1. saved' \in 0 .. MaxData  BY <1>1, <1>3, <2>4 DEF Later
      <3>2. \A d \in view.busy : d = changes[i].control => d \in Marks(c)  BY <1>4, <1>5
      <3>3. PICK v \in ViewRow : v = view  BY <1>1
      <3> QED  BY <1>3, <1>5, <2>4, <3>1, <3>2, <3>3, ReloadKeeps
    <2>5. CASE /\ Start([u EXCEPT !.recovery = FALSE], view.key, {})
               /\ saved' = changes[i].revision
               /\ changes' = RemoveAt(changes, i) /\ UNCHANGED <<data, liked>>
      <3>1. PICK v : v = [u EXCEPT !.recovery = FALSE]  OBVIOUS
      <3>2. v \in ViewRow /\ v.page = view.page /\ v.busy = view.busy \ Marks(c)
        BY <1>7, <3>1 DEF ViewRow
      <3>3. \A d \in v.busy : d = changes[i].control => d \in {}  BY <1>4, <1>5, <3>2
      <3>4. PICK k \in Key : k = view.key  BY <1>1 DEF ViewRow
      <3>5. {} \in SUBSET Control /\ Start(v, k, {})  BY <2>5, <3>1, <3>4
      <3>6. v.busy \subseteq view.busy  BY <3>2
      <3> QED  BY <1>3, <2>5, <3>2, <3>3, <3>5, <3>6, ReloadKeeps
    <2> QED
      BY <1>4, <1>6, <1>10, <1>l, <2>l, <2>1, <2>2, <2>3, <2>4, <2>5 DEF ChangeSucceeds
  <1> QED  BY <1>9, <1>10

\* Every step of the pages keeps PagesInv.
LEMMA PagesStep ==
  ASSUME PagesInv, [PagesNext]_pagesVars
  PROVE  PagesInv'
  <1>0. PagesTypeOK  BY DEF PagesInv
  <1>1. CASE PagesUse
    BY <1>0, <1>1, UseLoadsOrChanges, LoadKeeps, ChangeKeeps
  <1>2. ASSUME NEW key \in Key, GoToAnother(key) PROVE PagesInv'
    BY <1>2, LoadKeeps DEF GoToAnother, On
  <1>3. ASSUME NEW key \in Key, PathChanges(key) PROVE PagesInv'
    BY <1>3, PathKeeps
  <1>4. ASSUME NEW i \in DOMAIN loads,
               \/ ServerReads(i) \/ ServerReadsPreference(i)
               \/ LoadSucceeds(i) \/ LoadFails(i) \/ LateImage(i)
        PROVE  PagesInv'
    BY <1>4, ReadKeeps, EndKeeps, LateImageKeeps
  <1>5. ASSUME NEW i \in DOMAIN changes,
               ServerChanges(i) \/ ChangeSucceeds(i) \/ ChangeFails(i)
        PROVE  PagesInv'
    BY <1>5, ServerChangesKeeps, ChangeEndsKeeps
  <1>6. CASE OthersChange
    <2>1. data' \in 1 .. MaxData  BY <1>0, <1>6, PagesTypes, PagesAssumption DEF OthersChange
    <2> QED
      BY <1>6, <2>1 DEF OthersChange, PagesInv, PagesTypeOK, PageRules, WaitingHasACause, On
  <1>7. ASSUME NEW failed \in BOOLEAN, ReadersNamed(failed) PROVE PagesInv'
    BY <1>7, NamedKeeps
  <1>8. CASE UNCHANGED pagesVars
    BY <1>8 DEF pagesVars, PagesInv, PagesTypeOK, PageRules, WaitingHasACause, On
  <1> QED
    BY <1>1, <1>2, <1>3, <1>4, <1>5, <1>6, <1>7, <1>8 DEF PagesNext

\* A page is mounted with a load, or without a spinner.
LEMMA PagesStart == PagesInit => PagesInv
  <1> SUFFICES ASSUME PagesInit PROVE PagesInv  OBVIOUS
  <1>1. PICK mounted \in PageName, recovery \in BOOLEAN, key \in Key :
          LET loading == mounted # "profile" /\ ~recovery
          IN  /\ view = [page |-> mounted, key |-> key, shown |-> key, revision |-> 0,
                         loading |-> loading, error |-> "no",
                         recovery |-> recovery, naming |-> mounted = "audit",
                         busy |-> {}]
              /\ loads = IF loading THEN <<NewLoad(key, {})>> ELSE <<>>
    BY DEF PagesInit
  <1>2. changes = <<>> /\ data = 1 /\ saved = 0 /\ crossed = FALSE  BY DEF PagesInit
  <1>l. \E of \in Key : liked = [of |-> of, revision |-> 0, told |-> 0]  BY DEF PagesInit
  <1>n. 0 \in 0 .. MaxData /\ 1 \in 1 .. MaxData /\ 1 <= MaxLoads /\ 0 <= MaxLoads
        /\ 0 <= MaxChanges
    BY PagesAssumption
  <1>3. view \in ViewRow /\ view.busy = {} /\ view.loading = (mounted # "profile" /\ ~recovery)
    BY <1>1, <1>n DEF ViewRow
  <1>4. PICK r : r = NewLoad(key, {})  OBVIOUS
  <1>5. r \in LoadRow /\ r.active /\ r.ends = {}  BY <1>4, <1>n DEF LoadRow, NewLoad
  <1>6. \/ loads = <<>> /\ ~view.loading
        \/ loads = <<r>>
    BY <1>1, <1>3, <1>4
  <1>7. /\ loads \in Seq(LoadRow) /\ Len(loads) <= MaxLoads
        /\ \A i \in DOMAIN loads : loads[i].active /\ loads[i].ends = {}
        /\ view.loading => 1 \in DOMAIN loads
    <2>1. CASE loads = <<>>  BY <1>6, <1>n, <2>1
    <2>2. CASE loads = <<r>>
      <3>1. DOMAIN loads = {1} /\ loads[1] = r /\ Len(loads) = 1  BY <2>2
      <3>2. loads \in Seq(LoadRow)  BY <1>5, <2>2
      <3> QED  BY <1>5, <1>n, <3>1, <3>2
    <2> QED  BY <1>6, <2>1, <2>2
  <1>8. changes \in Seq(ChangeRow) /\ Len(changes) = 0 /\ DOMAIN changes = {}
    BY <1>2
  <1>9. PagesTypeOK
    <2>1. liked \in LikedRow  BY <1>l, <1>n DEF LikedRow
    <2> QED  BY <1>2, <1>3, <1>7, <1>8, <1>n, <2>1, PagesParts
  <1>10. PageRules  BY <1>2, <1>7, <1>8 DEF PageRules
  <1>11. WaitingHasACause  BY <1>3, <1>7 DEF WaitingHasACause
  <1> QED  BY <1>9, <1>10, <1>11 DEF PagesInv

\* Nothing waits for nothing: a spinner of a page has a load under way, and a marked
\* control its change or the load after it, in every order of the answers of any number of
\* loads and changes, whatever is refused or lost (the finally blocks of load, submit,
\* rename and revoke of the pages).
THEOREM NothingWaitsForNothing == PagesSpec => []WaitingHasACause
  <1>1. PagesInv => WaitingHasACause  BY DEF PagesInv
  <1> QED  BY <1>1, PagesStart, PagesStep, PTL DEF PagesSpec

-----------------------------------------------------------------------------
\* What is known of the answers; what a page shows as long as its loads come one by one
\* and for its own key, and what an image shows in any case.
AnswersFit ==
    /\ saved <= data
    /\ \A i \in DOMAIN changes :
         /\ changes[i].revision <= data
         /\ changes[i].step = "done" => changes[i].revision # 0
    /\ On("site") => (view.revision = 0 => changes = <<>>)
    /\ On("image") =>
         /\ \A i \in DOMAIN loads : loads[i].active => loads[i].key = view.key
         /\ view.revision # 0 => view.shown = view.key

OneByOne ==
    /\ Len(loads) <= 1
    /\ \A i \in DOMAIN loads : /\ loads[i].key = view.key
                               /\ loads[i].revision = 0 \/ loads[i].revision >= saved
    /\ On("site") /\ loads # <<>> => view.revision = 0
    /\ ~On("away") /\ ~view.loading /\ view.error # "load" /\ view.revision # 0 =>
         view.shown = view.key /\ view.revision >= saved

AsAsked == AnswersFit /\ (~crossed => OneByOne)

ShownInv == AsAsked /\ (view.recovery => ~On("site"))

\* The parts of ShownInv that the start of a load on a page other than the image keeps.
LEMMA LoadShows ==
  ASSUME PagesInv, ShownInv, NEW v \in ViewRow, NEW key \in Key, NEW ends \in SUBSET Control,
         Start(v, key, ends), v.page = view.page, v.revision = view.revision,
         ~On("image"), On("site") => view.revision = 0, ~crossed'
  PROVE  OneByOne' /\ view'.page = view.page /\ view'.revision = view.revision
  <1>1. PagesTypeOK /\ Len(loads) \in Nat /\ loads \in Seq(LoadRow)
    BY PagesTypes DEF PagesInv
  <1>2. /\ view' \in ViewRow /\ view'.page = view.page /\ view'.loading
        /\ view'.key = v.key /\ view'.revision = view.revision
        /\ loads' \in Seq(LoadRow) /\ Len(loads') = Len(loads) + 1
        /\ loads'[Len(loads')].key = key /\ loads'[Len(loads')].revision = 0
    BY <1>1, LoadStarted
  <1>3. loads = <<>> /\ key = v.key  BY DEF Start
  <1>4. Len(loads') = 1 /\ DOMAIN loads' = {1}
    <2>1. Len(loads) = 0  BY <1>3
    <2>2. Len(loads') = 1  BY <1>2, <2>1
    <2>3. DOMAIN loads' = 1 .. Len(loads')  BY <1>2
    <2>4. 1 .. 1 = {1}  OBVIOUS
    <2> QED  BY <2>2, <2>3, <2>4
  <1>5. On("site")' => view'.revision = 0  BY <1>2 DEF On
  <1>6. \A j \in DOMAIN loads' : loads'[j].key = view'.key /\ loads'[j].revision = 0
    BY <1>2, <1>3, <1>4
  <1>7. view'.loading  BY <1>2
  <1>8. /\ Len(loads') <= 1
        /\ \A i \in DOMAIN loads' : /\ loads'[i].key = view'.key
                                    /\ loads'[i].revision = 0 \/ loads'[i].revision >= saved'
    BY <1>4, <1>6
  <1>9. OneByOne'  BY <1>5, <1>7, <1>8 DEF OneByOne
  <1> QED  BY <1>2, <1>9

\* AnswersFit after a step that changes the changes under way and no image.
LEMMA AnswersMap ==
  ASSUME AnswersFit, view'.page = view.page, view'.revision = view.revision,
         ~On("image"), saved' <= data',
         \A j \in DOMAIN changes' :
            /\ changes'[j].revision <= data'
            /\ changes'[j].step = "done" => changes'[j].revision # 0,
         changes = <<>> => changes' = <<>>
  PROVE  AnswersFit'
  BY DEF AnswersFit, On

\* A change is sent: it has not been answered.
LEMMA ChangeShows ==
  ASSUME PagesInv, ShownInv, NEW c \in Control, NEW marked \in BOOLEAN, ~On("image"),
         ~On("away"), On("site") => view.revision # 0, Change(c, marked)
  PROVE  AsAsked'
  <1>0. PagesTypeOK /\ PageRules /\ AnswersFit  BY DEF PagesInv, ShownInv, AsAsked
  <1>t. /\ view \in ViewRow /\ changes \in Seq(ChangeRow) /\ Len(changes) \in Nat
        /\ DOMAIN changes = 1 .. Len(changes) /\ data \in 1 .. MaxData /\ crossed \in BOOLEAN
    BY <1>0, PagesTypes
  <1>1. PICK r : r = [control |-> c, key |-> view.key, step |-> "sent", revision |-> 0]
    OBVIOUS
  <1>2. r \in ChangeRow /\ r.step = "sent" /\ r.revision = 0
    BY <1>1, <1>t, PagesAssumption DEF ChangeRow, Answered, ViewRow
  <1>3. changes' = Append(changes, r)  BY <1>1 DEF Change
  <1>5. /\ changes' \in Seq(ChangeRow) /\ changes'[Len(changes')] = r
        /\ \A j \in 1 .. Len(changes) : changes'[j] = changes[j]
        /\ \A j \in 1 .. Len(changes') : j \in 1 .. Len(changes) \/ j = Len(changes')
    BY <1>2, <1>3, <1>t, RowAppended
  <1>6. DOMAIN changes' = 1 .. Len(changes')  BY <1>5
  <1>7. UNCHANGED <<loads, data, liked, saved>>  BY DEF Change
  <1>8. PICK e : e = IF OwnMessage THEN view.error ELSE "no"  OBVIOUS
  <1>9. PICK b : b = IF marked THEN (view.busy \ Marks(c)) \cup {c} ELSE view.busy  OBVIOUS
  <1>10. view' = [view EXCEPT !.error = e, !.busy = b]  BY <1>8, <1>9 DEF Change
  <1>11. /\ view'.page = view.page /\ view'.key = view.key /\ view'.shown = view.shown
         /\ view'.revision = view.revision /\ view'.loading = view.loading /\ view'.error = e
    BY <1>t, <1>10 DEF ViewRow
  <1>12. AnswersFit'
    <2>1. \A j \in DOMAIN changes' :
            /\ changes'[j].revision <= data'
            /\ changes'[j].step = "done" => changes'[j].revision # 0
      <3> TAKE j \in DOMAIN changes'
      <3>1. CASE j \in 1 .. Len(changes)
        BY <1>0, <1>5, <1>7, <1>t, <3>1 DEF AnswersFit
      <3>2. CASE j = Len(changes')
        <4>1. 0 <= data  BY <1>t
        <4> QED  BY <1>2, <1>5, <1>7, <3>2, <4>1
      <3> QED  BY <1>5, <1>6, <3>1, <3>2
    <2>2. On("site") => view'.revision # 0  BY <1>11
    <2> QED  BY <1>0, <1>7, <1>11, <2>1, <2>2 DEF AnswersFit, On
  <1>13. ASSUME ~crossed' PROVE OneByOne'
    <2>1. ~crossed /\ (OwnMessage \/ view.error # "load")
      BY <1>13 DEF Change, Hides
    <2>2. e # "load" => view.error # "load"  BY <1>8, <2>1
    <2>3. OneByOne  BY <2>1 DEF ShownInv, AsAsked
    <2> QED  BY <1>7, <1>11, <2>2, <2>3 DEF OneByOne, On
  <1> QED  BY <1>12, <1>13 DEF ShownInv, AsAsked

\* The server reads for a load: what it reads has all the changes told of.
LEMMA ReadShows ==
  ASSUME PagesInv, ShownInv, NEW i \in DOMAIN loads, ServerReads(i)
  PROVE  AsAsked'
  <1>0. PagesTypeOK /\ AnswersFit  BY DEF PagesInv, ShownInv, AsAsked
  <1>1. loads \in Seq(LoadRow) /\ Len(loads) \in Nat /\ DOMAIN loads = 1 .. Len(loads)
        /\ data \in 1 .. MaxData /\ saved \in 0 .. MaxData
    BY <1>0, PagesTypes
  <1>2. loads[i] \in LoadRow  BY <1>1
  <1>3. PICK r : r = [loads[i] EXCEPT !.revision = data]  OBVIOUS
  <1>m. data \in 0 .. MaxData  BY <1>1, PagesAssumption
  <1>4. r \in LoadRow /\ r.active = loads[i].active /\ r.key = loads[i].key /\ r.revision = data
    BY <1>2, <1>3, <1>m DEF LoadRow
  <1>5. loads' = [loads EXCEPT ![i] = r] /\ UNCHANGED <<view, changes, data, liked, saved, crossed>>
    BY <1>3 DEF ServerReads
  <1>6. /\ Len(loads') = Len(loads) /\ DOMAIN loads' = DOMAIN loads
        /\ \A j \in DOMAIN loads :
             /\ loads'[j].active = loads[j].active /\ loads'[j].key = loads[j].key
             /\ loads'[j].revision = loads[j].revision \/ loads'[j].revision = data
    BY <1>1, <1>4, <1>5
  <1>7. AnswersFit'  BY <1>0, <1>5, <1>6 DEF AnswersFit, On
  <1>8. data >= saved  BY <1>0, <1>1 DEF AnswersFit
  <1>9. ASSUME OneByOne PROVE OneByOne'
    <2>1. loads # <<>>  OBVIOUS
    <2> QED  BY <1>5, <1>6, <1>8, <1>9, <2>1 DEF OneByOne, On
  <1> QED  BY <1>5, <1>7, <1>9 DEF ShownInv, AsAsked

\* Nothing of what is shown changes when the preference is read for a load, and an error
\* when the names of the readers do not come.
LEMMA AsideShows ==
  ASSUME PagesInv, ShownInv,
         \/ \E i \in DOMAIN loads : ServerReadsPreference(i)
         \/ \E failed \in BOOLEAN : ReadersNamed(failed)
  PROVE  AsAsked'
  <1>0. PagesTypeOK /\ AnswersFit  BY DEF PagesInv, ShownInv, AsAsked
  <1>1. view \in ViewRow /\ loads \in Seq(LoadRow) /\ DOMAIN loads = 1 .. Len(loads)
    BY <1>0, PagesTypes
  <1>2. UNCHANGED <<changes, data, saved, crossed>>
    BY DEF ServerReadsPreference, ReadersNamed
  <1>3. CASE \E i \in DOMAIN loads : ServerReadsPreference(i)
    <2>1. PICK i \in DOMAIN loads : ServerReadsPreference(i)  BY <1>3
    <2>2. loads[i] \in LoadRow  BY <1>1
    <2>3. PICK r : r = [loads[i] EXCEPT !.preference = data]  OBVIOUS
    <2>4. r.active = loads[i].active /\ r.key = loads[i].key /\ r.revision = loads[i].revision
      BY <2>2, <2>3 DEF LoadRow
    <2>5. loads' = [loads EXCEPT ![i] = r] /\ UNCHANGED view
      BY <2>1, <2>3 DEF ServerReadsPreference
    <2>6. /\ Len(loads') = Len(loads) /\ DOMAIN loads' = DOMAIN loads
          /\ \A j \in DOMAIN loads :
               /\ loads'[j].active = loads[j].active /\ loads'[j].key = loads[j].key
               /\ loads'[j].revision = loads[j].revision
      BY <1>1, <2>4, <2>5
    <2>7. loads # <<>>  BY <2>1
    <2>8. AnswersFit'  BY <1>0, <1>2, <2>5, <2>6 DEF AnswersFit, On
    <2>9. OneByOne => OneByOne'  BY <1>2, <2>5, <2>6, <2>7 DEF OneByOne, On
    <2> QED  BY <1>2, <2>8, <2>9 DEF ShownInv, AsAsked
  <1>4. CASE \E failed \in BOOLEAN : ReadersNamed(failed)
    <2>1. PICK failed \in BOOLEAN : ReadersNamed(failed)  BY <1>4
    <2>2. PICK e : e = IF failed THEN "load" ELSE view.error  OBVIOUS
    <2>3. view' = [view EXCEPT !.naming = FALSE, !.error = e] /\ UNCHANGED loads
      BY <2>1, <2>2 DEF ReadersNamed
    <2>4. /\ view'.page = view.page /\ view'.loading = view.loading
          /\ view'.key = view.key /\ view'.shown = view.shown
          /\ view'.revision = view.revision /\ view'.error = e
      BY <1>1, <2>3 DEF ViewRow
    <2>5. AnswersFit'  BY <1>0, <1>2, <2>3, <2>4 DEF AnswersFit, On
    <2>6. OneByOne => OneByOne'  BY <1>2, <2>2, <2>3, <2>4 DEF OneByOne, On
    <2> QED  BY <1>2, <2>5, <2>6 DEF ShownInv, AsAsked
  <1> QED  BY <1>3, <1>4

\* A load ends: it is the only one, of the page's own key, or an image's active one.
LEMMA EndShows ==
  ASSUME PagesInv, ShownInv, NEW i \in DOMAIN loads,
         LoadSucceeds(i) \/ LoadFails(i) \/ LateImage(i)
  PROVE  AsAsked'
  <1>0. PagesTypeOK /\ AnswersFit  BY DEF PagesInv, ShownInv, AsAsked
  <1>1. view \in ViewRow /\ loads \in Seq(LoadRow) /\ Len(loads) \in Nat
        /\ DOMAIN loads = 1 .. Len(loads) /\ saved \in 0 .. MaxData
    BY <1>0, PagesTypes
  <1>2. loads[i] \in LoadRow  BY <1>1
  <1>3. loads' = RemoveAt(loads, i) /\ UNCHANGED <<changes, data, saved, crossed>>
    BY DEF LoadSucceeds, LoadFails, LateImage
  <1>4. loads' \in Seq(LoadRow) /\ Without(loads', loads, i)
    BY <1>0, <1>3, LoadsFewer
  <1>5. /\ Len(loads') = Len(loads) - 1
        /\ \A j \in DOMAIN loads' : \E k \in DOMAIN loads : loads'[j] = loads[k]
    BY <1>4 DEF Without
  <1>6. PICK v : v = LoadEnds(view, i)  OBVIOUS
  <1>7. /\ v \in ViewRow /\ v.page = view.page /\ v.key = view.key /\ v.shown = view.shown
        /\ v.revision = view.revision /\ ~v.loading /\ v.error = view.error
    <2>1. PICK b : b = view.busy \ loads[i].ends  OBVIOUS
    <2>2. v = [view EXCEPT !.loading = FALSE, !.busy = b]  BY <1>6, <2>1 DEF LoadEnds
    <2>3. b \in SUBSET Control  BY <1>1, <2>1 DEF ViewRow
    <2> QED  BY <1>1, <2>2, <2>3 DEF ViewRow
  <1>8. ASSUME OneByOne PROVE Len(loads') = 0 /\ loads' = <<>> /\ DOMAIN loads' = {}
    <2>1. Len(loads') = 0  BY <1>1, <1>5, <1>8 DEF OneByOne
    <2> QED  BY <1>4, <2>1
  <1>9. CASE LoadSucceeds(i)
    <2>1. view' = [v EXCEPT !.shown = loads[i].key, !.revision = loads[i].revision]
          /\ loads[i].active /\ loads[i].revision # 0
      BY <1>6, <1>9 DEF LoadSucceeds
    <2>2. /\ view'.page = view.page /\ view'.key = view.key /\ view'.shown = loads[i].key
          /\ view'.revision = loads[i].revision /\ ~view'.loading /\ view'.error = view.error
      BY <1>7, <2>1 DEF ViewRow
    <2>3. AnswersFit'
      <3>1. On("image") => loads[i].key = view.key  BY <1>0, <2>1 DEF AnswersFit
      <3>2. On("image") => \A j \in DOMAIN loads' :
               loads'[j].active => loads'[j].key = view.key
        BY <1>0, <1>5 DEF AnswersFit
      <3> QED  BY <1>0, <1>3, <2>1, <2>2, <3>1, <3>2 DEF AnswersFit, On
    <2>4. ASSUME OneByOne PROVE OneByOne'
      <3>1. loads[i].key = view.key /\ loads[i].revision >= saved
        BY <2>1, <2>4 DEF OneByOne
      <3> QED  BY <1>3, <1>8, <2>2, <2>4, <3>1 DEF OneByOne, On
    <2> QED  BY <1>3, <2>3, <2>4 DEF ShownInv, AsAsked
  <1>10. CASE LoadFails(i)
    <2>1. view' = [v EXCEPT !.error = "load"]
      BY <1>6, <1>10 DEF LoadFails
    <2>2. /\ view'.page = view.page /\ view'.key = view.key /\ view'.shown = view.shown
          /\ view'.revision = view.revision /\ view'.error = "load"
      BY <1>7, <2>1 DEF ViewRow
    <2>3. AnswersFit'
      <3>2. On("image") => \A j \in DOMAIN loads' :
               loads'[j].active => loads'[j].key = view.key
        BY <1>0, <1>5 DEF AnswersFit
      <3> QED  BY <1>0, <1>3, <2>2, <3>2 DEF AnswersFit, On
    <2>4. ASSUME OneByOne PROVE OneByOne'
      BY <1>3, <1>8, <2>2, <2>4 DEF OneByOne, On
    <2> QED  BY <1>3, <2>3, <2>4 DEF ShownInv, AsAsked
  <1>11. CASE LateImage(i)
    <2>1. UNCHANGED view  BY <1>11 DEF LateImage
    <2>3. AnswersFit'
      <3>2. On("image") => \A j \in DOMAIN loads' :
               loads'[j].active => loads'[j].key = view.key
        BY <1>0, <1>5 DEF AnswersFit
      <3> QED  BY <1>0, <1>3, <2>1, <3>2 DEF AnswersFit, On
    <2>4. ASSUME OneByOne PROVE OneByOne'
      BY <1>3, <1>8, <2>1, <2>4 DEF OneByOne, On
    <2> QED  BY <1>3, <2>3, <2>4 DEF ShownInv, AsAsked
  <1> QED  BY <1>9, <1>10, <1>11

\* A change of the server is newer than everything read and told of.
LEMMA ServerChangesShows ==
  ASSUME PagesInv, ShownInv, NEW i \in DOMAIN changes, ServerChanges(i)
  PROVE  AsAsked'
  <1>0. PagesTypeOK /\ PageRules /\ AnswersFit  BY DEF PagesInv, ShownInv, AsAsked
  <1>1. changes \in Seq(ChangeRow) /\ DOMAIN changes = 1 .. Len(changes)
        /\ data \in 1 .. MaxData /\ MaxData \in Nat /\ saved \in 0 .. MaxData
    BY <1>0, PagesTypes, PagesAssumption
  <1>2. \A j \in DOMAIN changes : changes[j] \in ChangeRow /\ changes[j].revision \in Nat
    <2> TAKE j \in DOMAIN changes
    <2>1. changes[j] \in ChangeRow  BY <1>1
    <2>2. changes[j].revision \in 0 .. MaxData  BY <2>1 DEF ChangeRow
    <2> QED  BY <1>1, <2>1, <2>2
  <1>3. UNCHANGED <<view, loads, liked, saved, crossed>>  BY DEF ServerChanges
  <1>4. data' \in 1 .. MaxData /\ data <= data'  BY <1>1 DEF ServerChanges
  <1>5. ~On("image") /\ (On("site") => view.revision # 0)
    BY <1>0, <1>1 DEF PageRules, AnswersFit
  <1>6. PICK r : /\ changes' = [changes EXCEPT ![i] = r]
                 /\ r.revision <= data' /\ (r.step = "done" => r.revision # 0)
    <2>1. CASE changes' = [changes EXCEPT ![i].step = "done", ![i].revision = data']
      <3>1. PICK r : r = [changes[i] EXCEPT !.step = "done", !.revision = data']  OBVIOUS
      <3>2. r.revision = data'  BY <1>2, <3>1 DEF ChangeRow
      <3>3. changes' = [changes EXCEPT ![i] = r]  BY <2>1, <3>1
      <3>4. r.revision # 0 /\ r.revision <= data'  BY <1>4, <3>2
      <3> QED  BY <3>3, <3>4
    <2>2. CASE changes' = [changes EXCEPT ![i].step = "refused"]
      <3>1. PICK r : r = [changes[i] EXCEPT !.step = "refused"]  OBVIOUS
      <3>2. r.revision = changes[i].revision /\ r.step = "refused"
        BY <1>2, <3>1 DEF ChangeRow
      <3>3. changes' = [changes EXCEPT ![i] = r]  BY <2>2, <3>1
      <3>4. changes[i].revision <= data  BY <1>0 DEF AnswersFit
      <3>5. changes[i].revision \in Nat /\ data \in Nat /\ data' \in Nat  BY <1>1, <1>2, <1>4
      <3>6. r.revision <= data'  BY <1>4, <3>2, <3>4, <3>5
      <3> QED  BY <3>2, <3>3, <3>6
    <2> QED  BY <2>1, <2>2 DEF ServerChanges
  <1>7. DOMAIN changes' = DOMAIN changes  BY <1>6
  <1>8. ASSUME NEW j \in DOMAIN changes'
        PROVE  /\ changes'[j].revision <= data'
               /\ changes'[j].step = "done" => changes'[j].revision # 0
    <2>1. CASE j = i  BY <1>6, <1>7, <2>1
    <2>2. CASE j # i
      <3>1. changes'[j] = changes[j] /\ j \in DOMAIN changes  BY <1>6, <1>7, <2>2
      <3>2. changes[j].revision <= data /\ (changes[j].step = "done" => changes[j].revision # 0)
        BY <1>0, <3>1 DEF AnswersFit
      <3>3. changes[j].revision \in Nat /\ data \in Nat /\ data' \in Nat
        BY <1>1, <1>2, <1>4, <3>1
      <3>4. changes[j].revision <= data'  BY <1>4, <3>2, <3>3
      <3> QED  BY <3>1, <3>2, <3>4
    <2> QED  BY <2>1, <2>2
  <1>9. saved <= data'
    <2>1. saved <= data  BY <1>0 DEF AnswersFit
    <2> QED  BY <1>1, <1>4, <2>1
  <1>10. AnswersFit'  BY <1>3, <1>5, <1>8, <1>9 DEF AnswersFit, On
  <1>11. OneByOne => OneByOne'  BY <1>3 DEF OneByOne, On
  <1> QED  BY <1>3, <1>10, <1>11 DEF ShownInv, AsAsked

\* Another path: the loads before are given up, and the image is taken away.
LEMMA PathShows ==
  ASSUME PagesInv, ShownInv, NEW path \in Key, PathChanges(path)
  PROVE  AsAsked'
  <1>0. PagesTypeOK /\ AnswersFit  BY DEF PagesInv, ShownInv, AsAsked
  <1>1. view \in ViewRow /\ loads \in Seq(LoadRow) /\ Len(loads) \in Nat
        /\ DOMAIN loads = 1 .. Len(loads) /\ crossed \in BOOLEAN
    BY <1>0, PagesTypes
  <1>2. PICK old : old = [i \in DOMAIN loads |-> [loads[i] EXCEPT !.active = FALSE]]
    OBVIOUS
  <1>3. /\ old \in Seq(LoadRow) /\ Len(old) = Len(loads)
        /\ \A j \in 1 .. Len(old) : ~old[j].active
    <2>1. ASSUME NEW j \in 1 .. Len(loads) PROVE old[j] \in LoadRow /\ ~old[j].active
      <3>1. loads[j] \in LoadRow /\ old[j] = [loads[j] EXCEPT !.active = FALSE]
        BY <1>1, <1>2
      <3> QED  BY <3>1 DEF LoadRow
    <2>3. old \in Seq(LoadRow) /\ Len(old) = Len(loads)  BY <1>1, <1>2, <2>1
    <2> QED  BY <2>1, <2>3
  <1>4. PICK r : r = NewLoad(path, {})  OBVIOUS
  <1>5. r \in LoadRow /\ r.key = path /\ r.revision = 0
    BY <1>4, PagesAssumption DEF LoadRow, NewLoad
  <1>6. loads' = Append(old, r) /\ On("image")
    BY <1>2, <1>4 DEF PathChanges
  <1>7. /\ loads' \in Seq(LoadRow) /\ Len(loads') = Len(loads) + 1
        /\ loads'[Len(loads')] = r
        /\ \A j \in 1 .. Len(loads') : j \in 1 .. Len(old) \/ j = Len(loads')
        /\ \A j \in 1 .. Len(old) : loads'[j] = old[j]
    BY <1>3, <1>5, <1>6, RowAppended
  <1>8. DOMAIN loads' = 1 .. Len(loads')  BY <1>7
  <1>9. UNCHANGED <<changes, data, liked, saved>> /\ crossed' = (crossed \/ loads # <<>>)
    BY DEF PathChanges
  <1>10. view'.page = view.page /\ view'.key = path /\ view'.revision = 0 /\ view'.loading
    <2>1. PICK v : v = [view EXCEPT !.key = path, !.revision = 0]  OBVIOUS
    <2>2. v.page = view.page /\ v.page = "image" /\ v.key = path /\ v.revision = 0
          /\ v = [v EXCEPT !.busy = v.busy]
      BY <1>1, <1>6, <2>1 DEF ViewRow, On
    <2>3. view' = Loading(v)  BY <2>1 DEF PathChanges
    <2>4. view' = [v EXCEPT !.loading = TRUE, !.error = "no", !.busy = v.busy]
      BY <2>2, <2>3 DEF Loading
    <2>5. v \in [page : {"image"}, key : {path}, shown : Key, revision : {0},
                 loading : BOOLEAN, error : {"no", "load", "change"},
                 recovery : BOOLEAN, naming : BOOLEAN, busy : SUBSET Control]
      BY <1>1, <1>6, <2>1 DEF ViewRow, On
    <2> QED  BY <2>2, <2>4, <2>5
  <1>11. AnswersFit'
    <2>1. \A j \in DOMAIN loads' : loads'[j].active => loads'[j].key = path
      BY <1>3, <1>5, <1>7, <1>8
    <2>2. ~On("site")'  BY <1>6, <1>10 DEF On
    <2> QED  BY <1>0, <1>6, <1>9, <1>10, <2>1, <2>2 DEF AnswersFit
  <1>12. ASSUME ~crossed' PROVE OneByOne'
    <2>1. loads = <<>>  BY <1>9, <1>12
    <2>2. Len(loads) = 0  BY <2>1
    <2>3. Len(loads') = 1 /\ loads'[1] = r  BY <1>7, <2>2
    <2>4. ~On("site")'  BY <1>6, <1>10 DEF On
    <2> QED  BY <1>5, <1>8, <1>10, <2>3, <2>4 DEF OneByOne
  <1> QED  BY <1>11, <1>12 DEF ShownInv, AsAsked

\* A load that a control or the URL has started.
LEMMA LoadedShows ==
  ASSUME PagesInv, ShownInv, NEW key \in Key, ~On("image"),
         On("site") => view.revision = 0, Load([view EXCEPT !.key = key], key)
  PROVE  AsAsked'
  <1>0. PagesTypeOK /\ AnswersFit /\ view \in ViewRow
    BY PagesTypes DEF PagesInv, ShownInv, AsAsked
  <1>1. PICK v : v = [view EXCEPT !.key = key]  OBVIOUS
  <1>2. v \in ViewRow /\ v.page = view.page /\ v.revision = view.revision
    BY <1>0, <1>1 DEF ViewRow
  <1>3. Start(v, key, {}) /\ UNCHANGED <<changes, data, liked, saved>> /\ {} \in SUBSET Control
    BY <1>1 DEF Load
  <1>4. view'.page = view.page /\ view'.revision = view.revision
    BY <1>0, <1>2, <1>3, LoadStarted
  <1>5. ~crossed' => OneByOne'  BY <1>2, <1>3, LoadShows
  <1>6. AnswersFit'
    BY <1>0, <1>3, <1>4 DEF AnswersFit, On
  <1> QED  BY <1>5, <1>6 DEF ShownInv, AsAsked

\* AnswersFit after a change has been taken away.
LEMMA ChangesLeft ==
  ASSUME PagesInv, ShownInv, NEW i \in DOMAIN changes, changes' = RemoveAt(changes, i),
         view'.page = view.page, UNCHANGED data, saved' <= data,
         On("site") => view'.revision # 0
  PROVE  AnswersFit'
  <1>0. PagesTypeOK /\ PageRules /\ AnswersFit  BY DEF PagesInv, ShownInv, AsAsked
  <1>1. Without(changes', changes, i)  BY <1>0, ChangesFewer
  <1>2. \A j \in DOMAIN changes' : \E k \in DOMAIN changes : changes'[j] = changes[k]
    BY <1>1 DEF Without
  <1>3. changes # <<>>  OBVIOUS
  <1>4. ~On("image")  BY <1>0, <1>3 DEF PageRules
  <1> QED  BY <1>0, <1>2, <1>4 DEF AnswersFit, On

\* The end of a change: what it confirms is older than a load started for it.
LEMMA ChangeEndsShows ==
  ASSUME PagesInv, ShownInv, NEW i \in DOMAIN changes, ChangeSucceeds(i) \/ ChangeFails(i)
  PROVE  AsAsked'
  <1>0. PagesTypeOK /\ PageRules /\ AnswersFit  BY DEF PagesInv, ShownInv, AsAsked
  <1>1. view \in ViewRow /\ changes \in Seq(ChangeRow) /\ saved \in 0 .. MaxData
        /\ crossed \in BOOLEAN /\ DOMAIN changes = 1 .. Len(changes) /\ data \in 1 .. MaxData
    BY <1>0, PagesTypes
  <1>2. changes[i] \in ChangeRow  BY <1>1
  <1>3. /\ changes[i].control \in Control /\ changes[i].key \in Key
        /\ changes[i].revision \in 0 .. MaxData /\ changes[i].revision <= data
        /\ changes[i].step = "done" => changes[i].revision # 0
    BY <1>0, <1>2 DEF ChangeRow, AnswersFit
  <1>4. PICK c : c = changes[i].control  OBVIOUS
  <1>5. Marks(c) \in SUBSET Control
    <2>1. On("devices") => c.item # NoItem  BY <1>0, <1>4 DEF PageRules
    <2> QED  BY <1>0, <1>3, <1>4, <2>1, OwnMark
  <1>6. PICK u : u = Unmarked(view, c)  OBVIOUS
  <1>7. /\ u \in ViewRow /\ u.page = view.page /\ u.loading = view.loading
        /\ u.key = view.key /\ u.shown = view.shown /\ u.revision = view.revision
        /\ u.error = view.error
    <2>1. PICK b : b = view.busy \ Marks(c)  OBVIOUS
    <2>2. u = [view EXCEPT !.busy = b]  BY <1>6, <2>1 DEF Unmarked
    <2> QED  BY <1>1, <2>1, <2>2 DEF ViewRow
  <1>8. ~On("image") /\ (On("site") => view.revision # 0)
    BY <1>0, <1>1 DEF PageRules, AnswersFit
  <1>s. saved <= data  BY <1>0 DEF AnswersFit
  <1>9. CASE ChangeFails(i)
    <2>1. PICK e : e = IF OwnMessage THEN u.error ELSE "change"  OBVIOUS
    <2>2. view' = [u EXCEPT !.error = e]
      BY <1>4, <1>6, <1>9, <2>1 DEF ChangeFails
    <2>3. /\ view'.page = view.page /\ view'.loading = view.loading /\ view'.key = view.key
          /\ view'.shown = view.shown /\ view'.revision = view.revision /\ view'.error = e
      BY <1>7, <2>2 DEF ViewRow
    <2>4. changes' = RemoveAt(changes, i) /\ UNCHANGED <<loads, data, liked, saved>>
          /\ (~crossed' => ~crossed /\ (OwnMessage \/ view.error # "load"))
      BY <1>1, <1>9 DEF ChangeFails, Hides
    <2>5. AnswersFit'  BY <1>8, <1>s, <2>3, <2>4, ChangesLeft
    <2>6. ASSUME ~crossed' PROVE OneByOne'
      <3>1. OneByOne  BY <2>4, <2>6 DEF ShownInv, AsAsked
      <3>2. e # "load" => view.error # "load"  BY <1>7, <2>1, <2>4, <2>6
      <3> QED  BY <2>3, <2>4, <3>1, <3>2 DEF OneByOne, On
    <2> QED  BY <2>5, <2>6 DEF ShownInv, AsAsked
  <1>10. CASE ChangeSucceeds(i)
    <2>0. changes[i].step = "done"  BY <1>10 DEF ChangeSucceeds
    <2>1. CASE Away
      <3>1. view' = [view EXCEPT !.page = "away", !.busy = {}, !.loading = FALSE]
            /\ loads' = <<>> /\ changes' = <<>> /\ UNCHANGED <<data, liked, saved, crossed>>
        BY <2>1 DEF Away
      <3>2. view'.page = "away"  BY <1>1, <3>1 DEF ViewRow
      <3>3. AnswersFit'  BY <1>s, <3>1, <3>2 DEF AnswersFit, On
      <3>4. OneByOne'  BY <3>1, <3>2 DEF OneByOne, On
      <3> QED  BY <3>3, <3>4 DEF ShownInv, AsAsked
    <2>2. CASE /\ view' = u /\ UNCHANGED <<loads, saved, crossed, data>>
               /\ changes' = RemoveAt(changes, i)
      <3>1. AnswersFit'  BY <1>7, <1>8, <1>s, <2>2, ChangesLeft
      <3>2. OneByOne => OneByOne'  BY <1>7, <2>2 DEF OneByOne, On
      <3> QED  BY <2>2, <3>1, <3>2 DEF ShownInv, AsAsked
    <2>3. CASE /\ On("site") /\ view' = [u EXCEPT !.revision = changes[i].revision]
               /\ saved' = changes[i].revision /\ UNCHANGED <<loads, crossed, data>>
               /\ changes' = RemoveAt(changes, i)
      <3>1. /\ view'.page = view.page /\ view'.loading = view.loading /\ view'.key = view.key
            /\ view'.shown = view.shown /\ view'.error = view.error
            /\ view'.revision = changes[i].revision
        BY <1>7, <2>3 DEF ViewRow
      <3>2. AnswersFit'  BY <1>3, <2>0, <2>3, <3>1, ChangesLeft
      <3>3. ASSUME OneByOne PROVE OneByOne'
        <4>1. loads = <<>>  BY <1>8, <2>3, <3>3 DEF OneByOne
        <4>2. Len(loads') <= 1 /\ DOMAIN loads' = {}  BY <2>3, <4>1
        <4>3. view'.revision >= saved'  BY <1>3, <2>3, <3>1
        <4> QED  BY <1>8, <2>3, <3>1, <3>3, <4>1, <4>2, <4>3 DEF OneByOne, On
      <3> QED  BY <2>3, <3>2, <3>3 DEF ShownInv, AsAsked
    <2>4. CASE /\ ~On("site") /\ Start(view, changes[i].key, Marks(c))
               /\ saved' = Later(changes[i].revision, saved)
               /\ changes' = RemoveAt(changes, i) /\ UNCHANGED <<data, liked>>
      <3>1. PICK v \in ViewRow : v = view  BY <1>1
      <3>2. Start(v, changes[i].key, Marks(c)) /\ v.page = view.page /\ v.revision = view.revision
        BY <2>4, <3>1
      <3>3. view'.page = view.page  BY <1>0, <1>3, <1>5, <3>2, LoadStarted
      <3>4. saved' <= data  BY <1>3, <1>s, <2>4 DEF Later
      <3>5. AnswersFit'  BY <2>4, <3>3, <3>4, ChangesLeft
      <3>6. ~crossed' => OneByOne'  BY <1>3, <1>5, <1>8, <2>4, <3>2, LoadShows
      <3> QED  BY <3>5, <3>6 DEF ShownInv, AsAsked
    <2>5. CASE /\ view.recovery /\ Start([u EXCEPT !.recovery = FALSE], view.key, {})
               /\ saved' = changes[i].revision
               /\ changes' = RemoveAt(changes, i) /\ UNCHANGED data
      <3>1. PICK v : v = [u EXCEPT !.recovery = FALSE]  OBVIOUS
      <3>2. v \in ViewRow /\ v.page = view.page /\ v.revision = view.revision
        BY <1>7, <3>1 DEF ViewRow
      <3>4. PICK k \in Key : k = view.key  BY <1>1 DEF ViewRow
      <3>5. {} \in SUBSET Control /\ Start(v, k, {})  BY <2>5, <3>1, <3>4
      <3>6. view'.page = view.page /\ view'.revision = v.revision
        BY <1>0, <3>2, <3>5, LoadStarted
      <3>7. AnswersFit'  BY <1>3, <1>8, <2>5, <3>2, <3>6, ChangesLeft
      <3>8. ~crossed' => OneByOne'
        BY <1>8, <2>5, <3>2, <3>5, LoadShows DEF ShownInv
      <3> QED  BY <3>7, <3>8 DEF ShownInv, AsAsked
    <2> QED
      BY <1>4, <1>6, <1>10, <2>1, <2>2, <2>3, <2>4, <2>5 DEF ChangeSucceeds
  <1> QED  BY <1>9, <1>10

\* The page stays the same or is left, and a session is not made a recovery session.
LEMMA PageStays ==
  ASSUME PagesTypeOK, PagesNext
  PROVE  view'.page \in {view.page, "away"} /\ (view'.recovery => view.recovery)
  <1>0. view \in ViewRow  BY PagesTypes
  <1>a. ASSUME NEW v \in ViewRow, NEW key, NEW ends, Start(v, key, ends), v.page = view.page,
               v.recovery => view.recovery
        PROVE  view'.page = view.page /\ (view'.recovery => view.recovery)
    <2>1. view' = Loading(v)  BY <1>a DEF Start
    <2> QED  BY <1>a, <2>1 DEF Loading, ViewRow
  <1>b. ASSUME NEW key \in Key, Load([view EXCEPT !.key = key], key)
        PROVE  view'.page = view.page /\ (view'.recovery => view.recovery)
    <2>1. PICK v : v = [view EXCEPT !.key = key]  OBVIOUS
    <2>2. v \in ViewRow /\ v.page = view.page /\ v.recovery = view.recovery
      BY <1>0, <2>1 DEF ViewRow
    <2> QED  BY <1>a, <1>b, <2>1, <2>2 DEF Load
  <1>c. ASSUME NEW c, NEW marked, Change(c, marked)
        PROVE  view'.page = view.page /\ (view'.recovery => view.recovery)
    <2>1. PICK e : e = IF OwnMessage THEN view.error ELSE "no"  OBVIOUS
    <2>2. PICK b : b = IF marked THEN (view.busy \ Marks(c)) \cup {c} ELSE view.busy  OBVIOUS
    <2>3. view' = [view EXCEPT !.error = e, !.busy = b]  BY <1>c, <2>1, <2>2 DEF Change
    <2> QED  BY <1>0, <2>3 DEF ViewRow
  <1>1. CASE PagesUse
    BY <1>1, <1>b, <1>c, UseLoadsOrChanges
  <1>2. ASSUME NEW key \in Key, GoToAnother(key)
        PROVE  view'.page = view.page /\ (view'.recovery => view.recovery)
    BY <1>2, <1>b DEF GoToAnother
  <1>3. ASSUME NEW path \in Key, PathChanges(path)
        PROVE  view'.page = view.page /\ (view'.recovery => view.recovery)
    <2>1. PICK v : v = [view EXCEPT !.key = path, !.revision = 0]  OBVIOUS
    <2>2. v.page = view.page /\ v.recovery = view.recovery /\ v.page # "book"
      BY <1>0, <1>3, <2>1 DEF ViewRow, PathChanges, On
    <2>3. view' = [v EXCEPT !.loading = TRUE, !.error = "no", !.busy = v.busy]
      BY <1>3, <2>1, <2>2 DEF Loading, PathChanges
    <2>4. DOMAIN v = DOMAIN view  BY <2>1
    <2>5. view'.page = v.page /\ view'.recovery = v.recovery
      BY <1>0, <2>3, <2>4 DEF ViewRow
    <2> QED  BY <2>2, <2>5
  <1>4. ASSUME NEW i \in DOMAIN loads,
               \/ ServerReads(i) \/ ServerReadsPreference(i)
               \/ LoadSucceeds(i) \/ LoadFails(i) \/ LateImage(i)
        PROVE  view'.page = view.page /\ (view'.recovery => view.recovery)
    <2>1. PICK v : v = LoadEnds(view, i)  OBVIOUS
    <2>2. PICK b : b = view.busy \ loads[i].ends  OBVIOUS
    <2>3. v = [view EXCEPT !.loading = FALSE, !.busy = b]  BY <2>1, <2>2 DEF LoadEnds
    <2>4. \/ view' = view
          \/ view' = [v EXCEPT !.shown = loads[i].key, !.revision = loads[i].revision]
          \/ view' = [v EXCEPT !.error = "load"]
      BY <1>4, <2>1 DEF ServerReads, ServerReadsPreference, LoadSucceeds, LoadFails, LateImage
    <2> QED  BY <1>0, <2>3, <2>4 DEF ViewRow
  <1>5. ASSUME NEW i \in DOMAIN changes,
               ServerChanges(i) \/ ChangeSucceeds(i) \/ ChangeFails(i)
        PROVE  view'.page \in {view.page, "away"} /\ (view'.recovery => view.recovery)
    <2>1. PICK u : u = Unmarked(view, changes[i].control)  OBVIOUS
    <2>2. PICK b : b = view.busy \ Marks(changes[i].control)  OBVIOUS
    <2>3. u = [view EXCEPT !.busy = b] /\ b \in SUBSET Control
      BY <1>0, <2>1, <2>2 DEF Unmarked, ViewRow
    <2>4. u \in ViewRow /\ u.page = view.page /\ u.recovery = view.recovery
      BY <1>0, <2>3 DEF ViewRow
    <2>5. CASE ServerChanges(i)  BY <2>5 DEF ServerChanges
    <2>6. CASE ChangeFails(i)
      <3>1. PICK e : e = IF OwnMessage THEN u.error ELSE "change"  OBVIOUS
      <3>2. view' = [u EXCEPT !.error = e]  BY <2>1, <2>6, <3>1 DEF ChangeFails
      <3> QED  BY <2>4, <3>2 DEF ViewRow
    <2>7. CASE Away
      BY <1>0, <2>7 DEF Away, ViewRow
    <2>8. CASE view' = u  BY <2>4, <2>8
    <2>9. CASE view' = [u EXCEPT !.revision = changes[i].revision]
      BY <2>4, <2>9 DEF ViewRow
    <2>10. CASE \E ends : Start(view, changes[i].key, ends)
      <3>1. PICK v \in ViewRow : v = view  BY <1>0
      <3> QED  BY <1>a, <2>10, <3>1
    <2>11. CASE Start([u EXCEPT !.recovery = FALSE], view.key, {})
      <3>1. PICK v : v = [u EXCEPT !.recovery = FALSE]  OBVIOUS
      <3>2. v \in ViewRow /\ v.page = view.page /\ ~v.recovery  BY <2>4, <3>1 DEF ViewRow
      <3> QED  BY <1>a, <2>11, <3>1, <3>2
    <2>12. CASE ChangeSucceeds(i)
      BY <2>1, <2>7, <2>8, <2>9, <2>10, <2>11, <2>12 DEF ChangeSucceeds
    <2> QED  BY <1>5, <2>5, <2>6, <2>12
  <1>6. CASE OthersChange  BY <1>6 DEF OthersChange
  <1>7. ASSUME NEW failed \in BOOLEAN, ReadersNamed(failed)
        PROVE  view'.page = view.page /\ (view'.recovery => view.recovery)
    <2>1. PICK e : e = IF failed THEN "load" ELSE view.error  OBVIOUS
    <2>2. view' = [view EXCEPT !.naming = FALSE, !.error = e]
      BY <1>7, <2>1 DEF ReadersNamed
    <2> QED  BY <1>0, <2>2 DEF ViewRow
  <1> QED
    BY <1>1, <1>2, <1>3, <1>4, <1>5, <1>6, <1>7 DEF PagesNext

\* Every step of the pages keeps ShownInv, on top of PagesInv.
LEMMA ShownStep ==
  ASSUME PagesInv, ShownInv, [PagesNext]_pagesVars
  PROVE  ShownInv'
  <1>0. PagesTypeOK  BY DEF PagesInv
  <1>1. ASSUME PagesUse PROVE AsAsked'
    BY <1>0, <1>1, UseLoadsOrChanges, LoadedShows, ChangeShows
  <1>2. ASSUME NEW key \in Key, GoToAnother(key) PROVE AsAsked'
    BY <1>2, LoadedShows DEF GoToAnother, On
  <1>3. ASSUME NEW key \in Key, PathChanges(key) PROVE AsAsked'
    BY <1>3, PathShows
  <1>4. ASSUME NEW i \in DOMAIN loads,
               \/ ServerReads(i) \/ ServerReadsPreference(i)
               \/ LoadSucceeds(i) \/ LoadFails(i) \/ LateImage(i)
        PROVE  AsAsked'
    BY <1>4, ReadShows, AsideShows, EndShows
  <1>5. ASSUME NEW i \in DOMAIN changes,
               ServerChanges(i) \/ ChangeSucceeds(i) \/ ChangeFails(i)
        PROVE  AsAsked'
    BY <1>5, ServerChangesShows, ChangeEndsShows
  <1>6. ASSUME OthersChange PROVE AsAsked'
    <2>1. data' = data + 1 /\ UNCHANGED <<view, loads, changes, liked, saved, crossed>>
      BY <1>6 DEF OthersChange
    <2>2. data \in Nat /\ saved \in Nat /\ changes \in Seq(ChangeRow)
          /\ DOMAIN changes = 1 .. Len(changes)
      BY <1>0, PagesTypes, PagesAssumption
    <2>3. ASSUME NEW j \in DOMAIN changes PROVE changes[j].revision <= data'
      <3>1. changes[j] \in ChangeRow  BY <2>2
      <3>2. changes[j].revision \in Nat /\ changes[j].revision <= data
        BY <3>1, PagesAssumption DEF ChangeRow, ShownInv, AsAsked, AnswersFit
      <3> QED  BY <2>1, <2>2, <3>2
    <2>4. saved' <= data'
      BY <2>1, <2>2 DEF ShownInv, AsAsked, AnswersFit
    <2> QED
      BY <2>1, <2>3, <2>4 DEF ShownInv, AsAsked, AnswersFit, OneByOne, On
  <1>7. ASSUME NEW failed \in BOOLEAN, ReadersNamed(failed) PROVE AsAsked'
    BY <1>7, AsideShows
  <1>8. ASSUME PagesNext PROVE ShownInv'
    <2>1. AsAsked'  BY <1>1, <1>2, <1>3, <1>4, <1>5, <1>6, <1>7, <1>8 DEF PagesNext
    <2> QED  BY <1>0, <1>8, <2>1, PageStays DEF ShownInv, On
  <1>9. CASE UNCHANGED pagesVars
    BY <1>9 DEF pagesVars, ShownInv, AsAsked, AnswersFit, OneByOne, On
  <1> QED  BY <1>8, <1>9

\* A page that is mounted shows nothing yet.
LEMMA ShownStart == PagesInit => ShownInv
  <1> SUFFICES ASSUME PagesInit PROVE ShownInv  OBVIOUS
  <1>0. PagesTypeOK  BY PagesStart DEF PagesInv
  <1>1. PICK mounted \in PageName, recovery \in BOOLEAN, key \in Key :
          /\ recovery => mounted = "security"
          /\ LET loading == mounted # "profile" /\ ~recovery
             IN  /\ view = [page |-> mounted, key |-> key, shown |-> key, revision |-> 0,
                            loading |-> loading, error |-> "no",
                            recovery |-> recovery, naming |-> mounted = "audit",
                         busy |-> {}]
                 /\ loads = IF loading THEN <<NewLoad(key, {})>> ELSE <<>>
    BY DEF PagesInit
  <1>2. changes = <<>> /\ data = 1 /\ saved = 0 /\ DOMAIN changes = {}  BY DEF PagesInit
  <1>3. view.page = mounted /\ view.key = key /\ view.revision = 0 /\ view.recovery = recovery
    BY <1>1
  <1>4. PICK r : r = NewLoad(key, {})  OBVIOUS
  <1>5. r.key = key /\ r.revision = 0  BY <1>4 DEF NewLoad
  <1>6. loads = <<>> \/ loads = <<r>>  BY <1>1, <1>4
  <1>7. Len(loads) <= 1 /\ \A i \in DOMAIN loads : loads[i].key = key /\ loads[i].revision = 0
    <2>1. CASE loads = <<>>  BY <2>1
    <2>2. CASE loads = <<r>>
      <3>1. DOMAIN loads = {1} /\ loads[1] = r /\ Len(loads) = 1  BY <2>2
      <3> QED  BY <1>5, <3>1
    <2> QED  BY <1>6, <2>1, <2>2
  <1>8. view.recovery => ~On("site")  BY <1>1, <1>3 DEF On
  <1> QED  BY <1>2, <1>3, <1>7, <1>8 DEF ShownInv, AsAsked, AnswersFit, OneByOne

\* What is known of the preference of a book: one choice of it at a time is under way, for
\* the book that is shown, with no load beside it.
Choosing(i) == changes[i].control.do = "prefer"

PreferHolds ==
    /\ loads # <<>> => view.loading
    /\ \A i \in DOMAIN changes : Choosing(i) =>
         /\ loads = <<>> /\ changes[i].key = view.key
         /\ changes[i].step = "done" => changes[i].revision >= liked.told
    /\ \A i, j \in DOMAIN changes : Choosing(i) /\ Choosing(j) => i = j
    /\ \A i \in DOMAIN loads :
         loads[i].preference = 0 \/ loads[i].preference >= liked.told
    /\ On("book") /\ ~view.loading /\ view.error # "load" /\ view.revision # 0 =>
         liked.of = view.key /\ liked.revision >= liked.told

PreferInv == liked.told <= data /\ (~crossed => PreferHolds)

\* The numbers that are compared.
LEMMA ToldTypes ==
  ASSUME PagesTypeOK
  PROVE  /\ liked \in LikedRow /\ liked.told \in Nat /\ data \in Nat
         /\ \A i \in DOMAIN changes :
              changes[i] \in ChangeRow /\ changes[i].revision \in Nat
         /\ \A i \in DOMAIN loads : loads[i] \in LoadRow /\ loads[i].preference \in Nat
  <1>1. MaxData \in Nat /\ data \in Nat  BY PagesTypes, PagesAssumption
  <1>2. liked \in LikedRow  BY PagesTypes
  <1>3. liked.told \in Nat  BY <1>1, <1>2 DEF LikedRow
  <1>4. \A i \in DOMAIN changes : changes[i] \in ChangeRow  BY PagesTypes
  <1>5. \A i \in DOMAIN changes : changes[i].revision \in Nat
    BY <1>1, <1>4 DEF ChangeRow
  <1>6. \A i \in DOMAIN loads : loads[i] \in LoadRow  BY PagesTypes
  <1>7. \A i \in DOMAIN loads : loads[i].preference \in Nat
    BY <1>1, <1>6 DEF LoadRow
  <1> QED  BY <1>1, <1>2, <1>3, <1>4, <1>5, <1>6, <1>7

\* A load starts, maybe after a change: no preference is being chosen.
LEMMA StartPrefers ==
  ASSUME PagesTypeOK, PreferInv, NEW v \in ViewRow, NEW key \in Key,
         NEW ends \in SUBSET Control, Start(v, key, ends), UNCHANGED <<data, liked>>,
         \A j \in DOMAIN changes' : \E k \in DOMAIN changes : changes'[j] = changes[k]
  PROVE  PreferInv'
  <1>1. /\ view' \in ViewRow /\ view'.page = v.page /\ view'.loading
        /\ loads' \in Seq(LoadRow) /\ Len(loads') = Len(loads) + 1
        /\ loads'[Len(loads')].preference = 0
        /\ \A j \in 1 .. Len(loads') : j \in 1 .. Len(loads) \/ j = Len(loads')
    BY LoadStarted
  <1>2. liked'.told <= data'  BY DEF PreferInv
  <1>3. ASSUME ~crossed' PROVE PreferHolds'
    <2>1. loads = <<>> /\ ~Preferring  BY <1>3 DEF Start
    <2>2. \A i \in DOMAIN changes : changes[i].control.do # "prefer"
      BY <2>1 DEF Preferring
    <2>3. \A i \in DOMAIN changes' : changes'[i].control.do # "prefer"  BY <2>2
    <2>4. \A i \in DOMAIN loads' : loads'[i].preference = 0
      <3>1. Len(loads) = 0  BY <2>1
      <3>2. DOMAIN loads' = 1 .. Len(loads')  BY <1>1
      <3> QED  BY <1>1, <3>1, <3>2
    <2> QED  BY <1>1, <2>3, <2>4 DEF PreferHolds, Choosing
  <1> QED  BY <1>2, <1>3 DEF PreferInv

\* A control sends a change; a preference is chosen on a page that is not loading.
LEMMA ChangePrefers ==
  ASSUME PagesTypeOK, PreferInv, NEW c \in Control, NEW marked \in BOOLEAN,
         c.do = "prefer" => ~view.loading, Change(c, marked)
  PROVE  PreferInv'
  <1>t. /\ view \in ViewRow /\ changes \in Seq(ChangeRow) /\ Len(changes) \in Nat
        /\ DOMAIN changes = 1 .. Len(changes) /\ crossed \in BOOLEAN
    BY PagesTypes
  <1>1. PICK r : r = [control |-> c, key |-> view.key, step |-> "sent", revision |-> 0]
    OBVIOUS
  <1>2. r \in ChangeRow /\ r.control = c /\ r.key = view.key /\ r.step = "sent"
    BY <1>1, <1>t, PagesAssumption DEF ChangeRow, Answered, ViewRow
  <1>3. changes' = Append(changes, r)  BY <1>1 DEF Change
  <1>4. /\ changes' \in Seq(ChangeRow) /\ changes'[Len(changes')] = r
        /\ Len(changes') = Len(changes) + 1
        /\ \A j \in 1 .. Len(changes) : changes'[j] = changes[j]
        /\ \A j \in 1 .. Len(changes') : j \in 1 .. Len(changes) \/ j = Len(changes')
    BY <1>2, <1>3, <1>t, RowAppended
  <1>5. DOMAIN changes' = 1 .. Len(changes')  BY <1>4
  <1>6. UNCHANGED <<loads, data, liked>>  BY DEF Change
  <1>7. PICK e : e = IF OwnMessage THEN view.error ELSE "no"  OBVIOUS
  <1>8. PICK b : b = IF marked THEN (view.busy \ Marks(c)) \cup {c} ELSE view.busy  OBVIOUS
  <1>9. view' = [view EXCEPT !.error = e, !.busy = b]  BY <1>7, <1>8 DEF Change
  <1>10. /\ view'.page = view.page /\ view'.key = view.key /\ view'.loading = view.loading
         /\ view'.revision = view.revision /\ view'.error = e
    BY <1>t, <1>9 DEF ViewRow
  <1>11. ASSUME ~crossed' PROVE PreferHolds'
    <2>1. /\ ~crossed /\ (OwnMessage \/ view.error # "load")
          /\ c.do = "prefer" => ~Preferring
      BY <1>11 DEF Change, Hides
    <2>2. PreferHolds  BY <2>1 DEF PreferInv
    <2>3. e # "load" => view.error # "load"  BY <1>7, <2>1
    <2>4. CASE c.do # "prefer"
      <3>1. \A i \in DOMAIN changes' : changes'[i].control.do = "prefer" =>
              i \in DOMAIN changes /\ changes'[i] = changes[i]
        BY <1>2, <1>4, <1>5, <1>t, <2>4
      <3> QED  BY <1>6, <1>10, <2>2, <2>3, <3>1 DEF PreferHolds, Choosing, On
    <2>5. CASE c.do = "prefer"
      <3>1. \A i \in DOMAIN changes' : changes'[i].control.do = "prefer" =>
              i = Len(changes')
        BY <1>4, <1>5, <1>t, <2>1, <2>5 DEF Preferring
      <3>2. loads = <<>>  BY <2>2, <2>5 DEF PreferHolds
      <3> QED
        BY <1>2, <1>4, <1>6, <1>10, <2>2, <2>3, <3>1, <3>2 DEF PreferHolds, Choosing, On
    <2> QED  BY <2>4, <2>5
  <1> QED  BY <1>6, <1>11 DEF PreferInv

\* The server reads for a load: the preference it reads is the last one told of or later.
LEMMA ReadPrefers ==
  ASSUME PagesTypeOK, PreferInv, NEW i \in DOMAIN loads,
         ServerReads(i) \/ ServerReadsPreference(i)
  PROVE  PreferInv'
  <1>1. loads \in Seq(LoadRow) /\ DOMAIN loads = 1 .. Len(loads)
    BY PagesTypes
  <1>2. loads[i] \in LoadRow  BY <1>1
  <1>3. PICK r : /\ loads' = [loads EXCEPT ![i] = r]
                 /\ r.preference = loads[i].preference \/ r.preference = data
    <2>1. CASE ServerReads(i)
      <3>1. PICK r : r = [loads[i] EXCEPT !.revision = data]  OBVIOUS
      <3>2. r.preference = loads[i].preference  BY <1>2, <3>1 DEF LoadRow
      <3>3. loads' = [loads EXCEPT ![i] = r]  BY <2>1, <3>1 DEF ServerReads
      <3> QED  BY <3>2, <3>3
    <2>2. CASE ServerReadsPreference(i)
      <3>1. PICK r : r = [loads[i] EXCEPT !.preference = data]  OBVIOUS
      <3>2. r.preference = data  BY <1>2, <3>1 DEF LoadRow
      <3>3. loads' = [loads EXCEPT ![i] = r]  BY <2>2, <3>1 DEF ServerReadsPreference
      <3> QED  BY <3>2, <3>3
    <2> QED  BY <2>1, <2>2
  <1>4. UNCHANGED <<view, changes, data, liked, crossed>>
    BY DEF ServerReads, ServerReadsPreference
  <1>5. /\ DOMAIN loads' = DOMAIN loads
        /\ \A j \in DOMAIN loads : loads'[j].preference = loads[j].preference
                                   \/ loads'[j].preference = data
    BY <1>1, <1>3
  <1>6. data >= liked.told  BY ToldTypes DEF PreferInv
  <1>7. loads # <<>>  BY <1>1
  <1>8. ASSUME PreferHolds PROVE PreferHolds'
    BY <1>4, <1>5, <1>6, <1>7, <1>8 DEF PreferHolds, Choosing, On
  <1> QED  BY <1>4, <1>8 DEF PreferInv

\* A load ends, the only one: the preference is that of its book.
LEMMA EndPrefers ==
  ASSUME PagesInv, ShownInv, PreferInv, NEW i \in DOMAIN loads,
         LoadSucceeds(i) \/ LoadFails(i) \/ LateImage(i)
  PROVE  PreferInv'
  <1>0. PagesTypeOK  BY DEF PagesInv
  <1>1. view \in ViewRow /\ loads \in Seq(LoadRow) /\ Len(loads) \in Nat
        /\ DOMAIN loads = 1 .. Len(loads) /\ liked \in LikedRow
    BY <1>0, PagesTypes
  <1>2. loads[i] \in LoadRow  BY <1>1
  <1>3. loads' = RemoveAt(loads, i) /\ UNCHANGED <<changes, data, crossed>>
    BY DEF LoadSucceeds, LoadFails, LateImage
  <1>4. loads' \in Seq(LoadRow) /\ Len(loads') = Len(loads) - 1
    BY <1>0, <1>3, LoadsFewer DEF Without
  <1>5. liked'.told = liked.told
    <2>1. \/ liked' = liked
          \/ liked' = [liked EXCEPT !.of = loads[i].key, !.revision = loads[i].preference]
      BY DEF LoadSucceeds, LoadFails, LateImage
    <2> QED  BY <1>1, <2>1 DEF LikedRow
  <1>6. ASSUME ~crossed PROVE PreferHolds'
    <2>1. OneByOne /\ PreferHolds  BY <1>6 DEF ShownInv, AsAsked, PreferInv
    <2>2. loads' = <<>>
      <3>1. Len(loads') = 0  BY <1>1, <1>4, <2>1 DEF OneByOne
      <3> QED  BY <1>4, <3>1
    <2>3. \A j \in DOMAIN changes : ~Choosing(j)  BY <2>1 DEF PreferHolds
    <2>4. loads[i].key = view.key  BY <2>1 DEF OneByOne
    <2>5. DOMAIN loads' = {}  BY <2>2
    <2>6. \A j \in DOMAIN changes' : ~(changes'[j].control.do = "prefer")
      BY <1>3, <2>3 DEF Choosing
    <2>7. On("book")' /\ ~view'.loading /\ view'.error # "load" /\ view'.revision # 0 =>
            liked'.of = view'.key /\ liked'.revision >= liked'.told
      <3>1. CASE LoadSucceeds(i)
        <4>1. PICK b : b = view.busy \ loads[i].ends  OBVIOUS
        <4>2. PICK v : v = LoadEnds(view, i)  OBVIOUS
        <4>3. v = [view EXCEPT !.loading = FALSE, !.busy = b]  BY <4>1, <4>2 DEF LoadEnds
        <4>4. view' = [v EXCEPT !.shown = loads[i].key, !.revision = loads[i].revision]
          BY <3>1, <4>2 DEF LoadSucceeds
        <4>5. view'.page = view.page /\ view'.key = view.key
          BY <1>1, <4>3, <4>4 DEF ViewRow
        <4>6. ASSUME On("book")
              PROVE  liked'.of = loads[i].key /\ liked'.revision = loads[i].preference
                     /\ loads[i].preference # 0
          <5>1. liked' = [liked EXCEPT !.of = loads[i].key,
                                       !.revision = loads[i].preference]
            BY <3>1, <4>6 DEF LoadSucceeds
          <5> QED  BY <1>1, <3>1, <4>6, <5>1 DEF LoadSucceeds, LikedRow
        <4>7. loads[i].preference # 0 => loads[i].preference >= liked.told
          BY <2>1 DEF PreferHolds
        <4> QED  BY <1>5, <2>4, <4>5, <4>6, <4>7 DEF On
      <3>2. CASE LoadFails(i)
        <4>1. PICK v : v = LoadEnds(view, i)  OBVIOUS
        <4>2. PICK b : b = view.busy \ loads[i].ends  OBVIOUS
        <4>3. v = [view EXCEPT !.loading = FALSE, !.busy = b]  BY <4>1, <4>2 DEF LoadEnds
        <4>4. view' = [v EXCEPT !.error = "load"]  BY <3>2, <4>1 DEF LoadFails
        <4> QED  BY <1>1, <4>3, <4>4 DEF ViewRow
      <3>3. CASE LateImage(i)
        <4>1. UNCHANGED <<view, liked>>  BY <3>3 DEF LateImage
        <4> QED  BY <2>1, <4>1 DEF PreferHolds, On
      <3> QED  BY <3>1, <3>2, <3>3
    <2> QED  BY <2>2, <2>5, <2>6, <2>7 DEF PreferHolds, Choosing
  <1>7. liked'.told <= data'  BY <1>3, <1>5 DEF PreferInv
  <1> QED  BY <1>3, <1>6, <1>7 DEF PreferInv

\* The names of the readers change nothing of it.
LEMMA NamedPrefers ==
  ASSUME PagesTypeOK, PreferInv, NEW failed \in BOOLEAN, ReadersNamed(failed)
  PROVE  PreferInv'
  <1>0. view \in ViewRow  BY PagesTypes
  <1>1. PICK e : e = IF failed THEN "load" ELSE view.error  OBVIOUS
  <1>2. view' = [view EXCEPT !.naming = FALSE, !.error = e]
        /\ UNCHANGED <<loads, changes, data, liked, crossed>>
    BY <1>1 DEF ReadersNamed
  <1>3. /\ view'.page = view.page /\ view'.key = view.key /\ view'.loading = view.loading
        /\ view'.revision = view.revision /\ view'.error = e
    BY <1>0, <1>2 DEF ViewRow
  <1>4. ASSUME PreferHolds PROVE PreferHolds'
    BY <1>1, <1>2, <1>3, <1>4 DEF PreferHolds, Choosing, On
  <1> QED  BY <1>2, <1>4 DEF PreferInv

\* The server makes a change: a preference it sets is newer than those told of.
LEMMA ServerPrefers ==
  ASSUME PagesInv, PreferInv, NEW i \in DOMAIN changes, ServerChanges(i)
  PROVE  PreferInv'
  <1>0. PagesTypeOK  BY DEF PagesInv
  <1>1. changes \in Seq(ChangeRow) /\ DOMAIN changes = 1 .. Len(changes)
        /\ data \in 1 .. MaxData /\ MaxData \in Nat
    BY <1>0, PagesTypes, PagesAssumption
  <1>2. changes[i] \in ChangeRow  BY <1>1
  <1>3. UNCHANGED <<view, loads, liked, crossed>>  BY DEF ServerChanges
  <1>4. data' \in 1 .. MaxData /\ data <= data'  BY <1>1 DEF ServerChanges
  <1>5. liked.told <= data'
    <2>1. liked.told <= data /\ liked.told \in Nat  BY <1>0, ToldTypes DEF PreferInv
    <2> QED  BY <1>1, <1>4, <2>1
  <1>6. PICK r : /\ changes' = [changes EXCEPT ![i] = r]
                 /\ r.control = changes[i].control /\ r.key = changes[i].key
                 /\ r.step = "done" => r.revision = data'
    <2>1. CASE changes' = [changes EXCEPT ![i].step = "done", ![i].revision = data']
      <3>1. PICK r : r = [changes[i] EXCEPT !.step = "done", !.revision = data']  OBVIOUS
      <3>2. r.control = changes[i].control /\ r.key = changes[i].key /\ r.revision = data'
        BY <1>2, <3>1 DEF ChangeRow
      <3>3. changes' = [changes EXCEPT ![i] = r]  BY <2>1, <3>1
      <3> QED  BY <3>2, <3>3
    <2>2. CASE changes' = [changes EXCEPT ![i].step = "refused"]
      <3>1. PICK r : r = [changes[i] EXCEPT !.step = "refused"]  OBVIOUS
      <3>2. r.control = changes[i].control /\ r.key = changes[i].key /\ r.step = "refused"
        BY <1>2, <3>1 DEF ChangeRow
      <3>3. changes' = [changes EXCEPT ![i] = r]  BY <2>2, <3>1
      <3> QED  BY <3>2, <3>3
    <2> QED  BY <2>1, <2>2 DEF ServerChanges
  <1>7. /\ DOMAIN changes' = DOMAIN changes
        /\ \A j \in DOMAIN changes :
             /\ changes'[j].control = changes[j].control /\ changes'[j].key = changes[j].key
             /\ changes'[j] = changes[j] \/ (changes'[j].step = "done" =>
                                              changes'[j].revision = data')
    BY <1>1, <1>6
  <1>8. data' >= liked.told
    <2>1. liked.told \in Nat  BY <1>0, ToldTypes
    <2> QED  BY <1>1, <1>4, <1>5, <2>1
  <1>9. ASSUME PreferHolds PROVE PreferHolds'
    <2>1. \A j \in DOMAIN changes' : Choosing(j)' =>
            /\ loads' = <<>> /\ changes'[j].key = view'.key
            /\ changes'[j].step = "done" => changes'[j].revision >= liked'.told
      BY <1>3, <1>7, <1>8, <1>9 DEF PreferHolds, Choosing
    <2>2. \A j, k \in DOMAIN changes' : Choosing(j)' /\ Choosing(k)' => j = k
      BY <1>7, <1>9 DEF PreferHolds, Choosing
    <2> QED  BY <1>3, <1>9, <2>1, <2>2 DEF PreferHolds, On
  <1> QED  BY <1>3, <1>5, <1>9 DEF PreferInv

\* A change is over and nothing is loaded again; of the rest one at most is a choice.
LEMMA LeftPrefers ==
  ASSUME PagesTypeOK, PreferHolds, NEW i \in DOMAIN changes, changes' = RemoveAt(changes, i),
         view'.page = view.page, view'.key = view.key, view'.loading = view.loading,
         view'.error = "load" \/ view.error # "load",
         On("book") => view'.revision = view.revision,
         UNCHANGED <<loads, liked>>
  PROVE  PreferHolds'
  <1>1. changes \in Seq(ChangeRow) /\ i \in 1 .. Len(changes)  BY PagesTypes
  <1>2. Without(changes', changes, i)  BY ChangesFewer
  <1>3. \A j \in DOMAIN changes' : \E k \in DOMAIN changes : changes'[j] = changes[k]
    BY <1>2 DEF Without
  <1>4. ASSUME NEW j \in DOMAIN changes', NEW k \in DOMAIN changes', j # k,
               changes'[j].control.do = "prefer", changes'[k].control.do = "prefer"
        PROVE  FALSE
    <2>1. PICK t : t = changes'  OBVIOUS
    <2>2. \E a, b \in DOMAIN changes : a # b /\ t[j] = changes[a] /\ t[k] = changes[b]
      BY <1>1, <1>4, <2>1, TwoRowsLeft
    <2> QED  BY <1>4, <2>1, <2>2 DEF PreferHolds, Choosing
  <1>5. \A j \in DOMAIN changes' : Choosing(j)' =>
          /\ loads' = <<>> /\ changes'[j].key = view'.key
          /\ changes'[j].step = "done" => changes'[j].revision >= liked'.told
    BY <1>3 DEF PreferHolds, Choosing
  <1>6. \A j, k \in DOMAIN changes' : Choosing(j)' /\ Choosing(k)' => j = k
    BY <1>4 DEF Choosing
  <1> QED  BY <1>5, <1>6 DEF PreferHolds, On

\* The end of a change: the preference that is shown is the one the page is told of.
LEMMA ChangeEndsPrefers ==
  ASSUME PagesInv, ShownInv, PreferInv, NEW i \in DOMAIN changes,
         ChangeSucceeds(i) \/ ChangeFails(i)
  PROVE  PreferInv'
  <1>0. PagesTypeOK /\ PageRules /\ AnswersFit  BY DEF PagesInv, ShownInv, AsAsked
  <1>1. view \in ViewRow /\ crossed \in BOOLEAN  BY <1>0, PagesTypes
  <1>2. /\ changes[i] \in ChangeRow /\ changes[i].revision \in Nat /\ data \in Nat
        /\ liked \in LikedRow /\ liked.told \in Nat
    BY <1>0, ToldTypes
  <1>3. changes[i].control \in Control /\ changes[i].key \in Key
        /\ changes[i].revision <= data
    BY <1>0, <1>2 DEF ChangeRow, AnswersFit
  <1>4. PICK c : c = changes[i].control  OBVIOUS
  <1>5. Marks(c) \in SUBSET Control
    <2>1. On("devices") => c.item # NoItem  BY <1>0, <1>4 DEF PageRules
    <2> QED  BY <1>0, <1>3, <1>4, <2>1, OwnMark
  <1>6. PICK u : u = Unmarked(view, c)  OBVIOUS
  <1>7. /\ u \in ViewRow /\ u.page = view.page /\ u.loading = view.loading
        /\ u.key = view.key /\ u.revision = view.revision /\ u.error = view.error
    <2>1. PICK b : b = view.busy \ Marks(c)  OBVIOUS
    <2>2. u = [view EXCEPT !.busy = b]  BY <1>6, <2>1 DEF Unmarked
    <2> QED  BY <1>1, <2>1, <2>2 DEF ViewRow
  <1>8. ASSUME changes' = RemoveAt(changes, i)
        PROVE  \A j \in DOMAIN changes' : \E k \in DOMAIN changes :
                 k # i /\ changes'[j] = changes[k]
    BY <1>0, <1>8, ChangesFewer DEF Without
  <1>9. liked.told <= data  BY DEF PreferInv
  <1>10. CASE ChangeFails(i)
    <2>1. PICK e : e = IF OwnMessage THEN u.error ELSE "change"  OBVIOUS
    <2>2. view' = [u EXCEPT !.error = e]
      BY <1>4, <1>6, <1>10, <2>1 DEF ChangeFails
    <2>3. /\ view'.page = view.page /\ view'.loading = view.loading /\ view'.key = view.key
          /\ view'.revision = view.revision /\ view'.error = e
      BY <1>7, <2>2 DEF ViewRow
    <2>4. changes' = RemoveAt(changes, i) /\ UNCHANGED <<loads, data, liked>>
          /\ (~crossed' => ~crossed /\ (OwnMessage \/ view.error # "load"))
      BY <1>1, <1>10 DEF ChangeFails, Hides
    <2>5. ASSUME ~crossed' PROVE PreferHolds'
      <3>1. PreferHolds  BY <2>4, <2>5 DEF PreferInv
      <3>2. view'.error = "load" \/ view.error # "load"  BY <1>7, <2>1, <2>3, <2>4, <2>5
      <3> QED  BY <1>0, <2>3, <2>4, <3>1, <3>2, LeftPrefers
    <2> QED  BY <1>9, <2>4, <2>5 DEF PreferInv
  <1>11. CASE ChangeSucceeds(i)
    <2>0. changes[i].step = "done"  BY <1>11 DEF ChangeSucceeds
    <2>1. CASE Away
      <3>1. view' = [view EXCEPT !.page = "away", !.busy = {}, !.loading = FALSE]
            /\ loads' = <<>> /\ changes' = <<>> /\ UNCHANGED <<data, liked>>
        BY <2>1 DEF Away
      <3>2. view'.page = "away"  BY <1>1, <3>1 DEF ViewRow
      <3>3. DOMAIN loads' = {} /\ DOMAIN changes' = {}  BY <3>1
      <3>4. PreferHolds'  BY <3>1, <3>2, <3>3 DEF PreferHolds, Choosing, On
      <3> QED  BY <1>9, <3>1, <3>4 DEF PreferInv
    <2>2. CASE /\ view' = u /\ UNCHANGED <<loads, liked, crossed, data>>
               /\ changes' = RemoveAt(changes, i)
      <3>1. PreferHolds => PreferHolds'  BY <1>0, <1>7, <2>2, LeftPrefers
      <3> QED  BY <1>9, <2>2, <3>1 DEF PreferInv
    <2>3. CASE /\ c.do = "prefer" /\ view' = u
               /\ liked' = [of |-> changes[i].key, revision |-> changes[i].revision,
                            told |-> Later(changes[i].revision, liked.told)]
               /\ changes' = RemoveAt(changes, i) /\ UNCHANGED <<loads, data, crossed>>
      <3>1. liked'.of = changes[i].key /\ liked'.revision = changes[i].revision
            /\ liked'.told = Later(changes[i].revision, liked.told)
        BY <2>3
      <3>2. liked'.told <= data'  BY <1>2, <1>3, <1>9, <2>3, <3>1 DEF Later
      <3>3. ASSUME PreferHolds PROVE PreferHolds'
        <4>1. /\ loads = <<>> /\ changes[i].key = view.key
              /\ changes[i].revision >= liked.told
              /\ \A j \in DOMAIN changes : j # i => changes[j].control.do # "prefer"
          BY <1>4, <2>0, <2>3, <3>3 DEF PreferHolds, Choosing
        <4>2. \A j \in DOMAIN changes' : changes'[j].control.do # "prefer"
          BY <1>8, <2>3, <4>1
        <4>3. liked'.told = changes[i].revision
              /\ changes[i].revision >= changes[i].revision
          BY <1>2, <3>1, <4>1 DEF Later
        <4>4. DOMAIN loads' = {} /\ loads' = <<>>  BY <2>3, <4>1
        <4> QED  BY <1>7, <2>3, <3>1, <4>1, <4>2, <4>3, <4>4 DEF PreferHolds, Choosing
      <3> QED  BY <2>3, <3>2, <3>3 DEF PreferInv
    <2>4. CASE /\ On("site") /\ view' = [u EXCEPT !.revision = changes[i].revision]
               /\ UNCHANGED <<loads, liked, crossed, data>>
               /\ changes' = RemoveAt(changes, i)
      <3>1. /\ view'.page = view.page /\ view'.loading = view.loading
            /\ view'.key = view.key /\ view'.error = view.error
        BY <1>7, <2>4 DEF ViewRow
      <3>2. ~On("book")  BY <2>4 DEF On
      <3>3. PreferHolds => PreferHolds'  BY <1>0, <2>4, <3>1, <3>2, LeftPrefers
      <3> QED  BY <1>9, <2>4, <3>3 DEF PreferInv
    <2>5. CASE /\ Start(view, changes[i].key, Marks(c))
               /\ changes' = RemoveAt(changes, i) /\ UNCHANGED <<data, liked>>
      <3>1. PICK v \in ViewRow : v = view  BY <1>1
      <3>2. Start(v, changes[i].key, Marks(c))  BY <2>5, <3>1
      <3> QED  BY <1>0, <1>3, <1>5, <1>8, <2>5, <3>2, StartPrefers
    <2>6. CASE /\ Start([u EXCEPT !.recovery = FALSE], view.key, {})
               /\ changes' = RemoveAt(changes, i) /\ UNCHANGED <<data, liked>>
      <3>1. PICK v : v = [u EXCEPT !.recovery = FALSE]  OBVIOUS
      <3>2. v \in ViewRow  BY <1>7, <3>1 DEF ViewRow
      <3>3. PICK k \in Key : k = view.key  BY <1>1 DEF ViewRow
      <3>4. {} \in SUBSET Control /\ Start(v, k, {})  BY <2>6, <3>1, <3>3
      <3> QED  BY <1>0, <1>8, <2>6, <3>2, <3>4, StartPrefers
    <2> QED
      BY <1>4, <1>6, <1>11, <2>1, <2>2, <2>3, <2>4, <2>5, <2>6 DEF ChangeSucceeds
  <1> QED  BY <1>10, <1>11

\* Every step of the pages keeps PreferInv, on top of PagesInv and ShownInv.
LEMMA PreferStep ==
  ASSUME PagesInv, ShownInv, PreferInv, [PagesNext]_pagesVars
  PROVE  PreferInv'
  <1>0. PagesTypeOK /\ view \in ViewRow  BY PagesTypes DEF PagesInv
  <1>1. ASSUME NEW key \in Key, Load([view EXCEPT !.key = key], key) PROVE PreferInv'
    <2>1. PICK v : v = [view EXCEPT !.key = key]  OBVIOUS
    <2>2. v \in ViewRow  BY <1>0, <2>1 DEF ViewRow
    <2>3. Start(v, key, {}) /\ UNCHANGED <<changes, data, liked>> /\ {} \in SUBSET Control
      BY <1>1, <2>1 DEF Load
    <2> QED  BY <1>0, <2>2, <2>3, StartPrefers
  <1>2. ASSUME PagesUse PROVE PreferInv'
    BY <1>0, <1>1, <1>2, UseLoadsOrChanges, ChangePrefers
  <1>3. ASSUME NEW key \in Key, GoToAnother(key) PROVE PreferInv'
    BY <1>1, <1>3 DEF GoToAnother
  <1>4. ASSUME NEW path \in Key, PathChanges(path) PROVE PreferInv'
    <2>1. On("image") /\ UNCHANGED <<changes, data, liked>>
          /\ crossed' = (crossed \/ loads # <<>>)
      BY <1>4 DEF PathChanges
    <2>2. changes' = <<>> /\ DOMAIN changes' = {}
      <3>1. changes = <<>>  BY <2>1 DEF PagesInv, PageRules
      <3> QED  BY <2>1, <3>1
    <2>3. view'.page = "image" /\ view'.loading
      <3>1. PICK v : v = [view EXCEPT !.key = path, !.revision = 0]  OBVIOUS
      <3>2. /\ v.page = "image" /\ DOMAIN v = DOMAIN view
            /\ v = [v EXCEPT !.busy = v.busy]
        BY <1>0, <2>1, <3>1 DEF ViewRow, On
      <3>3. view' = Loading(v)  BY <1>4, <3>1 DEF PathChanges
      <3>4. view' = [v EXCEPT !.loading = TRUE, !.error = "no", !.busy = v.busy]
        BY <3>2, <3>3 DEF Loading
      <3> QED  BY <1>0, <3>2, <3>4 DEF ViewRow
    <2>4. ASSUME ~crossed' PROVE \A i \in DOMAIN loads' : loads'[i].preference = 0
      <3>1. PICK r : r = NewLoad(path, {})  OBVIOUS
      <3>2. loads = <<>>  BY <2>1, <2>4
      <3>3. loads' = Append([i \in DOMAIN loads |-> [loads[i] EXCEPT !.active = FALSE]], r)
        BY <1>4, <3>1 DEF PathChanges
      <3>4. [i \in DOMAIN loads |-> [loads[i] EXCEPT !.active = FALSE]] = <<>>  BY <3>2
      <3>5. loads' = <<r>>  BY <3>3, <3>4
      <3>6. DOMAIN loads' = {1} /\ loads'[1] = r  BY <3>5
      <3> QED  BY <3>1, <3>6 DEF NewLoad
    <2>5. ~crossed' => PreferHolds'  BY <2>2, <2>3, <2>4 DEF PreferHolds, Choosing, On
    <2> QED  BY <2>1, <2>5 DEF PreferInv
  <1>5. ASSUME NEW i \in DOMAIN loads,
               \/ ServerReads(i) \/ ServerReadsPreference(i)
               \/ LoadSucceeds(i) \/ LoadFails(i) \/ LateImage(i)
        PROVE  PreferInv'
    BY <1>0, <1>5, ReadPrefers, EndPrefers
  <1>6. ASSUME NEW i \in DOMAIN changes,
               ServerChanges(i) \/ ChangeSucceeds(i) \/ ChangeFails(i)
        PROVE  PreferInv'
    BY <1>6, ServerPrefers, ChangeEndsPrefers
  <1>7. ASSUME NEW failed \in BOOLEAN, ReadersNamed(failed) PROVE PreferInv'
    BY <1>0, <1>7, NamedPrefers
  <1>8. ASSUME OthersChange PROVE PreferInv'
    <2>1. data' = data + 1 /\ UNCHANGED <<view, loads, changes, liked, crossed>>
      BY <1>8 DEF OthersChange
    <2>2. liked'.told <= data'
      <3>1. liked.told \in Nat /\ data \in Nat /\ liked.told <= data
        BY <1>0, ToldTypes DEF PreferInv
      <3> QED  BY <2>1, <3>1
    <2> QED  BY <2>1, <2>2 DEF PreferInv, PreferHolds, Choosing, On
  <1>9. CASE UNCHANGED pagesVars
    BY <1>9 DEF pagesVars, PreferInv, PreferHolds, Choosing, On
  <1> QED
    BY <1>2, <1>3, <1>4, <1>5, <1>6, <1>7, <1>8, <1>9 DEF PagesNext

\* Nothing is chosen on a page that is mounted.
LEMMA PreferStart == PagesInit => PreferInv
  <1> SUFFICES ASSUME PagesInit PROVE PreferInv  OBVIOUS
  <1>1. PICK mounted \in PageName, recovery \in BOOLEAN, key \in Key :
          LET loading == mounted # "profile" /\ ~recovery
          IN  /\ view = [page |-> mounted, key |-> key, shown |-> key, revision |-> 0,
                         loading |-> loading, error |-> "no",
                         recovery |-> recovery, naming |-> mounted = "audit",
                         busy |-> {}]
              /\ loads = IF loading THEN <<NewLoad(key, {})>> ELSE <<>>
              /\ liked = [of |-> key, revision |-> 0, told |-> 0]
    BY DEF PagesInit
  <1>2. changes = <<>> /\ data = 1 /\ DOMAIN changes = {}  BY DEF PagesInit
  <1>3. view.revision = 0 /\ view.loading = (mounted # "profile" /\ ~recovery)  BY <1>1
  <1>4. liked.told = 0 /\ liked.told <= data  BY <1>1, <1>2
  <1>5. PICK r : r = NewLoad(key, {})  OBVIOUS
  <1>6. r.preference = 0  BY <1>5 DEF NewLoad
  <1>7. /\ loads # <<>> => view.loading
        /\ \A i \in DOMAIN loads : loads[i].preference = 0
    <2>1. CASE loads = <<>>  BY <2>1
    <2>2. CASE loads = <<r>> /\ view.loading
      <3>1. DOMAIN loads = {1} /\ loads[1] = r  BY <2>2
      <3> QED  BY <1>6, <2>2, <3>1
    <2> QED  BY <1>1, <1>3, <1>5, <2>1, <2>2
  <1> QED  BY <1>2, <1>3, <1>4, <1>7 DEF PreferInv, PreferHolds, Choosing

\* A page that is loaded shows what it was asked for and every change it was told of, the
\* preference of a book included, as long as its loads came one by one and for its own key,
\* with no choice of a preference beside them or beside another one, and an image is always
\* the one of its path, whatever answer comes when (load, loadBook, setPreferred, loadBooks,
\* save, ProtectedImage).
THEOREM PagesShowWhatWasAsked == PagesSpec => []ShowsWhatWasAsked
  <1>1. PagesInv /\ ShownInv /\ PreferInv => ShowsWhatWasAsked
    <2> SUFFICES ASSUME PagesInv, ShownInv, PreferInv PROVE ShowsWhatWasAsked  OBVIOUS
    <2>0. view \in ViewRow  BY PagesTypes DEF PagesInv
    <2>1. CASE ~crossed
      BY <2>1 DEF ShownInv, AsAsked, OneByOne, PreferInv, PreferHolds, ShowsWhatWasAsked, Showing, On
    <2>2. CASE On("image")
      <3>1. saved = 0 /\ view.revision \in Nat
        BY <2>0, <2>2, PagesAssumption DEF PagesInv, PageRules, ViewRow
      <3>2. view.revision >= saved  BY <3>1
      <3> QED  BY <2>2, <3>2 DEF ShownInv, AsAsked, AnswersFit, ShowsWhatWasAsked, Showing, On
    <2> QED  BY <2>1, <2>2 DEF ShowsWhatWasAsked
  <1> QED
    BY <1>1, PagesStart, PagesStep, ShownStart, ShownStep, PreferStart, PreferStep, PTL
    DEF PagesSpec

-----------------------------------------------------------------------------
(* The settings of the reader page.                                        *)

\* A request under way.
PatchRow == [value : Settings, step : {"sent", "read", "stored"},
             seen : Settings \cup {NoSettings}]

\* The types; only an opened page can be chosen from, and an answer brings settings.
SettingsInv ==
    /\ SettingsTypeOK
    /\ opening.step = "no" => looks.shown \in Settings
    /\ opening.step = "read" => opening.seen \in Settings

\* SettingsTypeOK, in the form the proofs use it.
LEMMA SettingsTypes ==
  ASSUME SettingsInv
  PROVE  /\ looks \in [shown : Settings \cup {NoSettings}, timer : Settings \cup {NoSettings}]
         /\ patches \in Seq(PatchRow) /\ Len(patches) \in Nat /\ Len(patches) <= MaxPatches
         /\ DOMAIN patches = 1 .. Len(patches)
         /\ opening \in [step : {"no", "sent", "read", "failed"},
                         seen : Settings \cup {NoSettings}]
         /\ stored \in Settings /\ chosen \in Settings \cup {NoSettings} /\ raced \in BOOLEAN
  BY DEF SettingsInv, SettingsTypeOK, PatchRow

\* SettingsInv, part by part.
LEMMA SettingsParts ==
  SettingsInv <=>
    /\ looks \in [shown : Settings \cup {NoSettings}, timer : Settings \cup {NoSettings}]
    /\ patches \in Seq(PatchRow) /\ Len(patches) <= MaxPatches
    /\ opening \in [step : {"no", "sent", "read", "failed"}, seen : Settings \cup {NoSettings}]
    /\ stored \in Settings /\ chosen \in Settings \cup {NoSettings} /\ raced \in BOOLEAN
    /\ opening.step = "no" => looks.shown \in Settings
    /\ opening.step = "read" => opening.seen \in Settings
  BY DEF SettingsInv, SettingsTypeOK, PatchRow

\* A request goes on to its next step; the others stay.
LEMMA PatchChanged ==
  ASSUME SettingsInv, NEW i \in DOMAIN patches, NEW p \in PatchRow,
         patches' = [patches EXCEPT ![i] = p]
  PROVE  /\ patches' \in Seq(PatchRow) /\ Len(patches') = Len(patches)
         /\ patches'[i] = p
  BY SettingsTypes

\* A request that is over is no longer under way.
LEMMA Fewer ==
  ASSUME SettingsInv, NEW i \in DOMAIN patches, patches' = RemoveAt(patches, i)
  PROVE  patches' \in Seq(PatchRow) /\ Len(patches') = Len(patches) - 1
  <1>1. patches \in Seq(PatchRow) /\ i \in 1 .. Len(patches)  BY SettingsTypes
  <1>2. patches' \in Seq(PatchRow) /\ Without(patches', patches, i)  BY <1>1, RowRemoved
  <1> QED  BY <1>2 DEF Without

\* The page opens.
LEMMA SettingsStart == SettingsInit => SettingsInv
  <1> SUFFICES ASSUME SettingsInit PROVE SettingsInv  OBVIOUS
  <1>1. stored \in Settings  BY DEF SettingsInit, Settings
  <1>2. patches \in Seq(PatchRow) /\ Len(patches) = 0  BY DEF SettingsInit
  <1>3. looks \in [shown : Settings \cup {NoSettings}, timer : Settings \cup {NoSettings}]
    BY DEF SettingsInit
  <1>4. opening \in [step : {"no", "sent", "read", "failed"}, seen : Settings \cup {NoSettings}]
    BY DEF SettingsInit
  <1>5. chosen \in Settings \cup {NoSettings} /\ raced \in BOOLEAN
    BY DEF SettingsInit
  <1>6. opening.step = "sent"  BY DEF SettingsInit
  <1>7. Len(patches) <= MaxPatches  BY <1>2, ReaderSettingsAssumption
  <1> QED
    BY <1>1, <1>2, <1>3, <1>4, <1>5, <1>6, <1>7, SettingsParts

\* Every step keeps SettingsInv.
LEMMA SettingsTyped ==
  ASSUME SettingsInv, [SettingsNext]_settingsVars
  PROVE  SettingsInv'
  <1> USE SettingsTypes, ReaderSettingsAssumption
  <1>1. CASE Reopen
    BY <1>1 DEF Reopen, SettingsInv, SettingsTypeOK, PatchRow
  <1>2. CASE OpeningReads
    BY <1>2 DEF OpeningReads, SettingsInv, SettingsTypeOK, PatchRow
  <1>3. CASE OpeningArrives
    BY <1>3 DEF OpeningArrives, SettingsInv, SettingsTypeOK, PatchRow
  <1>4. CASE OpeningFails
    BY <1>4 DEF OpeningFails, SettingsInv, SettingsTypeOK, PatchRow
  <1>5. CASE SendSettings
    <2>1. PICK p : p = [value |-> looks.timer, step |-> "sent", seen |-> NoSettings]
      OBVIOUS
    <2>2. p \in PatchRow  BY <1>5, <2>1 DEF SendSettings, PatchRow
    <2>3. patches' = Append(patches, p)  BY <1>5, <2>1 DEF SendSettings
    <2>4. patches' \in Seq(PatchRow) /\ Len(patches') = Len(patches) + 1  BY <2>2, <2>3
    <2>5. Len(patches') <= MaxPatches  BY <1>5, <2>4 DEF SendSettings
    <2> QED
      BY <1>5, <2>4, <2>5 DEF SendSettings, SettingsInv, SettingsTypeOK, PatchRow
  <1>6. CASE OtherSettings
    BY <1>6 DEF OtherSettings, SettingsInv, SettingsTypeOK, PatchRow
  <1>7. ASSUME NEW f \in Field, NEW c \in Choice, ChangeSettings(f, c)
        PROVE  SettingsInv'
    <2>1. looks.shown \in Settings  BY <1>7 DEF ChangeSettings, SettingsInv
    <2>2. PICK next : next = [looks.shown EXCEPT ![f] = c]  OBVIOUS
    <2>3. next \in Settings  BY <2>1, <2>2 DEF Settings
    <2> QED
      BY <1>7, <2>2, <2>3 DEF ChangeSettings, SettingsInv, SettingsTypeOK, PatchRow
  <1>8. ASSUME NEW i \in DOMAIN patches,
               PatchReads(i) \/ PatchWrites(i)
        PROVE  SettingsInv'
    <2>1. patches[i] \in PatchRow  OBVIOUS
    <2>2. PICK p \in PatchRow : patches' = [patches EXCEPT ![i] = p]
      <3>1. CASE PatchReads(i)
        <4>1. PICK p : p = [patches[i] EXCEPT !.step = "read", !.seen = stored]  OBVIOUS
        <4>2. p \in PatchRow  BY <2>1, <4>1 DEF PatchRow
        <4>3. patches' = [patches EXCEPT ![i] = p]  BY <3>1, <4>1 DEF PatchReads
        <4> QED  BY <4>2, <4>3
      <3>2. CASE PatchWrites(i)
        <4>1. PICK p : p = [patches[i] EXCEPT !.step = "stored"]  OBVIOUS
        <4>2. p \in PatchRow  BY <2>1, <4>1 DEF PatchRow
        <4>3. patches' = [patches EXCEPT ![i] = p]  BY <3>2, <4>1 DEF PatchWrites
        <4> QED  BY <4>2, <4>3
      <3> QED  BY <1>8, <3>1, <3>2
    <2>3. patches' \in Seq(PatchRow) /\ Len(patches') = Len(patches)
      BY <2>2, PatchChanged
    <2>4. stored' \in Settings
      BY <1>8, <2>1 DEF PatchReads, PatchWrites, PatchRow, Settings
    <2> QED
      BY <1>8, <2>3, <2>4 DEF PatchReads, PatchWrites, SettingsInv, SettingsTypeOK, PatchRow
  <1>9. ASSUME NEW i \in DOMAIN patches,
               PatchAnswered(i) \/ PatchFails(i)
        PROVE  SettingsInv'
    <2>1. patches' \in Seq(PatchRow) /\ Len(patches') = Len(patches) - 1
      BY <1>9, Fewer DEF PatchAnswered, PatchFails
    <2>2. patches[i] \in PatchRow  OBVIOUS
    <2>3. PICK v \in Settings : v = patches[i].value  BY <2>2 DEF PatchRow
    <2>4. looks' = looks \/ looks' = [looks EXCEPT !.shown = v]
      BY <1>9, <2>3 DEF PatchAnswered, PatchFails
    <2>5. /\ looks' \in [shown : Settings \cup {NoSettings}, timer : Settings \cup {NoSettings}]
          /\ looks'.shown = looks.shown \/ looks'.shown \in Settings
      BY <2>4
    <2>6. Len(patches') <= MaxPatches  BY <2>1
    <2>7. UNCHANGED <<opening, stored, chosen>> /\ raced' \in BOOLEAN
      BY <1>9 DEF PatchAnswered, PatchFails
    <2> HIDE SettingsTypes
    <2>8. /\ stored' \in Settings /\ chosen' \in Settings \cup {NoSettings}
          /\ opening' \in [step : {"no", "sent", "read", "failed"},
                           seen : Settings \cup {NoSettings}]
          /\ opening'.step = "no" => looks'.shown \in Settings
          /\ opening'.step = "read" => opening'.seen \in Settings
      BY <2>5, <2>7, SettingsParts
    <2> QED
      BY <2>1, <2>5, <2>6, <2>7, <2>8 DEF SettingsInv, SettingsTypeOK, PatchRow
  <1>10. CASE UNCHANGED settingsVars
    BY <1>10 DEF settingsVars, SettingsInv, SettingsTypeOK
  <1> QED
    BY <1>1, <1>2, <1>3, <1>4, <1>5, <1>6, <1>7, <1>8, <1>9, <1>10 DEF SettingsNext

-----------------------------------------------------------------------------
\* Where the last choice is while nothing else happens beside it: in the timer, then in
\* the one request, then in the row.
ChoiceIsKept ==
    /\ looks.shown = chosen
    /\ opening.step # "no" => ~Unsaved
    /\ opening.step = "read" => opening.seen = stored
    /\ opening.step = "no" =>
         /\ looks.timer # NoSettings => looks.timer = chosen /\ patches = <<>>
         /\ Len(patches) <= 1
         /\ \A i \in DOMAIN patches :
              /\ patches[i].value = chosen
              /\ patches[i].step = "read" => patches[i].seen = stored
              /\ patches[i].step = "stored" => stored = chosen
         /\ ~Unsaved => stored = chosen

ChoiceInv == raced \/ ChoiceIsKept

\* Every step keeps where the last choice is, or requests race from now on.
LEMMA ChoiceStep ==
  ASSUME SettingsInv, ChoiceIsKept, SettingsNext, ~raced'
  PROVE  ChoiceIsKept'
  <1> USE SettingsTypes
  <1>0. SettingsInv'  BY SettingsTyped
  <1>a. DOMAIN patches' = 1 .. Len(patches') /\ patches' \in Seq(PatchRow)
    BY <1>0 DEF SettingsInv, SettingsTypeOK, PatchRow
  <1>1. CASE Reopen
    BY <1>1 DEF Reopen, ChoiceIsKept, Unsaved
  <1>2. CASE OpeningReads
    BY <1>2 DEF OpeningReads, ChoiceIsKept, Unsaved
  <1>3. CASE OpeningArrives
    BY <1>3 DEF OpeningArrives, ChoiceIsKept, Unsaved
  <1>4. CASE OpeningFails
    BY <1>4 DEF OpeningFails, ChoiceIsKept, Unsaved
  <1>5. CASE SendSettings
    <2>1. PICK p : p = [value |-> looks.timer, step |-> "sent", seen |-> NoSettings]
      OBVIOUS
    <2>2. /\ patches = <<>> /\ opening.step = "no" /\ looks.timer # NoSettings
          /\ p.value = chosen /\ p.step = "sent"
      BY <1>5, <2>1 DEF SendSettings, ChoiceIsKept
    <2>3. patches' = <<p>>  BY <1>5, <2>1, <2>2 DEF SendSettings
    <2>4. /\ looks'.timer = NoSettings /\ looks'.shown = looks.shown
          /\ UNCHANGED <<opening, stored, chosen>>
      BY <1>5 DEF SendSettings
    <2> QED  BY <2>2, <2>3, <2>4 DEF ChoiceIsKept, Unsaved
  <1>6. CASE OtherSettings
    BY <1>6 DEF OtherSettings, ChoiceIsKept, Unsaved
  <1>7. ASSUME NEW f \in Field, NEW c \in Choice, ChangeSettings(f, c)
        PROVE  ChoiceIsKept'
    <2>1. patches = <<>>  BY <1>7 DEF ChangeSettings
    <2>2. PICK next : next = [looks.shown EXCEPT ![f] = c]  OBVIOUS
    <2>3. looks'.shown = next /\ looks'.timer = next /\ chosen' = next
          /\ UNCHANGED <<patches, opening, stored>> /\ opening.step = "no"
      BY <1>7, <2>2 DEF ChangeSettings
    <2>4. looks.shown \in Settings  BY <1>7 DEF ChangeSettings, SettingsInv
    <2>5. next # NoSettings  BY <2>2, <2>4, ReaderSettingsAssumption DEF Settings
    <2> QED  BY <2>1, <2>3, <2>5 DEF ChoiceIsKept, Unsaved
  <1>8. ASSUME NEW i \in DOMAIN patches, PatchReads(i)
        PROVE  ChoiceIsKept'
    <2>1. PICK p : p = [patches[i] EXCEPT !.step = "read", !.seen = stored]  OBVIOUS
    <2>2. patches[i] \in PatchRow  OBVIOUS
    <2>3. p \in PatchRow /\ p.step = "read" /\ p.seen = stored /\ p.value = patches[i].value
      BY <2>1, <2>2 DEF PatchRow
    <2>4. patches' = [patches EXCEPT ![i] = p]  BY <1>8, <2>1 DEF PatchReads
    <2>5. opening.step = "no" /\ looks.timer = NoSettings /\ i = 1 /\ Len(patches) = 1
      BY DEF ChoiceIsKept, Unsaved
    <2>6. Len(patches') = 1 /\ patches'[1] = p  BY <2>3, <2>4, <2>5, PatchChanged
    <2> QED
      BY <1>8, <1>a, <2>3, <2>5, <2>6 DEF PatchReads, ChoiceIsKept, Unsaved
  <1>9. ASSUME NEW i \in DOMAIN patches, PatchWrites(i)
        PROVE  ChoiceIsKept'
    <2>1. PICK p : p = [patches[i] EXCEPT !.step = "stored"]  OBVIOUS
    <2>2. patches[i] \in PatchRow  OBVIOUS
    <2>3. p \in PatchRow /\ p.step = "stored" /\ p.value = patches[i].value
      BY <2>1, <2>2 DEF PatchRow
    <2>4. patches' = [patches EXCEPT ![i] = p]  BY <1>9, <2>1 DEF PatchWrites
    <2>5. opening.step = "no" /\ looks.timer = NoSettings /\ i = 1 /\ Len(patches) = 1
      BY DEF ChoiceIsKept, Unsaved
    <2>6. Len(patches') = 1 /\ patches'[1] = p  BY <2>3, <2>4, <2>5, PatchChanged
    <2>7. patches[i].seen = stored /\ patches[i].value = chosen
      BY <1>9, <2>5 DEF PatchWrites, ChoiceIsKept
    <2>8. stored' = chosen
      <3>1. chosen \in [Field -> Choice] /\ stored \in [Field -> Choice]
        BY <2>2, <2>7 DEF PatchRow, Settings
      <3>2. stored' = [f \in Field |-> IF chosen[f] # stored[f] THEN chosen[f] ELSE stored[f]]
        BY <1>9, <2>7 DEF PatchWrites
      <3> QED  BY <3>1, <3>2
    <2> QED
      BY <1>9, <1>a, <2>3, <2>5, <2>6, <2>7, <2>8 DEF PatchWrites, ChoiceIsKept, Unsaved
  <1>10. ASSUME NEW i \in DOMAIN patches, PatchAnswered(i)
        PROVE  ChoiceIsKept'
    <2>1. opening.step = "no" /\ looks.timer = NoSettings /\ i = 1 /\ Len(patches) = 1
      BY DEF ChoiceIsKept, Unsaved
    <2>2. Len(patches') = 0  BY <1>10, <2>1, Fewer DEF PatchAnswered
    <2>3. patches[i].value = chosen /\ stored = chosen
      BY <1>10, <2>1 DEF PatchAnswered, ChoiceIsKept
    <2>4. patches' = <<>>  BY <1>a, <2>2
    <2>5. looks'.shown = chosen /\ looks'.timer = NoSettings /\ UNCHANGED <<opening, stored, chosen>>
      BY <1>10, <2>1, <2>3 DEF PatchAnswered
    <2> QED
      BY <2>1, <2>3, <2>4, <2>5 DEF ChoiceIsKept, Unsaved
  <1>11. ASSUME NEW i \in DOMAIN patches, PatchFails(i)
        PROVE  ChoiceIsKept'
    BY <1>11 DEF PatchFails
  <1> QED
    BY <1>1, <1>2, <1>3, <1>4, <1>5, <1>6, <1>7, <1>8, <1>9, <1>10, <1>11 DEF SettingsNext

\* Requests that have raced stay a fact.
LEMMA RacedStays ==
  ASSUME SettingsInv, SettingsNext, raced
  PROVE  raced'
  BY DEF SettingsNext, Reopen, OpeningReads, OpeningArrives, OpeningFails, SendSettings,
         OtherSettings, ChangeSettings, PatchReads, PatchWrites, PatchAnswered, PatchFails

\* Every step keeps ChoiceInv.
LEMMA ChoiceKept ==
  ASSUME SettingsInv, ChoiceInv, [SettingsNext]_settingsVars
  PROVE  ChoiceInv'
  <1>1. CASE SettingsNext
    BY <1>1, RacedStays, ChoiceStep DEF ChoiceInv
  <1>2. CASE UNCHANGED settingsVars
    BY <1>2 DEF settingsVars, ChoiceInv, ChoiceIsKept, Unsaved
  <1> QED  BY <1>1, <1>2

\* The page shows what was chosen last, and once nothing waits that is what is saved, unless
\* requests raced, whatever is refused or lost and whoever else changes the settings
\* (changeSettings, the timer and the PATCH of ReaderPage, update_reader_settings).
THEOREM LastChoiceIsKept == SettingsSpec => []LastChoiceKept
  <1>1. SettingsInit => ChoiceInv
    BY DEF SettingsInit, ChoiceInv, ChoiceIsKept, Unsaved
  <1>2. ChoiceInv => LastChoiceKept
    BY DEF ChoiceInv, ChoiceIsKept, LastChoiceKept
  <1> QED
    BY <1>1, <1>2, SettingsStart, SettingsTyped, ChoiceKept, PTL DEF SettingsSpec

-----------------------------------------------------------------------------
(* The administrator's page of the readers.                                *)

\* The rows of ReaderAdminTypeOK.
AdminRow == [loading : BOOLEAN, error : BOOLEAN, revision : 0 .. MaxPast,
             filter : {"all", "active", "restricted"},
             selected : Invited \cup {NoReader}, issued : 0 .. MaxPast,
             createOpen : BOOLEAN, creating : BOOLEAN]
DataRow == [Invited -> Lifecycle]

\* A task is one of the page whose detail is d: what was done has a revision, the task of
\* a mounted detail is about its reader, and a new reader was missing before.
TaskFits(t, d) ==
    /\ t.revision <= Len(past)
    /\ t.step = "done" => t.revision # 0 /\ t.reader \in Invited
    /\ t.do \in {"list", "details"} => t.step \in {"list", "details"}
    /\ t.step = "details" => t.knew
    /\ t.knew => t.do \in OfReader \cup {"details"}
    /\ t.do \in OfReader \cup {"details"} =>
         t.reader \in Invited /\ (t.mounted => t.reader = d.reader)
    /\ t.do = "create" /\ t.step = "done" =>
         \A k \in DOMAIN past : k < t.revision => past[k][t.reader] = "missing"

DetailFits(d) == d.reader = NoReader => d.known = 0 /\ d.confirm = "no"

\* Readers do not become missing again, and nothing is newer than the server's data.
PastGrows ==
    /\ admin.revision <= Len(past)
    /\ \A r \in Invited : acted[r] <= Len(past)
    /\ \A k \in DOMAIN past, r \in Invited :
         past[k][r] # "missing" => past[Len(past)][r] # "missing"

\* One task issues a credential, and only when every other one was saved.
IssuedOnce(a, ts, un) ==
    /\ \A i, j \in DOMAIN ts : Issues(ts[i]) /\ Issues(ts[j]) => i = j
    /\ \A i \in DOMAIN ts :
         Issues(ts[i]) /\ ts[i].step \in {"sent", "done", "refused"} => un = {}
    /\ un \subseteq {a.issued}

ListCurrent(a, ac) == a.error \/ \A r \in Invited : a.revision >= ac[r]
DetailCurrent(d, ac) == d.error \/ d.known = 0 \/ d.known >= ac[d.reader]

\* What the one task leaves as it is, and what it brings.
TaskQuiet(t, a, d, ac) ==
    /\ t.step # "list" => ListCurrent(a, ac)
    /\ t.do = "create" /\ t.step = "done" => a.revision < t.revision
    /\ t.step \in {"list", "details"} /\ t.revision # 0 =>
         \A r \in Invited : t.revision >= ac[r]
    /\ t.do \in OfReader /\ ~(t.mounted /\ t.knew) => d.known = 0
    /\ ~(t.mounted /\ t.knew) => DetailCurrent(d, ac)

OneTask(a, d, ts, ac) ==
    /\ Len(ts) <= 1
    /\ \A i \in DOMAIN ts : TaskQuiet(ts[i], a, d, ac)
    /\ ts = <<>> => ListCurrent(a, ac) /\ DetailCurrent(d, ac)

AdminInv ==
    /\ ReaderAdminTypeOK
    /\ PastGrows
    /\ detail.reader = Detailed(admin) /\ DetailFits(detail)
    /\ \A i \in DOMAIN tasks : TaskFits(tasks[i], detail)
    /\ overlap # "issues" => IssuedOnce(admin, tasks, unsaved)
    /\ overlap = "no" => OneTask(admin, detail, tasks, acted)

\* ReaderAdminTypeOK, part by part.
LEMMA AdminParts ==
  ReaderAdminTypeOK <=>
    /\ admin \in AdminRow /\ detail \in Detail
    /\ tasks \in Seq(Task) /\ Len(tasks) <= MaxTasks
    /\ past \in Seq(DataRow) /\ Len(past) \in 1 .. MaxPast
    /\ unsaved \subseteq 1 .. MaxPast /\ acted \in [Invited -> 0 .. MaxPast]
    /\ overlap \in {"no", "tasks", "issues"} /\ pageLost \in BOOLEAN
  BY DEF ReaderAdminTypeOK, AdminRow, DataRow

\* The effect of the selection changes the selection.
LEMMA SelectionChanges ==
  ASSUME NEW a \in AdminRow
  PROVE  \E s \in Invited \cup {NoReader} : Selected(a) = [a EXCEPT !.selected = s]
  <1>1. Filtered(a) \subseteq Invited  BY DEF Filtered, Listed
  <1>2. a.selected \in Invited \cup {NoReader}  BY DEF AdminRow
  <1>3. Filtered(a) # {} => (CHOOSE r \in Filtered(a) : TRUE) \in Invited
    BY <1>1
  <1>4. PICK s : s = IF Listed(a) = {} THEN NoReader
                     ELSE IF Filtered(a) # {} /\ a.selected \notin Filtered(a)
                     THEN CHOOSE r \in Filtered(a) : TRUE ELSE a.selected
    OBVIOUS
  <1>5. s \in Invited \cup {NoReader}  BY <1>2, <1>3, <1>4
  <1>6. Selected(a) = [a EXCEPT !.selected = s]  BY <1>4 DEF Selected
  <1> QED  BY <1>5, <1>6

\* The tasks us are the tasks ts, all of them of a detail that is gone.
Unmounted(us, ts) ==
    /\ us \in Seq(Task) /\ Len(us) = Len(ts) /\ DOMAIN us = DOMAIN ts
    /\ \A i \in DOMAIN ts :
         /\ us[i].do = ts[i].do /\ us[i].reader = ts[i].reader /\ ~us[i].mounted
         /\ us[i].knew = ts[i].knew /\ us[i].step = ts[i].step
         /\ us[i].revision = ts[i].revision

\* A detail that goes takes its tasks' marks of being mounted, and nothing else of them.
LEMMA TasksUnmounted ==
  ASSUME NEW ts \in Seq(Task), NEW us,
         us = [i \in DOMAIN ts |-> [ts[i] EXCEPT !.mounted = FALSE]]
  PROVE  Unmounted(us, ts)
  <1>1. DOMAIN us = 1 .. Len(ts) /\ DOMAIN ts = 1 .. Len(ts) /\ Len(ts) \in Nat  OBVIOUS
  <1>2. ASSUME NEW i \in 1 .. Len(ts)
        PROVE  /\ us[i] \in Task
               /\ us[i].do = ts[i].do /\ us[i].reader = ts[i].reader /\ ~us[i].mounted
               /\ us[i].knew = ts[i].knew /\ us[i].step = ts[i].step
               /\ us[i].revision = ts[i].revision
    <2>1. PICK t \in Task : t = ts[i]  OBVIOUS
    <2>2. PICK u : u = [t EXCEPT !.mounted = FALSE]  OBVIOUS
    <2>3. u = us[i]  BY <1>1, <2>1, <2>2
    <2>4. /\ u \in Task /\ u.do = t.do /\ u.reader = t.reader /\ ~u.mounted
          /\ u.knew = t.knew /\ u.step = t.step /\ u.revision = t.revision
      BY <2>2 DEF Task
    <2> QED  BY <2>1, <2>3, <2>4
  <1>3. us \in [1 .. Len(ts) -> Task]  BY <1>1, <1>2
  <1>4. us \in Seq(Task) /\ Len(us) = Len(ts)  BY <1>1, <1>3
  <1> QED  BY <1>1, <1>2, <1>4 DEF Unmounted

\* What a rendering makes of the page a, its detail d and its tasks ts.
Rendered(b, e, us, a, d, ts) ==
    /\ \E s \in Invited \cup {NoReader} : b = [a EXCEPT !.selected = s]
    /\ e \in Detail /\ us \in Seq(Task) /\ Len(us) = Len(ts)
    /\ \/ e = d /\ us = ts
       \/ e = Fresh(e.reader) /\ Unmounted(us, ts)

\* Render does what Rendered says, and the detail is the one of the selection.
LEMMA Renders ==
  ASSUME NEW a \in AdminRow, NEW d \in Detail, NEW ts \in Seq(Task), Render(a, d, ts),
         UNCHANGED past
  PROVE  /\ Rendered(admin', detail', tasks', a, d, ts)
         /\ detail'.reader = Detailed(admin)'
  <1>1. PICK s \in Invited \cup {NoReader} : Selected(a) = [a EXCEPT !.selected = s]
    BY SelectionChanges
  <1>2. PICK b : b = Selected(a)  OBVIOUS
  <1>3. PICK r : r = Detailed(b)  OBVIOUS
  <1>4. admin' = b /\ b \in AdminRow  BY <1>1, <1>2 DEF Render, AdminRow
  <1>5. r \in Invited \cup {NoReader}  BY <1>3, <1>4 DEF Detailed, AdminRow
  <1>6. r = Detailed(admin)'  BY <1>3, <1>4 DEF Detailed, Filtered, Listed
  <1>7. CASE Detailed(a) = d.reader /\ r = d.reader
    <2>1. detail' = d /\ tasks' = ts  BY <1>2, <1>3, <1>7 DEF Render
    <2> QED  BY <1>1, <1>2, <1>4, <1>6, <1>7, <2>1 DEF Rendered
  <1>8. CASE ~(Detailed(a) = d.reader /\ r = d.reader)
    <2>1. PICK us : us = [i \in DOMAIN ts |-> [ts[i] EXCEPT !.mounted = FALSE]]  OBVIOUS
    <2>2. detail' = Fresh(r) /\ tasks' = us  BY <1>2, <1>3, <1>8, <2>1 DEF Render
    <2>3. Unmounted(us, ts)  BY <2>1, TasksUnmounted
    <2>4. Fresh(r) \in Detail /\ Fresh(r).reader = r
      BY <1>5, ReaderAdminAssumption DEF Fresh, Detail
    <2> QED
      BY <1>1, <1>2, <1>4, <1>6, <2>2, <2>3, <2>4 DEF Rendered, Unmounted
  <1> QED  BY <1>7, <1>8

-----------------------------------------------------------------------------
\* What a page, a detail and tasks need for a rendering to keep AdminInv; un and ac are
\* what is unsaved and what was acted on then.
Ready(a, d, ts, un, ac) ==
    /\ a \in AdminRow /\ d \in Detail /\ ts \in Seq(Task) /\ Len(ts) <= MaxTasks
    /\ un \subseteq 1 .. MaxPast /\ ac \in [Invited -> 0 .. MaxPast]
    /\ a.revision <= Len(past) /\ \A r \in Invited : ac[r] <= Len(past)
    /\ DetailFits(d) /\ \A i \in DOMAIN ts : TaskFits(ts[i], d)
    /\ overlap # "issues" =>
         /\ un \subseteq {a.issued}
         /\ \A i \in DOMAIN ts : Issues(ts[i]) /\ ts[i].step \in {"sent", "done", "refused"} =>
              un = {} \/ \E j \in DOMAIN ts : j # i /\ Issues(ts[j])
    /\ overlap = "no" /\ Len(ts) <= 1 => OneTask(a, d, ts, ac)

\* A rendering of what is Ready keeps AdminInv.
LEMMA RenderKeeps ==
  ASSUME AdminInv, NEW a, NEW d, NEW ts, NEW un, NEW ac, Ready(a, d, ts, un, ac),
         Render(a, d, ts), UNCHANGED past, unsaved' = un, acted' = ac
  PROVE  AdminInv'
  <1>1. /\ a \in AdminRow /\ d \in Detail /\ ts \in Seq(Task) /\ Len(ts) <= MaxTasks
        /\ un \subseteq 1 .. MaxPast /\ ac \in [Invited -> 0 .. MaxPast]
    BY DEF Ready
  <1>2. /\ Rendered(admin', detail', tasks', a, d, ts)
        /\ detail'.reader = Detailed(admin)'
    BY <1>1, Renders
  <1>3. PICK b, e, us : b = admin' /\ e = detail' /\ us = tasks'  OBVIOUS
  <1>4. /\ b \in AdminRow /\ b.revision = a.revision /\ b.issued = a.issued
        /\ b.error = a.error
    BY <1>1, <1>2, <1>3 DEF Rendered, AdminRow
  <1>5. /\ e \in Detail /\ us \in Seq(Task) /\ Len(us) = Len(ts) /\ DOMAIN us = DOMAIN ts
    BY <1>1, <1>2, <1>3 DEF Rendered, Unmounted
  <1>6. /\ \/ e = d
           \/ e.known = 0 /\ e.confirm = "no" /\ ~e.error
        /\ \A i \in DOMAIN ts :
             /\ us[i].do = ts[i].do /\ us[i].reader = ts[i].reader
             /\ us[i].knew = ts[i].knew /\ us[i].step = ts[i].step
             /\ us[i].revision = ts[i].revision
             /\ (e = d /\ us[i] = ts[i]) \/ (e.known = 0 /\ ~us[i].mounted)
    <2>1. CASE e = d /\ us = ts
      BY <2>1
    <2>2. CASE e = Fresh(e.reader) /\ Unmounted(us, ts)
      <3>1. PICK r : r = e.reader  OBVIOUS
      <3>2. e.known = 0 /\ e.confirm = "no" /\ ~e.error
        BY <2>2, <3>1 DEF Fresh
      <3> QED  BY <2>2, <3>2 DEF Unmounted
    <2> QED  BY <1>2, <1>3, <2>1, <2>2 DEF Rendered
  <1>7. DetailFits(e)  BY <1>6 DEF Ready, DetailFits
  <1>8. \A i \in DOMAIN ts : TaskFits(us[i], e)
    <2> SUFFICES ASSUME NEW i \in DOMAIN ts PROVE TaskFits(us[i], e)  OBVIOUS
    <2>1. PICK t, u : t = ts[i] /\ u = us[i]  OBVIOUS
    <2>2. /\ u.do = t.do /\ u.reader = t.reader /\ u.knew = t.knew /\ u.step = t.step
          /\ u.revision = t.revision
          /\ (e = d /\ u = t) \/ ~u.mounted
      BY <1>6, <2>1
    <2>3. TaskFits(t, d)  BY <2>1 DEF Ready
    <2>4. TaskFits(u, e)  BY <2>2, <2>3 DEF TaskFits
    <2> QED  BY <2>1, <2>4
  <1>9. PICK o : o = overlap'  OBVIOUS
  <1>10. o = IF \E i, j \in DOMAIN ts : i # j /\ Issues(ts[i]) /\ Issues(ts[j]) THEN "issues"
             ELSE IF Len(ts) > 1 /\ overlap = "no" THEN "tasks" ELSE overlap
    BY <1>9 DEF Render, Overlap
  <1>11. overlap \in {"no", "tasks", "issues"}  BY AdminParts DEF AdminInv
  <1>12. o \in {"no", "tasks", "issues"}  BY <1>10, <1>11
  <1>13. ASSUME o # "issues" PROVE IssuedOnce(b, us, un)
    <2>1. overlap # "issues" /\ \A i, j \in DOMAIN ts : Issues(ts[i]) /\ Issues(ts[j]) => i = j
      BY <1>10, <1>11, <1>13
    <2>2. \A i \in DOMAIN ts : Issues(us[i]) = Issues(ts[i]) /\ us[i].step = ts[i].step
      BY <1>6 DEF Issues
    <2>3. un \subseteq {b.issued}  BY <1>4, <2>1 DEF Ready
    <2>4. \A i \in DOMAIN ts :
            Issues(ts[i]) /\ ts[i].step \in {"sent", "done", "refused"} => un = {}
      BY <2>1 DEF Ready
    <2> QED  BY <1>5, <2>1, <2>2, <2>3, <2>4 DEF IssuedOnce
  <1>14. ASSUME o = "no" PROVE OneTask(b, e, us, ac)
    <2>1. overlap = "no" /\ Len(ts) <= 1  BY <1>1, <1>10, <1>14
    <2>2. OneTask(a, d, ts, ac)  BY <2>1 DEF Ready
    <2>3. ListCurrent(a, ac) => ListCurrent(b, ac)  BY <1>4 DEF ListCurrent
    <2>4. DetailCurrent(d, ac) => DetailCurrent(e, ac)  BY <1>6 DEF DetailCurrent
    <2>5. \A i \in DOMAIN ts : TaskQuiet(us[i], b, e, ac)
      <3> SUFFICES ASSUME NEW i \in DOMAIN ts PROVE TaskQuiet(us[i], b, e, ac)  OBVIOUS
      <3>1. PICK t, u : t = ts[i] /\ u = us[i]  OBVIOUS
      <3>2. /\ u.do = t.do /\ u.reader = t.reader /\ u.knew = t.knew /\ u.step = t.step
            /\ u.revision = t.revision
            /\ (e = d /\ u = t) \/ (e.known = 0 /\ ~u.mounted)
        BY <1>6, <3>1
      <3>3. TaskQuiet(t, a, d, ac)  BY <2>2, <3>1 DEF OneTask
      <3>4. ~(u.mounted /\ u.knew) => DetailCurrent(e, ac)
        BY <2>4, <3>2, <3>3 DEF TaskQuiet, DetailCurrent
      <3>5. TaskQuiet(u, b, e, ac)
        BY <1>4, <2>3, <3>2, <3>3, <3>4 DEF TaskQuiet
      <3> QED  BY <3>1, <3>5
    <2>6. us = <<>> => ts = <<>>  BY <1>1, <1>5
    <2> QED  BY <1>5, <2>1, <2>2, <2>3, <2>4, <2>5, <2>6 DEF OneTask
  <1>15. ReaderAdminTypeOK'
    <2>1. past \in Seq(DataRow) /\ Len(past) \in 1 .. MaxPast  BY AdminParts DEF AdminInv
    <2>2. pageLost' \in BOOLEAN  BY AdminParts DEF AdminInv, Render
    <2> QED
      BY <1>1, <1>3, <1>4, <1>5, <1>9, <1>12, <2>1, <2>2 DEF ReaderAdminTypeOK, AdminRow, DataRow
  <1>16. PastGrows'
    <2>1. a.revision <= Len(past) /\ \A r \in Invited : ac[r] <= Len(past)  BY DEF Ready
    <2>2. PastGrows  BY DEF AdminInv
    <2> QED  BY <1>3, <1>4, <2>1, <2>2 DEF PastGrows
  <1>17. \A i \in DOMAIN tasks' : TaskFits(tasks[i], detail)'
    BY <1>3, <1>5, <1>8 DEF TaskFits
  <1>18. DetailFits(detail)'  BY <1>3, <1>7 DEF DetailFits
  <1>19. overlap' # "issues" => IssuedOnce(admin, tasks, unsaved)'
    BY <1>3, <1>9, <1>13 DEF IssuedOnce
  <1>20. overlap' = "no" => OneTask(admin, detail, tasks, acted)'
    BY <1>3, <1>9, <1>14 DEF OneTask, TaskQuiet, ListCurrent, DetailCurrent
  <1> QED  BY <1>2, <1>15, <1>16, <1>17, <1>18, <1>19, <1>20 DEF AdminInv

-----------------------------------------------------------------------------
\* AdminInv, in the form the proofs use it.
LEMMA AdminFacts ==
  ASSUME AdminInv
  PROVE  /\ admin \in AdminRow /\ detail \in Detail
         /\ tasks \in Seq(Task) /\ Len(tasks) <= MaxTasks /\ Len(tasks) \in Nat
         /\ DOMAIN tasks = 1 .. Len(tasks)
         /\ past \in Seq(DataRow) /\ Len(past) \in 1 .. MaxPast /\ Len(past) \in Nat
         /\ unsaved \subseteq 1 .. MaxPast /\ acted \in [Invited -> 0 .. MaxPast]
         /\ overlap \in {"no", "tasks", "issues"}
         /\ admin.revision <= Len(past) /\ \A r \in Invited : acted[r] <= Len(past)
         /\ DetailFits(detail) /\ \A i \in DOMAIN tasks : TaskFits(tasks[i], detail)
  BY AdminParts DEF AdminInv, PastGrows

\* No task is started or ends, and nothing newer is shown.
LEMMA SameTasksKeep ==
  ASSUME AdminInv, NEW a \in AdminRow, NEW d \in Detail, NEW un,
         a.revision = admin.revision, a.error = admin.error,
         d.reader = detail.reader, d.known = detail.known, d.error = detail.error,
         d.confirm # "no" => d.reader # NoReader,
         un \subseteq unsaved, overlap # "issues" => un \subseteq {a.issued},
         Render(a, d, tasks), UNCHANGED <<past, acted>>, unsaved' = un
  PROVE  AdminInv'
  <1> USE AdminFacts
  <1>1. DetailFits(d)  BY DEF DetailFits
  <1>2. \A i \in DOMAIN tasks : TaskFits(tasks[i], d)
    BY DEF TaskFits
  <1>3. overlap # "issues" =>
          \A i \in DOMAIN tasks :
            Issues(tasks[i]) /\ tasks[i].step \in {"sent", "done", "refused"} => un = {}
    BY DEF AdminInv, IssuedOnce
  <1>4. overlap = "no" => OneTask(a, d, tasks, acted)
    BY DEF AdminInv, OneTask, TaskQuiet, ListCurrent, DetailCurrent
  <1>5. PICK ac : ac = acted  OBVIOUS
  <1>6. Ready(a, d, tasks, un, ac)
    BY <1>1, <1>2, <1>3, <1>4, <1>5 DEF Ready
  <1> QED  BY <1>5, <1>6, RenderKeeps

\* A task is started.
LEMMA TaskStarted ==
  ASSUME AdminInv, NEW a \in AdminRow, NEW d \in Detail, NEW t \in Task,
         a.revision = admin.revision, a.issued = admin.issued,
         DetailFits(d), d.reader = detail.reader, TaskFits(t, d),
         t.step # "done", t.revision = 0, Issues(t) => admin.issued = 0,
         OneTask(admin, detail, <<>>, acted) => TaskQuiet(t, a, d, acted),
         Len(tasks) < MaxTasks, Render(a, d, Append(tasks, t)), UNCHANGED <<past, unsaved, acted>>
  PROVE  AdminInv'
  <1> USE AdminFacts
  <1>1. PICK ts : ts = Append(tasks, t)  OBVIOUS
  <1>2. /\ ts \in Seq(Task) /\ Len(ts) = Len(tasks) + 1
        /\ ts[Len(ts)] = t
        /\ \A j \in 1 .. Len(tasks) : j \in 1 .. Len(ts) /\ ts[j] = tasks[j]
        /\ \A j \in 1 .. Len(ts) : j \in 1 .. Len(tasks) \/ j = Len(ts)
    BY <1>1, RowAppended
  <1>3. DOMAIN ts = 1 .. Len(ts) /\ Len(ts) <= MaxTasks
    BY <1>2, ReaderAdminAssumption
  <1>4. \A i \in DOMAIN tasks : TaskFits(tasks[i], d)  BY DEF TaskFits
  <1>5. \A i \in DOMAIN ts : TaskFits(ts[i], d)
    BY <1>2, <1>3, <1>4
  <1>6. ASSUME overlap # "issues"
        PROVE  /\ unsaved \subseteq {a.issued}
               /\ \A i \in DOMAIN ts :
                    Issues(ts[i]) /\ ts[i].step \in {"sent", "done", "refused"} => unsaved = {}
    <2>1. IssuedOnce(admin, tasks, unsaved)  BY <1>6 DEF AdminInv
    <2>2. unsaved \subseteq {a.issued}  BY <2>1 DEF IssuedOnce
    <2>3. Issues(t) => unsaved = {}
      <3>1. 0 \notin unsaved  OBVIOUS
      <3> QED  BY <2>2, <3>1
    <2>4. \A i \in DOMAIN tasks :
            Issues(tasks[i]) /\ tasks[i].step \in {"sent", "done", "refused"} => unsaved = {}
      BY <2>1 DEF IssuedOnce
    <2>5. ASSUME NEW i \in DOMAIN ts, Issues(ts[i]),
                 ts[i].step \in {"sent", "done", "refused"}
          PROVE  unsaved = {}
      <3>1. CASE i \in 1 .. Len(tasks)  BY <1>2, <2>4, <2>5, <3>1
      <3>2. CASE i = Len(ts)  BY <1>2, <2>3, <2>5, <3>2
      <3> QED  BY <1>2, <1>3, <3>1, <3>2
    <2> QED  BY <2>2, <2>5
  <1>7. ASSUME overlap = "no", Len(ts) <= 1 PROVE OneTask(a, d, ts, acted)
    <2>1. Len(tasks) = 0 /\ DOMAIN tasks = {}  BY <1>2, <1>7
    <2>2. tasks = <<>>  BY <2>1
    <2>3. OneTask(admin, detail, <<>>, acted)  BY <1>7, <2>2 DEF AdminInv
    <2>4. TaskQuiet(t, a, d, acted)  BY <2>3
    <2>5. \A i \in DOMAIN ts : ts[i] = t  BY <1>2, <1>3, <2>1
    <2>6. ts # <<>>
      <3>1. 1 \in DOMAIN ts  BY <1>2, <1>3, <2>1
      <3>2. ts = <<>> => DOMAIN ts = {}  OBVIOUS
      <3> QED  BY <3>1, <3>2
    <2> QED  BY <1>7, <2>4, <2>5, <2>6 DEF OneTask
  <1>8. PICK un, ac : un = unsaved /\ ac = acted  OBVIOUS
  <1>9. Ready(a, d, ts, un, ac)
    BY <1>2, <1>3, <1>5, <1>6, <1>7, <1>8 DEF Ready
  <1>10. Render(a, d, ts)  BY <1>1
  <1> QED  BY <1>8, <1>9, <1>10, RenderKeeps

\* A task ends.
LEMMA TaskEnds ==
  ASSUME AdminInv, NEW i \in DOMAIN tasks, NEW a \in AdminRow, NEW d \in Detail,
         a.revision <= Len(past), a.issued = admin.issued,
         DetailFits(d), d.reader = detail.reader,
         TaskQuiet(tasks[i], admin, detail, acted) =>
            ListCurrent(a, acted) /\ DetailCurrent(d, acted),
         Render(a, d, RemoveAt(tasks, i)), UNCHANGED <<past, unsaved, acted>>
  PROVE  AdminInv'
  <1> USE AdminFacts
  <1>1. PICK ts : ts = RemoveAt(tasks, i)  OBVIOUS
  <1>2. ts \in Seq(Task) /\ Without(ts, tasks, i)
    BY <1>1, RowRemoved
  <1>3. /\ Len(ts) = Len(tasks) - 1
        /\ \A j \in DOMAIN ts : \E k \in DOMAIN tasks : k # i /\ ts[j] = tasks[k]
    BY <1>2 DEF Without
  <1>4. DOMAIN ts = 1 .. Len(ts) /\ Len(ts) <= MaxTasks
    BY <1>2, <1>3, ReaderAdminAssumption
  <1>5. \A j \in DOMAIN ts : TaskFits(ts[j], d)
    <2>1. \A k \in DOMAIN tasks : TaskFits(tasks[k], d)  BY DEF TaskFits
    <2> QED  BY <1>3, <2>1
  <1>6. ASSUME overlap # "issues"
        PROVE  /\ unsaved \subseteq {a.issued}
               /\ \A j \in DOMAIN ts :
                    Issues(ts[j]) /\ ts[j].step \in {"sent", "done", "refused"} => unsaved = {}
    <2>1. IssuedOnce(admin, tasks, unsaved)  BY <1>6 DEF AdminInv
    <2> QED  BY <1>3, <2>1 DEF IssuedOnce
  <1>7. ASSUME overlap = "no" PROVE OneTask(a, d, ts, acted)
    <2>1. OneTask(admin, detail, tasks, acted)  BY <1>7 DEF AdminInv
    <2>2. Len(tasks) <= 1 /\ TaskQuiet(tasks[i], admin, detail, acted)  BY <2>1 DEF OneTask
    <2>3. Len(ts) = 0 /\ DOMAIN ts = {}  BY <1>2, <1>3, <1>4, <2>2
    <2> QED  BY <2>2, <2>3 DEF OneTask
  <1>8. PICK un, ac : un = unsaved /\ ac = acted  OBVIOUS
  <1>9. Ready(a, d, ts, un, ac)
    BY <1>2, <1>4, <1>5, <1>6, <1>7, <1>8 DEF Ready
  <1>10. Render(a, d, ts)  BY <1>1
  <1> QED  BY <1>8, <1>9, <1>10, RenderKeeps

\* A task goes on: it is t from now on, after its request, and the page, the detail, what
\* is unsaved and what was acted on are a, d, un and ac.
RunsOn(i, t, ts, a, d, un, ac) ==
    /\ t \in Task /\ a \in AdminRow /\ d \in Detail /\ ac \in [Invited -> 0 .. MaxPast]
    /\ ts = [tasks EXCEPT ![i] = t] /\ t.step \in {"list", "details"}
    /\ t.do = tasks[i].do
    /\ a.revision <= Len(past) /\ \A r \in Invited : ac[r] <= Len(past)
    /\ DetailFits(d) /\ d.reader = detail.reader /\ TaskFits(t, d)
    /\ un \subseteq 1 .. MaxPast
    /\ overlap # "issues" => un \subseteq {a.issued}
    /\ un \subseteq unsaved \/ Issues(t)
    /\ TaskQuiet(tasks[i], admin, detail, acted) => TaskQuiet(t, a, d, ac)

\* Render of what RunsOn keeps AdminInv.
LEMMA TaskGoesOn ==
  ASSUME AdminInv, NEW i \in DOMAIN tasks, NEW t, NEW ts, NEW a, NEW d, NEW un, NEW ac,
         RunsOn(i, t, ts, a, d, un, ac),
         Render(a, d, ts), UNCHANGED past, unsaved' = un, acted' = ac
  PROVE  AdminInv'
  <1> USE AdminFacts
  <1>0. /\ t \in Task /\ a \in AdminRow /\ d \in Detail /\ ac \in [Invited -> 0 .. MaxPast]
        /\ ts = [tasks EXCEPT ![i] = t] /\ t.step \in {"list", "details"}
        /\ t.do = tasks[i].do
        /\ a.revision <= Len(past) /\ \A r \in Invited : ac[r] <= Len(past)
        /\ DetailFits(d) /\ d.reader = detail.reader /\ TaskFits(t, d)
        /\ un \subseteq 1 .. MaxPast
        /\ overlap # "issues" => un \subseteq {a.issued}
        /\ un \subseteq unsaved \/ Issues(t)
        /\ TaskQuiet(tasks[i], admin, detail, acted) => TaskQuiet(t, a, d, ac)
    BY DEF RunsOn
  <1> USE <1>0
  <1>1. /\ ts \in Seq(Task) /\ Len(ts) = Len(tasks) /\ DOMAIN ts = DOMAIN tasks
        /\ \A j \in DOMAIN tasks : ts[j] = IF j = i THEN t ELSE tasks[j]
    OBVIOUS
  <1>2. \A j \in DOMAIN ts : TaskFits(ts[j], d)
    <2>1. \A k \in DOMAIN tasks : TaskFits(tasks[k], d)  BY DEF TaskFits
    <2> QED  BY <1>1, <2>1
  <1>3. ASSUME overlap # "issues", NEW j \in DOMAIN ts, Issues(ts[j]),
               ts[j].step \in {"sent", "done", "refused"}
        PROVE  un = {} \/ \E k \in DOMAIN ts : k # j /\ Issues(ts[k])
    <2>1. IssuedOnce(admin, tasks, unsaved)  BY <1>3 DEF AdminInv
    <2>2. j # i /\ ts[j] = tasks[j]  BY <1>1, <1>3
    <2>3. unsaved = {}  BY <1>1, <1>3, <2>1, <2>2 DEF IssuedOnce
    <2>4. CASE Issues(t)  BY <1>1, <2>2, <2>4
    <2>5. CASE un \subseteq unsaved  BY <2>3, <2>5
    <2> QED  BY <2>4, <2>5
  <1>4. ASSUME overlap = "no" PROVE OneTask(a, d, ts, ac)
    <2>1. OneTask(admin, detail, tasks, acted)  BY <1>4 DEF AdminInv
    <2>2. Len(tasks) <= 1 /\ TaskQuiet(tasks[i], admin, detail, acted)  BY <2>1 DEF OneTask
    <2>3. \A j \in DOMAIN ts : ts[j] = t  BY <1>1, <2>2
    <2>4. ts # <<>>  BY <1>1
    <2> QED  BY <1>1, <2>2, <2>3, <2>4 DEF OneTask
  <1>5. Ready(a, d, ts, un, ac)
    BY <1>1, <1>2, <1>3, <1>4 DEF Ready
  <1> QED  BY <1>5, RenderKeeps

-----------------------------------------------------------------------------
\* A credential that is not saved is the one on the screen.
LEMMA UnsavedIsShown ==
  ASSUME AdminInv, overlap # "issues"
  PROVE  unsaved \subseteq {admin.issued}
  BY DEF AdminInv, IssuedOnce

\* The filter, the selection, the windows and the questions.
LEMMA LookingKeeps ==
  ASSUME AdminInv,
         \/ Cancel \/ OpenCreate \/ CloseCreate \/ Acknowledge
         \/ \E f \in Filters : Filter(f)
         \/ \E r \in Invited : SelectReader(r)
         \/ \E do \in Confirmed : Ask(do)
  PROVE  AdminInv'
  <1> USE AdminFacts
  <1>0. detail.confirm # "no" => detail.reader # NoReader  BY DEF DetailFits
  <1>1. CASE Cancel
    <2>1. PICK d : d = [detail EXCEPT !.confirm = "no"]  OBVIOUS
    <2>2. /\ d \in Detail /\ d.reader = detail.reader /\ d.known = detail.known
          /\ d.error = detail.error /\ d.confirm = "no"
      BY <2>1 DEF Detail
    <2>3. Render(admin, d, tasks) /\ UNCHANGED <<past, unsaved, acted>>
      BY <1>1, <2>1 DEF Cancel
    <2>4. PICK un : un = unsaved  OBVIOUS
    <2> QED  BY <2>2, <2>3, <2>4, UnsavedIsShown, SameTasksKeep
  <1>2. CASE OpenCreate
    <2>1. PICK a : a = [admin EXCEPT !.createOpen = TRUE]  OBVIOUS
    <2>2. /\ a \in AdminRow /\ a.revision = admin.revision /\ a.error = admin.error
          /\ a.issued = admin.issued
      BY <2>1 DEF AdminRow
    <2>3. Render(a, detail, tasks) /\ UNCHANGED <<past, unsaved, acted>>
      BY <1>2, <2>1 DEF OpenCreate
    <2>4. PICK un, d : un = unsaved /\ d = detail  OBVIOUS
    <2> QED  BY <1>0, <2>2, <2>3, <2>4, UnsavedIsShown, SameTasksKeep
  <1>3. CASE CloseCreate
    <2>1. PICK a : a = [admin EXCEPT !.createOpen = FALSE]  OBVIOUS
    <2>2. /\ a \in AdminRow /\ a.revision = admin.revision /\ a.error = admin.error
          /\ a.issued = admin.issued
      BY <2>1 DEF AdminRow
    <2>3. Render(a, detail, tasks) /\ UNCHANGED <<past, unsaved, acted>>
      BY <1>3, <2>1 DEF CloseCreate
    <2>4. PICK un, d : un = unsaved /\ d = detail  OBVIOUS
    <2> QED  BY <1>0, <2>2, <2>3, <2>4, UnsavedIsShown, SameTasksKeep
  <1>4. CASE Acknowledge
    <2>1. PICK a : a = [admin EXCEPT !.issued = 0]  OBVIOUS
    <2>2. /\ a \in AdminRow /\ a.revision = admin.revision /\ a.error = admin.error
      <3>1. 0 \in 0 .. MaxPast  BY ReaderAdminAssumption
      <3> QED  BY <2>1, <3>1 DEF AdminRow
    <2>3. PICK un : un = unsaved \ {admin.issued}  OBVIOUS
    <2>4. Render(a, detail, tasks) /\ UNCHANGED <<past, acted>> /\ unsaved' = un
      BY <1>4, <2>1, <2>3 DEF Acknowledge
    <2>5. overlap # "issues" => un = {}  BY <2>3, UnsavedIsShown
    <2>6. PICK d : d = detail  OBVIOUS
    <2> QED  BY <1>0, <2>2, <2>3, <2>4, <2>5, <2>6, SameTasksKeep
  <1>5. ASSUME NEW f \in Filters, Filter(f) PROVE AdminInv'
    <2>1. PICK a : a = [admin EXCEPT !.filter = f]  OBVIOUS
    <2>2. /\ a \in AdminRow /\ a.revision = admin.revision /\ a.error = admin.error
          /\ a.issued = admin.issued
      BY <2>1, ReaderAdminAssumption DEF AdminRow
    <2>3. Render(a, detail, tasks) /\ UNCHANGED <<past, unsaved, acted>>
      BY <1>5, <2>1 DEF Filter
    <2>4. PICK un, d : un = unsaved /\ d = detail  OBVIOUS
    <2> QED  BY <1>0, <2>2, <2>3, <2>4, UnsavedIsShown, SameTasksKeep
  <1>6. ASSUME NEW r \in Invited, SelectReader(r) PROVE AdminInv'
    <2>1. PICK a : a = [admin EXCEPT !.selected = r]  OBVIOUS
    <2>2. /\ a \in AdminRow /\ a.revision = admin.revision /\ a.error = admin.error
          /\ a.issued = admin.issued
      BY <2>1 DEF AdminRow
    <2>3. Render(a, detail, tasks) /\ UNCHANGED <<past, unsaved, acted>>
      BY <1>6, <2>1 DEF SelectReader
    <2>4. PICK un, d : un = unsaved /\ d = detail  OBVIOUS
    <2> QED  BY <1>0, <2>2, <2>3, <2>4, UnsavedIsShown, SameTasksKeep
  <1>7. ASSUME NEW do \in Confirmed, Ask(do) PROVE AdminInv'
    <2>1. PICK d : d = [detail EXCEPT !.confirm = do]  OBVIOUS
    <2>2. /\ d \in Detail /\ d.reader = detail.reader /\ d.known = detail.known
          /\ d.error = detail.error
      BY <2>1 DEF Detail
    <2>3. /\ Render(admin, d, tasks) /\ UNCHANGED <<past, unsaved, acted>>
          /\ d.reader # NoReader
      BY <1>7, <2>1, <2>2 DEF Ask, AtMenu, AtDetail
    <2>4. PICK un : un = unsaved  OBVIOUS
    <2> QED  BY <2>2, <2>3, <2>4, UnsavedIsShown, SameTasksKeep
  <1> QED  BY <1>1, <1>2, <1>3, <1>4, <1>5, <1>6, <1>7

\* runAction, up to its request.
LEMMA RunActionKeeps ==
  ASSUME AdminInv, NEW do \in OfReader, detail.reader # NoReader,
         do = "reissue" => admin.issued = 0, RunAction(do)
  PROVE  AdminInv'
  <1> USE AdminFacts
  <1>1. PICK k \in BOOLEAN : k = (detail.known # 0)  OBVIOUS
  <1>2. PICK r \in Invited : r = detail.reader  BY DEF Detail
  <1>3. PICK t : t = [do |-> do, reader |-> r, mounted |-> TRUE, knew |-> k,
                      step |-> "sent", revision |-> 0]
    OBVIOUS
  <1>4. PICK d : d = [detail EXCEPT !.busy = TRUE, !.error = FALSE]  OBVIOUS
  <1>5. 0 \in 0 .. MaxPast  BY ReaderAdminAssumption
  <1>6. /\ t \in Task /\ t.do = do /\ t.reader = r /\ t.mounted /\ t.knew = k
        /\ t.step = "sent" /\ t.revision = 0
    BY <1>3, <1>5 DEF Task
  <1>7. d \in Detail /\ d.reader = r /\ d.known = detail.known
    BY <1>2, <1>4 DEF Detail
  <1>8. NewTask(do, detail.known # 0, "sent") = t
    BY <1>1, <1>2, <1>3 DEF NewTask
  <1>9. /\ Render(admin, d, Append(tasks, t)) /\ UNCHANGED <<past, unsaved, acted>>
        /\ Len(tasks) < MaxTasks
    BY <1>4, <1>8 DEF RunAction, TaskRoom
  <1>10. DetailFits(d)  BY <1>2, <1>7, ReaderAdminAssumption DEF DetailFits
  <1>11. TaskFits(t, d)  BY <1>6, <1>7 DEF TaskFits, OfReader
  <1>12. Issues(t) => admin.issued = 0  BY <1>6 DEF Issues, OfReader
  <1>13. OneTask(admin, detail, <<>>, acted) => TaskQuiet(t, admin, d, acted)
    BY <1>1, <1>6, <1>7 DEF OneTask, TaskQuiet, DetailCurrent, OfReader
  <1>14. t.step # "done" /\ d.reader = detail.reader  BY <1>2, <1>6, <1>7
  <1> QED  BY <1>6, <1>7, <1>9, <1>10, <1>11, <1>12, <1>13, <1>14, TaskStarted

\* Everything that starts a task.
LEMMA StartingKeeps ==
  ASSUME AdminInv,
         \/ RetryReaders \/ LoadDetails \/ SaveReader \/ Suspend \/ Resume
         \/ RevokeReaderDevice \/ ExecuteConfirmed \/ Create
  PROVE  AdminInv'
  <1> USE AdminFacts
  <1>0. 0 \in 0 .. MaxPast  BY ReaderAdminAssumption
  <1>1. CASE SaveReader \/ Suspend \/ Resume \/ RevokeReaderDevice
    <2>1. \E do \in OfReader \ {"reissue"} : RunAction(do)
      BY <1>1 DEF SaveReader, Suspend, Resume, RevokeReaderDevice, OfReader
    <2>2. detail.reader # NoReader
      BY <1>1 DEF SaveReader, Suspend, Resume, RevokeReaderDevice, AtMenu, AtDetail
    <2> QED  BY <2>1, <2>2, RunActionKeeps
  <1>2. CASE ExecuteConfirmed
    <2>1. PICK do : do = detail.confirm  OBVIOUS
    <2>2. RunAction(do) /\ admin.issued = 0 /\ do # "no"
      BY <1>2, <2>1 DEF ExecuteConfirmed
    <2>3. do \in OfReader /\ detail.reader # NoReader
      BY <2>1, <2>2 DEF Detail, Confirmed, OfReader, DetailFits
    <2> QED  BY <2>2, <2>3, RunActionKeeps
  <1>3. CASE RetryReaders
    <2>1. PICK r \in Invited \cup {NoReader} : r = detail.reader  BY DEF Detail
    <2>2. PICK t : t = [do |-> "list", reader |-> r, mounted |-> TRUE, knew |-> FALSE,
                        step |-> "list", revision |-> 0]
      OBVIOUS
    <2>3. /\ t \in Task /\ t.do = "list" /\ ~t.knew /\ t.step = "list" /\ t.revision = 0
      BY <1>0, <2>2 DEF Task
    <2>4. PICK a : a = [admin EXCEPT !.error = FALSE]  OBVIOUS
    <2>5. a \in AdminRow /\ a.revision = admin.revision /\ a.issued = admin.issued
      BY <2>4 DEF AdminRow
    <2>6. NewTask("list", FALSE, "list") = t  BY <2>1, <2>2 DEF NewTask
    <2>7. /\ Render(a, detail, Append(tasks, t)) /\ UNCHANGED <<past, unsaved, acted>>
          /\ Len(tasks) < MaxTasks
      BY <1>3, <2>4, <2>6 DEF RetryReaders, TaskRoom
    <2>8. PICK d : d = detail  OBVIOUS
    <2>9. TaskFits(t, d)  BY <2>3 DEF TaskFits, OfReader
    <2>10. OneTask(admin, detail, <<>>, acted) => TaskQuiet(t, a, d, acted)
      BY <2>3, <2>8 DEF OneTask, TaskQuiet, OfReader
    <2>11. ~Issues(t) /\ t.step # "done"  BY <2>3 DEF Issues
    <2> QED  BY <2>3, <2>5, <2>7, <2>8, <2>9, <2>10, <2>11, TaskStarted
  <1>4. CASE LoadDetails
    <2>0. detail.reader # NoReader  BY <1>4 DEF LoadDetails, MayRead, AtDetail
    <2>1. PICK r \in Invited : r = detail.reader  BY <2>0 DEF Detail
    <2>2. PICK t : t = [do |-> "details", reader |-> r, mounted |-> TRUE, knew |-> TRUE,
                        step |-> "details", revision |-> 0]
      OBVIOUS
    <2>3. /\ t \in Task /\ t.do = "details" /\ t.knew /\ t.mounted /\ t.step = "details"
          /\ t.revision = 0 /\ t.reader = r
      BY <1>0, <2>2 DEF Task
    <2>4. PICK d : d = [detail EXCEPT !.reading = TRUE, !.error = FALSE]  OBVIOUS
    <2>5. d \in Detail /\ d.reader = r  BY <2>1, <2>4 DEF Detail
    <2>6. NewTask("details", TRUE, "details") = t  BY <2>1, <2>2 DEF NewTask
    <2>7. /\ Render(admin, d, Append(tasks, t)) /\ UNCHANGED <<past, unsaved, acted>>
          /\ Len(tasks) < MaxTasks
      BY <1>4, <2>4, <2>6 DEF LoadDetails, TaskRoom
    <2>8. DetailFits(d)  BY <2>1, <2>5, ReaderAdminAssumption DEF DetailFits
    <2>9. TaskFits(t, d)  BY <2>3, <2>5 DEF TaskFits, OfReader
    <2>10. OneTask(admin, detail, <<>>, acted) => TaskQuiet(t, admin, d, acted)
      BY <2>3 DEF OneTask, TaskQuiet, OfReader
    <2>11. ~Issues(t) /\ t.step # "done" /\ d.reader = detail.reader
      BY <2>1, <2>3, <2>5 DEF Issues
    <2> QED  BY <2>3, <2>5, <2>7, <2>8, <2>9, <2>10, <2>11, TaskStarted
  <1>5. CASE Create
    <2>1. PICK r \in Invited \cup {NoReader} : r = detail.reader  BY DEF Detail
    <2>2. PICK t : t = [do |-> "create", reader |-> r, mounted |-> TRUE, knew |-> FALSE,
                        step |-> "sent", revision |-> 0]
      OBVIOUS
    <2>3. /\ t \in Task /\ t.do = "create" /\ ~t.knew /\ t.step = "sent" /\ t.revision = 0
      BY <1>0, <2>2 DEF Task
    <2>4. PICK a : a = [admin EXCEPT !.creating = TRUE]  OBVIOUS
    <2>5. /\ a \in AdminRow /\ a.revision = admin.revision /\ a.issued = admin.issued
          /\ a.error = admin.error
      BY <2>4 DEF AdminRow
    <2>6. NewTask("create", FALSE, "sent") = t  BY <2>1, <2>2 DEF NewTask
    <2>7. /\ Render(a, detail, Append(tasks, t)) /\ UNCHANGED <<past, unsaved, acted>>
          /\ Len(tasks) < MaxTasks /\ admin.issued = 0
      BY <1>5, <2>4, <2>6 DEF Create, TaskRoom
    <2>8. PICK d : d = detail  OBVIOUS
    <2>9. TaskFits(t, d)  BY <2>3 DEF TaskFits, OfReader
    <2>10. OneTask(admin, detail, <<>>, acted) => TaskQuiet(t, a, d, acted)
      BY <2>3, <2>5, <2>8 DEF OneTask, TaskQuiet, OfReader, ListCurrent
    <2>11. t.step # "done"  BY <2>3
    <2> QED  BY <2>3, <2>5, <2>7, <2>8, <2>9, <2>10, <2>11, TaskStarted
  <1> QED  BY <1>1, <1>2, <1>3, <1>4, <1>5

\* The reader of a detail is one of the list, and a reader that was created since is not.
LEMMA CreatedIsNotDetailed ==
  ASSUME AdminInv, NEW t, TaskFits(t, detail), t.do = "create", t.step = "done",
         admin.revision < t.revision, detail.reader \in Invited
  PROVE  detail.reader # t.reader
  <1>1. detail.reader = Detailed(admin)  BY DEF AdminInv
  <1>2. detail.reader \in Filtered(admin)
    BY <1>1, ReaderAdminAssumption DEF Detailed
  <1>3. detail.reader \in Listed(admin)  BY <1>2 DEF Filtered
  <1>4. admin.revision # 0 /\ past[admin.revision][detail.reader] # "missing"
    BY <1>3 DEF Listed
  <1>5. admin.revision \in DOMAIN past
    BY <1>4, AdminFacts DEF AdminRow
  <1> QED  BY <1>4, <1>5 DEF TaskFits

\* The action is done.
LEMMA ActionDoneKeeps ==
  ASSUME AdminInv, NEW i \in DOMAIN tasks, ActionDone(i)
  PROVE  AdminInv'
  <1> USE AdminFacts
  <1>1. PICK t \in Task : t = tasks[i]  OBVIOUS
  <1>2. TaskFits(t, detail) /\ t.step = "done"  BY <1>1 DEF ActionDone
  <1>3. /\ t.revision \in 1 .. MaxPast /\ t.revision <= Len(past) /\ t.reader \in Invited
        /\ t.do \in OfReader \cup {"create"}
    BY <1>2 DEF TaskFits, Task
  <1>4. 0 \in 0 .. MaxPast  BY ReaderAdminAssumption
  <1>5. PICK u : u = [t EXCEPT !.step = "list", !.revision = 0]  OBVIOUS
  <1>6. /\ u \in Task /\ u.do = t.do /\ u.reader = t.reader /\ u.mounted = t.mounted
        /\ u.knew = t.knew /\ u.step = "list" /\ u.revision = 0
    BY <1>4, <1>5 DEF Task
  <1>7. PICK n \in 0 .. MaxPast : n = IF Issues(t) THEN t.revision ELSE admin.issued
    BY <1>3 DEF AdminRow
  <1>8. PICK c \in BOOLEAN : c = (admin.createOpen /\ t.do # "create")  OBVIOUS
  <1>9. PICK s \in Invited \cup {NoReader} :
            s = IF t.do = "create" THEN t.reader ELSE admin.selected
    BY <1>3 DEF AdminRow
  <1>10. PICK a : a = [admin EXCEPT !.error = FALSE, !.issued = n, !.createOpen = c,
                                    !.selected = s]
    OBVIOUS
  <1>11. a \in AdminRow /\ a.revision = admin.revision /\ a.issued = n /\ ~a.error
    BY <1>10 DEF AdminRow
  <1>12. PICK un : un = IF Issues(t) THEN unsaved \cup {t.revision} ELSE unsaved  OBVIOUS
  <1>13. PICK ac : ac = [acted EXCEPT ![t.reader] = t.revision]  OBVIOUS
  <1>14. PICK ts : ts = [tasks EXCEPT ![i] = u]  OBVIOUS
  <1>15. /\ Render(a, detail, ts) /\ UNCHANGED past /\ unsaved' = un /\ acted' = ac
    <2>1. [tasks EXCEPT ![i].step = "list", ![i].revision = 0] = ts
      BY <1>1, <1>5, <1>14
    <2> QED
      BY <1>1, <1>7, <1>8, <1>9, <1>10, <1>12, <1>13, <2>1 DEF ActionDone
  <1>16. /\ ac \in [Invited -> 0 .. MaxPast] /\ \A r \in Invited : ac[r] <= Len(past)
         /\ \A r \in Invited : r # t.reader => ac[r] = acted[r]
    BY <1>3, <1>13
  <1>17. TaskFits(u, detail)  BY <1>2, <1>6 DEF TaskFits
  <1>18. un \subseteq 1 .. MaxPast /\ (un \subseteq unsaved \/ Issues(u))
    BY <1>3, <1>6, <1>12 DEF Issues
  <1>19. ASSUME overlap # "issues" PROVE un \subseteq {a.issued}
    <2>1. IssuedOnce(admin, tasks, unsaved)  BY <1>19 DEF AdminInv
    <2>2. Issues(t) => unsaved = {}  BY <1>1, <1>2, <2>1 DEF IssuedOnce
    <2> QED  BY <1>7, <1>11, <1>12, <2>1, <2>2 DEF IssuedOnce
  <1>20. ASSUME TaskQuiet(tasks[i], admin, detail, acted)
         PROVE  TaskQuiet(u, a, detail, ac)
    <2>1. TaskQuiet(t, admin, detail, acted)  BY <1>1, <1>20
    <2>2. ASSUME ~(t.mounted /\ t.knew) PROVE DetailCurrent(detail, ac)
      <3>1. CASE t.do \in OfReader
        BY <2>1, <2>2, <3>1 DEF TaskQuiet, DetailCurrent
      <3>2. CASE t.do = "create"
        <4>1. DetailCurrent(detail, acted)  BY <2>1, <2>2 DEF TaskQuiet
        <4>2. CASE detail.reader = NoReader  BY <4>2 DEF DetailFits, DetailCurrent
        <4>3. CASE detail.reader \in Invited
          <5>1. admin.revision < t.revision  BY <1>2, <2>1, <3>2 DEF TaskQuiet
          <5>2. detail.reader # t.reader
            BY <1>2, <3>2, <4>3, <5>1, CreatedIsNotDetailed
          <5> QED  BY <1>16, <4>1, <4>3, <5>2 DEF DetailCurrent
        <4> QED  BY <4>2, <4>3 DEF Detail
      <3> QED  BY <1>3, <3>1, <3>2
    <2> QED  BY <1>6, <2>1, <2>2 DEF TaskQuiet
  <1>21. PICK d : d = detail  OBVIOUS
  <1>22. /\ d \in Detail /\ DetailFits(d) /\ d.reader = detail.reader /\ TaskFits(u, d)
         /\ Render(a, d, ts)
         /\ TaskQuiet(tasks[i], admin, detail, acted) => TaskQuiet(u, a, d, ac)
    BY <1>15, <1>17, <1>20, <1>21
  <1>23. u.step \in {"list", "details"} /\ u.do = tasks[i].do /\ a.revision <= Len(past)
    BY <1>1, <1>6, <1>11
  <1> QED
    <2>1. RunsOn(i, u, ts, a, d, un, ac)
      BY <1>6, <1>11, <1>14, <1>16, <1>18, <1>19, <1>22, <1>23 DEF RunsOn
    <2> QED  BY <1>15, <1>22, <2>1, TaskGoesOn

\* An action is refused, or lost.
LEMMA ActionFailsKeeps ==
  ASSUME AdminInv, NEW i \in DOMAIN tasks, ActionFails(i)
  PROVE  AdminInv'
  <1> USE AdminFacts
  <1>1. PICK t \in Task : t = tasks[i]  OBVIOUS
  <1>2. TaskFits(t, detail) /\ t.step \in {"sent", "done", "refused"}
    BY <1>1 DEF ActionFails
  <1>3. t.do \in OfReader \cup {"create"}
    BY <1>2 DEF TaskFits, Task
  <1>4. CASE t.do = "create"
    <2>1. PICK a : a = [admin EXCEPT !.creating = FALSE]  OBVIOUS
    <2>2. /\ a \in AdminRow /\ a.revision = admin.revision /\ a.issued = admin.issued
          /\ a.error = admin.error
      BY <2>1 DEF AdminRow
    <2>3. PICK d : d = detail  OBVIOUS
    <2>4. Render(a, d, RemoveAt(tasks, i)) /\ UNCHANGED <<past, unsaved, acted>>
      BY <1>1, <1>4, <2>1, <2>3 DEF ActionFails
    <2>5. ~t.knew  BY <1>2, <1>4 DEF TaskFits, OfReader
    <2>6. TaskQuiet(tasks[i], admin, detail, acted) =>
             ListCurrent(a, acted) /\ DetailCurrent(d, acted)
      BY <1>1, <1>2, <2>2, <2>3, <2>5 DEF TaskQuiet, ListCurrent
    <2> QED  BY <2>2, <2>3, <2>4, <2>6, TaskEnds
  <1>5. CASE t.do \in OfReader
    <2>1. PICK d : d = Own(t, detail, [detail EXCEPT !.busy = FALSE, !.error = TRUE])
      OBVIOUS
    <2>2. /\ d \in Detail /\ d.reader = detail.reader /\ d.known = detail.known
          /\ d.confirm = detail.confirm /\ (t.mounted => d.error)
          /\ (~t.mounted => d.error = detail.error)
      BY <2>1 DEF Own, Detail
    <2>3. PICK a : a = admin  OBVIOUS
    <2>4. Render(a, d, RemoveAt(tasks, i)) /\ UNCHANGED <<past, unsaved, acted>>
      <3>1. t.do # "create"  BY <1>5 DEF OfReader
      <3> QED  BY <1>1, <2>1, <2>3, <3>1 DEF ActionFails
    <2>5. DetailFits(d)  BY <2>2 DEF DetailFits
    <2>6. TaskQuiet(tasks[i], admin, detail, acted) =>
             ListCurrent(a, acted) /\ DetailCurrent(d, acted)
      BY <1>1, <1>2, <2>2, <2>3 DEF TaskQuiet, DetailCurrent
    <2> QED  BY <2>2, <2>3, <2>4, <2>5, <2>6, TaskEnds
  <1> QED  BY <1>3, <1>4, <1>5

\* What follows the list.
LEMMA AfterListKeeps ==
  ASSUME AdminInv, NEW i \in DOMAIN tasks, NEW a \in AdminRow, tasks[i].step = "list",
         a.revision <= Len(past), a.issued = admin.issued,
         TaskQuiet(tasks[i], admin, detail, acted) => ListCurrent(a, acted),
         AfterList(i, a), UNCHANGED <<past, unsaved, acted>>
  PROVE  AdminInv'
  <1> USE AdminFacts
  <1>1. PICK t \in Task : t = tasks[i]  OBVIOUS
  <1>2. TaskFits(t, detail) /\ t.step = "list"  BY <1>1
  <1>3. CASE t.knew
    <2>1. 0 \in 0 .. MaxPast  BY ReaderAdminAssumption
    <2>2. PICK u : u = [t EXCEPT !.step = "details", !.revision = 0]  OBVIOUS
    <2>3. /\ u \in Task /\ u.do = t.do /\ u.reader = t.reader /\ u.mounted = t.mounted
          /\ u.knew = t.knew /\ u.step = "details" /\ u.revision = 0
      BY <2>1, <2>2 DEF Task
    <2>4. PICK d : d = Own(t, detail, [detail EXCEPT !.reading = TRUE, !.error = FALSE])
      OBVIOUS
    <2>5. /\ d \in Detail /\ d.reader = detail.reader /\ d.known = detail.known
          /\ d.confirm = detail.confirm /\ (~t.mounted => d = detail)
      BY <2>4 DEF Own, Detail
    <2>6. PICK ts : ts = [tasks EXCEPT ![i] = u]  OBVIOUS
    <2>7. Render(a, d, ts)
      <3>1. [tasks EXCEPT ![i].step = "details", ![i].revision = 0] = ts
        BY <1>1, <2>2, <2>6
      <3> QED  BY <1>1, <1>3, <2>4, <3>1 DEF AfterList
    <2>8. DetailFits(d)  BY <2>5 DEF DetailFits
    <2>9. TaskFits(u, d)  BY <1>2, <1>3, <2>3, <2>5 DEF TaskFits
    <2>10. ASSUME TaskQuiet(t, admin, detail, acted) PROVE TaskQuiet(u, a, d, acted)
      <3>1. ListCurrent(a, acted)  BY <1>1, <2>10
      <3>2. t.do \in OfReader /\ ~(t.mounted /\ t.knew) => d.known = 0
        BY <2>5, <2>10 DEF TaskQuiet
      <3>3. ~(t.mounted /\ t.knew) => DetailCurrent(d, acted)
        BY <1>3, <2>5, <2>10 DEF TaskQuiet
      <3> QED  BY <2>3, <3>1, <3>2, <3>3 DEF TaskQuiet
    <2>11. PICK un, ac : un = unsaved /\ ac = acted  OBVIOUS
    <2>12. RunsOn(i, u, ts, a, d, un, ac)
      BY <1>1, <2>3, <2>5, <2>6, <2>8, <2>9, <2>10, <2>11, UnsavedIsShown DEF RunsOn
    <2> QED  BY <2>7, <2>11, <2>12, TaskGoesOn
  <1>4. CASE ~t.knew
    <2>1. PICK b : b = EndsCreate(t, a)  OBVIOUS
    <2>2. /\ b \in AdminRow /\ b.revision = a.revision /\ b.issued = a.issued
          /\ b.error = a.error
      BY <2>1 DEF EndsCreate, AdminRow
    <2>3. PICK d : d = ActionEnds(t, detail, TRUE)  OBVIOUS
    <2>4. /\ d \in Detail /\ d.reader = detail.reader /\ d.known = detail.known
          /\ d.error = detail.error /\ d.confirm \in {"no", detail.confirm}
      BY <2>3 DEF ActionEnds, Own, Detail
    <2>5. Render(b, d, RemoveAt(tasks, i))
      BY <1>1, <1>4, <2>1, <2>3 DEF AfterList
    <2>6. DetailFits(d)  BY <2>4 DEF DetailFits
    <2>7. TaskQuiet(tasks[i], admin, detail, acted) =>
             ListCurrent(b, acted) /\ DetailCurrent(d, acted)
      BY <1>1, <1>4, <2>2, <2>4 DEF TaskQuiet, ListCurrent, DetailCurrent
    <2> QED  BY <2>2, <2>4, <2>5, <2>6, <2>7, TaskEnds
  <1> QED  BY <1>3, <1>4

\* The list arrives, or does not.
LEMMA ListKeeps ==
  ASSUME AdminInv, NEW i \in DOMAIN tasks, ListArrives(i) \/ ListFails(i)
  PROVE  AdminInv'
  <1> USE AdminFacts
  <1>1. PICK t \in Task : t = tasks[i]  OBVIOUS
  <1>2. TaskFits(t, detail) /\ t.step = "list"  BY <1>1 DEF ListArrives, ListFails
  <1>3. CASE ListArrives(i)
    <2>1. PICK a : a = [admin EXCEPT !.loading = FALSE, !.revision = t.revision]  OBVIOUS
    <2>2. a \in AdminRow /\ a.revision = t.revision /\ a.issued = admin.issued
      <3>1. t.revision \in 0 .. MaxPast  BY DEF Task
      <3> QED  BY <2>1, <3>1 DEF AdminRow
    <2>3. AfterList(i, a) /\ UNCHANGED <<past, unsaved, acted>> /\ t.revision # 0
      BY <1>1, <1>3, <2>1 DEF ListArrives
    <2>4. a.revision <= Len(past)  BY <1>2, <2>2 DEF TaskFits
    <2>5. TaskQuiet(tasks[i], admin, detail, acted) => ListCurrent(a, acted)
      BY <1>1, <1>2, <2>2, <2>3 DEF TaskQuiet, ListCurrent
    <2> QED  BY <1>1, <1>2, <2>2, <2>3, <2>4, <2>5, AfterListKeeps
  <1>4. CASE ListFails(i)
    <2>1. PICK a : a = [admin EXCEPT !.loading = FALSE, !.error = TRUE]  OBVIOUS
    <2>2. /\ a \in AdminRow /\ a.revision = admin.revision /\ a.issued = admin.issued
          /\ a.error
      BY <2>1 DEF AdminRow
    <2>3. AfterList(i, a) /\ UNCHANGED <<past, unsaved, acted>>
      BY <1>1, <1>4, <2>1 DEF ListFails
    <2>4. ListCurrent(a, acted)  BY <2>2 DEF ListCurrent
    <2> QED  BY <1>1, <1>2, <2>2, <2>3, <2>4, AfterListKeeps
  <1> QED  BY <1>3, <1>4

\* The devices and events arrive, or do not.
LEMMA DetailsKeep ==
  ASSUME AdminInv, NEW i \in DOMAIN tasks, DetailsArrive(i) \/ DetailsFail(i)
  PROVE  AdminInv'
  <1> USE AdminFacts
  <1>1. PICK t \in Task : t = tasks[i]  OBVIOUS
  <1>2. TaskFits(t, detail) /\ t.step = "details"  BY <1>1 DEF DetailsArrive, DetailsFail
  <1>3. t.mounted => detail.reader \in Invited /\ detail.reader # NoReader
    BY <1>2, ReaderAdminAssumption DEF TaskFits
  <1>4. PICK d1 : d1 = IF DetailsArrive(i)
                       THEN Own(t, detail, [detail EXCEPT !.known = t.revision,
                                                          !.reading = FALSE])
                       ELSE Own(t, detail, [detail EXCEPT !.error = TRUE, !.reading = FALSE])
    OBVIOUS
  <1>5. PICK d : d = ActionEnds(t, d1, TRUE)  OBVIOUS
  <1>6. PICK a : a = admin  OBVIOUS
  <1>7. Render(a, d, RemoveAt(tasks, i)) /\ UNCHANGED <<past, unsaved, acted>>
    BY <1>1, <1>4, <1>5, <1>6 DEF DetailsArrive, DetailsFail
  <1>8. t.revision \in 0 .. MaxPast  BY DEF Task
  <1>9. /\ d1 \in Detail /\ d1.reader = detail.reader /\ d1.confirm = detail.confirm
        /\ (~t.mounted => d1 = detail)
        /\ (t.mounted => d1.error \/ (DetailsArrive(i) /\ d1.known = t.revision))
    BY <1>4, <1>8 DEF Own, Detail
  <1>10. /\ d \in Detail /\ d.reader = d1.reader /\ d.known = d1.known
         /\ d.error = d1.error /\ d.confirm \in {"no", d1.confirm}
    BY <1>5, <1>9 DEF ActionEnds, Own, Detail
  <1>11. DetailFits(d)  BY <1>3, <1>9, <1>10 DEF DetailFits
  <1>12. ASSUME TaskQuiet(t, admin, detail, acted)
         PROVE  ListCurrent(a, acted) /\ DetailCurrent(d, acted)
    <2>1. ListCurrent(a, acted)  BY <1>2, <1>6, <1>12 DEF TaskQuiet
    <2>2. CASE ~t.mounted
      <3>1. DetailCurrent(detail, acted)  BY <1>12, <2>2 DEF TaskQuiet
      <3>2. /\ d.reader = detail.reader /\ d.known = detail.known
            /\ d.error = detail.error
        BY <1>9, <1>10, <2>2
      <3> QED  BY <2>1, <3>1, <3>2 DEF DetailCurrent
    <2>3. CASE t.mounted /\ DetailsArrive(i)
      <3>1. t.revision # 0  BY <1>1, <2>3 DEF DetailsArrive
      <3>2. t.revision >= acted[detail.reader]
        BY <1>2, <1>3, <1>12, <2>3, <3>1 DEF TaskQuiet
      <3> QED  BY <1>9, <1>10, <2>1, <2>3, <3>2 DEF DetailCurrent
    <2>4. CASE t.mounted /\ ~DetailsArrive(i)
      BY <1>9, <1>10, <2>1, <2>4 DEF DetailCurrent
    <2> QED  BY <2>1, <2>2, <2>3, <2>4
  <1> QED  BY <1>1, <1>6, <1>7, <1>9, <1>10, <1>11, <1>12, TaskEnds

-----------------------------------------------------------------------------
\* The server's data become p: they are as they were, or have one revision more.
Grown(p) ==
    /\ p \in Seq(DataRow) /\ Len(p) \in 1 .. MaxPast /\ Len(p) >= Len(past)
    /\ \A k \in DOMAIN past : k \in DOMAIN p /\ p[k] = past[k]
    /\ \A k \in DOMAIN p, r \in Invited : p[k][r] # "missing" => p[Len(p)][r] # "missing"

\* What the server does with the request of a task keeps AdminInv.
LEMMA ServerKeeps ==
  ASSUME AdminInv, NEW i \in DOMAIN tasks, NEW u \in Task, NEW p, Grown(p),
         tasks' = [tasks EXCEPT ![i] = u], past' = p,
         UNCHANGED <<admin, detail, unsaved, acted, overlap, pageLost>>,
         u.do = tasks[i].do, TaskFits(u, detail)',
         u.step \in {"sent", "done", "refused"} =>
            tasks[i].step \in {"sent", "done", "refused"},
         TaskQuiet(tasks[i], admin, detail, acted) => TaskQuiet(u, admin, detail, acted)
  PROVE  AdminInv'
  <1> USE AdminFacts
  <1>1. PICK ts : ts = tasks'  OBVIOUS
  <1>2. /\ ts \in Seq(Task) /\ Len(ts) = Len(tasks) /\ DOMAIN ts = DOMAIN tasks
        /\ \A j \in DOMAIN tasks : ts[j] = IF j = i THEN u ELSE tasks[j]
    BY <1>1
  <1>3. ReaderAdminTypeOK'
    <2>1. pageLost' \in BOOLEAN  BY AdminParts DEF AdminInv
    <2> QED  BY <1>1, <1>2, <2>1 DEF Grown, ReaderAdminTypeOK, AdminRow, DataRow
  <1>4. PastGrows'
    BY DEF Grown, PastGrows, AdminRow
  <1>5. detail'.reader = Detailed(admin)'
    <2>1. PICK k : k = admin.revision  OBVIOUS
    <2>2. k # 0 => past'[k] = past[k]
      BY <2>1 DEF Grown, AdminRow
    <2>3. Listed(admin)' = Listed(admin)  BY <2>1, <2>2 DEF Listed
    <2>4. \A r \in Listed(admin) : k # 0  BY <2>1 DEF Listed
    <2>5. Filtered(admin)' = Filtered(admin)
      BY <2>1, <2>2, <2>3, <2>4 DEF Filtered
    <2>6. Detailed(admin)' = Detailed(admin)  BY <2>5 DEF Detailed
    <2> QED  BY <2>6 DEF AdminInv
  <1>6. DetailFits(detail)'  BY DEF DetailFits
  <1>7. \A j \in DOMAIN tasks' : TaskFits(tasks[j], detail)'
    <2> SUFFICES ASSUME NEW j \in DOMAIN tasks PROVE TaskFits(tasks[j], detail)'
      BY <1>1, <1>2
    <2>1. CASE j = i
      <3>1. tasks'[j] = u  BY <1>1, <1>2, <2>1
      <3> QED  BY <3>1 DEF TaskFits
    <2>2. CASE j # i
      <3>1. PICK t \in Task : t = tasks[j]  OBVIOUS
      <3>2. tasks'[j] = t  BY <1>1, <1>2, <2>2, <3>1
      <3>3. TaskFits(t, detail)  BY <3>1
      <3>4. \A k \in DOMAIN p : k < t.revision => k \in DOMAIN past /\ p[k] = past[k]
        BY <3>3 DEF TaskFits, Grown, Task
      <3>5. t.revision <= Len(p)  BY <3>3 DEF TaskFits, Grown, Task
      <3> QED  BY <3>2, <3>3, <3>4, <3>5 DEF TaskFits
    <2> QED  BY <2>1, <2>2
  <1>8. ASSUME overlap # "issues" PROVE IssuedOnce(admin, tasks, unsaved)'
    <2>1. IssuedOnce(admin, tasks, unsaved)  BY <1>8 DEF AdminInv
    <2>2. \A j \in DOMAIN tasks :
            /\ Issues(ts[j]) = Issues(tasks[j])
            /\ ts[j].step \in {"sent", "done", "refused"} =>
                 tasks[j].step \in {"sent", "done", "refused"}
      BY <1>2 DEF Issues
    <2>3. IssuedOnce(admin, ts, unsaved)  BY <1>2, <2>1, <2>2 DEF IssuedOnce
    <2> QED  BY <1>1, <2>3 DEF IssuedOnce
  <1>9. ASSUME overlap = "no" PROVE OneTask(admin, detail, tasks, acted)'
    <2>1. OneTask(admin, detail, tasks, acted)  BY <1>9 DEF AdminInv
    <2>2. Len(tasks) <= 1 /\ TaskQuiet(u, admin, detail, acted)  BY <2>1 DEF OneTask
    <2>3. \A j \in DOMAIN ts : ts[j] = u  BY <1>2, <2>2
    <2>4. ts # <<>>  BY <1>2
    <2>5. OneTask(admin, detail, ts, acted)
      BY <1>2, <2>2, <2>3, <2>4 DEF OneTask
    <2> QED  BY <1>1, <2>5 DEF OneTask, TaskQuiet, ListCurrent, DetailCurrent
  <1> QED  BY <1>3, <1>4, <1>5, <1>6, <1>7, <1>8, <1>9 DEF AdminInv

\* The server answers a load.
LEMMA ServerListsKeeps ==
  ASSUME AdminInv, NEW i \in DOMAIN tasks, ServerLists(i)
  PROVE  AdminInv'
  <1> USE AdminFacts
  <1>1. PICK t \in Task : t = tasks[i]  OBVIOUS
  <1>2. PICK n \in 1 .. MaxPast : n = Len(past)  OBVIOUS
  <1>3. PICK u : u = [t EXCEPT !.revision = n]  OBVIOUS
  <1>4. /\ u \in Task /\ u.do = t.do /\ u.reader = t.reader /\ u.mounted = t.mounted
        /\ u.knew = t.knew /\ u.step = t.step /\ u.revision = n
    <2>1. n \in 0 .. MaxPast  BY <1>2
    <2> QED  BY <1>3, <2>1 DEF Task
  <1>5. PICK p : p = past  OBVIOUS
  <1>6. /\ tasks' = [tasks EXCEPT ![i] = u] /\ past' = p
        /\ UNCHANGED <<admin, detail, unsaved, acted, overlap, pageLost>>
        /\ t.step \in {"list", "details"}
    BY <1>1, <1>2, <1>3, <1>5 DEF ServerLists
  <1>7. Grown(p)  BY <1>5 DEF Grown, AdminInv, PastGrows
  <1>8. TaskFits(t, detail)  BY <1>1
  <1>9. TaskFits(u, detail)'
    BY <1>2, <1>4, <1>5, <1>6, <1>8 DEF TaskFits
  <1>10. ASSUME TaskQuiet(t, admin, detail, acted) PROVE TaskQuiet(u, admin, detail, acted)
    <2>1. \A r \in Invited : n >= acted[r]  BY <1>2
    <2> QED  BY <1>4, <1>6, <1>10, <2>1 DEF TaskQuiet
  <1>11. u.do = tasks[i].do /\ ~(u.step \in {"sent", "done", "refused"})
    BY <1>1, <1>4, <1>6
  <1>12. TaskQuiet(tasks[i], admin, detail, acted) => TaskQuiet(u, admin, detail, acted)
    BY <1>1, <1>10
  <1> QED  BY <1>4, <1>6, <1>7, <1>9, <1>11, <1>12, ServerKeeps

\* What an action makes of a credential.
LEMMA AfterAction ==
  ASSUME NEW do, NEW l \in Lifecycle
  PROVE  /\ After(do, l) \in Lifecycle
         /\ l # "missing" => After(do, l) # "missing"
  BY DEF After, Lifecycle

\* The server does an action, or refuses it.
LEMMA ServerActsKeeps ==
  ASSUME AdminInv, NEW i \in DOMAIN tasks, ServerActs(i)
  PROVE  AdminInv'
  <1> USE AdminFacts
  <1>1. PICK t \in Task : t = tasks[i]  OBVIOUS
  <1>2. TaskFits(t, detail) /\ t.step = "sent"  BY <1>1 DEF ServerActs
  <1>3. t.do \in OfReader \cup {"create"}  BY <1>2 DEF TaskFits, Task
  <1>4. CASE tasks' = [tasks EXCEPT ![i].step = "refused"] /\ UNCHANGED past
    <2>1. PICK u : u = [t EXCEPT !.step = "refused"]  OBVIOUS
    <2>2. /\ u \in Task /\ u.do = t.do /\ u.reader = t.reader /\ u.mounted = t.mounted
          /\ u.knew = t.knew /\ u.step = "refused" /\ u.revision = t.revision
      BY <2>1 DEF Task
    <2>3. PICK p : p = past  OBVIOUS
    <2>4. /\ tasks' = [tasks EXCEPT ![i] = u] /\ past' = p
          /\ UNCHANGED <<admin, detail, unsaved, acted, overlap, pageLost>>
      BY <1>1, <1>4, <2>1, <2>3 DEF ServerActs
    <2>5. Grown(p)  BY <2>3 DEF Grown, AdminInv, PastGrows
    <2>6. TaskFits(u, detail)'
      BY <1>2, <1>3, <2>2, <2>3, <2>4 DEF TaskFits, OfReader
    <2>7. ASSUME TaskQuiet(t, admin, detail, acted) PROVE TaskQuiet(u, admin, detail, acted)
      BY <1>2, <2>2, <2>7 DEF TaskQuiet
    <2>8. /\ u.do = tasks[i].do /\ tasks[i].step \in {"sent", "done", "refused"}
          /\ TaskQuiet(tasks[i], admin, detail, acted) => TaskQuiet(u, admin, detail, acted)
      BY <1>1, <1>2, <2>2, <2>7
    <2> QED  BY <2>2, <2>4, <2>5, <2>6, <2>8, ServerKeeps
  <1>5. ASSUME NEW r \in Invited, Len(past) < MaxPast,
               IF tasks[i].do = "create" THEN past[Len(past)][r] = "missing"
               ELSE r = tasks[i].reader,
               past' = Append(past, [past[Len(past)] EXCEPT ![r] =
                              IF tasks[i].do = "create" THEN "active"
                              ELSE After(tasks[i].do, @)]),
               tasks' = [tasks EXCEPT ![i].step = "done", ![i].reader = r,
                                      ![i].revision = Len(past')]
        PROVE  AdminInv'
    <2>1. PICK last \in DataRow : last = past[Len(past)]  OBVIOUS
    <2>2. PICK l : l = IF t.do = "create" THEN "active" ELSE After(t.do, last[r])  OBVIOUS
    <2>3. l \in Lifecycle /\ (last[r] # "missing" => l # "missing")
      <3>1. last[r] \in Lifecycle  BY DEF DataRow
      <3> QED  BY <2>2, <3>1, AfterAction DEF Lifecycle
    <2>4. PICK new : new = [last EXCEPT ![r] = l]  OBVIOUS
    <2>5. /\ new \in DataRow
          /\ \A q \in Invited : last[q] # "missing" => new[q] # "missing"
      BY <2>3, <2>4 DEF DataRow
    <2>6. PICK p : p = Append(past, new)  OBVIOUS
    <2>7. past' = p  BY <1>1, <1>5, <2>1, <2>2, <2>4, <2>6
    <2>8. /\ p \in Seq(DataRow) /\ Len(p) = Len(past) + 1 /\ p[Len(p)] = new
          /\ \A k \in 1 .. Len(past) : k \in 1 .. Len(p) /\ p[k] = past[k]
          /\ \A k \in 1 .. Len(p) : k \in 1 .. Len(past) \/ k = Len(p)
      BY <2>5, <2>6, RowAppended
    <2>9. DOMAIN p = 1 .. Len(p) /\ DOMAIN past = 1 .. Len(past)  BY <2>8
    <2>10. Grown(p)
      <3>1. \A k \in DOMAIN past, q \in Invited : past[k][q] # "missing" => last[q] # "missing"
        BY <2>1 DEF AdminInv, PastGrows
      <3>2. Len(p) \in 1 .. MaxPast /\ Len(p) >= Len(past)
        BY <1>5, <2>8, ReaderAdminAssumption
      <3> QED  BY <2>5, <2>8, <2>9, <3>1, <3>2 DEF Grown
    <2>11. PICK n \in 1 .. MaxPast : n = Len(p)  BY <2>10 DEF Grown
    <2>12. PICK u : u = [t EXCEPT !.step = "done", !.reader = r, !.revision = n]  OBVIOUS
    <2>13. /\ u \in Task /\ u.do = t.do /\ u.reader = r /\ u.mounted = t.mounted
           /\ u.knew = t.knew /\ u.step = "done" /\ u.revision = n
      <3>1. n \in 0 .. MaxPast  BY <2>11
      <3> QED  BY <2>12, <3>1 DEF Task
    <2>14. tasks' = [tasks EXCEPT ![i] = u] /\ UNCHANGED <<admin, detail, unsaved, acted, overlap, pageLost>>
      BY <1>1, <1>5, <2>7, <2>11, <2>12 DEF ServerActs
    <2>15. TaskFits(u, detail)'
      <3>1. t.do # "create" => r = t.reader  BY <1>1, <1>5
      <3>2. t.do = "create" => \A k \in DOMAIN past : past[k][r] = "missing"
        BY <1>1, <1>5 DEF AdminInv, PastGrows
      <3>3. t.do = "create" => \A k \in DOMAIN p : k < n => p[k][r] = "missing"
        BY <2>8, <2>9, <2>11, <3>2
      <3> QED
        BY <1>2, <1>3, <2>7, <2>11, <2>13, <2>14, <3>1, <3>3 DEF TaskFits, OfReader
    <2>16. admin.revision < n  BY <2>8, <2>11 DEF AdminRow
    <2>17. ASSUME TaskQuiet(t, admin, detail, acted) PROVE TaskQuiet(u, admin, detail, acted)
      BY <1>2, <2>13, <2>16, <2>17 DEF TaskQuiet
    <2>18. /\ u.do = tasks[i].do /\ tasks[i].step \in {"sent", "done", "refused"}
           /\ TaskQuiet(tasks[i], admin, detail, acted) => TaskQuiet(u, admin, detail, acted)
      BY <1>1, <1>2, <2>13, <2>17
    <2> QED  BY <2>7, <2>10, <2>13, <2>14, <2>15, <2>18, ServerKeeps
  <1> QED  BY <1>4, <1>5 DEF ServerActs

-----------------------------------------------------------------------------
\* AdminInv holds at first.
LEMMA AdminStart ==
  ASSUME ReaderAdminInit PROVE AdminInv
  <1>1. PICK n \in Nat : n = MaxPast  BY ReaderAdminAssumption
  <1>2. PICK k \in SUBSET Invited :
           past = <<[r \in Invited |-> IF r \in k THEN "active" ELSE "missing"]>>
    BY DEF ReaderAdminInit
  <1>3. PICK row : row = [r \in Invited |-> IF r \in k THEN "active" ELSE "missing"]
    OBVIOUS
  <1>4. row \in DataRow  BY <1>3 DEF DataRow, Lifecycle
  <1>5. /\ past = <<row>> /\ past \in Seq(DataRow) /\ Len(past) = 1 /\ DOMAIN past = {1}
        /\ past[1] = row
    BY <1>2, <1>3, <1>4
  <1>6. PICK t : t = [do |-> "list", reader |-> NoReader, mounted |-> TRUE, knew |-> FALSE,
                      step |-> "list", revision |-> 0]
    OBVIOUS
  <1>7. 0 \in 0 .. MaxPast /\ 1 \in 1 .. MaxPast /\ 1 <= MaxTasks
    BY ReaderAdminAssumption
  <1>8. /\ t \in Task /\ t.do = "list" /\ t.reader = NoReader /\ t.mounted /\ ~t.knew
        /\ t.step = "list" /\ t.revision = 0
    BY <1>6, <1>7 DEF Task
  <1>9. /\ tasks = <<t>> /\ tasks \in Seq(Task) /\ Len(tasks) = 1 /\ DOMAIN tasks = {1}
        /\ tasks[1] = t
    BY <1>6, <1>8 DEF ReaderAdminInit
  <1>10. /\ admin \in AdminRow /\ admin.loading /\ ~admin.error /\ admin.revision = 0
         /\ admin.issued = 0
    BY <1>7 DEF ReaderAdminInit, Mounted, AdminRow
  <1>11. /\ detail \in Detail /\ detail.reader = NoReader /\ detail.known = 0
         /\ detail.confirm = "no"
    BY <1>7 DEF ReaderAdminInit, Fresh, Detail
  <1>12. /\ unsaved = {} /\ acted = [r \in Invited |-> 0] /\ overlap = "no"
    BY DEF ReaderAdminInit
  <1>13. acted \in [Invited -> 0 .. MaxPast] /\ \A r \in Invited : acted[r] = 0
    BY <1>7, <1>12
  <1>14. ReaderAdminTypeOK
    <2>1. pageLost \in BOOLEAN  BY DEF ReaderAdminInit
    <2> QED  BY <1>5, <1>7, <1>9, <1>10, <1>11, <1>12, <1>13, <2>1, AdminParts
  <1>15. PastGrows  BY <1>5, <1>10, <1>13 DEF PastGrows
  <1>16. detail.reader = Detailed(admin) /\ DetailFits(detail)
    BY <1>10, <1>11 DEF Detailed, DetailFits
  <1>17. \A i \in DOMAIN tasks : TaskFits(tasks[i], detail)
    BY <1>5, <1>8, <1>9 DEF TaskFits, OfReader
  <1>18. IssuedOnce(admin, tasks, unsaved)
    BY <1>9, <1>12 DEF IssuedOnce
  <1>19. OneTask(admin, detail, tasks, acted)
    <2>1. TaskQuiet(t, admin, detail, acted)
      BY <1>8, <1>11 DEF TaskQuiet, OfReader, DetailCurrent
    <2>2. tasks # <<>>  BY <1>9
    <2> QED  BY <1>9, <2>1, <2>2 DEF OneTask
  <1> QED  BY <1>14, <1>15, <1>16, <1>17, <1>18, <1>19 DEF AdminInv

\* Every step of the page keeps AdminInv, until the page is lost.
LEMMA AdminInvStep ==
  ASSUME AdminInv, [ReaderAdminNext]_adminVars PROVE AdminInv' \/ Unmount
  <1>1. CASE UNCHANGED adminVars
    <2>1. UNCHANGED <<admin, detail, tasks, past, unsaved, acted, overlap, pageLost>>
      BY <1>1 DEF adminVars
    <2>2. ReaderAdminTypeOK'  BY <2>1 DEF AdminInv, ReaderAdminTypeOK
    <2>3. PastGrows'  BY <2>1 DEF AdminInv, PastGrows
    <2>4. detail'.reader = Detailed(admin)' /\ DetailFits(detail)'
      BY <2>1 DEF AdminInv, Detailed, Filtered, Listed, DetailFits
    <2>5. \A i \in DOMAIN tasks' : TaskFits(tasks[i], detail)'
      BY <2>1 DEF AdminInv, TaskFits
    <2>6. overlap' # "issues" => IssuedOnce(admin, tasks, unsaved)'
      BY <2>1 DEF AdminInv, IssuedOnce
    <2>7. overlap' = "no" => OneTask(admin, detail, tasks, acted)'
      BY <2>1 DEF AdminInv, OneTask, TaskQuiet, ListCurrent, DetailCurrent
    <2> QED  BY <2>2, <2>3, <2>4, <2>5, <2>6, <2>7 DEF AdminInv
  <1>2. CASE Administer
    BY <1>2, LookingKeeps, StartingKeeps DEF Administer
  <1>3. ASSUME NEW i \in DOMAIN tasks,
               \/ ServerActs(i) \/ ServerLists(i) \/ ActionDone(i) \/ ActionFails(i)
               \/ ListArrives(i) \/ ListFails(i) \/ DetailsArrive(i) \/ DetailsFail(i)
        PROVE  AdminInv'
    BY <1>3, ServerActsKeeps, ServerListsKeeps, ActionDoneKeeps, ActionFailsKeeps, ListKeeps,
       DetailsKeep
  <1> QED  BY <1>1, <1>2, <1>3 DEF ReaderAdminNext, LoginEnds

\* Until the page is lost AdminInv holds; a page that is lost has the types still.
AdminHolds ==
    /\ ReaderAdminTypeOK
    /\ pageLost \/ AdminInv

LEMMA AdminStarts ==
  ASSUME ReaderAdminInit PROVE AdminHolds
  BY AdminStart DEF AdminHolds, AdminInv

\* Every step keeps AdminHolds; the one that loses the page is the last one.
LEMMA AdminHoldsStep ==
  ASSUME AdminHolds, [ReaderAdminNext]_adminVars PROVE AdminHolds'
  <1>1. CASE pageLost
    <2>1. UNCHANGED adminVars  BY <1>1 DEF ReaderAdminNext
    <2>2. ReaderAdminTypeOK' /\ pageLost'
      BY <1>1, <2>1 DEF AdminHolds, ReaderAdminTypeOK, adminVars
    <2> QED  BY <2>2 DEF AdminHolds
  <1>2. CASE ~pageLost
    <2>1. AdminInv  BY <1>2 DEF AdminHolds
    <2>2. CASE AdminInv'
      BY <2>2 DEF AdminHolds, AdminInv
    <2>3. CASE Unmount
      <3>1. /\ admin' = Mounted /\ detail' = Fresh(NoReader) /\ tasks' = <<>>
            /\ pageLost' = TRUE /\ UNCHANGED <<past, unsaved, acted, overlap>>
        BY <2>3 DEF Unmount
      <3>2. 0 \in 0 .. MaxPast /\ 0 <= MaxTasks  BY ReaderAdminAssumption
      <3>3. Mounted \in AdminRow  BY <3>2 DEF Mounted, AdminRow
      <3>4. Fresh(NoReader) \in Detail  BY <3>2 DEF Fresh, Detail
      <3>5. <<>> \in Seq(Task) /\ Len(<<>>) = 0  OBVIOUS
      <3>6. ReaderAdminTypeOK'
        <4>1. /\ past \in Seq(DataRow) /\ Len(past) \in 1 .. MaxPast
              /\ unsaved \subseteq 1 .. MaxPast /\ acted \in [Invited -> 0 .. MaxPast]
              /\ overlap \in {"no", "tasks", "issues"}
          BY <2>1, AdminFacts
        <4> QED
          BY <3>1, <3>2, <3>3, <3>4, <3>5, <4>1 DEF ReaderAdminTypeOK, AdminRow, DataRow
      <3> QED  BY <3>1, <3>6 DEF AdminHolds
    <2> QED  BY <2>1, <2>2, <2>3, AdminInvStep
  <1> QED  BY <1>1, <1>2

\* The administrator's page keeps what the server has told it (showIssued, runAction and
\* load of AdminReadersPage): a credential that is shown only once stays on the screen
\* until it is saved, unless two are issued at once or the page is lost, by the end of the
\* login or by the user; and as long as the page is there and tasks do not overlap the
\* quiet page shows the effect of the last action.
THEOREM AdminKeepsWhatItWasTold == ReaderAdminSpec => []KeepsWhatItWasTold
  <1>1. ASSUME AdminInv PROVE KeepsWhatItWasTold
    <2>1. overlap # "issues" => unsaved \subseteq {admin.issued}
      BY <1>1, UnsavedIsShown
    <2>2. ASSUME overlap = "no", tasks = <<>>
          PROVE  ListCurrent(admin, acted) /\ DetailCurrent(detail, acted)
      BY <1>1, <2>2 DEF AdminInv, OneTask
    <2> QED  BY <2>1, <2>2 DEF KeepsWhatItWasTold, ListCurrent, DetailCurrent
  <1>2. AdminHolds => KeepsWhatItWasTold
    BY <1>1 DEF AdminHolds, KeepsWhatItWasTold
  <1> QED  BY <1>2, AdminStarts, AdminHoldsStep, PTL DEF ReaderAdminSpec

-----------------------------------------------------------------------------
(* The reader page.                                                        *)

\* A page that is asking for a section shows an edition, and of what it shows it knows
\* the version and the position.
Knows(p) ==
    /\ p.asked => p.url # Elsewhere /\ p.opened # None
    /\ p.opened # None => p.progress # None /\ p.location # None

\* SectionFollowsIndex, whatever waits or is loading.
Follows(p) ==
    p.url # Elsewhere /\ p.opened # None /\ ~p.asked /\ ~p.sectionError =>
        \/ p.section = p.index
        \/ p.section = 0 /\ p.sync \in {"syncing", "failed", "conflict"}

\* The page q is p but for its queue.
ButQueue(q, p) ==
    /\ q \in Page /\ q.url = p.url /\ q.opened = p.opened /\ q.opening = p.opening
    /\ q.error = p.error /\ q.progress = p.progress /\ q.location = p.location
    /\ q.restore = p.restore /\ q.index = p.index /\ q.asked = p.asked
    /\ q.section = p.section /\ q.sectionError = p.sectionError /\ q.scroll = p.scroll
    /\ q.timer = p.timer /\ q.conflict = p.conflict /\ q.sync = p.sync /\ q.opens = p.opens

\* The queue r is q, or q and a new save of the position location by the closure by.
Queued(r, q, by, location, override, then) ==
    \/ r = q /\ (by.opened = None \/ location = None)
    \/ /\ by.opened # None /\ location # None
       /\ \E t \in Save : /\ r = Append(q, t) /\ t.by = by /\ t.location = location
                          /\ t.override = override /\ t.then = then
                          /\ ~t.sent /\ t.answer = "none"

\* persist leaves the page as it is and adds at most one save to its queue.
LEMMA PersistParts ==
  ASSUME NEW p \in Page, NEW by, NEW location \in ReaderLocation \cup {None},
         NEW override \in Nat, NEW then \in Then, by.opened # None => by \in Closure,
         NEW q, q = Persist(p, by, location, override, then)
  PROVE  ButQueue(q, p) /\ Queued(q.queue, p.queue, by, location, override, then)
  <1>1. CASE by.opened = None \/ location = None
    BY <1>1 DEF Persist, ButQueue, Queued
  <1>2. CASE ~(by.opened = None \/ location = None)
    <2>1. PICK t : t = [by |-> by, location |-> location, override |-> override,
                        then |-> then, sent |-> FALSE, expected |-> 0,
                        answer |-> "none", version |-> 0]
      OBVIOUS
    <2>2. /\ t \in Save /\ t.by = by /\ t.location = location /\ t.override = override
          /\ t.then = then /\ ~t.sent /\ t.answer = "none"
      BY <1>2, <2>1 DEF Save
    <2>3. PICK r : r = Append(p.queue, t)  OBVIOUS
    <2>4. r \in Seq(Save)  BY <2>2, <2>3 DEF Page
    <2>5. q = [p EXCEPT !.queue = r]  BY <1>2, <2>1, <2>3 DEF Persist
    <2>6. ButQueue(q, p) /\ q.queue = r  BY <2>4, <2>5 DEF Page, ButQueue
    <2> QED  BY <1>2, <2>2, <2>3, <2>6 DEF Queued
  <1> QED  BY <1>1, <1>2

\* AskSection asks for the section of a page that shows an edition.
Asked(q, p) ==
    /\ q \in Page /\ q.url = p.url /\ q.opened = p.opened /\ q.opening = p.opening
    /\ q.error = p.error /\ q.progress = p.progress /\ q.location = p.location
    /\ q.restore = p.restore /\ q.index = p.index
    /\ q.section = p.section /\ q.scroll = p.scroll
    /\ q.timer = p.timer /\ q.conflict = p.conflict /\ q.sync = p.sync /\ q.opens = p.opens
    /\ q.queue = p.queue
    /\ q.asked <=> (p.opened # None /\ p.url # Elsewhere)

\* What the effect that asks for a section leaves as it is.
LEMMA AskParts ==
  ASSUME NEW p \in Page, NEW q, q = AskSection(p)
  PROVE  Asked(q, p)
  <1>1. CASE p.opened = None \/ p.url = Elsewhere
    <2>1. q = [p EXCEPT !.asked = FALSE]  BY <1>1 DEF AskSection
    <2> QED  BY <1>1, <2>1 DEF Page, Asked
  <1>2. CASE ~(p.opened = None \/ p.url = Elsewhere)
    <2>1. q = [p EXCEPT !.asked = TRUE, !.sectionError = FALSE]  BY <1>2 DEF AskSection
    <2> QED  BY <1>2, <2>1 DEF Page, Asked
  <1> QED  BY <1>1, <1>2

\* loadReader forgets what the page shows, and asks for the edition of the URL.
Loads(q, p) ==
    /\ q \in Page /\ q.url = p.url /\ q.opened = None /\ q.opening
    /\ q.progress = None /\ q.location = None /\ q.restore = None /\ ~q.asked
    /\ q.timer = p.timer /\ q.sync = p.sync /\ q.queue = p.queue
    /\ \E o \in Opening : o.of = p.url /\ o.location.of = p.url /\ q.opens = p.opens \cup {o}

\* What loadReader forgets, what it leaves as it is and what it asks for.
LEMMA LoadParts ==
  ASSUME NEW p \in Page, p.url # Elsewhere, NEW q, q = LoadReader(p)
  PROVE  Loads(q, p)
  <1>1. PICK e \in Edition : e = p.url  BY DEF Page
  <1>2. PICK top : top = Top(e, 1)  OBVIOUS
  <1>3. top \in ReaderLocation /\ top.of = e
    BY <1>2, ReaderPageAssumption DEF Top, ReaderLocation
  <1>4. PICK o : o = [of |-> e, answer |-> "none", version |-> 0, location |-> top]
    OBVIOUS
  <1>5. o \in Opening /\ o.of = e /\ o.location = top
    BY <1>3, <1>4 DEF Opening
  <1>6. PICK os : os = p.opens \cup {o}  OBVIOUS
  <1>7. os \in SUBSET Opening  BY <1>5, <1>6 DEF Page
  <1>8. 0 \in 0 .. Sections /\ 0 \in Nat  BY ReaderPageAssumption
  <1>9. PICK c : c = [p EXCEPT !.opening = TRUE, !.error = FALSE, !.opened = None,
                              !.section = 0, !.scroll = "top", !.asked = FALSE]
    OBVIOUS
  <1>10. /\ c \in Page /\ c.url = p.url /\ c.opened = None /\ c.opening /\ ~c.asked
         /\ c.timer = p.timer /\ c.sync = p.sync /\ c.queue = p.queue
    BY <1>8, <1>9 DEF Page
  <1>11. PICK d : d = [c EXCEPT !.conflict = 0, !.progress = None, !.location = None]
    OBVIOUS
  <1>12. /\ d \in Page /\ d.url = c.url /\ d.opened = c.opened /\ d.opening = c.opening
         /\ d.progress = None /\ d.location = None /\ d.asked = c.asked
         /\ d.timer = c.timer /\ d.sync = c.sync /\ d.queue = c.queue
    <2>1. c \in Page  BY <1>10
    <2>2. d \in Page  BY <1>8, <1>11, <2>1 DEF Page
    <2>3. /\ d.url = c.url /\ d.opened = c.opened /\ d.opening = c.opening
          /\ d.progress = None /\ d.location = None /\ d.asked = c.asked
          /\ d.timer = c.timer /\ d.sync = c.sync /\ d.queue = c.queue
      BY <1>8, <1>11, <2>1 DEF Page
    <2> QED  BY <2>2, <2>3
  <1>13. q = [d EXCEPT !.restore = None, !.opens = os]
    BY <1>1, <1>2, <1>4, <1>6, <1>9, <1>11 DEF LoadReader
  <1>14. /\ q \in Page /\ q.url = d.url /\ q.opened = d.opened /\ q.opening = d.opening
         /\ q.progress = None /\ q.location = None /\ q.restore = None /\ q.asked = d.asked
         /\ q.timer = d.timer /\ q.sync = d.sync /\ q.queue = d.queue /\ q.opens = os
    BY <1>7, <1>12, <1>13 DEF Page
  <1> QED  BY <1>1, <1>3, <1>5, <1>6, <1>10, <1>12, <1>14 DEF Loads

\* The cleanup saves the position with the closure of the edition.
Cleaned(q, p) ==
    /\ q \in Page /\ q.url = p.url /\ q.opened = p.opened /\ q.opening = p.opening
    /\ q.progress = p.progress /\ q.location = p.location
    /\ q.restore = p.restore /\ ~q.asked /\ q.timer = None /\ q.sync = p.sync
    /\ q.opens = p.opens
    /\ Queued(q.queue, p.queue, Here(p), p.location, 0, Nothing(p.url))

\* The cleanup clears the timer and saves the position of the edition.
LEMMA CleanupParts ==
  ASSUME NEW p \in Page, p.url # Elsewhere, NEW q, q = Cleanup(p)
  PROVE  Cleaned(q, p)
  <1>1. PICK e \in Edition : e = p.url  BY DEF Page
  <1>2. PICK c : c = [p EXCEPT !.timer = None, !.asked = FALSE]  OBVIOUS
  <1>3. /\ c \in Page /\ c.url = p.url /\ c.opened = p.opened /\ c.opening = p.opening
        /\ c.progress = p.progress /\ c.location = p.location
        /\ c.restore = p.restore /\ ~c.asked /\ c.timer = None /\ c.sync = p.sync
        /\ c.opens = p.opens /\ c.queue = p.queue
    BY <1>2 DEF Page
  <1>4. PICK by : by = Here(p)  OBVIOUS
  <1>5. by.opened = p.opened /\ (by.opened # None => by \in Closure)
    BY <1>1, <1>4 DEF Here, Closure, Page
  <1>6. PICK then : then = Nothing(p.url)  OBVIOUS
  <1>7. then \in Then  BY <1>1, <1>6, ReaderPageAssumption DEF Nothing, Then
  <1>8. PICK l \in ReaderLocation \cup {None} : l = p.location  BY DEF Page
  <1>9. q = Persist(c, by, l, 0, then)  BY <1>2, <1>4, <1>6, <1>8 DEF Cleanup
  <1>10. ButQueue(q, c) /\ Queued(q.queue, c.queue, by, l, 0, then)
    BY <1>3, <1>5, <1>7, <1>9, PersistParts
  <1> QED  BY <1>3, <1>4, <1>6, <1>8, <1>10 DEF ButQueue, Cleaned

\* The reader leaves for another page.
Leaves(q, p) ==
    /\ p.url # Elsewhere
    /\ q \in Page /\ q.url = Elsewhere /\ q.opened = p.opened /\ q.opening = p.opening
    /\ q.progress = p.progress /\ q.location = p.location
    /\ q.restore = p.restore /\ ~q.asked /\ q.timer = None /\ q.sync = p.sync
    /\ q.opens = p.opens
    /\ Queued(q.queue, p.queue, Here(p), p.location, 0, Nothing(p.url))

\* The reader goes to another edition.
Turns(q, p) ==
    /\ p.url # Elsewhere /\ q.url \in Edition /\ q.url # p.url
    /\ q \in Page /\ q.opened = None /\ q.opening
    /\ q.progress = None /\ q.location = None /\ q.restore = None /\ ~q.asked
    /\ q.timer = None /\ q.sync = p.sync
    /\ \E o \in Opening : o.of = q.url /\ o.location.of = q.url /\ q.opens = p.opens \cup {o}
    /\ Queued(q.queue, p.queue, Here(p), p.location, 0, Nothing(p.url))

\* A new URL changes nothing, leaves the reader or turns to another edition.
LEMMA RouteParts ==
  ASSUME NEW p \in Page, NEW url \in Edition \cup {Elsewhere}, NEW q, q = Route(p, url)
  PROVE  \/ q = p
         \/ Leaves(q, p) /\ url = Elsewhere
         \/ Turns(q, p) /\ q.url = url
  <1>1. CASE p.url \in {url, Elsewhere}
    BY <1>1 DEF Route
  <1>2. CASE p.url \notin {url, Elsewhere} /\ url = Elsewhere
    <2>1. PICK c : c = Cleanup(p)  OBVIOUS
    <2>2. Cleaned(c, p)  BY <1>2, <2>1, CleanupParts
    <2>3. c \in Page  BY <2>2 DEF Cleaned
    <2>4. q = [c EXCEPT !.url = Elsewhere]  BY <1>2, <2>1 DEF Route
    <2>5. /\ q \in Page /\ q.url = Elsewhere /\ q.opened = c.opened /\ q.opening = c.opening
          /\ q.progress = c.progress /\ q.location = c.location
          /\ q.restore = c.restore /\ q.asked = c.asked /\ q.timer = c.timer
          /\ q.sync = c.sync /\ q.opens = c.opens /\ q.queue = c.queue
      BY <2>3, <2>4 DEF Page
    <2> QED  BY <1>2, <2>2, <2>5 DEF Cleaned, Leaves
  <1>3. CASE p.url \notin {url, Elsewhere} /\ url # Elsewhere
    <2>1. PICK c : c = Cleanup(p)  OBVIOUS
    <2>2. Cleaned(c, p)  BY <1>3, <2>1, CleanupParts
    <2>3. c \in Page  BY <2>2 DEF Cleaned
    <2>4. PICK d : d = [c EXCEPT !.url = url]  OBVIOUS
    <2>5. /\ d \in Page /\ d.url = url
          /\ d.timer = c.timer /\ d.sync = c.sync /\ d.opens = c.opens /\ d.queue = c.queue
      BY <1>3, <2>3, <2>4 DEF Page
    <2>6. q = LoadReader(d)
      BY <1>3, <2>1, <2>4 DEF Route
    <2>7. Loads(q, d)  BY <1>3, <2>5, <2>6, LoadParts
    <2>8. q.url = url /\ q.timer = c.timer /\ q.sync = c.sync /\ q.queue = c.queue
      BY <2>5, <2>7 DEF Loads
    <2>9. \E o \in Opening : o.of = q.url /\ o.location.of = q.url /\ q.opens = p.opens \cup {o}
      BY <2>2, <2>5, <2>7, <2>8 DEF Loads, Cleaned
    <2>10. /\ q.timer = None /\ q.sync = p.sync
           /\ Queued(q.queue, p.queue, Here(p), p.location, 0, Nothing(p.url))
      BY <2>2, <2>8 DEF Cleaned
    <2>11. q.url \in Edition /\ q.url # p.url /\ p.url # Elsewhere
      BY <1>3, <2>8
    <2> QED  BY <2>7, <2>8, <2>9, <2>10, <2>11 DEF Loads, Turns
  <1> QED  BY <1>1, <1>2, <1>3

\* The reader goes to the top of a section, after the save t.
Jumps(q, p, t) ==
    /\ p.url # Elsewhere
    /\ q \in Page /\ q.url = p.url /\ q.opened = p.opened /\ q.opening = p.opening
    /\ q.progress = p.progress
    /\ \/ q.location = p.location
       \/ q.location \in ReaderLocation /\ q.location.of = t.by.opened
    /\ q.restore \in {p.restore, None} /\ q.section = 0
    /\ q.asked = p.asked /\ q.sectionError = p.sectionError
    /\ q.timer = p.timer /\ q.sync = p.sync /\ q.opens = p.opens /\ q.queue = p.queue

\* What a caller does after its save.
LEMMA ContinueParts ==
  ASSUME NEW p \in Page, NEW t \in Save, NEW q, q = Continue(p, t)
  PROVE  \/ q = p
         \/ t.then.do # "nothing" /\ (Jumps(q, p, t) \/ Leaves(q, p) \/ Turns(q, p))
  <1>1. t.then \in Then /\ t.by \in Closure  BY DEF Save
  <1>2. PICK do, k, e : do = t.then.do /\ k = t.then.section /\ e = t.then.edition  OBVIOUS
  <1>3. /\ do \in {"nothing", "goto", "switch", "leave", "restart"}
        /\ k \in 1 .. Sections /\ e \in Edition /\ t.by.opened \in Edition
    BY <1>1, <1>2 DEF Then, Closure
  <1>4. CASE do = "nothing" \/ p.url = Elsewhere
    BY <1>2, <1>4 DEF Continue
  <1>5. CASE do = "goto" /\ p.url # Elsewhere
    <2>1. PICK l : l = Top(t.by.opened, k)  OBVIOUS
    <2>2. l \in ReaderLocation /\ l.of = t.by.opened
      BY <1>3, <2>1 DEF Top, ReaderLocation
    <2>3. q = [p EXCEPT !.location = l, !.restore = None, !.section = 0, !.scroll = "top",
                        !.index = k]
      BY <1>2, <1>5, <2>1 DEF Continue
    <2>4. 0 \in 0 .. Sections  BY ReaderPageAssumption
    <2>5. PICK c : c = [p EXCEPT !.location = l, !.restore = None]  OBVIOUS
    <2>6. /\ c \in Page /\ c.url = p.url /\ c.opened = p.opened /\ c.opening = p.opening
          /\ c.progress = p.progress /\ c.location = l /\ c.restore = None
          /\ c.asked = p.asked /\ c.sectionError = p.sectionError
          /\ c.timer = p.timer /\ c.sync = p.sync /\ c.opens = p.opens /\ c.queue = p.queue
      BY <2>2, <2>5 DEF Page
    <2>7. c \in Page  BY <2>6
    <2>8. q = [c EXCEPT !.section = 0, !.scroll = "top", !.index = k]
      BY <2>3, <2>5
    <2>9. /\ q \in Page /\ q.url = c.url /\ q.opened = c.opened /\ q.opening = c.opening
          /\ q.progress = c.progress /\ q.location = c.location /\ q.restore = c.restore
          /\ q.asked = c.asked /\ q.sectionError = c.sectionError /\ q.section = 0
          /\ q.timer = c.timer /\ q.sync = c.sync /\ q.opens = c.opens /\ q.queue = c.queue
      <3>1. k \in 1 .. Sections  BY <1>3
      <3>2. q \in Page  BY <2>4, <2>7, <2>8, <3>1 DEF Page
      <3>3. /\ q.url = c.url /\ q.opened = c.opened /\ q.opening = c.opening
            /\ q.progress = c.progress /\ q.location = c.location /\ q.restore = c.restore
            /\ q.asked = c.asked /\ q.sectionError = c.sectionError /\ q.section = 0
            /\ q.timer = c.timer /\ q.sync = c.sync /\ q.opens = c.opens
            /\ q.queue = c.queue
        BY <2>4, <2>7, <2>8, <3>1 DEF Page
      <3> QED  BY <3>2, <3>3
    <2>10. Jumps(q, p, t)  BY <1>5, <2>2, <2>6, <2>9 DEF Jumps
    <2> QED  BY <1>2, <1>5, <2>10
  <1>6. CASE do = "restart" /\ p.url # Elsewhere
    <2>1. q = [p EXCEPT !.section = 0, !.scroll = "top", !.index = 1]
      BY <1>2, <1>6 DEF Continue
    <2>2. 0 \in 0 .. Sections /\ 1 \in 1 .. Sections  BY ReaderPageAssumption
    <2>3. q \in Page  BY <2>1, <2>2 DEF Page
    <2>4. /\ q.url = p.url /\ q.opened = p.opened /\ q.opening = p.opening
          /\ q.progress = p.progress /\ q.location = p.location /\ q.restore = p.restore
          /\ q.asked = p.asked /\ q.sectionError = p.sectionError /\ q.section = 0
          /\ q.timer = p.timer /\ q.sync = p.sync /\ q.opens = p.opens /\ q.queue = p.queue
      BY <2>1, <2>2 DEF Page
    <2>5. Jumps(q, p, t)  BY <1>6, <2>3, <2>4 DEF Jumps
    <2> QED  BY <1>2, <1>6, <2>5
  <1>7. CASE do = "switch" /\ p.url # Elsewhere
    <2>1. q = p \/ q = Route(p, e)  BY <1>2, <1>7 DEF Continue
    <2>2. e \in Edition \cup {Elsewhere}  BY <1>3
    <2> QED  BY <1>2, <1>7, <2>1, <2>2, RouteParts
  <1>8. CASE do = "leave" /\ p.url # Elsewhere
    <2>1. q = p \/ q = Route(p, Elsewhere)  BY <1>2, <1>8 DEF Continue
    <2> QED  BY <1>2, <1>8, <2>1, RouteParts
  <1> QED  BY <1>3, <1>4, <1>5, <1>6, <1>7, <1>8

\* The first save t of the queue of p has ended, with a success or not.
PageEnds(q, p, t, success) ==
    \E c, d : /\ ButQueue(c, p) /\ c.queue = Tail(p.queue)
              /\ \/ d = c
                 \/ /\ t.then.do # "nothing"
                    /\ Jumps(d, c, t) \/ Leaves(d, c) \/ Turns(d, c)
              /\ IF d.url = p.url /\ (success \/ d.index # p.index) THEN Asked(q, d) ELSE q = d

\* The end of a save: its row goes, its caller goes on, the section is asked for again.
LEMMA EndedParts ==
  ASSUME NEW p \in Page, p.queue # <<>>, NEW t \in Save, NEW success \in BOOLEAN,
         NEW q, q = Ended(p, t, success)
  PROVE  PageEnds(q, p, t, success) /\ q \in Page
  <1>1. PICK r : r = Tail(p.queue)  OBVIOUS
  <1>2. r \in Seq(Save)  BY <1>1 DEF Page
  <1>3. PICK c : c = [p EXCEPT !.queue = r]  OBVIOUS
  <1>4. ButQueue(c, p) /\ c.queue = r  BY <1>2, <1>3 DEF ButQueue, Page
  <1>5. c \in Page  BY <1>4 DEF ButQueue
  <1>6. PICK d : d = Continue(c, t)  OBVIOUS
  <1>7. \/ d = c
        \/ t.then.do # "nothing" /\ (Jumps(d, c, t) \/ Leaves(d, c) \/ Turns(d, c))
    BY <1>5, <1>6, ContinueParts
  <1>8. d \in Page  BY <1>5, <1>7 DEF Jumps, Leaves, Turns
  <1>9. q = IF d.url = p.url /\ (success \/ d.index # p.index) THEN AskSection(d) ELSE d
    BY <1>1, <1>3, <1>6 DEF Ended
  <1>10. IF d.url = p.url /\ (success \/ d.index # p.index) THEN Asked(q, d) ELSE q = d
    BY <1>8, <1>9, AskParts
  <1>11. q \in Page  BY <1>8, <1>10 DEF Asked
  <1> QED  BY <1>1, <1>4, <1>7, <1>10, <1>11 DEF PageEnds

\* The position is measured.
Measures(q, p) ==
    /\ q \in Page /\ q.url = p.url /\ q.opened = p.opened /\ q.opening = p.opening
    /\ q.progress = p.progress /\ q.restore = p.restore /\ q.index = p.index
    /\ q.asked = p.asked /\ q.section = p.section /\ q.sectionError = p.sectionError
    /\ q.sync = p.sync /\ q.opens = p.opens /\ q.queue = p.queue
    /\ q.location \in ReaderLocation /\ q.location.of = p.url
    /\ q.timer \in Closure /\ q.timer = Here(p)

\* Scrolling measures a position of the shown edition and starts the timer.
LEMMA MeasureParts ==
  ASSUME NEW p \in Page, p.url # Elsewhere, p.opened # None, p.section # 0,
         NEW place \in {"top", "below"}, NEW q, q = Measured(p, place)
  PROVE  Measures(q, p)
  <1>1. PICK e \in Edition : e = p.url  BY DEF Page
  <1>2. PICK l : l = [of |-> e, section |-> p.section, place |-> place]  OBVIOUS
  <1>3. l \in ReaderLocation /\ l.of = e
    <2>1. p.section \in 1 .. Sections  BY ReaderPageAssumption DEF Page
    <2> QED  BY <1>2, <2>1 DEF ReaderLocation
  <1>4. PICK by : by = Here(p)  OBVIOUS
  <1>5. by \in Closure  BY <1>1, <1>4 DEF Here, Closure, Page
  <1>6. q = [p EXCEPT !.scroll = place, !.location = l, !.timer = by]
    BY <1>1, <1>2, <1>4 DEF Measured
  <1>7. /\ q \in Page /\ q.url = p.url /\ q.opened = p.opened /\ q.opening = p.opening
        /\ q.progress = p.progress /\ q.restore = p.restore /\ q.index = p.index
        /\ q.asked = p.asked /\ q.section = p.section /\ q.sectionError = p.sectionError
        /\ q.sync = p.sync /\ q.opens = p.opens /\ q.queue = p.queue
        /\ q.location = l /\ q.timer = by
    BY <1>3, <1>5, <1>6 DEF Page
  <1> QED  BY <1>1, <1>3, <1>4, <1>5, <1>7 DEF Measures

\* What holds of the page alone, wherever it was led.
Good(p) == p \in Page /\ Knows(p) /\ Follows(p)

\* What happens to a page keeps it good.
LEMMA PageStaysGood ==
  ASSUME NEW p, Good(p), NEW q,
         ButQueue(q, p) \/ Loads(q, p) \/ Leaves(q, p) \/ Turns(q, p) \/ Measures(q, p)
  PROVE  Good(q)
  <1>1. CASE ButQueue(q, p)
    BY <1>1 DEF Good, ButQueue, Knows, Follows
  <1>2. CASE Loads(q, p)
    BY <1>2 DEF Good, Loads, Knows, Follows
  <1>3. CASE Leaves(q, p)
    BY <1>3 DEF Good, Leaves, Knows, Follows
  <1>4. CASE Turns(q, p)
    BY <1>4 DEF Good, Turns, Knows, Follows
  <1>5. CASE Measures(q, p)
    BY <1>5, ReaderPageAssumption DEF Good, Measures, Knows, Follows
  <1> QED  BY <1>1, <1>2, <1>3, <1>4, <1>5

\* Asking makes a page good.
LEMMA AskedIsGood ==
  ASSUME NEW p \in Page, p.opened # None => p.progress # None /\ p.location # None,
         NEW q, Asked(q, p)
  PROVE  Good(q)
  BY DEF Good, Asked, Knows, Follows

\* So does the end of a save, when the footer says how it went.
LEMMA EndsGood ==
  ASSUME NEW p \in Page, Knows(p), NEW t \in Save, NEW success \in BOOLEAN,
         success \/ p.opened = None \/ (Follows(p) /\ p.sync \in {"failed", "conflict"}),
         NEW q, PageEnds(q, p, t, success)
  PROVE  Good(q)
  <1>1. PICK c, d : /\ ButQueue(c, p) /\ c.queue = Tail(p.queue)
                    /\ \/ d = c
                       \/ /\ t.then.do # "nothing"
                          /\ Jumps(d, c, t) \/ Leaves(d, c) \/ Turns(d, c)
                    /\ IF d.url = p.url /\ (success \/ d.index # p.index) THEN Asked(q, d)
                       ELSE q = d
    BY DEF PageEnds
  <1>2. c \in Page /\ Knows(c)
    BY <1>1 DEF ButQueue, Knows
  <1>3. CASE Leaves(d, c)
    <2>1. Good(d)  BY <1>2, <1>3 DEF Good, Leaves, Knows, Follows
    <2>2. d.url # p.url  BY <1>1, <1>3 DEF Leaves, ButQueue
    <2> QED  BY <1>1, <2>1, <2>2
  <1>4. CASE Turns(d, c)
    <2>1. Good(d)  BY <1>2, <1>4 DEF Good, Turns, Knows, Follows
    <2>2. d.url # p.url  BY <1>1, <1>4 DEF Turns, ButQueue
    <2> QED  BY <1>1, <2>1, <2>2
  <1>5. CASE d = c \/ Jumps(d, c, t)
    <2>1. d \in Page /\ Knows(d) /\ d.url = p.url /\ d.opened = p.opened /\ d.sync = p.sync
      BY <1>1, <1>2, <1>5, ReaderPageAssumption DEF Jumps, Knows, ButQueue
    <2>2. CASE success \/ d.index # p.index
      <3>1. Asked(q, d)  BY <1>1, <2>1, <2>2
      <3>2. d.opened # None => d.progress # None /\ d.location # None
        BY <2>1 DEF Knows
      <3> QED  BY <2>1, <3>1, <3>2, AskedIsGood
    <2>3. CASE ~success /\ d.index = p.index
      <3>1. q = d  BY <1>1, <2>3
      <3>2. CASE p.opened = None
        BY <2>1, <3>1, <3>2 DEF Good, Follows
      <3>3. CASE Follows(p) /\ p.sync \in {"failed", "conflict"}
        <4>1. CASE d = c  BY <1>1, <2>1, <2>3, <3>1, <3>3, <4>1 DEF Good, Follows, ButQueue
        <4>2. CASE Jumps(d, c, t)  BY <2>1, <3>1, <3>3, <4>2 DEF Good, Follows, Jumps
        <4> QED  BY <1>5, <4>1, <4>2
      <3> QED  BY <2>3, <3>2, <3>3
    <2> QED  BY <2>2, <2>3
  <1> QED  BY <1>1, <1>3, <1>4, <1>5

-----------------------------------------------------------------------------
\* A page of the edition e, and the saves of its queue; h are the versions it heard.
PageOf(p, e, h) ==
    /\ p.url \in {e, Elsewhere} /\ p.opened \in {None, e}
    /\ p.progress # None => p.progress.of = e /\ p.progress.version \in h[e]
    /\ p.location # None => p.location.of = e
    /\ p.restore # None => p.restore.of = e
    /\ p.timer # None => p.timer.url = e /\ p.timer.opened \in {None, e}
    /\ \A o \in p.opens : o.of = e /\ o.location.of = e

\* The save t belongs to the edition e, and what it names was heard of it.
SaveOf(t, e, h) ==
    /\ t.by.url = e /\ t.by.opened = e /\ t.location.of = e
    /\ t.sent => t.expected \in h[e]
    /\ t.override # 0 => t.override \in h[e]
    /\ t.answer # "none" => t.sent

\* All saves of the queue r belong to the edition e.
QueueOf(r, e, h) == \A i \in DOMAIN r : SaveOf(r[i], e, h)

\* All of the page p belongs to the edition e.
Pure(p, e, h) == PageOf(p, e, h) /\ QueueOf(p.queue, e, h)

\* The save of the cleanup of another edition, the only one that waits.
Parting(t) == t.location.of = t.by.url /\ ~t.sent /\ t.answer = "none" /\ t.then.do = "nothing"

\* The page p is of the edition e but for the save of the cleanup of the one before.
Arriving(p, e, h) ==
    /\ PageOf(p, e, h) /\ p.progress = None
    /\ \E t \in Save : p.queue = <<t>> /\ Parting(t)

\* One opening at a time, and none once the edition is shown.
OneOpening(p) ==
    /\ \A o, n \in p.opens : o = n
    /\ p.opens # {} => p.opening /\ p.opened = None

\* A new save.
LEMMA QueuedOf ==
  ASSUME NEW e \in Edition, NEW h, NEW r, NEW s \in Seq(Save), QueueOf(s, e, h),
         NEW by, NEW location, NEW override, NEW then,
         Queued(r, s, by, location, override, then),
         by.opened # None => by.url = e /\ by.opened = e,
         location # None => location.of = e,
         override # 0 => override \in h[e]
  PROVE  QueueOf(r, e, h)
  <1>1. CASE r = s  BY <1>1
  <1>2. ASSUME NEW t \in Save, by.opened # None, location # None,
               r = Append(s, t), t.by = by, t.location = location, t.override = override,
               ~t.sent, t.answer = "none"
        PROVE  QueueOf(r, e, h)
    <2>1. SaveOf(t, e, h)  BY <1>2 DEF SaveOf
    <2>2. \A i \in DOMAIN r : r[i] = t \/ (i \in DOMAIN s /\ r[i] = s[i])
      BY <1>2
    <2> QED  BY <2>1, <2>2 DEF QueueOf
  <1> QED  BY <1>1, <1>2 DEF Queued

\* The queue without its first save.
LEMMA TailOf ==
  ASSUME NEW e, NEW h, NEW s \in Seq(Save), s # <<>>, QueueOf(s, e, h)
  PROVE  /\ QueueOf(Tail(s), e, h) /\ SaveOf(Head(s), e, h) /\ Head(s) \in Save
         /\ Head(s) = s[1] /\ 1 \in DOMAIN s
  <1>1. PICK r : r = Tail(s)  OBVIOUS
  <1>2. Len(s) \in Nat /\ Len(s) # 0  OBVIOUS
  <1>3. \A i \in DOMAIN r : i + 1 \in DOMAIN s /\ r[i] = s[i + 1]
    BY <1>1, <1>2
  <1>4. 1 \in DOMAIN s /\ Head(s) = s[1] /\ s[1] \in Save  BY <1>2
  <1> QED  BY <1>1, <1>3, <1>4 DEF QueueOf

\* What happens to a page leaves it the page of its edition.
LEMMA StaysPure ==
  ASSUME NEW p \in Page, NEW e \in Edition, NEW h, Pure(p, e, h), NEW q,
         \/ Asked(q, p) \/ Leaves(q, p)
         \/ Loads(q, p) /\ p.url # Elsewhere
         \/ Measures(q, p) /\ p.url # Elsewhere
         \/ \E t : Jumps(q, p, t) /\ t.by.opened = e
  PROVE  Pure(q, e, h)
  <1>0. PageOf(p, e, h) /\ QueueOf(p.queue, e, h) /\ p.queue \in Seq(Save)
    BY DEF Pure, Page
  <1>1. CASE Asked(q, p)  BY <1>1 DEF Pure, PageOf, Asked
  <1>2. CASE Leaves(q, p)
    <2>1. PICK by, l, u : by = Here(p) /\ l = p.location /\ u = Nothing(p.url)  OBVIOUS
    <2>2. Queued(q.queue, p.queue, by, l, 0, u)  BY <1>2, <2>1 DEF Leaves
    <2>3. by.url = p.url /\ by.opened = p.opened  BY <2>1 DEF Here
    <2>4. by.opened # None => by.url = e /\ by.opened = e
      BY <1>0, <1>2, <2>3 DEF PageOf, Leaves
    <2>5. l # None => l.of = e  BY <1>0, <2>1 DEF PageOf
    <2>6. QueueOf(q.queue, e, h)  BY <1>0, <2>2, <2>4, <2>5, QueuedOf
    <2>7. PageOf(q, e, h)  BY <1>0, <1>2 DEF PageOf, Leaves
    <2> QED  BY <2>6, <2>7 DEF Pure
  <1>3. CASE Loads(q, p) /\ p.url # Elsewhere
    <2>1. p.url = e  BY <1>0, <1>3 DEF PageOf
    <2>2. \A o \in q.opens : o.of = e /\ o.location.of = e
      BY <1>0, <1>3, <2>1 DEF PageOf, Loads
    <2>3. PageOf(q, e, h)  BY <1>0, <1>3, <2>2 DEF PageOf, Loads
    <2> QED  BY <1>0, <1>3, <2>3 DEF Pure, Loads
  <1>4. CASE Measures(q, p) /\ p.url # Elsewhere
    <2>1. p.url = e  BY <1>0, <1>4 DEF PageOf
    <2>2. q.timer.url = p.url /\ q.timer.opened = p.opened  BY <1>4 DEF Measures, Here
    <2>3. PageOf(q, e, h)  BY <1>0, <1>4, <2>1, <2>2 DEF PageOf, Measures
    <2> QED  BY <1>0, <1>4, <2>3 DEF Pure, Measures
  <1>5. ASSUME NEW t, Jumps(q, p, t), t.by.opened = e PROVE Pure(q, e, h)
    <2>1. PageOf(q, e, h)  BY <1>0, <1>5 DEF PageOf, Jumps
    <2> QED  BY <1>0, <1>5, <2>1 DEF Pure, Jumps
  <1> QED  BY <1>1, <1>2, <1>3, <1>4, <1>5

\* A page on which nothing is due becomes the page of another edition.
LEMMA TurnsPure ==
  ASSUME NEW p \in Page, NEW e \in Edition, NEW h, Pure(p, e, h), p.queue = <<>>,
         p.opens = {}, NEW q, Turns(q, p)
  PROVE  /\ \E f \in Edition : Pure(q, f, h) \/ Arriving(q, f, h)
         /\ OneOpening(q)
  <1>1. PICK f \in Edition : f = q.url  BY DEF Turns
  <1>2. PageOf(p, e, h)  BY DEF Pure
  <1>3. PICK o : o.of = f /\ o.location.of = f /\ q.opens = {o}
    BY <1>1 DEF Turns
  <1>4. PageOf(q, f, h)
    BY <1>1, <1>3 DEF PageOf, Turns
  <1>5. OneOpening(q)  BY <1>3 DEF OneOpening, Turns
  <1>6. PICK by, l, u : by = Here(p) /\ l = p.location /\ u = Nothing(p.url)  OBVIOUS
  <1>7. Queued(q.queue, <<>>, by, l, 0, u)  BY <1>6 DEF Turns
  <1>8. by.url = p.url /\ p.url = e /\ (l # None => l.of = e) /\ u.do = "nothing"
    BY <1>2, <1>6 DEF Here, Nothing, PageOf, Turns
  <1>9. CASE q.queue = <<>>
    <2>1. QueueOf(q.queue, f, h)  BY <1>9 DEF QueueOf
    <2> QED  BY <1>4, <1>5, <2>1 DEF Pure
  <1>10. ASSUME NEW t \in Save, l # None, q.queue = Append(<<>>, t), t.by = by,
                t.location = l, t.then = u, ~t.sent, t.answer = "none"
         PROVE  Arriving(q, f, h)
    <2>1. q.queue = <<t>>  BY <1>10
    <2>2. Parting(t)  BY <1>8, <1>10 DEF Parting
    <2>3. q.progress = None  BY DEF Turns
    <2> QED  BY <1>4, <2>1, <2>2, <2>3 DEF Arriving
  <1> QED  BY <1>5, <1>7, <1>9, <1>10 DEF Queued

\* PositionKeptOnLeave, with the queue that is not done: its last save carries the position.
Left(p, k) ==
    p.url = Elsewhere /\ p.opened # None =>
        IF p.queue = <<>> THEN p.sync \in {"failed", "conflict"} \/ k = p.location
        ELSE p.queue[Len(p.queue)].location = p.location

\* What a page is as long as it was not led to another edition with answers due.
Whole(p, h, k) ==
    /\ \E e \in Edition : Pure(p, e, h) \/ Arriving(p, e, h)
    /\ OneOpening(p) /\ Left(p, k)

\* A save is queued.
LEMMA QueuedLeft ==
  ASSUME NEW p \in Page, NEW q, NEW k, NEW by, NEW location, NEW override, NEW then,
         Queued(q.queue, p.queue, by, location, override, then),
         q.url = Elsewhere /\ q.opened # None =>
            /\ location = q.location
            /\ p.location = q.location /\ p.sync = q.sync /\ p.opened = q.opened
            /\ p.url = Elsewhere,
         Left(p, k)
  PROVE  Left(q, k)
  <1> SUFFICES ASSUME q.url = Elsewhere, q.opened # None PROVE Left(q, k)
    BY DEF Left
  <1>1. CASE q.queue = p.queue /\ (by.opened = None \/ location = None)
    BY <1>1 DEF Left
  <1>2. ASSUME NEW t \in Save, q.queue = Append(p.queue, t), t.location = location
        PROVE  Left(q, k)
    <2>1. PICK r, s : r = q.queue /\ s = p.queue  OBVIOUS
    <2>2. s \in Seq(Save) /\ r = Append(s, t)  BY <1>2, <2>1 DEF Page
    <2>3. r # <<>> /\ r[Len(r)] = t  BY <2>2
    <2> QED  BY <1>2, <2>1, <2>3 DEF Left
  <1> QED  BY <1>1, <1>2 DEF Queued

\* A save of its own edition keeps a page whole.
LEMMA QueuedKeeps ==
  ASSUME NEW p, Good(p), NEW e \in Edition, NEW h, NEW k, Pure(p, e, h),
         OneOpening(p), Left(p, k),
         NEW by, NEW location, NEW override, NEW then, NEW q, ButQueue(q, p),
         Queued(q.queue, p.queue, by, location, override, then),
         by.opened # None => by.url = e /\ by.opened = e,
         location # None => location.of = e,
         override # 0 => override \in h[e],
         p.url = Elsewhere => location = p.location
  PROVE  Whole(q, h, k)
  <1>1. p \in Page /\ p.queue \in Seq(Save)  BY DEF Good, Page
  <1>2. QueueOf(q.queue, e, h)  BY <1>1, QueuedOf DEF Pure
  <1>3. PageOf(q, e, h)  BY DEF Pure, PageOf, ButQueue
  <1>4. OneOpening(q)  BY DEF OneOpening, ButQueue
  <1>5. Left(q, k)
    <2>1. q.url = p.url /\ q.opened = p.opened /\ q.location = p.location /\ q.sync = p.sync
      BY DEF ButQueue
    <2>2. q.url = Elsewhere /\ q.opened # None =>
            /\ location = q.location
            /\ p.location = q.location /\ p.sync = q.sync /\ p.opened = q.opened
            /\ p.url = Elsewhere
      BY <2>1
    <2> QED  BY <1>1, <2>2, QueuedLeft
  <1> QED  BY <1>2, <1>3, <1>4, <1>5 DEF Whole, Pure

\* The reader leaves: the last save is the cleanup's.
LEMMA LeavesWhole ==
  ASSUME NEW p \in Page, Knows(p), NEW e \in Edition, NEW h, NEW k, Pure(p, e, h),
         OneOpening(p), NEW q, Leaves(q, p)
  PROVE  Whole(q, h, k)
  <1>1. Pure(q, e, h)  BY StaysPure
  <1>2. OneOpening(q)  BY DEF OneOpening, Leaves
  <1>3. PICK by, l, u : by = Here(p) /\ l = p.location /\ u = Nothing(p.url)  OBVIOUS
  <1>4. Queued(q.queue, p.queue, by, l, 0, u)  BY <1>3 DEF Leaves
  <1>5. by.opened = p.opened /\ q.opened = p.opened /\ q.location = p.location
    BY <1>3 DEF Here, Leaves
  <1>6. q.opened # None => l # None /\ by.opened # None  BY <1>3, <1>5 DEF Knows
  <1>7. Left(p, k)  BY DEF Left, Leaves
  <1>8. ASSUME q.opened # None PROVE Left(q, k)
    <2>1. PICK t \in Save : q.queue = Append(p.queue, t) /\ t.location = l
      BY <1>4, <1>6, <1>8 DEF Queued
    <2>2. PICK r, s : r = q.queue /\ s = p.queue  OBVIOUS
    <2>3. s \in Seq(Save) /\ r = Append(s, t)  BY <2>1, <2>2 DEF Page
    <2>4. r # <<>> /\ r[Len(r)] = t  BY <2>3
    <2> QED  BY <1>3, <1>5, <2>1, <2>2, <2>4 DEF Left
  <1>9. Left(q, k)  BY <1>8 DEF Left
  <1> QED  BY <1>1, <1>2, <1>9 DEF Whole

\* A page that is not elsewhere has not been left.
LEMMA NotLeft ==
  ASSUME NEW p, NEW k, p.url # Elsewhere PROVE Left(p, k)
  BY DEF Left

\* What becomes of a page with the answer, or the failure, of its first save t.
LEMMA EndsWhole ==
  ASSUME NEW p \in Page, Knows(p), NEW e \in Edition, NEW h, NEW k, Pure(p, e, h),
         OneOpening(p), p.queue # <<>>, NEW t, t = Head(p.queue), NEW success \in BOOLEAN,
         p.url = Elsewhere /\ p.opened # None =>
            /\ p.queue[Len(p.queue)].location = p.location
            /\ p.sync \in {"failed", "conflict"} \/ k = t.location,
         NEW q, PageEnds(q, p, t, success),
         q.url \notin {p.url, Elsewhere} => Tail(p.queue) = <<>> /\ p.opens = {}
  PROVE  Whole(q, h, k)
  <1>1. PICK c, d : /\ ButQueue(c, p) /\ c.queue = Tail(p.queue)
                    /\ \/ d = c
                       \/ /\ t.then.do # "nothing"
                          /\ Jumps(d, c, t) \/ Leaves(d, c) \/ Turns(d, c)
                    /\ IF d.url = p.url /\ (success \/ d.index # p.index) THEN Asked(q, d)
                       ELSE q = d
    BY DEF PageEnds
  <1>2. p.queue \in Seq(Save) /\ QueueOf(p.queue, e, h) /\ PageOf(p, e, h)
    BY DEF Page, Pure
  <1>3. QueueOf(c.queue, e, h) /\ SaveOf(t, e, h)  BY <1>1, <1>2, TailOf
  <1>4. c \in Page /\ Knows(c) /\ OneOpening(c) /\ c.url = p.url /\ c.opens = p.opens
    BY <1>1 DEF ButQueue, Knows, OneOpening
  <1>5. Pure(c, e, h)  BY <1>1, <1>2, <1>3 DEF ButQueue, PageOf, Pure
  <1>6. q.url = d.url  BY <1>1 DEF Asked
  <1>7. CASE Leaves(d, c)
    <2>1. Whole(d, h, k)  BY <1>4, <1>5, <1>7, LeavesWhole
    <2>2. d.url # p.url  BY <1>4, <1>7 DEF Leaves
    <2> QED  BY <1>1, <2>1, <2>2
  <1>8. CASE Turns(d, c)
    <2>1. d.url # p.url /\ d.url # Elsewhere
      BY <1>4, <1>8, ReaderPageAssumption DEF Turns
    <2>2. c.queue = <<>> /\ c.opens = {} /\ q = d  BY <1>1, <1>4, <1>6, <2>1
    <2>3. /\ \E f \in Edition : Pure(d, f, h) \/ Arriving(d, f, h)
          /\ OneOpening(d)
      BY <1>4, <1>5, <1>8, <2>2, TurnsPure
    <2>4. Left(d, k)  BY <2>1, NotLeft
    <2> QED  BY <2>2, <2>3, <2>4 DEF Whole
  <1>9. CASE d = c \/ Jumps(d, c, t)
    <2>1. t.by.opened = e  BY <1>3 DEF SaveOf
    <2>2. Pure(d, e, h) /\ d \in Page
      <3>1. CASE d = c  BY <1>4, <1>5, <3>1
      <3>2. CASE Jumps(d, c, t)
        <4>1. d \in Page  BY <3>2 DEF Jumps
        <4> QED  BY <1>4, <1>5, <2>1, <3>2, <4>1, StaysPure
      <3> QED  BY <1>9, <3>1, <3>2
    <2>3. /\ d.opens = c.opens /\ d.opening = c.opening /\ d.opened = c.opened
          /\ d.url = c.url /\ d.queue = c.queue
          /\ (c.url = Elsewhere => d = c)
      BY <1>9 DEF Jumps
    <2>4. q = d \/ Asked(q, d)  BY <1>1
    <2>5. /\ q.opens = d.opens /\ q.opening = d.opening /\ q.opened = d.opened
          /\ q.url = d.url /\ q.queue = d.queue /\ q.location = d.location
          /\ q.sync = d.sync
      BY <2>4 DEF Asked
    <2>6. Pure(q, e, h)  BY <2>2, <2>4, StaysPure
    <2>7. OneOpening(q)  BY <1>4, <2>3, <2>5 DEF OneOpening
    <2>8. ASSUME q.url = Elsewhere, q.opened # None PROVE Left(q, k)
      <3>1. /\ d = c /\ p.url = Elsewhere /\ p.opened # None /\ q.location = p.location
            /\ q.sync = p.sync
        BY <1>1, <1>4, <2>3, <2>5, <2>8 DEF ButQueue
      <3>2. PICK s, r : s = p.queue /\ r = q.queue  OBVIOUS
      <3>3. r = Tail(s) /\ s \in Seq(Save) /\ s # <<>> /\ t = s[1]
        BY <1>1, <1>2, <2>3, <2>5, <3>2
      <3>4. CASE r = <<>>
        <4>1. Len(s) \in Nat /\ Len(s) # 0 /\ Len(r) = Len(s) - 1 /\ Len(r) = 0
          <5>1. s \in Seq(Save) /\ s # <<>> /\ r = Tail(s)  BY <3>3
          <5>2. Len(s) \in Nat /\ Len(s) # 0  BY <5>1
          <5>3. Len(r) = Len(s) - 1  BY <5>1, <5>2
          <5>4. Len(r) = 0  BY <3>4
          <5> QED  BY <5>2, <5>3, <5>4
        <4>2. t = s[Len(s)]  BY <3>3, <4>1
        <4>3. p.sync \in {"failed", "conflict"} \/ k = p.location
          BY <3>1, <3>2, <4>2
        <4> QED  BY <3>1, <3>2, <3>4, <4>3 DEF Left
      <3>5. CASE r # <<>>
        <4>1. Len(s) \in Nat /\ Len(r) = Len(s) - 1 /\ Len(r) \in Nat  BY <3>3
        <4>2. Len(r) # 0  BY <3>3, <3>5
        <4>3. r[Len(r)] = s[Len(s)]  BY <3>3, <4>1, <4>2
        <4> QED  BY <3>1, <3>2, <3>5, <4>3 DEF Left
      <3> QED  BY <3>4, <3>5
    <2>9. Left(q, k)  BY <2>8 DEF Left
    <2> QED  BY <2>6, <2>7, <2>9 DEF Whole
  <1> QED  BY <1>1, <1>7, <1>8, <1>9

\* What the page, the server and what was heard of it are in every state.
ReaderValue(p, s, h, m, k) ==
    /\ Good(p) /\ s \in [Edition -> [version : Nat, location : ReaderLocation]]
    /\ h \in [Edition -> SUBSET Nat] /\ m \in BOOLEAN /\ k \in ReaderLocation \cup {None}
    /\ ~m => Whole(p, h, k) /\ \A f \in Edition : s[f].location.of = f

\* The inductive invariant of the reader page.
ReaderInv == ReaderValue(page, server, heard, mixed, kept)

\* The invariant holds after a step when it holds of the new values.
LEMMA ReaderBecomes ==
  ASSUME NEW p, NEW s, NEW h, NEW m, NEW k, ReaderValue(p, s, h, m, k),
         page' = p, server' = s, heard' = h, mixed' = m, kept' = k
  PROVE  ReaderInv'
  BY DEF ReaderInv

\* What the invariant says of the page, the server and what was heard.
LEMMA ReaderFacts ==
  ASSUME ReaderInv
  PROVE  /\ Good(page) /\ page \in Page /\ Knows(page) /\ Follows(page)
         /\ server \in [Edition -> [version : Nat, location : ReaderLocation]]
         /\ heard \in [Edition -> SUBSET Nat] /\ mixed \in BOOLEAN
         /\ kept \in ReaderLocation \cup {None}
         /\ ~mixed => Whole(page, heard, kept) /\ \A f \in Edition : server[f].location.of = f
  BY DEF ReaderInv, ReaderValue, Good

\* The page changes, and nothing else.
LEMMA PageBecomes ==
  ASSUME ReaderInv, NEW p, page' = p, UNCHANGED <<server, heard, mixed, kept>>, Good(p),
         NEW h, NEW k, h = heard, k = kept, ~mixed => Whole(p, h, k)
  PROVE  ReaderInv'
  <1>1. PICK s, m : s = server /\ m = mixed  OBVIOUS
  <1>2. ReaderValue(p, s, h, m, k)  BY <1>1, ReaderFacts DEF ReaderValue
  <1> QED  BY <1>1, <1>2, ReaderBecomes

\* Once the first save of the queue was sent, the page is all of one edition.
LEMMA SettledIsPure ==
  ASSUME ReaderInv, ~mixed, Settled
  PROVE  \E e \in Edition : Pure(page, e, heard) /\ OneOpening(page) /\ Left(page, kept)
  <1>1. PICK p, h, k : p = page /\ h = heard /\ k = kept  OBVIOUS
  <1>2. Whole(p, h, k)  BY <1>1, ReaderFacts
  <1>3. PICK e \in Edition : Pure(p, e, h) \/ Arriving(p, e, h)  BY <1>2 DEF Whole
  <1>4. ~Arriving(p, e, h)
    <2> SUFFICES ASSUME Arriving(p, e, h) PROVE FALSE  OBVIOUS
    <2>1. PICK t \in Save : p.queue = <<t>> /\ ~t.sent  BY DEF Arriving, Parting
    <2>2. p.queue # <<>> /\ Head(p.queue) = t  BY <2>1
    <2> QED  BY <1>1, <2>1, <2>2 DEF Settled
  <1> QED  BY <1>1, <1>2, <1>3, <1>4 DEF Whole

\* More is heard.
LEMMA MoreHeard ==
  ASSUME NEW p, NEW e \in Edition, NEW h, NEW g, \A f \in Edition : h[f] \subseteq g[f],
         Pure(p, e, h)
  PROVE  Pure(p, e, g)
  BY DEF Pure, PageOf, QueueOf, SaveOf

-----------------------------------------------------------------------------
\* The server answers an opening.
LEMMA ServerOpensKeeps ==
  ASSUME ReaderInv, NEW o \in page.opens, ServerOpens(o)
  PROVE  ReaderInv'
  <1> USE ReaderFacts
  <1>1. PICK p, h, k : p = page /\ h = heard /\ k = kept  OBVIOUS
  <1>2. o \in Opening /\ o \in p.opens  BY <1>1 DEF Page
  <1>3. PICK v, l : v = server[o.of].version /\ l = server[o.of].location  OBVIOUS
  <1>4. o.of \in Edition /\ v \in Nat /\ l \in ReaderLocation  BY <1>2, <1>3 DEF Opening
  <1>5. PICK n : n = [o EXCEPT !.answer = "opened", !.version = v, !.location = l]  OBVIOUS
  <1>6. n \in Opening /\ n.of = o.of /\ n.location = l
    BY <1>2, <1>4, <1>5 DEF Opening
  <1>7. PICK os : os = (p.opens \ {o}) \cup {n}  OBVIOUS
  <1>8. os \in SUBSET Opening  BY <1>1, <1>6, <1>7 DEF Page
  <1>9. PICK q : q = [p EXCEPT !.opens = os]  OBVIOUS
  <1>10. page' = q /\ UNCHANGED <<server, heard, mixed, kept>>
    BY <1>1, <1>3, <1>5, <1>7, <1>9 DEF ServerOpens
  <1>11. /\ q \in Page /\ q.url = p.url /\ q.opened = p.opened /\ q.opening = p.opening
         /\ q.error = p.error /\ q.progress = p.progress /\ q.location = p.location
         /\ q.restore = p.restore /\ q.index = p.index /\ q.asked = p.asked
         /\ q.section = p.section /\ q.sectionError = p.sectionError
         /\ q.timer = p.timer /\ q.sync = p.sync /\ q.queue = p.queue /\ q.opens = os
    <2>1. p \in Page  BY <1>1
    <2> QED  BY <1>8, <1>9, <2>1 DEF Page
  <1>12. Good(q)
    BY <1>1, <1>11 DEF Good, Knows, Follows
  <1>13. ASSUME ~mixed PROVE Whole(q, h, k)
    <2>1. Whole(p, h, k) /\ l.of = o.of  BY <1>1, <1>3, <1>4, <1>13
    <2>2. PICK e \in Edition : Pure(p, e, h) \/ Arriving(p, e, h)  BY <2>1 DEF Whole
    <2>3. PageOf(p, e, h) => PageOf(q, e, h)
      BY <1>2, <1>6, <1>7, <1>11, <2>1 DEF PageOf
    <2>4. Pure(q, e, h) \/ Arriving(q, e, h)
      BY <1>11, <2>2, <2>3 DEF Pure, Arriving
    <2>5. OneOpening(q)  BY <1>2, <1>7, <1>11, <2>1 DEF Whole, OneOpening
    <2>6. Left(q, k)  BY <1>11, <2>1 DEF Whole, Left
    <2> QED  BY <2>4, <2>5, <2>6 DEF Whole
  <1> QED  BY <1>1, <1>10, <1>12, <1>13, PageBecomes

\* The answer of an opening comes.
LEMMA OpenAnsweredKeeps ==
  ASSUME ReaderInv, NEW o \in page.opens, OpenAnswered(o)
  PROVE  ReaderInv'
  <1> USE ReaderFacts
  <1>1. PICK p, s, h, m, k : p = page /\ s = server /\ h = heard /\ m = mixed /\ k = kept
    OBVIOUS
  <1>2. o \in Opening /\ o \in p.opens  BY <1>1 DEF Page
  <1>3. PICK e \in Edition : e = o.of  BY <1>2 DEF Opening
  <1>4. PICK l \in ReaderLocation : l = o.location  BY <1>2 DEF Opening
  <1>5. PICK v \in Nat : v = o.version  BY <1>2 DEF Opening
  <1>6. PICK r : r = [of |-> e, version |-> v]  OBVIOUS
  <1>7. r \in Progress /\ r.of = e /\ r.version = v  BY <1>6 DEF Progress
  <1>8. PICK os : os = p.opens \ {o}  OBVIOUS
  <1>9. os \in SUBSET Opening /\ os \subseteq p.opens  BY <1>1, <1>8 DEF Page
  <1>10. PICK c : c = [p EXCEPT !.opens = os, !.progress = r, !.location = l, !.restore = l]
    OBVIOUS
  <1>11. /\ c \in Page /\ c.url = p.url /\ c.opened = p.opened /\ c.opening = p.opening
         /\ c.progress = r /\ c.location = l /\ c.restore = l
         /\ c.asked = p.asked /\ c.timer = p.timer /\ c.queue = p.queue /\ c.opens = os
         /\ c.sync = p.sync
    <2>1. p \in Page  BY <1>1
    <2> QED  BY <1>7, <1>9, <1>10, <2>1 DEF Page
  <1>12. PICK d : d = [c EXCEPT !.opened = e, !.opening = FALSE, !.index = l.section,
                                !.sync = "restored"]
    OBVIOUS
  <1>13. l.section \in 1 .. Sections  BY DEF ReaderLocation
  <1>14. /\ d \in Page /\ d.url = c.url /\ d.opened = e /\ ~d.opening
         /\ d.progress = c.progress /\ d.location = c.location /\ d.restore = c.restore
         /\ d.asked = c.asked /\ d.timer = c.timer /\ d.queue = c.queue /\ d.opens = c.opens
    <2>1. c \in Page  BY <1>11
    <2> QED  BY <1>12, <1>13, <2>1 DEF Page
  <1>15. PICK q : q = IF c.url = Elsewhere THEN c ELSE AskSection(d)  OBVIOUS
  <1>16. PICK g : g = [h EXCEPT ![e] = @ \cup {v}]  OBVIOUS
  <1>17. /\ page' = q /\ server' = s /\ heard' = g /\ mixed' = m /\ kept' = k /\ Settled
    <2>1. c = [page EXCEPT !.opens = @ \ {o},
                           !.progress = [of |-> o.of, version |-> o.version],
                           !.location = o.location, !.restore = o.location]
      BY <1>1, <1>3, <1>4, <1>5, <1>6, <1>8, <1>10
    <2>2. d = [c EXCEPT !.opened = o.of, !.opening = FALSE,
                        !.index = o.location.section, !.sync = "restored"]
      BY <1>3, <1>4, <1>12
    <2> QED
      BY <1>1, <1>3, <1>5, <1>15, <1>16, <2>1, <2>2 DEF OpenAnswered, Tell
  <1>18. /\ g \in [Edition -> SUBSET Nat] /\ v \in g[e]
         /\ \A f \in Edition : h[f] \subseteq g[f]
    BY <1>1, <1>16
  <1>19. c.progress # None /\ c.location # None
    BY <1>7, <1>11, ReaderPageAssumption
  <1>20. CASE c.url = Elsewhere
    <2>1. Good(q)  BY <1>1, <1>11, <1>15, <1>19, <1>20 DEF Good, Knows, Follows
    <2>2. ASSUME ~m PROVE Whole(q, g, k)
      <3>1. PICK f \in Edition : Pure(p, f, h) /\ OneOpening(p) /\ Left(p, k)
        BY <1>1, <1>17, <2>2, SettledIsPure
      <3>2. e = f /\ l.of = f /\ q.opened = None /\ os = {}
        BY <1>2, <1>3, <1>4, <1>8, <1>11, <1>15, <1>20, <3>1 DEF Pure, PageOf, OneOpening
      <3>3. Pure(p, f, g)  BY <1>18, <3>1, MoreHeard
      <3>4. Pure(q, f, g)
        BY <1>7, <1>11, <1>15, <1>18, <1>20, <3>2, <3>3 DEF Pure, PageOf
      <3>5. OneOpening(q) /\ Left(q, k)
        BY <1>11, <1>15, <1>20, <3>2 DEF OneOpening, Left
      <3> QED  BY <3>4, <3>5 DEF Whole
    <2>3. ReaderValue(q, s, g, m, k)
      BY <1>1, <1>18, <2>1, <2>2 DEF ReaderValue
    <2> QED  BY <1>17, <2>3, ReaderBecomes
  <1>21. CASE c.url # Elsewhere
    <2>1. Asked(q, d)  BY <1>14, <1>15, <1>21, AskParts
    <2>2. Good(q)  BY <1>11, <1>14, <1>19, <2>1, AskedIsGood
    <2>3. ASSUME ~m PROVE Whole(q, g, k)
      <3>1. PICK f \in Edition : Pure(p, f, h) /\ OneOpening(p)
        BY <1>1, <1>17, <2>3, SettledIsPure
      <3>2. e = f /\ l.of = f /\ os = {}
        BY <1>2, <1>3, <1>4, <1>8, <3>1 DEF Pure, PageOf, OneOpening
      <3>3. Pure(p, f, g)  BY <1>18, <3>1, MoreHeard
      <3>4. Pure(d, f, g)
        BY <1>7, <1>11, <1>14, <1>18, <3>2, <3>3 DEF Pure, PageOf
      <3>5. Pure(q, f, g)  BY <1>14, <2>1, <3>4, StaysPure
      <3>6. OneOpening(q) /\ q.url # Elsewhere
        BY <1>11, <1>14, <1>21, <2>1, <3>2 DEF OneOpening, Asked
      <3> QED  BY <3>5, <3>6, NotLeft DEF Whole
    <2>4. ReaderValue(q, s, g, m, k)
      BY <1>1, <1>18, <2>2, <2>3 DEF ReaderValue
    <2> QED  BY <1>17, <2>4, ReaderBecomes
  <1> QED  BY <1>20, <1>21

\* The page of an edition becomes q, which has its queue and its openings.
LEMMA SettledBecomes ==
  ASSUME ReaderInv, Settled, NEW q, page' = q, UNCHANGED <<server, heard, mixed, kept>>,
         Good(q), q.opens = page.opens, q.opened = page.opened, q.opening = page.opening,
         NEW h, h = heard,
         q.url # Elsewhere \/ q.opened = None
           \/ (q.queue = page.queue /\ q.sync = page.sync /\ q.location = page.location
               /\ page.url = Elsewhere),
         \A e \in Edition : Pure(page, e, h) => Pure(q, e, h)
  PROVE  ReaderInv'
  <1>1. PICK p, k : p = page /\ k = kept  OBVIOUS
  <1>2. ASSUME ~mixed PROVE Whole(q, h, k)
    <2>1. PICK e \in Edition : Pure(p, e, h) /\ OneOpening(p) /\ Left(p, k)
      BY <1>1, <1>2, SettledIsPure
    <2>2. Pure(q, e, h)  BY <1>1, <2>1
    <2>3. OneOpening(q)  BY <1>1, <2>1 DEF OneOpening
    <2>4. Left(q, k)  BY <1>1, <2>1 DEF Left
    <2> QED  BY <2>2, <2>3, <2>4 DEF Whole
  <1> QED  BY <1>1, <1>2, PageBecomes

\* The opening fails.
LEMMA OpenFailsKeeps ==
  ASSUME ReaderInv, NEW o \in page.opens, OpenFails(o)
  PROVE  ReaderInv'
  <1> USE ReaderFacts
  <1>1. PICK p, h, k : p = page /\ h = heard /\ k = kept  OBVIOUS
  <1>2. PICK os : os = p.opens \ {o}  OBVIOUS
  <1>3. os \in SUBSET Opening /\ os \subseteq p.opens /\ o \in p.opens
    BY <1>1, <1>2 DEF Page
  <1>4. PICK q : q = [p EXCEPT !.opens = os, !.error = TRUE, !.opening = FALSE]  OBVIOUS
  <1>5. /\ q \in Page /\ q.url = p.url /\ q.opened = p.opened
        /\ q.progress = p.progress /\ q.location = p.location
        /\ q.restore = p.restore /\ q.index = p.index /\ q.asked = p.asked
        /\ q.section = p.section /\ q.sectionError = p.sectionError
        /\ q.timer = p.timer /\ q.sync = p.sync /\ q.queue = p.queue /\ q.opens = os
    <2>1. p \in Page  BY <1>1
    <2> QED  BY <1>3, <1>4, <2>1 DEF Page
  <1>6. page' = q /\ UNCHANGED <<server, heard, mixed, kept>> /\ Settled
    BY <1>1, <1>2, <1>4 DEF OpenFails
  <1>7. Good(q)  BY <1>1, <1>5 DEF Good, Knows, Follows
  <1>8. ASSUME ~mixed PROVE Whole(q, h, k)
    <2>1. PICK e \in Edition : Pure(p, e, h) /\ OneOpening(p) /\ Left(p, k)
      BY <1>1, <1>6, <1>8, SettledIsPure
    <2>2. os = {}  BY <1>2, <1>3, <2>1 DEF OneOpening
    <2>3. Pure(q, e, h)  BY <1>5, <2>1, <2>2 DEF Pure, PageOf
    <2>4. OneOpening(q) /\ Left(q, k)  BY <1>5, <2>1, <2>2 DEF OneOpening, Left
    <2> QED  BY <2>3, <2>4 DEF Whole
  <1> QED  BY <1>1, <1>6, <1>7, <1>8, PageBecomes

\* The edition of the page is asked for again.
LEMMA ReaderReloadKeeps ==
  ASSUME ReaderInv, RetryOpen \/ UseCloud
  PROVE  ReaderInv'
  <1> USE ReaderFacts
  <1>1. PICK p, h, k : p = page /\ h = heard /\ k = kept  OBVIOUS
  <1>2. PICK q : q = LoadReader(p)  OBVIOUS
  <1>3. /\ page' = q /\ UNCHANGED <<server, heard, mixed, kept>> /\ Settled
        /\ p.url # Elsewhere /\ ~p.opening
    BY <1>1, <1>2 DEF RetryOpen, UseCloud, Shown
  <1>4. Loads(q, p)  BY <1>1, <1>2, <1>3, LoadParts
  <1>5. Good(q)  BY <1>1, <1>4, PageStaysGood
  <1>6. ASSUME ~mixed PROVE Whole(q, h, k)
    <2>1. PICK e \in Edition : Pure(p, e, h) /\ OneOpening(p)
      BY <1>1, <1>3, <1>6, SettledIsPure
    <2>2. p.opens = {}  BY <1>3, <2>1 DEF OneOpening
    <2>3. Pure(q, e, h)  BY <1>1, <1>3, <1>4, <2>1, StaysPure
    <2>4. OneOpening(q)  BY <1>4, <2>2 DEF Loads, OneOpening
    <2>5. q.url # Elsewhere  BY <1>3, <1>4 DEF Loads
    <2> QED  BY <2>3, <2>4, <2>5, NotLeft DEF Whole
  <1> QED  BY <1>1, <1>3, <1>5, <1>6, PageBecomes

\* The section comes.
LEMMA SectionArrivesKeeps ==
  ASSUME ReaderInv, SectionArrives
  PROVE  ReaderInv'
  <1> USE ReaderFacts
  <1>1. PICK p, h : p = page /\ h = heard  OBVIOUS
  <1>2. PICK r \in ReaderLocation \cup {None} :
            r = IF p.restore # None /\ p.restore.section = p.index THEN None ELSE p.restore
    BY <1>1 DEF Page
  <1>3. PICK place : place = IF p.restore # None /\ p.restore.section = p.index
                             THEN p.restore.place ELSE "top"
    OBVIOUS
  <1>4. place \in {"top", "below"}  BY <1>1, <1>3 DEF Page, ReaderLocation
  <1>5. PICK c : c = [p EXCEPT !.asked = FALSE, !.section = p.index, !.restore = r]
    OBVIOUS
  <1>6. /\ c \in Page /\ c.url = p.url /\ c.opened = p.opened /\ c.opening = p.opening
        /\ c.progress = p.progress /\ c.location = p.location
        /\ c.restore = r /\ c.index = p.index /\ ~c.asked
        /\ c.section = p.index /\ c.scroll = p.scroll
        /\ c.timer = p.timer /\ c.sync = p.sync /\ c.queue = p.queue /\ c.opens = p.opens
    <2>1. p \in Page  BY <1>1
    <2>2. PICK n \in 0 .. Sections : n = p.index  BY <2>1, ReaderPageAssumption DEF Page
    <2>3. c = [p EXCEPT !.asked = FALSE, !.section = n, !.restore = r]  BY <1>5, <2>2
    <2>4. c \in Page  BY <2>1, <2>3 DEF Page
    <2> QED  BY <2>1, <2>2, <2>3, <2>4 DEF Page
  <1>7. PICK q : q = IF place = c.scroll THEN c ELSE Measured(c, place)  OBVIOUS
  <1>8. page' = q /\ UNCHANGED <<server, heard, mixed, kept>> /\ Settled /\ p.asked
    <2>1. c = [page EXCEPT !.asked = FALSE, !.section = page.index,
                           !.restore = IF page.restore # None /\ page.restore.section = page.index
                                       THEN None ELSE @]
      BY <1>1, <1>2, <1>5
    <2> QED  BY <1>1, <1>3, <1>7, <2>1 DEF SectionArrives
  <1>9. p.url # Elsewhere /\ p.opened # None /\ c.section # 0
    <2>1. Knows(p)  BY <1>1
    <2>2. p.index # 0  BY <1>1, ReaderPageAssumption DEF Page
    <2> QED  BY <1>6, <1>8, <2>1, <2>2 DEF Knows
  <1>10. q = c \/ Measures(q, c)
    BY <1>4, <1>6, <1>7, <1>9, MeasureParts
  <1>11. Good(c)
    <2>1. Knows(p)  BY <1>1
    <2> QED  BY <1>6, <2>1 DEF Good, Knows, Follows
  <1>12. Good(q)  BY <1>10, <1>11, PageStaysGood
  <1>13. /\ q.opens = p.opens /\ q.opened = p.opened /\ q.opening = p.opening
         /\ q.url # Elsewhere
    BY <1>6, <1>9, <1>10 DEF Measures
  <1>14. ASSUME NEW e \in Edition, Pure(p, e, h) PROVE Pure(q, e, h)
    <2>1. Pure(c, e, h)  BY <1>2, <1>6, <1>14 DEF Pure, PageOf
    <2> QED  BY <1>6, <1>9, <1>10, <2>1, StaysPure
  <1> QED  BY <1>1, <1>8, <1>12, <1>13, <1>14, SettledBecomes

\* The section does not come.
LEMMA SectionFailsKeeps ==
  ASSUME ReaderInv, SectionFails
  PROVE  ReaderInv'
  <1> USE ReaderFacts
  <1>1. PICK p, h : p = page /\ h = heard  OBVIOUS
  <1>2. PICK q : q = [p EXCEPT !.asked = FALSE, !.sectionError = TRUE]  OBVIOUS
  <1>3. /\ q \in Page /\ q.url = p.url /\ q.opened = p.opened /\ q.opening = p.opening
        /\ q.progress = p.progress /\ q.location = p.location
        /\ q.restore = p.restore /\ ~q.asked /\ q.sectionError
        /\ q.timer = p.timer /\ q.sync = p.sync /\ q.queue = p.queue /\ q.opens = p.opens
    <2>1. p \in Page  BY <1>1
    <2> QED  BY <1>2, <2>1 DEF Page
  <1>4. page' = q /\ UNCHANGED <<server, heard, mixed, kept>> /\ Settled /\ p.asked
    BY <1>1, <1>2 DEF SectionFails
  <1>5. Good(q)  BY <1>1, <1>3 DEF Good, Knows, Follows
  <1>6. q.url # Elsewhere  BY <1>1, <1>3, <1>4 DEF Knows
  <1>7. ASSUME NEW e \in Edition, Pure(p, e, h) PROVE Pure(q, e, h)
    BY <1>3, <1>7 DEF Pure, PageOf
  <1> QED  BY <1>1, <1>3, <1>4, <1>5, <1>6, <1>7, SettledBecomes

\* The section is asked for again, or the reader scrolls.
LEMMA ScrollingKeeps ==
  ASSUME ReaderInv, RetrySection \/ \E place \in {"top", "below"} : Scroll(place)
  PROVE  ReaderInv'
  <1> USE ReaderFacts
  <1>1. PICK p, h : p = page /\ h = heard  OBVIOUS
  <1>2. CASE RetrySection
    <2>1. PICK q : q = AskSection(p)  OBVIOUS
    <2>2. /\ page' = q /\ UNCHANGED <<server, heard, mixed, kept>> /\ Settled
          /\ p.url # Elsewhere
      BY <1>1, <1>2, <2>1 DEF RetrySection, Shown
    <2>3. Asked(q, p)  BY <1>1, <2>1, AskParts
    <2>4. Good(q)  BY <1>1, <2>3, AskedIsGood DEF Knows
    <2>5. ASSUME NEW e \in Edition, Pure(p, e, h) PROVE Pure(q, e, h)
      BY <1>1, <2>3, <2>5, StaysPure
    <2>6. /\ q.opens = p.opens /\ q.opened = p.opened /\ q.opening = p.opening
          /\ q.url # Elsewhere
      BY <2>2, <2>3 DEF Asked
    <2> QED  BY <1>1, <2>2, <2>4, <2>5, <2>6, SettledBecomes
  <1>3. ASSUME NEW place \in {"top", "below"}, Scroll(place) PROVE ReaderInv'
    <2>1. PICK q : q = Measured(p, place)  OBVIOUS
    <2>2. /\ page' = q /\ UNCHANGED <<server, heard, mixed, kept>> /\ Settled
          /\ p.url # Elsewhere /\ p.opened # None /\ p.section # 0
      BY <1>1, <1>3, <2>1 DEF Scroll, Shown
    <2>3. Measures(q, p)  BY <1>1, <2>1, <2>2, MeasureParts
    <2>4. Good(q)  BY <1>1, <2>3, PageStaysGood
    <2>5. ASSUME NEW e \in Edition, Pure(p, e, h) PROVE Pure(q, e, h)
      BY <1>1, <2>2, <2>3, <2>5, StaysPure
    <2>6. /\ q.opens = p.opens /\ q.opened = p.opened /\ q.opening = p.opening
          /\ q.url # Elsewhere
      BY <2>2, <2>3 DEF Measures
    <2> QED  BY <1>1, <2>2, <2>4, <2>5, <2>6, SettledBecomes
  <1> QED  BY <1>2, <1>3

\* The position l is saved by the closure by; g are the versions heard then.
Saving(p, by, l, override, then, h, g) ==
    /\ Good(p)
    /\ by.opened # None => by \in Closure
    /\ l \in ReaderLocation \cup {None} /\ override \in Nat /\ then \in Then
    /\ g \in [Edition -> SUBSET Nat] /\ \A e \in Edition : h[e] \subseteq g[e]
    /\ p.url = page.url /\ p.opened = page.opened /\ p.opening = page.opening
    /\ p.opens = page.opens /\ p.queue = page.queue /\ p.sync = page.sync
    /\ p.url = Elsewhere => p.location = page.location /\ l = page.location
    /\ \A e \in Edition : Pure(page, e, h) =>
         /\ Pure(p, e, h)
         /\ by.opened # None => by.url = e /\ by.opened = e
         /\ l # None => l.of = e
         /\ override # 0 => override \in g[e]

\* A page that saves what is of its edition keeps the invariant.
LEMMA SavingKeeps ==
  ASSUME ReaderInv, Settled, NEW p, NEW by, NEW l, NEW override, NEW then, NEW h, NEW g,
         h = heard, Saving(p, by, l, override, then, h, g),
         page' = Persist(p, by, l, override, then), heard' = g,
         UNCHANGED <<server, mixed, kept>>
  PROVE  ReaderInv'
  <1> USE ReaderFacts
  <1>1. PICK o, s, m, k : o = page /\ s = server /\ m = mixed /\ k = kept  OBVIOUS
  <1>2. PICK q : q = Persist(p, by, l, override, then)  OBVIOUS
  <1>3. p \in Page /\ Good(p)  BY DEF Saving, Good
  <1>4. ButQueue(q, p) /\ Queued(q.queue, p.queue, by, l, override, then)
    BY <1>2, <1>3, PersistParts DEF Saving
  <1>5. Good(q)  BY <1>3, <1>4, PageStaysGood
  <1>6. ASSUME ~m PROVE Whole(q, g, k)
    <2>1. PICK e \in Edition : Pure(o, e, h) /\ OneOpening(o) /\ Left(o, k)
      BY <1>1, <1>6, SettledIsPure
    <2>2. /\ Pure(p, e, h) /\ (by.opened # None => by.url = e /\ by.opened = e)
          /\ (l # None => l.of = e) /\ (override # 0 => override \in g[e])
      BY <1>1, <2>1 DEF Saving
    <2>3. Pure(p, e, g)
      <3>1. \A f \in Edition : h[f] \subseteq g[f]  BY DEF Saving
      <3> QED  BY <2>2, <3>1, MoreHeard
    <2>4. OneOpening(p)  BY <1>1, <2>1 DEF OneOpening, Saving
    <2>5. Left(p, k)  BY <1>1, <2>1 DEF Left, Saving
    <2>6. p.url = Elsewhere => l = p.location  BY DEF Saving
    <2> QED  BY <1>3, <1>4, <2>2, <2>3, <2>4, <2>5, <2>6, QueuedKeeps
  <1>7. ReaderValue(q, s, g, m, k)
    BY <1>1, <1>5, <1>6 DEF ReaderValue, Saving
  <1> QED  BY <1>1, <1>2, <1>7, ReaderBecomes

\* The page saves where it is, with its own closure.
LEMMA HereSaved ==
  ASSUME ReaderInv, Settled, NEW p, NEW then \in Then, NEW url \in Edition, url = page.url,
         p = page \/ p = [page EXCEPT !.timer = None],
         page' = Persist(p, Here(page), page.location, 0, then),
         UNCHANGED <<server, heard, mixed, kept>>
  PROVE  ReaderInv'
  <1> USE ReaderFacts
  <1>1. PICK o, h : o = page /\ h = heard  OBVIOUS
  <1>2. PICK by, l : by = Here(o) /\ l = o.location  OBVIOUS
  <1>3. /\ p \in Page /\ p.url = o.url /\ p.opened = o.opened /\ p.opening = o.opening
        /\ p.progress = o.progress /\ p.location = o.location
        /\ p.restore = o.restore /\ p.index = o.index /\ p.asked = o.asked
        /\ p.section = o.section /\ p.sectionError = o.sectionError
        /\ p.timer \in {o.timer, None} /\ p.sync = o.sync /\ p.queue = o.queue
        /\ p.opens = o.opens
    <2>1. o \in Page  BY <1>1
    <2>2. p = o \/ p = [o EXCEPT !.timer = None]  BY <1>1
    <2> QED  BY <2>1, <2>2 DEF Page
  <1>4. Good(p)  BY <1>1, <1>3 DEF Good, Knows, Follows
  <1>5. by.url = url /\ by.opened = o.opened  BY <1>1, <1>2 DEF Here
  <1>6. by.opened # None => by \in Closure
    BY <1>1, <1>2, <1>5 DEF Here, Closure, Page
  <1>7. l \in ReaderLocation \cup {None} /\ 0 \in Nat  BY <1>1, <1>2 DEF Page
  <1>8. ASSUME NEW e \in Edition, Pure(o, e, h)
        PROVE  /\ Pure(p, e, h)
               /\ by.opened # None => by.url = e /\ by.opened = e
               /\ l # None => l.of = e
    BY <1>1, <1>2, <1>3, <1>5, <1>8, ReaderPageAssumption DEF Pure, PageOf
  <1>9. o.url # Elsewhere  BY <1>1, ReaderPageAssumption
  <1>10. Saving(p, by, l, 0, then, h, h)
    BY <1>1, <1>3, <1>4, <1>6, <1>7, <1>8, <1>9 DEF Saving
  <1> QED  BY <1>1, <1>2, <1>10, SavingKeeps

\* The page is hidden, or the book is marked as finished.
LEMMA HideKeeps ==
  ASSUME ReaderInv, Hide \/ MarkFinished
  PROVE  ReaderInv'
  <1> USE ReaderFacts
  <1>1. PICK url : url = page.url  OBVIOUS
  <1>2. url \in Edition  BY <1>1 DEF Hide, MarkFinished, Shown, Page
  <1>3. PICK then : then = Nothing(url)  OBVIOUS
  <1>4. then \in Then  BY <1>2, <1>3, ReaderPageAssumption DEF Nothing, Then
  <1>5. PICK p : p = page  OBVIOUS
  <1>6. /\ page' = Persist(p, Here(page), page.location, 0, then) /\ Settled
        /\ UNCHANGED <<server, heard, mixed, kept>>
    BY <1>1, <1>3, <1>5 DEF Hide, MarkFinished, Shown
  <1> QED  BY <1>1, <1>2, <1>4, <1>5, <1>6, HereSaved

\* A button that saves first.
LEMMA SaveThenKeeps ==
  ASSUME ReaderInv, NEW then \in Then, SaveThen(then)
  PROVE  ReaderInv'
  <1> USE ReaderFacts
  <1>1. PICK url : url = page.url  OBVIOUS
  <1>2. url \in Edition  BY <1>1 DEF SaveThen, Shown, Page
  <1>3. PICK p : p = [page EXCEPT !.timer = None]  OBVIOUS
  <1>4. /\ page' = Persist(p, Here(page), page.location, 0, then) /\ Settled
        /\ UNCHANGED <<server, heard, mixed, kept>>
    BY <1>3 DEF SaveThen, Shown
  <1> QED  BY <1>1, <1>2, <1>3, <1>4, HereSaved

\* The buttons that leave, go to a section and switch the edition keep it.
LEMMA ButtonsKeep ==
  ASSUME ReaderInv,
         \/ LeaveReader
         \/ \E k \in 1 .. Sections : GoTo(k)
         \/ \E e \in Edition : SwitchEdition(e)
  PROVE  ReaderInv'
  <1> USE ReaderFacts
  <1>0. 1 \in 1 .. Sections  BY ReaderPageAssumption
  <1>1. CASE LeaveReader
    <2>1. PICK then : then = [do |-> "leave", section |-> 1, edition |-> page.url]  OBVIOUS
    <2>2. SaveThen(then)  BY <1>1, <2>1 DEF LeaveReader
    <2>3. page.url \in Edition  BY <2>2 DEF SaveThen, Shown, Page
    <2>4. then \in Then  BY <1>0, <2>1, <2>3 DEF Then
    <2> QED  BY <2>2, <2>4, SaveThenKeeps
  <1>2. ASSUME NEW k \in 1 .. Sections, GoTo(k) PROVE ReaderInv'
    <2>1. PICK then : then = [do |-> "goto", section |-> k, edition |-> page.url]  OBVIOUS
    <2>2. SaveThen(then)  BY <1>2, <2>1 DEF GoTo
    <2>3. page.url \in Edition  BY <2>2 DEF SaveThen, Shown, Page
    <2>4. then \in Then  BY <2>1, <2>3 DEF Then
    <2> QED  BY <2>2, <2>4, SaveThenKeeps
  <1>3. ASSUME NEW e \in Edition, SwitchEdition(e) PROVE ReaderInv'
    <2>1. PICK then : then = [do |-> "switch", section |-> 1, edition |-> e]  OBVIOUS
    <2>2. SaveThen(then)  BY <1>3, <2>1 DEF SwitchEdition
    <2>3. then \in Then  BY <1>0, <2>1 DEF Then
    <2> QED  BY <2>2, <2>3, SaveThenKeeps
  <1> QED  BY <1>1, <1>2, <1>3

\* A second after the last scrolling.
LEMMA TimerFiresKeeps ==
  ASSUME ReaderInv, TimerFires
  PROVE  ReaderInv'
  <1> USE ReaderFacts
  <1>1. PICK o, h : o = page /\ h = heard  OBVIOUS
  <1>2. PICK by, l : by = o.timer /\ l = o.location  OBVIOUS
  <1>3. by \in Closure /\ by.url \in Edition
    BY <1>1, <1>2 DEF TimerFires, Page, Closure
  <1>4. PICK then : then = Nothing(by.url)  OBVIOUS
  <1>5. then \in Then  BY <1>3, <1>4, ReaderPageAssumption DEF Nothing, Then
  <1>6. PICK p : p = [o EXCEPT !.timer = None]  OBVIOUS
  <1>7. /\ p \in Page /\ p.url = o.url /\ p.opened = o.opened /\ p.opening = o.opening
        /\ p.progress = o.progress /\ p.location = o.location
        /\ p.restore = o.restore /\ p.index = o.index /\ p.asked = o.asked
        /\ p.section = o.section /\ p.sectionError = o.sectionError
        /\ p.timer = None /\ p.sync = o.sync /\ p.queue = o.queue
        /\ p.opens = o.opens
    <2>1. o \in Page  BY <1>1
    <2> QED  BY <1>6, <2>1 DEF Page
  <1>8. Good(p)  BY <1>1, <1>7 DEF Good, Knows, Follows
  <1>9. l \in ReaderLocation \cup {None} /\ 0 \in Nat  BY <1>1, <1>2 DEF Page
  <1>10. ASSUME NEW e \in Edition, Pure(o, e, h)
         PROVE  /\ Pure(p, e, h)
                /\ by.opened # None => by.url = e /\ by.opened = e
                /\ l # None => l.of = e
    <2>1. by # None  BY <1>3, ReaderPageAssumption
    <2> QED  BY <1>2, <1>7, <1>10, <2>1 DEF Pure, PageOf
  <1>11. Saving(p, by, l, 0, then, h, h)
    BY <1>1, <1>2, <1>3, <1>5, <1>7, <1>8, <1>9, <1>10 DEF Saving
  <1>12. /\ page' = Persist(p, by, l, 0, then) /\ Settled /\ heard' = h
         /\ UNCHANGED <<server, mixed, kept>>
    BY <1>1, <1>2, <1>4, <1>6 DEF TimerFires
  <1> QED  BY <1>1, <1>11, <1>12, SavingKeeps

\* Reading starts again.
LEMMA RestartKeeps ==
  ASSUME ReaderInv, RestartReading
  PROVE  ReaderInv'
  <1> USE ReaderFacts
  <1>1. PICK o, h : o = page /\ h = heard  OBVIOUS
  <1>2. o.url \in Edition /\ o.opened \in Edition /\ o.url # Elsewhere
    BY <1>1 DEF RestartReading, Shown, Page
  <1>3. 1 \in 1 .. Sections /\ 0 \in Nat  BY ReaderPageAssumption
  <1>4. PICK l : l = Top(o.opened, 1)  OBVIOUS
  <1>5. l \in ReaderLocation /\ l.of = o.opened
    BY <1>2, <1>3, <1>4 DEF Top, ReaderLocation
  <1>6. PICK by : by = Here(o)  OBVIOUS
  <1>7. by \in Closure /\ by.url = o.url /\ by.opened = o.opened
    BY <1>2, <1>6 DEF Here, Closure
  <1>8. PICK then : then = [do |-> "restart", section |-> 1, edition |-> o.url]  OBVIOUS
  <1>9. then \in Then  BY <1>2, <1>3, <1>8 DEF Then
  <1>10. PICK p : p = [o EXCEPT !.location = l, !.restore = l]  OBVIOUS
  <1>11. /\ p \in Page /\ p.url = o.url /\ p.opened = o.opened /\ p.opening = o.opening
         /\ p.progress = o.progress /\ p.location = l
         /\ p.restore = l /\ p.index = o.index /\ p.asked = o.asked
         /\ p.section = o.section /\ p.sectionError = o.sectionError
         /\ p.timer = o.timer /\ p.sync = o.sync /\ p.queue = o.queue
         /\ p.opens = o.opens
    <2>1. o \in Page  BY <1>1
    <2> QED  BY <1>5, <1>10, <2>1 DEF Page
  <1>12. Good(p)
    <2>1. l # None  BY <1>5, ReaderPageAssumption
    <2> QED  BY <1>1, <1>11, <2>1 DEF Good, Knows, Follows
  <1>13. ASSUME NEW e \in Edition, Pure(o, e, h)
         PROVE  /\ Pure(p, e, h) /\ by.url = e /\ by.opened = e /\ l.of = e
    <2>1. o.opened = e /\ o.url = e  BY <1>2, <1>13, ReaderPageAssumption DEF Pure, PageOf
    <2> QED  BY <1>5, <1>7, <1>11, <1>13, <2>1 DEF Pure, PageOf
  <1>14. Saving(p, by, l, 0, then, h, h)
    BY <1>1, <1>2, <1>3, <1>5, <1>7, <1>9, <1>11, <1>12, <1>13 DEF Saving
  <1>15. /\ page' = Persist(p, by, l, 0, then) /\ Settled /\ heard' = h
         /\ UNCHANGED <<server, mixed, kept>>
    BY <1>1, <1>4, <1>6, <1>8, <1>10 DEF RestartReading, Shown
  <1> QED  BY <1>1, <1>14, <1>15, SavingKeeps

\* The reader overwrites what the conflict is with.
LEMMA OverwriteKeeps ==
  ASSUME ReaderInv, Overwrite
  PROVE  ReaderInv'
  <1> USE ReaderFacts
  <1>1. PICK o, h : o = page /\ h = heard  OBVIOUS
  <1>2. o.url \in Edition /\ o.url # Elsewhere /\ o.conflict \in Nat
    BY <1>1 DEF Overwrite, Shown, Page
  <1>3. PICK by, l, v, u : by = Here(o) /\ l = o.location /\ v = o.conflict /\ u = o.url
    OBVIOUS
  <1>4. by.url = u /\ by.opened = o.opened /\ (by.opened # None => by \in Closure)
    BY <1>1, <1>2, <1>3 DEF Here, Closure, Page
  <1>5. PICK then : then = Nothing(u)  OBVIOUS
  <1>6. then \in Then  BY <1>2, <1>3, <1>5, ReaderPageAssumption DEF Nothing, Then
  <1>7. l \in ReaderLocation \cup {None}  BY <1>1, <1>3 DEF Page
  <1>8. PICK g : g = [h EXCEPT ![u] = @ \cup {v}]  OBVIOUS
  <1>9. /\ g \in [Edition -> SUBSET Nat] /\ v \in g[u]
        /\ \A f \in Edition : h[f] \subseteq g[f]
    BY <1>1, <1>2, <1>3, <1>8
  <1>10. ASSUME NEW e \in Edition, Pure(o, e, h)
         PROVE  /\ by.opened # None => by.url = e /\ by.opened = e
                /\ l # None => l.of = e
                /\ u = e
    BY <1>2, <1>3, <1>4, <1>10, ReaderPageAssumption DEF Pure, PageOf
  <1>11. Saving(o, by, l, v, then, h, g)
    BY <1>1, <1>2, <1>3, <1>4, <1>6, <1>7, <1>9, <1>10 DEF Saving
  <1>12. /\ page' = Persist(o, by, l, v, then) /\ Settled /\ heard' = g
         /\ UNCHANGED <<server, mixed, kept>>
    BY <1>1, <1>3, <1>5, <1>8 DEF Overwrite, Shown, Tell
  <1> QED  BY <1>1, <1>11, <1>12, SavingKeeps

\* The first save of a queue is replaced.
LEMMA HeadReplaced ==
  ASSUME NEW s \in Seq(Save), s # <<>>, NEW u \in Save, u.location = Head(s).location,
         NEW r, r = [s EXCEPT ![1] = u]
  PROVE  /\ r \in Seq(Save) /\ r # <<>> /\ r[Len(r)].location = s[Len(s)].location
         /\ \A e, h : QueueOf(s, e, h) /\ SaveOf(u, e, h) => QueueOf(r, e, h)
  <1>1. Len(s) \in Nat /\ Len(s) # 0 /\ 1 \in DOMAIN s /\ Head(s) = s[1]  OBVIOUS
  <1>2. r \in Seq(Save) /\ Len(r) = Len(s)  BY <1>1
  <1>3. r # <<>>  BY <1>1, <1>2
  <1>4. \A i \in DOMAIN s : r[i] = IF i = 1 THEN u ELSE s[i]  OBVIOUS
  <1>5. DOMAIN r = DOMAIN s /\ Len(s) \in DOMAIN s  BY <1>1
  <1>6. r[Len(r)].location = s[Len(s)].location
    BY <1>1, <1>2, <1>4, <1>5
  <1>7. \A e, h : QueueOf(s, e, h) /\ SaveOf(u, e, h) => QueueOf(r, e, h)
    BY <1>4, <1>5 DEF QueueOf
  <1> QED  BY <1>2, <1>3, <1>6, <1>7

\* The page q is o with the queue r, and perhaps with a footer that says it saves.
SaveWaits(q, o, r) ==
    /\ q \in Page /\ q.url = o.url /\ q.opened = o.opened /\ q.opening = o.opening
    /\ q.progress = o.progress /\ q.location = o.location
    /\ q.restore = o.restore /\ q.index = o.index /\ q.asked = o.asked
    /\ q.section = o.section /\ q.sectionError = o.sectionError
    /\ q.timer = o.timer /\ q.sync \in {o.sync, "syncing"} /\ q.queue = r
    /\ q.opens = o.opens

\* What stays as it is when the first save is sent or answered.
LEMMA WaitParts ==
  ASSUME NEW o \in Page, NEW r \in Seq(Save), NEW q,
         q = [o EXCEPT !.queue = r] \/ q = [o EXCEPT !.sync = "syncing", !.queue = r]
  PROVE  SaveWaits(q, o, r)
  <1>1. PICK c : c = [o EXCEPT !.queue = r]  OBVIOUS
  <1>2. SaveWaits(c, o, r)  BY <1>1 DEF SaveWaits, Page
  <1>3. CASE q = c  BY <1>2, <1>3
  <1>4. CASE q = [o EXCEPT !.sync = "syncing", !.queue = r]
    <2>1. c \in Page  BY <1>2 DEF SaveWaits
    <2>2. q = [c EXCEPT !.sync = "syncing"]  BY <1>1, <1>4
    <2>3. q \in Page  BY <2>1, <2>2 DEF Page
    <2>4. /\ q.url = c.url /\ q.opened = c.opened /\ q.opening = c.opening
          /\ q.progress = c.progress /\ q.location = c.location
          /\ q.restore = c.restore /\ q.index = c.index /\ q.asked = c.asked
          /\ q.section = c.section /\ q.sectionError = c.sectionError
          /\ q.timer = c.timer /\ q.sync = "syncing" /\ q.queue = c.queue
          /\ q.opens = c.opens
      BY <2>1, <2>2 DEF Page
    <2> QED  BY <1>2, <2>3, <2>4 DEF SaveWaits
  <1> QED  BY <1>1, <1>3, <1>4

\* The first save is sent, or the server answers it.
LEMMA HeadBecomes ==
  ASSUME ReaderInv, NEW o, o = page, o.queue # <<>>, NEW h, h = heard,
         NEW u \in Save, u.location = Head(o.queue).location,
         NEW r, r = [o.queue EXCEPT ![1] = u],
         NEW q, q = [o EXCEPT !.queue = r] \/ q = [o EXCEPT !.sync = "syncing", !.queue = r],
         page' = q, UNCHANGED <<heard, kept>>,
         NEW s \in [Edition -> [version : Nat, location : ReaderLocation]], server' = s,
         ~mixed => \A f \in Edition : s[f].location.of = f,
         mixed' \in BOOLEAN, ~mixed' => ~mixed,
         ~mixed => \E e \in Edition : Pure(o, e, h),
         \A e \in Edition : Pure(o, e, h) => SaveOf(u, e, h)
  PROVE  ReaderInv'
  <1> USE ReaderFacts
  <1>1. PICK k, m : k = kept /\ m = mixed'  OBVIOUS
  <1>2. o \in Page /\ o.queue \in Seq(Save) /\ Good(o)  BY DEF Page
  <1>3. /\ r \in Seq(Save) /\ r # <<>> /\ r[Len(r)].location = o.queue[Len(o.queue)].location
        /\ \A e : QueueOf(o.queue, e, h) /\ SaveOf(u, e, h) => QueueOf(r, e, h)
    <2>1. PICK w : w = o.queue  OBVIOUS
    <2>2. w \in Seq(Save) /\ w # <<>> /\ u.location = Head(w).location /\ r = [w EXCEPT ![1] = u]
      BY <1>2, <2>1
    <2>3. /\ r \in Seq(Save) /\ r # <<>> /\ r[Len(r)].location = w[Len(w)].location
          /\ \A e, g : QueueOf(w, e, g) /\ SaveOf(u, e, g) => QueueOf(r, e, g)
      BY <2>2, HeadReplaced
    <2> QED  BY <2>1, <2>3
  <1>4. SaveWaits(q, o, r)  BY <1>2, <1>3, WaitParts
  <1>5. Good(q)  BY <1>2, <1>4 DEF Good, Knows, Follows, SaveWaits
  <1>6. ASSUME ~m PROVE Whole(q, h, k)
    <2>1. PICK e \in Edition : Pure(o, e, h)  BY <1>1, <1>6
    <2>2. OneOpening(o) /\ Left(o, k)  BY <1>1, <1>6 DEF Whole
    <2>3. Pure(q, e, h)  BY <1>3, <1>4, <2>1 DEF Pure, PageOf, SaveWaits
    <2>4. OneOpening(q)  BY <1>4, <2>2 DEF OneOpening, SaveWaits
    <2>5. Left(q, k)  BY <1>3, <1>4, <2>2 DEF Left, SaveWaits
    <2> QED  BY <2>3, <2>4, <2>5 DEF Whole
  <1>7. ReaderValue(q, s, h, m, k)
    BY <1>1, <1>5, <1>6 DEF ReaderValue
  <1> QED  BY <1>1, <1>7, ReaderBecomes

\* A first save that was sent or answered belongs to the edition of its page.
LEMMA HeadIsPure ==
  ASSUME ReaderInv, ~mixed, page.queue # <<>>,
         \/ page.progress # None
         \/ Head(page.queue).sent
         \/ Head(page.queue).answer # "none",
         NEW h, h = heard
  PROVE  \E e \in Edition : Pure(page, e, h)
  <1>1. PICK p, k : p = page /\ k = kept  OBVIOUS
  <1>2. Whole(p, h, k)  BY <1>1, ReaderFacts
  <1>3. PICK e \in Edition : Pure(p, e, h) \/ Arriving(p, e, h)  BY <1>2 DEF Whole
  <1>4. ~Arriving(p, e, h)
    <2> SUFFICES ASSUME Arriving(p, e, h) PROVE FALSE  OBVIOUS
    <2>1. PICK t \in Save : p.queue = <<t>> /\ ~t.sent /\ t.answer = "none"
      BY DEF Arriving, Parting
    <2>2. p.progress = None /\ Head(p.queue) = t  BY <2>1 DEF Arriving
    <2> QED  BY <1>1, <2>1, <2>2
  <1> QED  BY <1>1, <1>3, <1>4

\* The first save ends, with what was heard, on the page p, which is the page but for
\* what the end of the save says.
LEMMA EndsKeeps ==
  ASSUME ReaderInv, NEW o, o = page, o.queue # <<>>, NEW t, t = Head(o.queue),
         NEW p \in Page, Knows(p), NEW success \in BOOLEAN,
         success \/ p.opened = None \/ (Follows(p) /\ p.sync \in {"failed", "conflict"}),
         p.url = o.url, p.opened = o.opened, p.opening = o.opening,
         p.location = o.location, p.opens = o.opens, p.queue = o.queue,
         page' = Ended(p, t, success), Mix(Tail(page.queue)), UNCHANGED server,
         NEW h, h = heard, NEW g \in [Edition -> SUBSET Nat], heard' = g,
         NEW k \in ReaderLocation \cup {None}, kept' = k,
         p.sync \in {"failed", "conflict"} \/ p.opened = None \/ k = t.location,
         ~mixed => \E e \in Edition : Pure(o, e, h),
         \A e \in Edition : Pure(o, e, h) => Pure(p, e, g)
  PROVE  ReaderInv'
  <1> USE ReaderFacts
  <1>1. PICK s, m, j : s = server /\ m = mixed' /\ j = kept  OBVIOUS
  <1>2. PICK q : q = Ended(p, t, success)  OBVIOUS
  <1>3. t \in Save
    <2>1. o.queue \in Seq(Save)  BY DEF Page
    <2> QED  BY <2>1
  <1>4. PageEnds(q, p, t, success) /\ q \in Page  BY <1>2, <1>3, EndedParts
  <1>5. Good(q)  BY <1>3, <1>4, EndsGood
  <1>6. /\ m \in BOOLEAN
        /\ ~m => ~mixed
        /\ ~m /\ q.url \notin {o.url, Elsewhere} => Tail(o.queue) = <<>> /\ o.opens = {}
    BY <1>1, <1>2 DEF Mix
  <1>7. ASSUME ~m PROVE Whole(q, g, k)
    <2>1. PICK e \in Edition : Pure(o, e, h)  BY <1>6, <1>7
    <2>2. OneOpening(o) /\ Left(o, j)  BY <1>1, <1>6, <1>7 DEF Whole
    <2>3. Pure(p, e, g)  BY <2>1
    <2>4. OneOpening(p)  BY <2>2 DEF OneOpening
    <2>5. p.url = Elsewhere /\ p.opened # None =>
            /\ p.queue[Len(p.queue)].location = p.location
            /\ p.sync \in {"failed", "conflict"} \/ k = t.location
      BY <2>2 DEF Left
    <2>6. q.url \notin {p.url, Elsewhere} => Tail(p.queue) = <<>> /\ p.opens = {}
      BY <1>6, <1>7
    <2> QED  BY <1>4, <2>3, <2>4, <2>5, <2>6, EndsWhole
  <1>8. ReaderValue(q, s, g, m, k)
    BY <1>1, <1>5, <1>6, <1>7 DEF ReaderValue
  <1> QED  BY <1>1, <1>2, <1>8, ReaderBecomes

\* The browser goes back or forward.
LEMMA HistoryKeeps ==
  ASSUME ReaderInv, NEW url \in Edition \cup {Elsewhere}, History(url)
  PROVE  ReaderInv'
  <1> USE ReaderFacts
  <1>1. PICK o, s, h, m, k : o = page /\ s = server /\ h = heard /\ m = mixed' /\ k = kept
    OBVIOUS
  <1>2. PICK q : q = Route(o, url)  OBVIOUS
  <1>3. \/ q = o
        \/ Leaves(q, o) /\ url = Elsewhere
        \/ Turns(q, o) /\ q.url = url
    BY <1>1, <1>2, RouteParts
  <1>4. /\ page' = q /\ server' = s /\ heard' = h /\ mixed' = m /\ kept' = k /\ Settled
        /\ m \in BOOLEAN
        /\ ~m => ~mixed
        /\ ~m /\ q.url \notin {o.url, Elsewhere} => o.queue = <<>> /\ o.opens = {}
    BY <1>1, <1>2 DEF History, Mix
  <1>5. Good(o) /\ o \in Page /\ Knows(o)  BY <1>1
  <1>6. Good(q)  BY <1>3, <1>5, PageStaysGood
  <1>7. ASSUME ~m PROVE Whole(q, h, k)
    <2>1. PICK e \in Edition : Pure(o, e, h) /\ OneOpening(o) /\ Left(o, k)
      BY <1>1, <1>4, <1>7, SettledIsPure
    <2>2. CASE q = o  BY <2>1, <2>2 DEF Whole
    <2>3. CASE Leaves(q, o)  BY <1>5, <2>1, <2>3, LeavesWhole
    <2>4. CASE Turns(q, o)
      <3>1. q.url \notin {o.url, Elsewhere}  BY <2>4, ReaderPageAssumption DEF Turns
      <3>2. o.queue = <<>> /\ o.opens = {}  BY <1>4, <1>7, <3>1
      <3>3. /\ \E f \in Edition : Pure(q, f, h) \/ Arriving(q, f, h)
            /\ OneOpening(q)
        BY <1>5, <2>1, <2>4, <3>2, TurnsPure
      <3>4. Left(q, k)  BY <3>1, NotLeft
      <3> QED  BY <3>3, <3>4 DEF Whole
    <2> QED  BY <1>3, <2>2, <2>3, <2>4
  <1>8. ReaderValue(q, s, h, m, k)
    BY <1>1, <1>4, <1>6, <1>7 DEF ReaderValue
  <1> QED  BY <1>4, <1>8, ReaderBecomes

\* The task of the first save of a page with progress sends it.
LEMMA SentKeeps ==
  ASSUME ReaderInv, Send, page.progress # None
  PROVE  ReaderInv'
  <1> USE ReaderFacts
  <1>1. PICK o, s, h : o = page /\ s = server /\ h = heard  OBVIOUS
  <1>2. o.queue # <<>> /\ o.queue \in Seq(Save) /\ o.progress \in Progress
    BY <1>1 DEF Send, Settled, Page
  <1>3. PICK w : w = o.queue  OBVIOUS
  <1>4. PICK t : t = Head(w)  OBVIOUS
  <1>5. t \in Save /\ t = w[1]  BY <1>2, <1>3, <1>4
  <1>6. PICK v : v = IF t.override # 0 THEN t.override ELSE o.progress.version  OBVIOUS
  <1>7. v \in Nat
    <2>1. t.override \in Nat  BY <1>5 DEF Save
    <2>2. o.progress.version \in Nat  BY <1>2 DEF Progress
    <2> QED  BY <1>6, <2>1, <2>2
  <1>8. PICK u : u = [t EXCEPT !.sent = TRUE, !.expected = v]  OBVIOUS
  <1>9. /\ u \in Save /\ u.location = t.location /\ u.by = t.by /\ u.override = t.override
        /\ u.sent /\ u.expected = v
    BY <1>5, <1>7, <1>8 DEF Save
  <1>10. PICK r : r = [w EXCEPT ![1] = u]  OBVIOUS
  <1>11. r = [w EXCEPT ![1].sent = TRUE, ![1].expected = v]
    <2>1. 1 \in DOMAIN w  BY <1>2, <1>3
    <2> QED  BY <1>5, <1>8, <1>10, <2>1
  <1>12. PICK q : q = [o EXCEPT !.sync = "syncing", !.queue = r]  OBVIOUS
  <1>13. page' = q /\ UNCHANGED <<server, heard, kept>>
    BY <1>1, <1>3, <1>4, <1>6, <1>11, <1>12 DEF Send
  <1>14. mixed' \in BOOLEAN /\ (~mixed' => ~mixed)  BY DEF Send, Mix
  <1>15. ~mixed => \E e \in Edition : Pure(o, e, h)
    BY <1>1, <1>2, HeadIsPure
  <1>16. ASSUME NEW e \in Edition, Pure(o, e, h) PROVE SaveOf(u, e, h)
    <2>1. SaveOf(t, e, h)  BY <1>2, <1>3, <1>4, <1>16, TailOf DEF Pure
    <2>2. o.progress.version \in h[e]
      BY <1>2, <1>16, ReaderPageAssumption DEF Pure, PageOf
    <2>3. v \in h[e]  BY <1>6, <2>1, <2>2 DEF SaveOf
    <2> QED  BY <1>9, <2>1, <2>3 DEF SaveOf
  <1>17. server' = s /\ s \in [Edition -> [version : Nat, location : ReaderLocation]]
         /\ (~mixed => \A f \in Edition : s[f].location.of = f)
    BY <1>1, <1>13
  <1>18. o.queue # <<>> /\ u.location = Head(o.queue).location /\ r = [o.queue EXCEPT ![1] = u]
    BY <1>2, <1>3, <1>4, <1>9, <1>10
  <1> QED
    BY <1>1, <1>9, <1>12, <1>13, <1>14, <1>15, <1>16, <1>17, <1>18, HeadBecomes

\* Without progress it ends at once.
LEMMA UnsentKeeps ==
  ASSUME ReaderInv, Send, page.progress = None
  PROVE  ReaderInv'
  <1> USE ReaderFacts
  <1>1. PICK o, s, h, m, k : o = page /\ s = server /\ h = heard /\ m = mixed' /\ k = kept
    OBVIOUS
  <1>2. o.queue # <<>> /\ o.queue \in Seq(Save) /\ o.opened = None
    BY <1>1 DEF Send, Settled, Page, Knows
  <1>3. PICK t : t = Head(o.queue)  OBVIOUS
  <1>4. t \in Save  BY <1>2, <1>3
  <1>5. PICK q : q = Ended(o, t, FALSE)  OBVIOUS
  <1>6. /\ page' = q /\ server' = s /\ heard' = h /\ mixed' = m /\ kept' = k
        /\ m \in BOOLEAN
        /\ ~m => ~mixed
        /\ ~m /\ q.url \notin {o.url, Elsewhere} => Tail(o.queue) = <<>> /\ o.opens = {}
    BY <1>1, <1>3, <1>5 DEF Send, Mix
  <1>7. o \in Page /\ Knows(o)  BY <1>1
  <1>8. PageEnds(q, o, t, FALSE) /\ q \in Page  BY <1>2, <1>4, <1>5, <1>7, EndedParts
  <1>9. Good(q)  BY <1>2, <1>4, <1>7, <1>8, EndsGood
  <1>10. ASSUME ~m PROVE Whole(q, h, k)
    <2>1. Whole(o, h, k)  BY <1>1, <1>6, <1>10
    <2>2. OneOpening(o)  BY <2>1 DEF Whole
    <2>3. ASSUME NEW e \in Edition, Pure(o, e, h) PROVE Whole(q, h, k)
      <3>1. q.url \notin {o.url, Elsewhere} => Tail(o.queue) = <<>> /\ o.opens = {}
        BY <1>6, <1>10
      <3> QED  BY <1>2, <1>3, <1>4, <1>7, <1>8, <2>2, <2>3, <3>1, EndsWhole
    <2>4. ASSUME NEW e \in Edition, Arriving(o, e, h) PROVE Whole(q, h, k)
      <3>1. PICK u \in Save : o.queue = <<u>> /\ u.then.do = "nothing"
        BY <2>4 DEF Arriving, Parting
      <3>2. t.then.do = "nothing" /\ Tail(o.queue) = <<>>  BY <1>3, <3>1
      <3>3. PICK c : /\ ButQueue(c, o) /\ c.queue = Tail(o.queue)
                     /\ IF c.url = o.url /\ (FALSE \/ c.index # o.index) THEN Asked(q, c)
                        ELSE q = c
        BY <1>8, <3>2 DEF PageEnds
      <3>4. ButQueue(q, o) /\ q.queue = <<>>  BY <3>2, <3>3 DEF ButQueue
      <3>5. QueueOf(q.queue, e, h)  BY <3>4 DEF QueueOf
      <3>6. PageOf(q, e, h)  BY <2>4, <3>4 DEF Arriving, PageOf, ButQueue
      <3>7. OneOpening(q)  BY <2>2, <3>4 DEF OneOpening, ButQueue
      <3>8. Left(q, k)  BY <1>2, <3>4 DEF Left, ButQueue
      <3> QED  BY <3>5, <3>6, <3>7, <3>8 DEF Whole, Pure
    <2> QED  BY <2>1, <2>3, <2>4 DEF Whole
  <1>11. ReaderValue(q, s, h, m, k)
    BY <1>1, <1>6, <1>9, <1>10 DEF ReaderValue
  <1> QED  BY <1>6, <1>11, ReaderBecomes

\* The server answers the first save.
LEMMA ServerSavesKeeps ==
  ASSUME ReaderInv, ServerSaves
  PROVE  ReaderInv'
  <1> USE ReaderFacts
  <1>1. PICK o, h, z : o = page /\ h = heard /\ z = server  OBVIOUS
  <1>2. o.queue # <<>> /\ o.queue \in Seq(Save)  BY <1>1 DEF ServerSaves, Page
  <1>3. PICK w : w = o.queue  OBVIOUS
  <1>4. PICK t : t = Head(w)  OBVIOUS
  <1>5. /\ t \in Save /\ t = w[1] /\ t.by.url \in Edition /\ t.location \in ReaderLocation
    <2>1. t \in Save /\ t = w[1]  BY <1>2, <1>3, <1>4
    <2> QED  BY <2>1 DEF Save, Closure
  <1>6. PICK f \in Edition : f = t.by.url  BY <1>5
  <1>7. t.sent  BY <1>1, <1>3, <1>4 DEF ServerSaves
  <1>8. PICK s : s = server'  OBVIOUS
  <1>9. PICK a \in {"saved", "conflict"}, v \in Nat :
          /\ page' = [o EXCEPT !.queue = [@ EXCEPT ![1].answer = a, ![1].version = v]]
          /\ s = z \/ s = [z EXCEPT ![f] = [version |-> v, location |-> t.location]]
    <2>1. z[f].version \in Nat /\ z[f].version + 1 \in Nat  BY <1>1, <1>6
    <2> QED  BY <1>1, <1>3, <1>4, <1>6, <1>8, <2>1 DEF ServerSaves
  <1>10. PICK u : u = [t EXCEPT !.answer = a, !.version = v]  OBVIOUS
  <1>11. /\ u \in Save /\ u.location = t.location /\ u.by = t.by /\ u.override = t.override
         /\ u.sent = t.sent /\ u.expected = t.expected
    BY <1>5, <1>10 DEF Save
  <1>12. PICK r : r = [w EXCEPT ![1] = u]  OBVIOUS
  <1>13. r = [w EXCEPT ![1].answer = a, ![1].version = v]
    <2>1. 1 \in DOMAIN w  BY <1>2, <1>3
    <2> QED  BY <1>5, <1>10, <1>12, <2>1
  <1>14. PICK q : q = [o EXCEPT !.queue = r]  OBVIOUS
  <1>15. page' = q  BY <1>3, <1>9, <1>13, <1>14
  <1>16. UNCHANGED <<heard, mixed, kept>>  BY DEF ServerSaves
  <1>17. ~mixed => \E e \in Edition : Pure(o, e, h)
    BY <1>1, <1>2, <1>3, <1>4, <1>7, HeadIsPure
  <1>18. ASSUME NEW e \in Edition, Pure(o, e, h) PROVE SaveOf(u, e, h) /\ t.location.of = f
    <2>1. SaveOf(t, e, h)  BY <1>2, <1>3, <1>4, <1>18, TailOf DEF Pure
    <2> QED  BY <1>6, <1>7, <1>11, <2>1 DEF SaveOf
  <1>19. s \in [Edition -> [version : Nat, location : ReaderLocation]]
    BY <1>1, <1>5, <1>9
  <1>20. ASSUME ~mixed PROVE \A d \in Edition : s[d].location.of = d
    <2>1. t.location.of = f  BY <1>17, <1>18, <1>20
    <2>2. \A d \in Edition : z[d].location.of = d  BY <1>1, <1>20
    <2> QED  BY <1>1, <1>9, <2>1, <2>2
  <1>21. o.queue # <<>> /\ u.location = Head(o.queue).location /\ r = [o.queue EXCEPT ![1] = u]
    BY <1>2, <1>3, <1>4, <1>11, <1>12
  <1>22. mixed' \in BOOLEAN /\ (~mixed' => ~mixed)  BY <1>16
  <1> QED
    BY <1>1, <1>8, <1>11, <1>14, <1>15, <1>16, <1>17, <1>18, <1>19, <1>20, <1>21, <1>22,
       HeadBecomes

\* The answer of the first save comes: the position is saved.
LEMMA SavedKeeps ==
  ASSUME ReaderInv, SaveAnswered, Head(page.queue).answer = "saved"
  PROVE  ReaderInv'
  <1> USE ReaderFacts
  <1>1. PICK o, h : o = page /\ h = heard  OBVIOUS
  <1>2. o.queue # <<>> /\ o.queue \in Seq(Save)  BY <1>1 DEF SaveAnswered, Page
  <1>3. PICK t : t = Head(o.queue)  OBVIOUS
  <1>4. /\ t \in Save /\ t.by.url \in Edition /\ t.location \in ReaderLocation
        /\ t.version \in Nat
    <2>1. t \in Save  BY <1>2, <1>3
    <2> QED  BY <2>1 DEF Save, Closure
  <1>5. PICK f \in Edition, v \in Nat, k \in ReaderLocation :
           f = t.by.url /\ v = t.version /\ k = t.location
    BY <1>4
  <1>6. PICK r : r = [of |-> f, version |-> v]  OBVIOUS
  <1>7. r \in Progress /\ r.of = f /\ r.version = v  BY <1>6 DEF Progress
  <1>8. PICK p : p = [o EXCEPT !.progress = r, !.conflict = 0, !.sync = "synced"]  OBVIOUS
  <1>9. /\ p \in Page /\ p.url = o.url /\ p.opened = o.opened /\ p.opening = o.opening
        /\ p.progress = r /\ p.location = o.location
        /\ p.restore = o.restore /\ p.asked = o.asked
        /\ p.timer = o.timer /\ p.queue = o.queue /\ p.opens = o.opens
    <2>1. o \in Page /\ 0 \in Nat /\ r \in Progress  BY <1>1, <1>7
    <2>2. p \in Page  BY <1>8, <2>1 DEF Page
    <2>3. /\ p.url = o.url /\ p.opened = o.opened /\ p.opening = o.opening
          /\ p.progress = r /\ p.location = o.location
          /\ p.restore = o.restore /\ p.asked = o.asked
          /\ p.timer = o.timer /\ p.queue = o.queue /\ p.opens = o.opens
      BY <1>8, <2>1 DEF Page
    <2> QED  BY <2>2, <2>3
  <1>10. r # None  BY <1>7, ReaderPageAssumption
  <1>11. Knows(p)  BY <1>1, <1>9, <1>10 DEF Knows
  <1>12. PICK g : g = [h EXCEPT ![f] = @ \cup {v}]  OBVIOUS
  <1>13. /\ g \in [Edition -> SUBSET Nat] /\ v \in g[f]
         /\ \A e \in Edition : h[e] \subseteq g[e]
    BY <1>1, <1>12
  <1>14. /\ page' = Ended(p, t, TRUE) /\ Mix(Tail(page.queue)) /\ UNCHANGED server
         /\ heard' = g /\ kept' = k
    BY <1>1, <1>3, <1>5, <1>6, <1>8, <1>12 DEF SaveAnswered, Tell
  <1>15. ~mixed => \E e \in Edition : Pure(o, e, h)
    BY <1>1, <1>2, <1>3, HeadIsPure
  <1>16. ASSUME NEW e \in Edition, Pure(o, e, h) PROVE Pure(p, e, g)
    <2>1. SaveOf(t, e, h)  BY <1>2, <1>3, <1>16, TailOf DEF Pure
    <2>2. f = e  BY <1>5, <2>1 DEF SaveOf
    <2>3. Pure(o, e, g)  BY <1>13, <1>16, MoreHeard
    <2> QED  BY <1>7, <1>9, <1>13, <2>2, <2>3 DEF Pure, PageOf
  <1>17. o.queue # <<>> /\ k \in ReaderLocation \cup {None} /\ p \in Page
    BY <1>2, <1>9
  <1> QED
    BY <1>1, <1>3, <1>5, <1>9, <1>11, <1>13, <1>14, <1>15, <1>16, <1>17, EndsKeeps

\* The save fails, or the answer is a conflict.
LEMMA NotSavedKeeps ==
  ASSUME ReaderInv, SaveFails \/ (SaveAnswered /\ Head(page.queue).answer # "saved")
  PROVE  ReaderInv'
  <1> USE ReaderFacts
  <1>1. PICK o, h, k : o = page /\ h = heard /\ k = kept  OBVIOUS
  <1>2. o.queue # <<>> /\ o.queue \in Seq(Save)
    BY <1>1 DEF SaveFails, SaveAnswered, Page
  <1>3. PICK t : t = Head(o.queue)  OBVIOUS
  <1>4. t \in Save /\ t.version \in Nat
    <2>1. t \in Save  BY <1>2, <1>3
    <2> QED  BY <2>1 DEF Save
  <1>5. PICK p : /\ \/ p = [o EXCEPT !.sync = "failed"]
                    \/ p = [o EXCEPT !.conflict = t.version, !.sync = "conflict"]
                 /\ page' = Ended(p, t, FALSE) /\ Mix(Tail(page.queue))
                 /\ UNCHANGED <<server, heard, kept>>
                 /\ t.sent \/ t.answer # "none"
    BY <1>1, <1>3 DEF SaveFails, SaveAnswered
  <1>6. /\ p \in Page /\ p.url = o.url /\ p.opened = o.opened /\ p.opening = o.opening
        /\ p.progress = o.progress /\ p.location = o.location
        /\ p.restore = o.restore /\ p.index = o.index /\ p.asked = o.asked
        /\ p.section = o.section /\ p.sectionError = o.sectionError
        /\ p.timer = o.timer /\ p.queue = o.queue /\ p.opens = o.opens
        /\ p.sync \in {"failed", "conflict"}
    <2>1. o \in Page /\ t.version \in Nat  BY <1>1, <1>4
    <2>2. CASE p = [o EXCEPT !.sync = "failed"]  BY <2>1, <2>2 DEF Page
    <2>3. CASE p = [o EXCEPT !.conflict = t.version, !.sync = "conflict"]
      BY <2>1, <2>3 DEF Page
    <2> QED  BY <1>5, <2>2, <2>3
  <1>7. Knows(p) /\ Follows(p)  BY <1>1, <1>6 DEF Knows, Follows
  <1>8. ~mixed => \E e \in Edition : Pure(o, e, h)
    BY <1>1, <1>2, <1>3, <1>5, HeadIsPure
  <1>9. ASSUME NEW e \in Edition, Pure(o, e, h) PROVE Pure(p, e, h)
    BY <1>6, <1>9 DEF Pure, PageOf
  <1>10. h \in [Edition -> SUBSET Nat] /\ k \in ReaderLocation \cup {None} /\ p \in Page
         /\ heard' = h /\ kept' = k /\ UNCHANGED server
    BY <1>1, <1>5, <1>6
  <1> QED
    BY <1>1, <1>2, <1>3, <1>5, <1>6, <1>7, <1>8, <1>9, <1>10, EndsKeeps

\* Another device saves.
LEMMA OtherSavesKeeps ==
  ASSUME ReaderInv, NEW e \in Edition, NEW location \in ReaderLocation,
         OtherSaves(e, location)
  PROVE  ReaderInv'
  <1> USE ReaderFacts
  <1>1. PICK p, h, m, k, z : p = page /\ h = heard /\ m = mixed /\ k = kept /\ z = server
    OBVIOUS
  <1>2. PICK s : s = [z EXCEPT ![e] = [version |-> z[e].version + 1, location |-> location]]
    OBVIOUS
  <1>3. /\ page' = p /\ server' = s /\ heard' = h /\ mixed' = m /\ kept' = k
        /\ location.of = e
    BY <1>1, <1>2 DEF OtherSaves
  <1>4. z[e].version \in Nat  BY <1>1
  <1>5. s \in [Edition -> [version : Nat, location : ReaderLocation]]
    BY <1>1, <1>2, <1>4
  <1>6. ~m => \A f \in Edition : s[f].location.of = f
    BY <1>1, <1>2, <1>3
  <1>7. ReaderValue(p, s, h, m, k)
    BY <1>1, <1>5, <1>6 DEF ReaderValue
  <1> QED  BY <1>3, <1>7, ReaderBecomes

-----------------------------------------------------------------------------
\* In the first state the page opens the edition of its URL, and nothing else is due.
LEMMA ReaderStarts ==
  ASSUME ReaderInit
  PROVE  ReaderInv
  <1>1. PICK e \in Edition, success \in [Edition -> ReaderLocation] :
        /\ \A f \in Edition : success[f].of = f
        /\ server = [f \in Edition |-> [version |-> 1, location |-> success[f]]]
        /\ page = LoadReader(
               [url |-> e, opened |-> None, opening |-> FALSE, error |-> FALSE,
                progress |-> None, location |-> None, restore |-> None,
                index |-> 1, asked |-> FALSE, section |-> 0,
                sectionError |-> FALSE, scroll |-> "top", timer |-> None,
                queue |-> <<>>, conflict |-> 0, sync |-> "restored", opens |-> {}])
        /\ heard = [f \in Edition |-> {}] /\ mixed = FALSE /\ kept = None
    BY DEF ReaderInit
  <1>2. PICK c : c = [url |-> e, opened |-> None, opening |-> FALSE, error |-> FALSE,
                progress |-> None, location |-> None, restore |-> None,
                index |-> 1, asked |-> FALSE, section |-> 0,
                sectionError |-> FALSE, scroll |-> "top", timer |-> None,
                queue |-> <<>>, conflict |-> 0, sync |-> "restored", opens |-> {}]
    OBVIOUS
  <1>3. 1 \in 1 .. Sections /\ 0 \in 0 .. Sections /\ e # Elsewhere
    BY ReaderPageAssumption
  <1>4. c \in Page
    <2>1. <<>> \in Seq(Save)  OBVIOUS
    <2> QED  BY <1>2, <1>3, <2>1 DEF Page
  <1>5. c.url = e /\ c.opens = {} /\ c.queue = <<>> /\ c.timer = None  BY <1>2
  <1>6. PICK q, s, h, m, k : q = page /\ s = server /\ h = heard /\ m = mixed /\ k = kept
    OBVIOUS
  <1>7. Loads(q, c)  BY <1>1, <1>2, <1>3, <1>4, <1>5, <1>6, LoadParts
  <1>8. Good(q)  BY <1>7 DEF Good, Loads, Knows, Follows
  <1>9. PICK o : o.of = e /\ o.location.of = e /\ q.opens = {o}
    BY <1>5, <1>7 DEF Loads
  <1>10. PageOf(q, e, h)  BY <1>5, <1>7, <1>9 DEF PageOf, Loads
  <1>11. QueueOf(q.queue, e, h)  BY <1>5, <1>7 DEF QueueOf, Loads
  <1>12. OneOpening(q)  BY <1>7, <1>9 DEF OneOpening, Loads
  <1>13. Left(q, k)  BY <1>3, <1>5, <1>7 DEF Left, Loads
  <1>14. s \in [Edition -> [version : Nat, location : ReaderLocation]]
         /\ \A f \in Edition : s[f].location.of = f
    BY <1>1, <1>6
  <1>15. h \in [Edition -> SUBSET Nat] /\ m \in BOOLEAN /\ k \in ReaderLocation \cup {None}
    BY <1>1, <1>6
  <1>16. ReaderValue(q, s, h, m, k)
    BY <1>8, <1>10, <1>11, <1>12, <1>13, <1>14, <1>15 DEF ReaderValue, Whole, Pure
  <1> QED  BY <1>6, <1>16 DEF ReaderInv

\* Every step keeps the invariant.
LEMMA ReaderStepKeeps ==
  ASSUME ReaderInv, [ReaderNext]_readerVars
  PROVE  ReaderInv'
  <1>1. CASE UNCHANGED readerVars
    BY <1>1 DEF readerVars, ReaderInv
  <1>2. CASE Looking
    <2>1. ASSUME NEW o \in page.opens, ServerOpens(o) \/ OpenAnswered(o) \/ OpenFails(o)
          PROVE  ReaderInv'
      BY <2>1, ServerOpensKeeps, OpenAnsweredKeeps, OpenFailsKeeps
    <2>2. CASE RetryOpen  BY <2>2, ReaderReloadKeeps
    <2>3. CASE SectionArrives  BY <2>3, SectionArrivesKeeps
    <2>4. CASE SectionFails  BY <2>4, SectionFailsKeeps
    <2>5. CASE RetrySection  BY <2>5, ScrollingKeeps
    <2>6. CASE TimerFires  BY <2>6, TimerFiresKeeps
    <2>7. CASE Hide  BY <2>7, HideKeeps
    <2>8. CASE Send  BY <2>8, SentKeeps, UnsentKeeps
    <2>9. CASE ServerSaves  BY <2>9, ServerSavesKeeps
    <2>10. CASE SaveAnswered  BY <2>10, SavedKeeps, NotSavedKeeps
    <2>11. CASE SaveFails  BY <2>11, NotSavedKeeps
    <2>12. CASE LeaveReader  BY <2>12, ButtonsKeep
    <2>13. CASE History(Elsewhere)  BY <2>13, HistoryKeeps
    <2> QED
      BY <1>2, <2>1, <2>2, <2>3, <2>4, <2>5, <2>6, <2>7, <2>8, <2>9, <2>10, <2>11, <2>12,
         <2>13 DEF Looking
  <1>3. CASE Reading
    <2>1. ASSUME NEW place \in {"top", "below"}, Scroll(place) PROVE ReaderInv'
      BY <2>1, ScrollingKeeps
    <2>2. ASSUME NEW k \in 1 .. Sections, GoTo(k) PROVE ReaderInv'
      BY <2>2, ButtonsKeep
    <2>3. ASSUME NEW e \in Edition, SwitchEdition(e) PROVE ReaderInv'
      BY <2>3, ButtonsKeep
    <2>4. ASSUME NEW e \in Edition, History(e) PROVE ReaderInv'
      BY <2>4, HistoryKeeps
    <2>5. CASE MarkFinished  BY <2>5, HideKeeps
    <2>6. CASE RestartReading  BY <2>6, RestartKeeps
    <2>7. CASE UseCloud  BY <2>7, ReaderReloadKeeps
    <2>8. CASE Overwrite  BY <2>8, OverwriteKeeps
    <2> QED
      BY <1>3, <2>1, <2>2, <2>3, <2>4, <2>5, <2>6, <2>7, <2>8 DEF Reading
  <1>4. ASSUME NEW e \in Edition, NEW location \in ReaderLocation, OtherSaves(e, location)
        PROVE  ReaderInv'
    BY <1>4, OtherSavesKeeps
  <1> QED  BY <1>1, <1>2, <1>3, <1>4 DEF ReaderNext

\* The invariant holds in every reachable state.
LEMMA ReaderInvHolds == ReaderSpec => []ReaderInv
  <1>1. ReaderInit => ReaderInv  BY ReaderStarts
  <1>2. ReaderInv /\ [ReaderNext]_readerVars => ReaderInv'  BY ReaderStepKeeps
  <1> QED  BY <1>1, <1>2, PTL DEF ReaderSpec

\* SavesWhatItKnows, for any number of editions, sections, openings and waiting saves: as
\* long as the page was not led to another edition with answers still due, each save
\* carries a position of its edition and, once sent, a version the page was told of it
\* (persist, loadReader).
THEOREM ReaderSavesWhatItKnows == ReaderSpec => []SavesWhatItKnows
  <1>1. ReaderInv => SavesWhatItKnows
    <2> SUFFICES ASSUME ReaderInv, ~mixed, NEW i \in DOMAIN page.queue
                 PROVE  /\ page.queue[i].location.of = page.queue[i].by.url
                        /\ page.queue[i].sent =>
                             page.queue[i].expected \in heard[page.queue[i].by.url]
      BY DEF SavesWhatItKnows
    <2>1. PICK p, h, k : p = page /\ h = heard /\ k = kept  OBVIOUS
    <2>2. Whole(p, h, k)  BY <2>1, ReaderFacts
    <2>3. PICK e \in Edition : Pure(p, e, h) \/ Arriving(p, e, h)  BY <2>2 DEF Whole
    <2>4. CASE Pure(p, e, h)
      <3>1. SaveOf(p.queue[i], e, h)  BY <2>1, <2>4 DEF Pure, QueueOf
      <3> QED  BY <2>1, <3>1 DEF SaveOf
    <2>5. CASE Arriving(p, e, h)
      <3>1. PICK t \in Save : p.queue = <<t>> /\ t.location.of = t.by.url /\ ~t.sent
        BY <2>5 DEF Arriving, Parting
      <3>2. p.queue[i] = t  BY <2>1, <3>1
      <3> QED  BY <2>1, <3>1, <3>2
    <2> QED  BY <2>3, <2>4, <2>5
  <1> QED  BY <1>1, ReaderInvHolds, PTL

\* What the page makes of a saved position: in a step of the page, only a version it was
\* told of is replaced, by the next one, with a position of the same edition.
ReplacesWhatItWasTold ==
    \A e \in Edition : ~mixed /\ page' # page /\ server'[e] # server[e] =>
        /\ server[e].version \in heard[e] /\ server'[e].version = server[e].version + 1
        /\ server'[e].location.of = e

\* SavesWhatItKnows carried to the server, whatever other devices save between the sending
\* and the arrival of a save: as long as the page was not led to another edition with
\* answers still due, its saves overwrite no position it was not told of, and bring no
\* position of another edition (persist; compare-and-set of save_progress).
THEOREM ReaderOverwritesNothingUnseen == ReaderSpec => [][ReplacesWhatItWasTold]_readerVars
  <1>1. ReaderInv /\ SavesWhatItKnows /\ [ReaderNext]_readerVars
          => [ReplacesWhatItWasTold]_readerVars
    <2> SUFFICES ASSUME ReaderInv, SavesWhatItKnows, ReaderNext,
                        NEW e \in Edition, ~mixed, page' # page, server'[e] # server[e]
                 PROVE  /\ server[e].version \in heard[e]
                        /\ server'[e].version = server[e].version + 1
                        /\ server'[e].location.of = e
      BY DEF ReplacesWhatItWasTold
    <2>1. ServerSaves
      <3>1. CASE Looking /\ ~ServerSaves
        <4>1. UNCHANGED server
          <5>1. ASSUME NEW o, ServerOpens(o) \/ OpenAnswered(o) \/ OpenFails(o)
                PROVE  UNCHANGED server
            BY <5>1 DEF ServerOpens, OpenAnswered, OpenFails
          <5>2. CASE RetryOpen \/ SectionArrives \/ SectionFails \/ RetrySection \/ TimerFires \/ Hide
            BY <5>2 DEF RetryOpen, SectionArrives, SectionFails, RetrySection, TimerFires, Hide
          <5>3. CASE Send \/ SaveAnswered \/ SaveFails \/ LeaveReader \/ History(Elsewhere)
            BY <5>3 DEF Send, SaveAnswered, SaveFails, LeaveReader, SaveThen, History
          <5> QED  BY <3>1, <5>1, <5>2, <5>3 DEF Looking
        <4> QED  BY <4>1
      <3>2. CASE Reading
        <4>1. UNCHANGED server
          BY <3>2 DEF Reading, Scroll, GoTo, SaveThen, SwitchEdition, History, MarkFinished,
             RestartReading, UseCloud, Overwrite
        <4> QED  BY <4>1
      <3>3. ASSUME NEW f \in Edition, NEW l \in ReaderLocation, OtherSaves(f, l) PROVE FALSE
        BY <3>3 DEF OtherSaves
      <3> QED  BY <3>1, <3>2, <3>3 DEF ReaderNext
    <2>2. PICK o, h, z : o = page /\ h = heard /\ z = server  OBVIOUS
    <2>3. PICK w : w = o.queue  OBVIOUS
    <2>4. PICK t : t = Head(w)  OBVIOUS
    <2>5. w \in Seq(Save) /\ w # <<>>  BY <2>1, <2>2, <2>3, ReaderFacts DEF ServerSaves, Page
    <2>6. t = w[1] /\ 1 \in DOMAIN w  BY <2>4, <2>5
    <2>7. t.location.of = t.by.url /\ (t.sent => t.expected \in h[t.by.url])
      BY <2>2, <2>3, <2>6 DEF SavesWhatItKnows
    <2>8. /\ t.sent /\ t.expected = z[t.by.url].version
          /\ server' = [z EXCEPT ![t.by.url] = [version |-> z[t.by.url].version + 1,
                                                location |-> t.location]]
      BY <2>1, <2>2, <2>3, <2>4 DEF ServerSaves
    <2>9. e = t.by.url /\ z \in [Edition -> [version : Nat, location : ReaderLocation]]
      BY <2>2, <2>8, ReaderFacts
    <2>10. server'[e] = [version |-> z[e].version + 1, location |-> t.location]
      BY <2>8, <2>9
    <2> QED  BY <2>2, <2>7, <2>8, <2>9, <2>10
  <1> QED  BY <1>1, ReaderInvHolds, ReaderSavesWhatItKnows, PTL DEF ReaderSpec

\* SectionFollowsIndex, for any number of editions, sections, openings and waiting saves,
\* wherever the page was led: when nothing is loading and no error is shown, the section
\* on the page is the one the footer and the contents name, or the page is blank below
\* the message of a save that failed (goToSection, restartReading and the two effects).
THEOREM ReaderSectionFollowsIndex == ReaderSpec => []SectionFollowsIndex
  <1>1. ReaderInv => SectionFollowsIndex
    BY ReaderFacts DEF SectionFollowsIndex, Shown, Follows
  <1> QED  BY <1>1, ReaderInvHolds, PTL

\* PositionKeptOnLeave, for any number of editions, sections, openings and waiting saves:
\* when the reader has left an edition and no save waits, either the footer's last word
\* was a failure or a conflict, or the last save that succeeded carried the last position
\* (persist, leaveReader and the cleanup of the edition's effects).
THEOREM ReaderKeepsPositionOnLeave == ReaderSpec => []PositionKeptOnLeave
  <1>1. ReaderInv => PositionKeptOnLeave
    <2> SUFFICES ASSUME ReaderInv, ~mixed, page.url = Elsewhere, page.queue = <<>>,
                        page.opened # None
                 PROVE  page.sync \in {"failed", "conflict"} \/ kept = page.location
      BY DEF PositionKeptOnLeave
    <2>1. PICK p, h, k : p = page /\ h = heard /\ k = kept  OBVIOUS
    <2>2. Left(p, k)  BY <2>1, ReaderFacts DEF Whole
    <2> QED  BY <2>1, <2>2 DEF Left
  <1> QED  BY <1>1, ReaderInvHolds, PTL

-----------------------------------------------------------------------------
(* The types, which the invariants above contain.                          *)

\* The state of a page that loads, shows and changes something has its type.
THEOREM PagesTypeCorrect == PagesSpec => []PagesTypeOK
  <1>1. PagesInv => PagesTypeOK  BY DEF PagesInv
  <1> QED  BY <1>1, PagesStart, PagesStep, PTL DEF PagesSpec

\* The settings of the reader page, their requests and the row have their types.
THEOREM SettingsTypeCorrect == SettingsSpec => []SettingsTypeOK
  <1>1. SettingsInv => SettingsTypeOK  BY DEF SettingsInv
  <1> QED  BY <1>1, SettingsStart, SettingsTyped, PTL DEF SettingsSpec

\* The administrator's page of the readers, its tasks and the data have their types.
THEOREM AdminTypeCorrect == ReaderAdminSpec => []ReaderAdminTypeOK
  <1>1. AdminHolds => ReaderAdminTypeOK  BY DEF AdminHolds
  <1> QED  BY <1>1, AdminStarts, AdminHoldsStep, PTL DEF ReaderAdminSpec

\* The reader page and the saved positions have their types, wherever it was led.
THEOREM ReaderTypeCorrect == ReaderSpec => []ReaderTypeOK
  <1>1. ReaderInv => ReaderTypeOK  BY ReaderFacts DEF ReaderTypeOK
  <1> QED  BY <1>1, ReaderInvHolds, PTL
=============================================================================
