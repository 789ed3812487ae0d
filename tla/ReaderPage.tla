------------------------------ MODULE ReaderPage ------------------------------
(***************************************************************************)
(* The reading page of the web client: it opens the edition of its URL,    *)
(* loads one section at a time, measures the position while the reader     *)
(* scrolls and saves it, one save after another, while other devices save  *)
(* positions of their own.                                                 *)
(*                                                                         *)
(* page is the page: its React state, its refs and the closures that wait  *)
(* in its timer and in its queue of saves.  JavaScript runs one callback   *)
(* at a time and all the microtasks it leaves, so an action is a callback  *)
(* with the renderings and effects it causes; the first save of an empty   *)
(* queue is sent by a microtask (Send), before anything else happens       *)
(* (Settled).  A page that was left (its URL is another page's) still has  *)
(* its queue.                                                              *)
(*                                                                         *)
(* A position is the top of a section or a place below it, with the        *)
(* edition it was measured in; percentages, status, the revision of the    *)
(* file (a save with an old one fails) and the looks are left out.         *)
(***************************************************************************)
EXTENDS Naturals, Sequences, FiniteSets

CONSTANTS
    Edition,
    Elsewhere,      \* the URL of any other page
    None,
    Sections,       \* the number of sections of an edition
    MaxSaves,       \* bound: saves of one edition
    MaxQueue,       \* bound: waiting saves
    MaxOpens        \* bound: openings at the same time

VARIABLES
    page,       \* the page
    server,     \* the saved position of each edition, with its version
    heard,      \* history: the versions the page was told or chose, per edition
    mixed,      \* history: another edition was opened while an answer was due
    kept        \* history: the position the last successful save carried

readerVars == <<page, server, heard, mixed, kept>>

ReaderLocation == [of : Edition, section : 1 .. Sections, place : {"top", "below"}]
Progress == [of : Edition, version : Nat]
Closure == [url : Edition, opened : Edition]    \* what a persist has captured

\* What the caller of a save does when it is over.
Then == [do : {"nothing", "goto", "switch", "leave", "restart"},
         section : 1 .. Sections, edition : Edition]

\* A save: from where it was called, the position, the version the reader chose
\* to overwrite (0: none), and once it is sent the version it expects, and what
\* the server has answered (version: the one of the answer).
Save == [by : Closure, location : ReaderLocation, override : Nat, then : Then,
         sent : BOOLEAN, expected : Nat,
         answer : {"none", "saved", "conflict"}, version : Nat]

Opening == [of : Edition, answer : {"none", "opened"}, version : Nat,
            location : ReaderLocation]

ASSUME ReaderPageAssumption ==
    /\ Elsewhere \notin Edition
    /\ None \notin Edition \cup {Elsewhere}
    /\ None \notin ReaderLocation \cup Progress \cup Closure
    /\ Sections \in Nat \ {0}
    /\ MaxSaves \in Nat /\ MaxQueue \in Nat /\ MaxOpens \in Nat

Page == [url : Edition \cup {Elsewhere},
         opened : Edition \cup {None},          \* the answer that is shown
         opening : BOOLEAN, error : BOOLEAN,
         progress : Progress \cup {None},    \* progressRef
         location : ReaderLocation \cup {None},     \* locationRef
         restore : ReaderLocation \cup {None},      \* restoreRef
         index : 1 .. Sections,
         asked : BOOLEAN,           \* a request for the section at index
         section : 0 .. Sections,   \* the section that is shown, 0: none
         sectionError : BOOLEAN,
         scroll : {"top", "below"},
         timer : Closure \cup {None},               \* saveTimerRef
         queue : Seq(Save),                         \* saveQueueRef
         conflict : Nat,            \* the version of the conflict, 0: none
         sync : {"restored", "syncing", "synced", "conflict", "failed"},
         opens : SUBSET Opening]    \* requests of loadReader

ReaderTypeOK ==
    /\ page \in Page
    /\ server \in [Edition -> [version : Nat, location : ReaderLocation]]
    /\ heard \in [Edition -> SUBSET Nat]
    /\ mixed \in BOOLEAN
    /\ kept \in ReaderLocation \cup {None}

Nothing(e) == [do |-> "nothing", section |-> 1, edition |-> e]
Top(e, k) == [of |-> e, section |-> k, place |-> "top"]

-----------------------------------------------------------------------------
(* What the callbacks do to the page.                                      *)

\* persist: nothing without an opened edition or a position, else a save at
\* the end of the queue.
Persist(p, by, location, override, then) ==
    IF by.opened = None \/ location = None THEN p
    ELSE [p EXCEPT !.queue = Append(@,
            [by |-> by, location |-> location, override |-> override,
             then |-> then, sent |-> FALSE, expected |-> 0,
             answer |-> "none", version |-> 0])]

Here(p) == [url |-> p.url, opened |-> p.opened]

\* The effect that asks for the section of the index; the request before it is
\* cancelled.
AskSection(p) ==
    IF p.opened = None \/ p.url = Elsewhere THEN [p EXCEPT !.asked = FALSE]
    ELSE [p EXCEPT !.asked = TRUE, !.sectionError = FALSE]

\* loadReader, up to its request.
LoadReader(p) ==
    [p EXCEPT !.opening = TRUE, !.error = FALSE, !.opened = None, !.section = 0,
              !.scroll = "top", !.asked = FALSE, !.conflict = 0,
              !.progress = None, !.location = None, !.restore = None,
              !.opens = @ \cup {[of |-> p.url, answer |-> "none", version |-> 0,
                                 location |-> Top(p.url, 1)]}]

\* Mutant: the cleanup clears the timer only.
Cleanup_NoSave(p) == [p EXCEPT !.timer = None, !.asked = FALSE]

\* The cleanup of the effects of an edition: the timer is cleared and the
\* position saved, with the closure of the edition.
Cleanup(p) ==
    Persist([p EXCEPT !.timer = None, !.asked = FALSE],
            Here(p), p.location, 0, Nothing(p.url))

\* Mutant: the cleanup reads the URL of the page, not the one of its closure.
Route_LateClosure(p, url) ==
    CASE p.url \in {url, Elsewhere} -> p
      [] p.url \notin {url, Elsewhere} /\ url = Elsewhere ->
           [Cleanup(p) EXCEPT !.url = Elsewhere]
      [] p.url \notin {url, Elsewhere} /\ url # Elsewhere ->
           LoadReader(Cleanup([p EXCEPT !.url = url]))

\* The URL becomes the one of another edition, or of another page.
Route(p, url) ==
    CASE p.url \in {url, Elsewhere} -> p
      [] p.url \notin {url, Elsewhere} /\ url = Elsewhere ->
           [Cleanup(p) EXCEPT !.url = Elsewhere]
      [] p.url \notin {url, Elsewhere} /\ url # Elsewhere ->
           LoadReader([Cleanup(p) EXCEPT !.url = url])

\* What the caller does after its save, whether that succeeded or not.  (After the
\* page was left a switch or a leave still goes to its URL; what is shown there is
\* another page, or another instance of this one.)
Continue(p, t) ==
    CASE t.then.do = "nothing" \/ p.url = Elsewhere -> p
      [] t.then.do = "goto" /\ p.url # Elsewhere ->
           [p EXCEPT !.location = Top(t.by.opened, t.then.section),
                     !.restore = None, !.section = 0, !.scroll = "top",
                     !.index = t.then.section]
      [] t.then.do = "restart" /\ p.url # Elsewhere ->
           [p EXCEPT !.section = 0, !.scroll = "top", !.index = 1]
      [] t.then.do = "switch" /\ p.url # Elsewhere ->
           IF p.conflict = 0 THEN Route(p, t.then.edition) ELSE p
      [] t.then.do = "leave" /\ p.url # Elsewhere ->
           IF p.conflict = 0 THEN Route(p, Elsewhere) ELSE p

\* Mutant: the effect that asks for the section forgets that it depends on the index.
Ended_WithoutAsking(p, t, saved) == Continue([p EXCEPT !.queue = Tail(@)], t)

\* The end of the first save of the queue: p is the page with its outcome.  The
\* section is asked for again when the opened answer or the index has changed.
Ended(p, t, saved) ==
    LET q == Continue([p EXCEPT !.queue = Tail(@)], t)
    IN  IF q.url = p.url /\ (saved \/ q.index # p.index) THEN AskSection(q) ELSE q

\* handleScroll: the position is measured, and saved in a second.
Measured(p, place) ==
    [p EXCEPT !.scroll = place,
              !.location = [of |-> p.url, section |-> p.section, place |-> place],
              !.timer = Here(p)]

-----------------------------------------------------------------------------
(* Callbacks.                                                              *)

Settled == page.queue # <<>> => Head(page.queue).sent

\* The reader is shown, with its buttons.
Shown == /\ Settled /\ page.url # Elsewhere
         /\ page.opened # None /\ ~page.opening /\ ~page.error

Room == Len(page.queue) < MaxQueue
MayOpen == Cardinality(page.opens) < MaxOpens

\* History: was the URL changed to another edition while answers are due?
Mix(rest) ==
    mixed' = (mixed \/ (/\ page'.url \notin {page.url, Elsewhere}
                        /\ rest # <<>> \/ page.opens # {}))

Tell(e, v) == heard' = [heard EXCEPT ![e] = @ \cup {v}]

ReaderInit ==
    \E e \in Edition, saved \in [Edition -> ReaderLocation] :
        /\ \A f \in Edition : saved[f].of = f
        /\ server = [f \in Edition |-> [version |-> 1, location |-> saved[f]]]
        /\ page = LoadReader(
               [url |-> e, opened |-> None, opening |-> FALSE, error |-> FALSE,
                progress |-> None, location |-> None, restore |-> None,
                index |-> 1, asked |-> FALSE, section |-> 0,
                sectionError |-> FALSE, scroll |-> "top", timer |-> None,
                queue |-> <<>>, conflict |-> 0, sync |-> "restored", opens |-> {}])
        /\ heard = [f \in Edition |-> {}] /\ mixed = FALSE /\ kept = None

\* The server answers an opening.
ServerOpens(o) ==
    /\ o \in page.opens /\ o.answer = "none"
    /\ page' = [page EXCEPT !.opens = (@ \ {o}) \cup
                   {[o EXCEPT !.answer = "opened", !.version = server[o.of].version,
                              !.location = server[o.of].location]}]
    /\ UNCHANGED <<server, heard, mixed, kept>>

\* The answer comes, whatever edition the page shows by now.
OpenAnswered(o) ==
    /\ Settled /\ o \in page.opens /\ o.answer = "opened"
    /\ LET p == [page EXCEPT !.opens = @ \ {o},
                             !.progress = [of |-> o.of, version |-> o.version],
                             !.location = o.location, !.restore = o.location]
       IN  page' = IF p.url = Elsewhere THEN p
                   ELSE AskSection([p EXCEPT !.opened = o.of, !.opening = FALSE,
                                             !.index = o.location.section,
                                             !.sync = "restored"])
    /\ Tell(o.of, o.version)
    /\ UNCHANGED <<server, mixed, kept>>

OpenFails(o) ==
    /\ Settled /\ o \in page.opens
    /\ page' = [page EXCEPT !.opens = @ \ {o}, !.error = TRUE, !.opening = FALSE]
    /\ UNCHANGED <<server, heard, mixed, kept>>

RetryOpen ==
    /\ Settled /\ page.error /\ ~page.opening /\ page.url # Elsewhere /\ MayOpen
    /\ page' = LoadReader(page)
    /\ UNCHANGED <<server, heard, mixed, kept>>

\* The section comes and is shown; the next frame scrolls to the position to
\* restore, or else to the top, and the browser reports where it has moved.
SectionArrives ==
    /\ Settled /\ page.asked
    /\ LET here  == page.restore # None /\ page.restore.section = page.index
           place == IF here THEN page.restore.place ELSE "top"
           p     == [page EXCEPT !.asked = FALSE, !.section = page.index,
                                 !.restore = IF here THEN None ELSE @]
       IN  page' = IF place = p.scroll THEN p ELSE Measured(p, place)
    /\ UNCHANGED <<server, heard, mixed, kept>>

SectionFails ==
    /\ Settled /\ page.asked
    /\ page' = [page EXCEPT !.asked = FALSE, !.sectionError = TRUE]
    /\ UNCHANGED <<server, heard, mixed, kept>>

RetrySection ==
    /\ Shown /\ page.sectionError
    /\ page' = AskSection(page)
    /\ UNCHANGED <<server, heard, mixed, kept>>

Scroll(place) ==
    /\ Shown /\ page.section # 0 /\ place # page.scroll
    /\ page' = Measured(page, place)
    /\ UNCHANGED <<server, heard, mixed, kept>>

\* A second after the last scrolling.
TimerFires ==
    /\ Settled /\ page.timer # None /\ Room
    /\ page' = Persist([page EXCEPT !.timer = None], page.timer, page.location,
                       0, Nothing(page.timer.url))
    /\ UNCHANGED <<server, heard, mixed, kept>>

\* The page is hidden or about to be unloaded.
Hide ==
    /\ Settled /\ page.url # Elsewhere /\ Room
    /\ page' = Persist(page, Here(page), page.location, 0, Nothing(page.url))
    /\ page' # page
    /\ UNCHANGED <<server, heard, mixed, kept>>

\* A button saves the position first and goes on when that is over.
SaveThen(then) ==
    /\ Shown /\ Room
    /\ page' = Persist([page EXCEPT !.timer = None], Here(page), page.location,
                       0, then)
    /\ UNCHANGED <<server, heard, mixed, kept>>

\* Mutant: the button after the last section is not disabled.
GoTo_PastTheEnd(k) ==
    SaveThen([do |-> "goto", section |-> k + 1, edition |-> page.url])

GoTo(k) == SaveThen([do |-> "goto", section |-> k, edition |-> page.url])

SwitchEdition(e) ==
    /\ e # page.opened
    /\ SaveThen([do |-> "switch", section |-> 1, edition |-> e])

LeaveReader == SaveThen([do |-> "leave", section |-> 1, edition |-> page.url])

\* The status it sends does not matter here.
MarkFinished ==
    /\ Shown /\ Room
    /\ page' = Persist(page, Here(page), page.location, 0, Nothing(page.url))
    /\ UNCHANGED <<server, heard, mixed, kept>>

RestartReading ==
    /\ Shown /\ Room
    /\ LET start == Top(page.opened, 1)
       IN  page' = Persist([page EXCEPT !.location = start, !.restore = start],
                           Here(page), start, 0,
                           [do |-> "restart", section |-> 1, edition |-> page.url])
    /\ UNCHANGED <<server, heard, mixed, kept>>

UseCloud ==
    /\ Shown /\ page.conflict # 0 /\ MayOpen
    /\ page' = LoadReader(page)
    /\ UNCHANGED <<server, heard, mixed, kept>>

Overwrite ==
    /\ Shown /\ page.conflict # 0 /\ Room
    /\ page' = Persist(page, Here(page), page.location, page.conflict,
                       Nothing(page.url))
    /\ Tell(page.url, page.conflict)
    /\ UNCHANGED <<server, mixed, kept>>

\* The browser goes back or forward to another URL.
History(url) ==
    /\ Settled /\ page.url # Elsewhere /\ url # page.url /\ MayOpen
    /\ page' = Route(page, url)
    /\ Mix(page.queue)
    /\ UNCHANGED <<server, heard, kept>>

\* The task of the first save: without progress it ends at once.
Send ==
    /\ ~Settled
    /\ LET t == Head(page.queue)
           v == IF t.override # 0 THEN t.override ELSE page.progress.version
       IN  IF page.progress = None THEN page' = Ended(page, t, FALSE)
           ELSE page' = [page EXCEPT !.sync = "syncing",
                            !.queue = [@ EXCEPT ![1].sent = TRUE, ![1].expected = v]]
    /\ Mix(Tail(page.queue))
    /\ UNCHANGED <<server, heard, kept>>

\* The server compares the versions.  (It knows a position by the identifiers
\* of its section and block only.)
ServerSaves ==
    /\ page.queue # <<>>
    /\ LET t == Head(page.queue)
           s == server[t.by.url]
           answer(a, v) == page' = [page EXCEPT !.queue =
                              [@ EXCEPT ![1].answer = a, ![1].version = v]]
       IN  /\ t.sent /\ t.answer = "none"
           /\ \/ /\ t.expected = s.version /\ s.version < MaxSaves
                 /\ server' = [server EXCEPT ![t.by.url] =
                                 [version |-> s.version + 1, location |-> t.location]]
                 /\ answer("saved", s.version + 1)
              \/ /\ t.expected # s.version
                 /\ answer("conflict", s.version)
                 /\ UNCHANGED server
    /\ UNCHANGED <<heard, mixed, kept>>

SaveAnswered ==
    /\ page.queue # <<>>
    /\ LET t == Head(page.queue)
       IN  \/ /\ t.answer = "saved"
              /\ page' = Ended([page EXCEPT
                             !.progress = [of |-> t.by.url, version |-> t.version],
                             !.conflict = 0, !.sync = "synced"], t, TRUE)
              /\ Tell(t.by.url, t.version) /\ kept' = t.location
           \/ /\ t.answer = "conflict"
              /\ page' = Ended([page EXCEPT !.conflict = t.version,
                                            !.sync = "conflict"], t, FALSE)
              /\ UNCHANGED <<heard, kept>>
    /\ Mix(Tail(page.queue))
    /\ UNCHANGED server

\* The request fails before the server has seen it or its answer is lost.  (A
\* request that is lost and arrives later is a save of another device.)
SaveFails ==
    /\ page.queue # <<>> /\ Head(page.queue).sent
    /\ page' = Ended([page EXCEPT !.sync = "failed"], Head(page.queue), FALSE)
    /\ Mix(Tail(page.queue))
    /\ UNCHANGED <<server, heard, kept>>

\* Another device saves a position of its own.
OtherSaves(e, location) ==
    /\ server[e].version < MaxSaves /\ location.of = e
    /\ server' = [server EXCEPT ![e] = [version |-> @.version + 1,
                                        location |-> location]]
    /\ UNCHANGED <<page, heard, mixed, kept>>

-----------------------------------------------------------------------------
\* What happens to a page nobody touches, until it is hidden or left.
Looking ==
    \/ \E o \in page.opens : ServerOpens(o) \/ OpenAnswered(o) \/ OpenFails(o)
    \/ RetryOpen \/ SectionArrives \/ SectionFails \/ RetrySection
    \/ TimerFires \/ Hide \/ Send \/ ServerSaves \/ SaveAnswered \/ SaveFails
    \/ LeaveReader \/ History(Elsewhere)

Reading ==
    \/ \E place \in {"top", "below"} : Scroll(place)
    \/ \E k \in 1 .. Sections : GoTo(k)
    \/ \E e \in Edition : SwitchEdition(e) \/ History(e)
    \/ MarkFinished \/ RestartReading \/ UseCloud \/ Overwrite

ReaderNext ==
    \/ Looking \/ Reading
    \/ \E e \in Edition, location \in ReaderLocation : OtherSaves(e, location)

ReaderSpec == ReaderInit /\ [][ReaderNext]_readerVars

-----------------------------------------------------------------------------
(* Properties.                                                             *)

\* As long as the page was not led to another edition with answers still due, each
\* save that is sent names a version that the page was told of its edition, by an
\* opening, by a save of its own or by a conflict the reader chose to overwrite, and
\* carries a position that was measured in that edition (persist, loadReader): no save
\* goes out that another device's save would have to lose to unseen.
SavesWhatItKnows ==
    ~mixed => \A i \in DOMAIN page.queue :
        LET t == page.queue[i]
        IN  /\ t.location.of = t.by.url
            /\ t.sent => t.expected \in heard[t.by.url]

\* As long as the page was not led to another edition with answers still due: when the
\* reader has left an opened edition and the queue is done, either the footer's last
\* word was a failure or a conflict, or the last position the page knew is the one its
\* last save carried: the saves are done in order and the last of them is the
\* cleanup's (persist, leaveReader).
PositionKeptOnLeave ==
    ~mixed /\ page.url = Elsewhere /\ page.queue = <<>> /\ page.opened # None =>
        \/ page.sync \in {"failed", "conflict"}
        \/ kept = page.location

\* When nothing is loading and no error is shown, the section on the page is the
\* one the footer and the contents name (goToSection, restartReading and the two
\* effects); the page is blank only below the message of a save that failed.
SectionFollowsIndex ==
    Shown /\ ~page.asked /\ ~page.sectionError =>
        \/ page.section = page.index
        \/ page.section = 0 /\ page.sync \in {"syncing", "failed", "conflict"}

\* What the page promises while it opens, "正在打开 Edition 并恢复阅读位置…":
\* opening an edition, looking at it and leaving it do not change the position
\* that is saved.  (loadReader, the effects of opened and section, handleScroll)
OpeningKeepsThePosition ==
    [][\A e \in Edition : server'[e].location = server[e].location]_readerVars

LookingSpec == ReaderInit /\ [][Looking]_readerVars
=============================================================================
