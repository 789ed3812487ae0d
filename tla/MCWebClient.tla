------------------------------ MODULE MCWebClient ------------------------------
(* Instances of the modules of the web client, and of the reading progress it *)
(* meets, for TLC.  The parts do not share state: a behaviour is one of one   *)
(* part, and the other parts stay in an initial state.                        *)
EXTENDS ReadingProgress, ReaderPage, ReaderSettings, ClientSession, Pages,
        ImportPages, ReaderAdminPage, TLC

CONSTANTS d1, d2, p1, p2, e1, t1, r1, r2, u1, u2, b1, b2, m1, m2, v1, v2, c1, c2

FirstChoice == c1
TabOfSlot == r1 :> t1 @@ r2 :> t1

VARIABLE part       \* the part that runs

webVars == <<part, vars, readerVars, settingsVars, sessionVars, pagesVars,
             importPagesVars, adminVars>>

-----------------------------------------------------------------------------
(* Bounds.                                                                  *)

\* The reader opens an edition that was read before, up to its first section; another
\* device saves the start of the last one.  From this edition the reader goes to the
\* other one, where the sections are read with the footer's buttons, and not back.
ReadBefore ==
    /\ page.url = e1
    /\ \A e \in Edition : server[e].location = [of |-> e, section |-> 1, place |-> "below"]

ReaderStep ==
    /\ \/ Looking
       \/ page.url = e1 /\ (Reading \/ OtherSaves(e1, Top(e1, Sections)))
       \/ \E place \in {"top", "below"} : Scroll(place)
       \/ \E k \in 1 .. Sections : GoTo(k)
    /\ ~mixed /\ (page.url # e1 => page'.url # e1)

\* Once the settings may be anything nothing more is said.
SettingsStep == SettingsNext /\ ~raced

\* Once a login may be anybody's nothing more is said.  After a lost refresh only what
\* has been refused refreshes again.  One access token expires.  One profile or
\* registration is under way at a time, beside any other request; a login by recovery
\* is the first one.
SessionStep ==
    /\ ~foreign
    /\ IF overlapped THEN (\E t \in Tab : Refreshes(t)) \/ (\E r \in Slot : Refused(r))
       ELSE SessionNext
    /\ Cardinality(expired') <= 1
    /\ Cardinality({r \in Slot : requests'[r].op \in {"profile", "register", "verify"}}) <= 1
    /\ \A s \in DOMAIN sessions' : sessions'[s].recovery => s = 1

\* One choice is changed while an inspection is under way (with a book its edition).
OneChange ==
    inspecting.step # "no" =>
        Cardinality({c \in DOMAIN form.choices :
                        form.choices[c] # inspecting.choices[c]}) <= 2

ImportStep == ImportPagesNext /\ OneChange'

\* Once the loads of a book overlapped nothing more is said of what it shows: what is
\* not read by then is not read any more, and such a load only fails.
PageStep ==
    /\ PagesNext
    /\ On("book") /\ crossed =>
         ~ \E i \in DOMAIN loads : ServerReads(i) \/ ServerReadsPreference(i)

\* One of the readers is there at first, the other one can be created.
OneReader == past[1][v1] = "active" /\ past[1][v2] = "missing"

AdminStep == ReaderAdminNext /\ overlap = "no"

-----------------------------------------------------------------------------
WebInit ==
    /\ part \in {"progress", "reader", "settings", "session", "pages", "import", "admin"}
    /\ Init
    /\ ReaderInit /\ ReadBefore
    /\ SettingsInit /\ (part # "settings" => stored = [f \in Field |-> FirstChoice])
    /\ SessionInit /\ (part # "session" => sessions = <<>>)
    /\ PagesInit /\ (part # "pages" => view.page = "profile")
    /\ ImportPagesInit /\ (part # "import" => batch.shown)
    /\ ReaderAdminInit /\ OneReader

WebNext ==
    \/ /\ part = "progress" /\ Next
       /\ UNCHANGED <<part, readerVars, settingsVars, sessionVars, pagesVars,
                       importPagesVars, adminVars>>
    \/ /\ part = "reader" /\ ReaderStep
       /\ UNCHANGED <<part, vars, settingsVars, sessionVars, pagesVars,
                       importPagesVars, adminVars>>
    \/ /\ part = "settings" /\ SettingsStep
       /\ UNCHANGED <<part, vars, readerVars, sessionVars, pagesVars,
                       importPagesVars, adminVars>>
    \/ /\ part = "session" /\ SessionStep
       /\ UNCHANGED <<part, vars, readerVars, settingsVars, pagesVars,
                       importPagesVars, adminVars>>
    \/ /\ part = "pages" /\ PageStep
       /\ UNCHANGED <<part, vars, readerVars, settingsVars, sessionVars,
                       importPagesVars, adminVars>>
    \/ /\ part = "import" /\ ImportStep
       /\ UNCHANGED <<part, vars, readerVars, settingsVars, sessionVars, pagesVars,
                       adminVars>>
    \/ /\ part = "admin" /\ AdminStep
       /\ UNCHANGED <<part, vars, readerVars, settingsVars, sessionVars, pagesVars,
                       importPagesVars>>

WebSpec == WebInit /\ [][WebNext]_webVars

\* The state of each page has the shape its code gives it: the section on the reading
\* page exists, an answer is of a request that was sent, what is marked is a control.
WebTypeOK ==
    CASE part = "progress" -> TypeOK
      [] part = "reader"   -> ReaderTypeOK
      [] part = "settings" -> SettingsTypeOK
      [] part = "session"  -> SessionTypeOK
      [] part = "pages"    -> PagesTypeOK
      [] part = "import"   -> ImportPagesTypeOK
      [] part = "admin"    -> ReaderAdminTypeOK

\* Interchangeable names.  As only one part runs, two permutations serve them all.
Swapped(pairs) ==
    LET names == UNION {{pair[1], pair[2]} : pair \in pairs}
    IN  [x \in names |-> CHOOSE y \in names : <<x, y>> \in pairs \/ <<y, x>> \in pairs]

WebSymmetry ==
    {Swapped(pairs) : pairs \in {{<<d1, d2>>, <<r1, r2>>, <<b1, b2>>},
                                 {<<p1, p2>>, <<u1, u2>>, <<m1, m2>>}}}
=============================================================================
