----------------------------- MODULE ReaderSettings -----------------------------
(***************************************************************************)
(* The looks of the reading page: font size, line height, width, font and  *)
(* theme.  The page shows a choice at once, waits until the reader has     *)
(* stopped choosing, and then sends all the settings it shows; what the    *)
(* answer says is shown.  The opening of an edition brings the saved       *)
(* settings with it.  Nothing orders two requests or names the settings    *)
(* they replace, unlike the saved position (ReaderPage).                   *)
(*                                                                         *)
(* The server reads the row without a lock and writes the fields that      *)
(* differ from what it has read; its answer is the settings it was sent.   *)
(***************************************************************************)
EXTENDS Naturals, Sequences, FiniteSets

LOCAL INSTANCE SequencesExt

CONSTANTS
    Field,          \* font_size, theme, ...
    Choice,         \* their values
    NoSettings,
    MaxPatches      \* bound: patches at the same time

ASSUME ReaderSettingsAssumption ==
    NoSettings \notin [Field -> Choice] /\ MaxPatches \in Nat

VARIABLES
    looks,      \* the page
    patches,    \* the requests that save the settings, as they were sent
    opening,    \* the request that opens an edition
    stored,     \* the row of the reader
    chosen,     \* history: what the reader has chosen last, or what was loaded
    raced       \* history: has something else happened beside a request?

settingsVars == <<looks, patches, opening, stored, chosen, raced>>

Settings == [Field -> Choice]

SettingsTypeOK ==
    /\ looks \in [shown : Settings \cup {NoSettings},   \* settings
                  timer : Settings \cup {NoSettings}]   \* settingsTimerRef
    /\ patches \in Seq([value : Settings, step : {"sent", "read", "stored"},
                        seen : Settings \cup {NoSettings}])
    /\ Len(patches) <= MaxPatches
    /\ opening \in [step : {"no", "sent", "read", "failed"}, seen : Settings \cup {NoSettings}]
    /\ stored \in Settings /\ chosen \in Settings \cup {NoSettings}
    /\ raced \in BOOLEAN

Unsaved == looks.timer # NoSettings \/ patches # <<>>

SettingsInit ==
    /\ looks = [shown |-> NoSettings, timer |-> NoSettings] /\ patches = <<>>
    /\ opening = [step |-> "sent", seen |-> NoSettings]
    /\ stored \in {[f \in Field |-> c] : c \in Choice}
    /\ chosen = NoSettings /\ raced = FALSE

\* loadReader: another edition, the position of the cloud, or a retry.
Reopen ==
    /\ opening.step \in {"no", "failed"}
    /\ opening' = [step |-> "sent", seen |-> NoSettings]
    /\ raced' = (raced \/ Unsaved)
    /\ UNCHANGED <<looks, patches, stored, chosen>>

OpeningReads ==
    /\ opening.step = "sent" /\ opening' = [step |-> "read", seen |-> stored]
    /\ UNCHANGED <<looks, patches, stored, chosen, raced>>

OpeningArrives ==
    /\ opening.step = "read"
    /\ looks' = [looks EXCEPT !.shown = opening.seen]
    /\ opening' = [step |-> "no", seen |-> NoSettings]
    /\ chosen' = opening.seen
    /\ UNCHANGED <<patches, stored, raced>>

\* Nothing can be chosen below the message.
OpeningFails ==
    /\ opening.step \in {"sent", "read"}
    /\ opening' = [step |-> "failed", seen |-> NoSettings]
    /\ UNCHANGED <<looks, patches, stored, chosen, raced>>

\* Mutant: the timer goes on with what it was set for.
ChangeSettings_KeepsTimer(f, c) ==
    /\ opening.step = "no" /\ looks.shown[f] # c
    /\ LET next == [looks.shown EXCEPT ![f] = c]
       IN  /\ looks' = [shown |-> next,
                        timer |-> IF looks.timer = NoSettings THEN next ELSE looks.timer]
           /\ chosen' = next
    /\ raced' = (raced \/ patches # <<>>)
    /\ UNCHANGED <<patches, opening, stored>>

\* changeSettings: the choice is shown, and all that is shown will be sent.
ChangeSettings(f, c) ==
    /\ opening.step = "no" /\ looks.shown[f] # c
    /\ LET next == [looks.shown EXCEPT ![f] = c]
       IN  looks' = [shown |-> next, timer |-> next] /\ chosen' = next
    /\ raced' = (raced \/ patches # <<>>)
    /\ UNCHANGED <<patches, opening, stored>>

\* The timer fires, also on a page that was left.
SendSettings ==
    /\ looks.timer # NoSettings /\ Len(patches) < MaxPatches
    /\ patches' = Append(patches, [value |-> looks.timer, step |-> "sent",
                                   seen |-> NoSettings])
    /\ looks' = [looks EXCEPT !.timer = NoSettings]
    /\ raced' = (raced \/ patches # <<>> \/ opening.step # "no")
    /\ UNCHANGED <<opening, stored, chosen>>

PatchReads(i) ==
    /\ patches[i].step = "sent"
    /\ patches' = [patches EXCEPT ![i].step = "read", ![i].seen = stored]
    /\ UNCHANGED <<looks, opening, stored, chosen, raced>>

\* What the UPDATE of a changed row contains.
PatchWrites(i) ==
    /\ patches[i].step = "read"
    /\ stored' = [f \in Field |-> IF patches[i].value[f] # patches[i].seen[f]
                                  THEN patches[i].value[f] ELSE stored[f]]
    /\ patches' = [patches EXCEPT ![i].step = "stored"]
    /\ UNCHANGED <<looks, opening, chosen, raced>>

PatchAnswered(i) ==
    /\ patches[i].step = "stored"
    /\ looks' = [looks EXCEPT !.shown = patches[i].value]
    /\ patches' = RemoveAt(patches, i)
    /\ UNCHANGED <<opening, stored, chosen, raced>>

\* The request fails, or the answer is lost: the page says so and keeps what it shows.
PatchFails(i) ==
    /\ patches' = RemoveAt(patches, i) /\ raced' = TRUE
    /\ UNCHANGED <<looks, opening, stored, chosen>>

\* Another device of the reader saves its settings.
OtherSettings ==
    /\ stored' \in Settings \ {stored} /\ raced' = (raced \/ opening.step # "sent")
    /\ UNCHANGED <<looks, patches, opening, chosen>>

SettingsNext ==
    \/ Reopen \/ OpeningReads \/ OpeningArrives \/ OpeningFails
    \/ SendSettings \/ OtherSettings
    \/ \E f \in Field, c \in Choice : ChangeSettings(f, c)
    \/ \E i \in DOMAIN patches :
         PatchReads(i) \/ PatchWrites(i) \/ PatchAnswered(i) \/ PatchFails(i)

SettingsSpec == SettingsInit /\ [][SettingsNext]_settingsVars

-----------------------------------------------------------------------------
(* Properties.                                                             *)

\* The page shows what the reader has chosen last, and once nothing waits any more
\* that is what is saved, however many choices one request stands for, as long as no
\* choice was made and no edition opened while settings were being saved, none failed
\* to be saved, and no other device saved its own (changeSettings, update_settings).
LastChoiceKept ==
    ~raced => /\ looks.shown = chosen
              /\ opening.step = "no" /\ ~Unsaved => stored = chosen
=============================================================================
