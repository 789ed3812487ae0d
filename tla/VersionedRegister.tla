-------------------------- MODULE VersionedRegister --------------------------
(***************************************************************************)
(* What the saved reading position of one reader in one edition promises   *)
(* (ADR 0011): a register whose content is replaced only by a writer that  *)
(* names the version it replaces, a version it has been shown.  There is   *)
(* no silent overwrite, and no two contents share a version.               *)
(***************************************************************************)
EXTENDS Naturals

CONSTANTS
    Writer,
    Content,
    Nothing     \* the content before the first write

VARIABLES version, content, seen

regVars == <<version, content, seen>>

Init ==
    /\ version = 0 /\ content = Nothing
    /\ seen = [w \in Writer |-> {0}]

\* A writer is shown the current version.
Look(w) ==
    /\ seen' = [seen EXCEPT ![w] = @ \cup {version}]
    /\ UNCHANGED <<version, content>>

\* A writer replaces the version it names.
Write(w, c) ==
    /\ version \in seen[w]
    /\ version' = version + 1 /\ content' = c
    /\ seen' = [seen EXCEPT ![w] = @ \cup {version + 1}]

\* A new version of the same content.
Touch(w) ==
    /\ version # 0
    /\ version' = version + 1
    /\ seen' = [seen EXCEPT ![w] = @ \cup {version + 1}]
    /\ UNCHANGED content

RegNext == \E w \in Writer : \/ Look(w) \/ Touch(w)
                             \/ \E c \in Content : Write(w, c)

RegSpec == Init /\ [][RegNext]_regVars
==============================================================================
