--------------------------- MODULE MCLibraryImport ---------------------------
(* Instances of LibraryImport for TLC.                                      *)
EXTENDS LibraryImport, TLC

CONSTANTS i0, i1, i2, k1, k2, k3, k4, f1, f2, f3, f4, p1, p2, none

OneImport == {i0}
TwoImports == {i0, i1}
ThreeImports == {i0, i1, i2}
NoEpub == {}
OneEpub == {i1}
TwoEpubs == {i1, i2}
TwoKeys == {k1, k2}
ThreeKeys == {k1, k2, k3}
FourKeys == {k1, k2, k3, k4}
TwoFiles == {f1, f2}
FourFiles == {f1, f2, f3, f4}
OneReq == {p1}
TwoReqs == {p1, p2}

-----------------------------------------------------------------------------
(* Two commits that overlap.  A behaviour is about one TXT upload, or about   *)
(* two inspected EPUBs with a cover each; the imports of the other kind are   *)
(* left alone.                                                                *)

EpubsReady ==
    /\ imports = (i0 :> [status |-> "none", source |-> NoKey, extra |-> NoKey,
                       file |-> NoFile, old |-> FALSE])
                 @@ (i1 :> [status |-> "ready", source |-> k1, extra |-> k2,
                       file |-> NoFile, old |-> FALSE])
                 @@ (i2 :> [status |-> "ready", source |-> k3, extra |-> k4,
                       file |-> NoFile, old |-> FALSE])
    /\ stored = {} /\ cover = NoFile
    /\ temp = [k \in Key |-> [present |-> TRUE, old |-> FALSE]]
    /\ perm = [f \in File |-> [present |-> FALSE, old |-> FALSE, from |-> NoKey]]
    /\ req = [p \in Req |-> Idle] /\ job = NoJob /\ faults = 0

Untouched(is) == \A i \in is : imports[i].status = "none"

\* A new name is the first one that is free: keys and files are
\* interchangeable.
TakenInOrder(fresh, taken, order) ==
    \A m, n \in DOMAIN order :
        m < n /\ order[n] \in fresh \cap taken => order[m] \notin fresh

NamesInOrder ==
    /\ TakenInOrder(FreshKey, {k \in Key : temp'[k].present}, <<k1, k2, k3, k4>>)
    /\ TakenInOrder(FreshFile, {f \in File : perm'[f].from # NoKey}, <<f1, f2, f3, f4>>)

\* With three keys, two files, the cleanup command and a fault.
TextNext ==
    /\ Untouched(Epub) /\ Next /\ Untouched(Epub)'
    /\ NamesInOrder /\ k4 \in FreshKey' /\ {f3, f4} \subseteq FreshFile'

\* Without a crash.  The server may be done with both.
EpubNext ==
    \/ /\ ~Untouched(Epub) /\ Server /\ Untouched(Import \ Epub)' /\ faults' = 0
       /\ NamesInOrder
    \/ ~Untouched(Epub) /\ UNCHANGED vars

CommitsSpec == (Init \/ EpubsReady) /\ [][TextNext \/ EpubNext]_vars

CommitsSymmetry == Permutations(Req)

\* Keys, files and requests are interchangeable (in the runs without
\* liveness).
Symmetry == Permutations(Key) \cup Permutations(File) \cup Permutations(Req)
=============================================================================
