------------------------- MODULE LibraryImportProofs -------------------------
(* Theorems about LibraryImport for every number of imports, objects and   *)
(* open requests, and every number of crashes.                             *)
EXTENDS LibraryImport, TLAPS

-----------------------------------------------------------------------------
(* The inductive invariant.                                                *)

\* A commit holds the permanent files it has linked and not yet published or
\* taken back.
Working(r) == r.step \in {"move", "link", "publish"}

Held(r) == (IF Working(r) \/ r.step = "restore" THEN r.moved ELSE {})
           \cup (IF r.step = "link" THEN {r.cur} ELSE {})

\* What a request says of itself.
RequestShape(r) ==
    /\ r.step = "link" => r.cur \in File \ r.moved
    /\ r.step = "publish" => r.todo = {}
    /\ Working(r) => r.source # NoKey
    /\ r.gone # NoFile => r.step \in {"publish", "drop"} /\ r.extra # NoKey

\* What a request knows of the library: its files are used names without rows;
\* each object it took is still to be moved or is one of them; the cover it
\* replaces is a used name, and without a row once the request has published.
RequestFiles(r) ==
    /\ \A f \in Held(r) : f \notin stored /\ perm[f].from # NoKey
    /\ Working(r) => \A k \in {r.source, r.extra} \ {NoKey} :
                        k \in r.todo \/ \E f \in Held(r) : perm[f].from = k
    /\ r.gone # NoFile => perm[r.gone].from # NoKey
    /\ r.step = "drop" => r.gone \notin stored
    /\ (~DeleteOrphans /\ Working(r)) => \A f \in r.moved : perm[f].present

\* No two requests hold a file, and none is about to delete one that is held.
Separate ==
    \A p, q \in Req : /\ p # q => Held(req[p]) \cap Held(req[q]) = {}
                      /\ req[p].gone \notin Held(req[q])

Tables ==
    /\ \A f \in stored : perm[f].from # NoKey /\ (~DeleteOrphans => perm[f].present)
    /\ CoverIsStored

IInv == /\ TypeOK
        /\ \A p \in Req : RequestShape(req[p]) /\ RequestFiles(req[p])
        /\ Separate
        /\ Tables

-----------------------------------------------------------------------------
(* Types.                                                                  *)

LEMMA IdleIsRequest == Idle \in Request
  BY DEF Idle, Request, Steps

LEMMA NoJobIsJob == NoJob \in Job
  BY DEF NoJob, Job, JobSteps

\* The fields of a request have their types.
LEMMA RequestFields ==
  ASSUME TypeOK, NEW p \in Req
  PROVE  /\ req[p] \in Request
         /\ req[p].source \in Key \cup {NoKey} /\ req[p].extra \in Key \cup {NoKey}
         /\ req[p].todo \in SUBSET Key /\ req[p].moved \in SUBSET File
         /\ req[p].cur \in File \cup {NoFile} /\ req[p].gone \in File \cup {NoFile}
         /\ req[p].drop \in SUBSET Key /\ req[p].imp \in Import \cup {NoImport}
  BY DEF TypeOK, Request

\* The files a request holds are files.
LEMMA HeldAreFiles ==
  ASSUME NEW r \in Request, RequestShape(r)
  PROVE  Held(r) \subseteq File
  BY DEF Held, RequestShape, Request

\* Writing or removing an object keeps the temporary directory typed.
LEMMA TempFileType ==
  ASSUME TypeOK, NEW k, NEW b \in BOOLEAN, NEW o \in BOOLEAN, TempFile(k, b, o)
  PROVE  temp' \in [Key -> Object]
  BY DEF TypeOK, TempFile, Object

-----------------------------------------------------------------------------
(* Steps and the inductive invariant.                                      *)

\* A step of request p keeps the invariant if it only takes fresh names, only
\* publishes what p holds, and removes no file that has a row or that another
\* request holds.
LEMMA StepInv ==
  ASSUME IInv, TypeOK', NEW p \in Req, NEW r \in Request, Move(p, r),
         RequestShape(r), RequestFiles(r)', Tables',
         \A f \in File : perm[f].from # NoKey => perm'[f].from = perm[f].from,
         \A f \in File : perm[f].present /\ ~perm'[f].present =>
                           \A q \in Req \ {p} : f \notin Held(req[q]),
         stored' \subseteq stored \cup Held(req[p]),
         Held(r) \subseteq Held(req[p]) \cup FreshFile,
         r.gone \in {NoFile, req[p].gone} \cup stored
  PROVE  IInv'
  <1>1. req' = [req EXCEPT ![p] = r] /\ req'[p] = r
    BY DEF Move, IInv, TypeOK
  <1>2. \A q \in Req \ {p} : req'[q] = req[q]
    BY <1>1 DEF IInv, TypeOK
  <1>3. \A q \in Req : Held(req[q]) \subseteq File
    BY HeldAreFiles DEF IInv, TypeOK
  <1>4. Held(r) \subseteq File
    BY HeldAreFiles
  <1>5. \A q \in Req : \A f \in Held(req[q]) : f \notin stored /\ perm[f].from # NoKey
    BY DEF IInv, RequestFiles
  <1>6. \A q \in Req : req[q].gone # NoFile => perm[req[q].gone].from # NoKey
    BY DEF IInv, RequestFiles
  <1>7. \A f \in stored : perm[f].from # NoKey
    BY DEF IInv, Tables
  <1>8. NoFile \notin File
    BY LibraryImportAssumption
  <1>9. \A q \in Req \ {p} : RequestShape(req[q]) /\ RequestFiles(req[q])'
    <2> SUFFICES ASSUME NEW q \in Req \ {p}
                 PROVE  RequestShape(req[q]) /\ RequestFiles(req[q])'
      OBVIOUS
    <2> DEFINE s == req[q]
    <2>1. RequestShape(s) /\ RequestFiles(s)
      BY DEF IInv
    <2>2. s \in Request /\ Held(s) \cap Held(req[p]) = {} /\ s.gone \notin Held(req[p])
      BY DEF IInv, TypeOK, Separate
    <2>3. req'[q] = s
      BY <1>2
    <2>4. Held(req[q])' = Held(s)
      BY <2>3 DEF Held, Working
    <2>5. \A f \in Held(s) : f \in File /\ perm'[f].from = perm[f].from
      BY <1>3, <1>5
    <2>6. \A f \in Held(s) : f \notin stored'
      BY <1>5, <2>2
    <2>7. s.gone # NoFile => s.gone \in File /\ perm'[s.gone].from # NoKey
      BY <1>6, <2>2, RequestFields DEF Request
    <2>8. s.step = "drop" => s.gone \notin stored'
      BY <2>1, <2>2 DEF RequestFiles
    <2>9. Working(s) => \A k \in {s.source, s.extra} \ {NoKey} :
                          k \in s.todo \/ \E f \in Held(s) : perm'[f].from = k
      BY <2>1, <2>5 DEF RequestFiles
    <2>10. (~DeleteOrphans /\ Working(s)) => \A f \in s.moved : perm'[f].present
      <3>1. Working(s) => s.moved \subseteq Held(s)
        BY DEF Held
      <3> QED
        BY <1>3, <2>1, <3>1 DEF RequestFiles
    <2>11. RequestFiles(req[q])'
      BY <1>5, <2>3, <2>5, <2>6, <2>7, <2>8, <2>9, <2>10
      DEF RequestFiles, Held, Working
    <2> QED
      BY <2>1, <2>11
  <1>10. Separate'
    <2>1. \A q \in Req \ {p} : Held(r) \cap Held(req[q]) = {}
      BY <1>5 DEF IInv, Separate, FreshFile
    <2>2. \A q \in Req \ {p} : req[q].gone \notin Held(r)
      BY <1>4, <1>6, <1>8 DEF IInv, Separate, FreshFile
    <2>3. r.gone \notin Held(r)
      <3>1. r.gone \notin Held(req[p])
        BY <1>3, <1>5, <1>8 DEF IInv, Separate
      <3>2. r.gone \notin FreshFile
        BY <1>6, <1>7, <1>8 DEF FreshFile
      <3> QED
        BY <3>1, <3>2
    <2>4. \A q \in Req \ {p} : r.gone \notin Held(req[q])
      BY <1>3, <1>5, <1>8 DEF IInv, Separate
    <2>5. \A q, s \in Req \ {p} : /\ q # s => Held(req[q]) \cap Held(req[s]) = {}
                                  /\ req[q].gone \notin Held(req[s])
      BY DEF IInv, Separate
    <2>6. \A q, s \in Req : /\ q # s => Held(req'[q]) \cap Held(req'[s]) = {}
                            /\ req'[q].gone \notin Held(req'[s])
      BY <1>1, <1>2, <2>1, <2>2, <2>3, <2>4, <2>5
    <2> QED
      BY <2>6 DEF Separate, Held, Working
  <1>11. \A q \in Req : RequestShape(req[q])' /\ RequestFiles(req[q])'
    <2> SUFFICES ASSUME NEW q \in Req PROVE RequestShape(req[q])' /\ RequestFiles(req[q])'
      OBVIOUS
    <2>1. CASE q = p
      BY <1>1, <2>1 DEF RequestShape, RequestFiles, Held, Working
    <2>2. CASE q # p
      BY <1>2, <1>9, <2>2 DEF RequestShape, RequestFiles, Held, Working
    <2> QED
      BY <2>1, <2>2
  <1> QED
    BY <1>10, <1>11 DEF IInv

\* So does a step after which request p holds nothing, if it leaves the library
\* alone.
LEMMA AsideInv ==
  ASSUME IInv, TypeOK', NEW p \in Req, NEW r \in Request, Move(p, r),
         ~Working(r), r.step # "restore", r.gone = NoFile,
         UNCHANGED <<stored, cover, perm>>
  PROVE  IInv'
  <1>1. RequestShape(r) /\ Held(r) = {}
    BY DEF RequestShape, Held, Working
  <1>2. NoFile \notin stored
    BY LibraryImportAssumption DEF IInv, TypeOK
  <1>3. RequestFiles(r)'
    BY <1>1, <1>2 DEF RequestFiles, Held, Working
  <1>4. Tables'
    BY DEF IInv, Tables, CoverIsStored
  <1> QED
    BY <1>1, <1>3, <1>4, StepInv

\* So does a step of the cleanup or of the clock, which removes permanent
\* files with --delete-orphans only.
LEMMA OutsideInv ==
  ASSUME IInv, TypeOK', UNCHANGED <<stored, cover, req>>,
         \A f \in File : /\ perm'[f].from = perm[f].from
                         /\ perm'[f].present = perm[f].present \/ DeleteOrphans
  PROVE  IInv'
  <1>1. \A p \in Req : Held(req[p]) \subseteq File
    BY HeldAreFiles DEF IInv, TypeOK
  <1>2. \A p \in Req : RequestShape(req[p])'
    BY DEF IInv, RequestShape, Working
  <1>3. \A p \in Req : RequestFiles(req[p])'
    <2> SUFFICES ASSUME NEW p \in Req PROVE RequestFiles(req[p])'
      OBVIOUS
    <2>1. RequestFiles(req[p]) /\ Held(req[p])' = Held(req[p])
      BY DEF IInv, Held, Working
    <2>2. req[p].moved \subseteq File /\ req[p].gone \in File \cup {NoFile}
      BY RequestFields DEF IInv
    <2> QED
      BY <1>1, <2>1, <2>2 DEF RequestFiles, Working
  <1>4. Separate'
    BY DEF IInv, Separate, Held, Working
  <1>5. Tables'
    BY DEF IInv, Tables, TypeOK, CoverIsStored
  <1> QED
    BY <1>2, <1>3, <1>4, <1>5 DEF IInv

\* The initial state.
LEMMA InitInv == Init => IInv
  <1> SUFFICES ASSUME Init PROVE IInv
    OBVIOUS
  <1>1. TypeOK
    BY IdleIsRequest, NoJobIsJob, LibraryImportAssumption
    DEF Init, TypeOK, ImportRow, Status, Object, PermObject
  <1>2. \A p \in Req : req[p] = Idle
    BY DEF Init
  <1>3. Held(Idle) = {} /\ RequestShape(Idle) /\ RequestFiles(Idle)
    BY DEF Held, Working, Idle, RequestShape, RequestFiles, Init
  <1>4. Separate
    BY <1>2, <1>3 DEF Separate
  <1>5. Tables
    BY DEF Init, Tables, CoverIsStored
  <1> QED
    BY <1>1, <1>2, <1>3, <1>4, <1>5 DEF IInv

-----------------------------------------------------------------------------
(* Inspections, and the short steps of the other requests.                 *)

LEMMA InspectInv ==
  ASSUME IInv, NEW p \in Req, Inspect(p)
  PROVE  IInv'
  <1>0. TypeOK /\ req[p] \in Request /\ RequestShape(req[p])
    BY RequestFields DEF IInv
  <1>1. CASE InspectProcess(p)
    <2> DEFINE r == IF RowExists(req[p].imp) THEN [req[p] EXCEPT !.step = "write"] ELSE Idle
    <2>1. r \in Request /\ ~Working(r) /\ r.step # "restore" /\ r.gone = NoFile
      BY <1>0, <1>1, IdleIsRequest
      DEF InspectProcess, Request, Steps, Working, RequestShape, Idle
    <2>2. Move(p, r) /\ UNCHANGED <<stored, cover, perm>>
      BY <1>1 DEF InspectProcess, Close, Move, disk
    <2>3. TypeOK'
      BY <1>0, <1>1, <2>1, <2>2
      DEF InspectProcess, TypeOK, SetStatus, ImportRow, Status, Move, disk
    <2> QED
      BY <2>1, <2>2, <2>3, AsideInv
  <1>2. CASE InspectRecord(p)
    <2> DEFINE r == IF RowExists(req[p].imp) THEN [req[p] EXCEPT !.step = "parse"] ELSE Idle
    <2>1. r \in Request /\ ~Working(r) /\ r.step # "restore" /\ r.gone = NoFile
      BY <1>0, <1>2, IdleIsRequest
      DEF InspectRecord, Request, Steps, Working, RequestShape, Idle
    <2>2. Move(p, r) /\ UNCHANGED <<stored, cover, perm>>
      BY <1>2 DEF InspectRecord, Close, Move, disk
    <2>3. TypeOK'
      BY <1>0, <1>2, <2>1, <2>2, RequestFields
      DEF InspectRecord, TypeOK, ImportRow, Move, disk
    <2> QED
      BY <2>1, <2>2, <2>3, AsideInv
  <1>3. CASE InspectPlain(p)
    <2> DEFINE r == [req[p] EXCEPT !.step = "finish"]
    <2>1. r \in Request /\ ~Working(r) /\ r.step # "restore" /\ r.gone = NoFile
      BY <1>0, <1>3 DEF InspectPlain, Request, Steps, Working, RequestShape
    <2>2. Move(p, r) /\ UNCHANGED <<stored, cover, perm>>
      BY <1>3 DEF InspectPlain, tables, disk
    <2>3. TypeOK'
      BY <1>0, <1>3, <2>1, <2>2 DEF InspectPlain, TypeOK, Move, tables, disk
    <2> QED
      BY <2>1, <2>2, <2>3, AsideInv
  <1>4. CASE InspectReady(p) \/ InspectFail(p) \/ InspectLost(p)
    <2>1. Move(p, Idle) /\ UNCHANGED <<stored, cover, perm>>
      BY <1>4 DEF InspectReady, InspectFail, InspectLost, Close, disk
    <2>2. imports' \in [Import -> ImportRow]
      BY <1>0, <1>4, RequestFields
      DEF InspectReady, InspectFail, InspectLost, TypeOK, SetStatus, ImportRow, Status
    <2>3. TypeOK'
      BY <1>0, <1>4, <2>1, <2>2, IdleIsRequest
      DEF InspectReady, InspectFail, InspectLost, TypeOK, Move, disk
    <2> QED
      BY <2>1, <2>3, IdleIsRequest, AsideInv DEF Idle, Working
  <1>5. ASSUME NEW k \in Key, InspectWrite(p, k) PROVE IInv'
    <2> DEFINE r == [req[p] EXCEPT !.step = "record", !.source = k]
    <2>1. r \in Request /\ ~Working(r) /\ r.step # "restore" /\ r.gone = NoFile
      BY <1>0, <1>5 DEF InspectWrite, Request, Steps, Working, RequestShape
    <2>2. Move(p, r) /\ UNCHANGED <<stored, cover, perm>>
      BY <1>5 DEF InspectWrite, tables
    <2>3. TypeOK'
      BY <1>0, <1>5, <2>1, <2>2, TempFileType DEF InspectWrite, TypeOK, Move, tables
    <2> QED
      BY <2>1, <2>2, <2>3, AsideInv
  <1>6. ASSUME NEW k \in Key, InspectExtra(p, k) PROVE IInv'
    <2> DEFINE r == [req[p] EXCEPT !.step = "finish", !.extra = k]
    <2>1. r \in Request /\ ~Working(r) /\ r.step # "restore" /\ r.gone = NoFile
      BY <1>0, <1>6 DEF InspectExtra, Request, Steps, Working, RequestShape
    <2>2. Move(p, r) /\ UNCHANGED <<stored, cover, perm>>
      BY <1>6 DEF InspectExtra, tables
    <2>3. TypeOK'
      BY <1>0, <1>6, <2>1, <2>2, TempFileType DEF InspectExtra, TypeOK, Move, tables
    <2> QED
      BY <2>1, <2>2, <2>3, AsideInv
  <1> QED
    BY <1>1, <1>2, <1>3, <1>4, <1>5, <1>6 DEF Inspect

\* The beginnings of a request.
LEMMA StartInv ==
  ASSUME IInv, NEW p \in Req, Start(p)
  PROVE  IInv'
  <1>0. TypeOK /\ req[p] \in Request
    BY RequestFields DEF IInv
  <1>. PICK i \in Import : \/ InspectStart(p, i) \/ DeleteRow(p, i)
                          \/ \E sel \in SUBSET Key :
                                CommitStart(p, i, sel) \/ CommitRefused(p, i, sel)
    BY DEF Start
  <1>1. imports[i] \in ImportRow /\ KeysOf(i) \subseteq Key
    BY <1>0 DEF TypeOK, ImportRow, KeysOf
  <1>2. CASE InspectStart(p, i)
    <2> DEFINE r == [Idle EXCEPT !.imp = i, !.step = "process"]
    <2>1. r \in Request /\ ~Working(r) /\ r.step # "restore" /\ r.gone = NoFile
      BY IdleIsRequest DEF Request, Steps, Working, Idle
    <2>2. Move(p, r) /\ UNCHANGED <<stored, cover, perm>>
      BY <1>2 DEF InspectStart, disk
    <2>3. TypeOK'
      BY <1>0, <1>2, <2>1, <2>2
      DEF InspectStart, SetStatus, TypeOK, ImportRow, Status, Move, disk
    <2> QED
      BY <2>1, <2>2, <2>3, AsideInv
  <1>3. CASE DeleteRow(p, i)
    <2> DEFINE r == [Idle EXCEPT !.imp = i, !.step = "drop", !.drop = KeysOf(i)]
    <2>1. r \in Request /\ ~Working(r) /\ r.step # "restore" /\ r.gone = NoFile
      BY <1>1, IdleIsRequest DEF Request, Steps, Working, Idle
    <2>2. Move(p, r) /\ UNCHANGED <<stored, cover, perm>>
      BY <1>3 DEF DeleteRow, disk
    <2>3. imports' \in [Import -> ImportRow]
      BY <1>0, <1>1, <1>3 DEF DeleteRow, TypeOK, ImportRow, Status
    <2>4. TypeOK'
      BY <1>0, <1>3, <2>1, <2>2, <2>3 DEF DeleteRow, TypeOK, Move, disk
    <2> QED
      BY <2>1, <2>2, <2>4, AsideInv
  <1>4. ASSUME NEW sel \in SUBSET Key, CommitRefused(p, i, sel) PROVE IInv'
    <2> DEFINE r == [Idle EXCEPT !.imp = i, !.step = "check", !.fatal = TRUE]
    <2>1. r \in Request /\ ~Working(r) /\ r.step # "restore" /\ r.gone = NoFile
      BY IdleIsRequest DEF Request, Steps, Working, Idle
    <2>2. Move(p, r) /\ UNCHANGED <<stored, cover, perm>>
      BY <1>4 DEF CommitRefused, tables, disk
    <2>3. TypeOK'
      BY <1>0, <1>4, <2>1, <2>2 DEF CommitRefused, TypeOK, Move, tables, disk
    <2> QED
      BY <2>1, <2>2, <2>3, AsideInv
  <1>5. ASSUME NEW sel \in SUBSET Key, CommitStart(p, i, sel) PROVE IInv'
    <2> DEFINE wanted == IF i \in Epub /\ imports[i].extra \in sel THEN imports[i].extra ELSE NoKey
    <2>0. [Idle EXCEPT !.imp = i, !.step = "move", !.todo = sel,
                       !.source = imports[i].source, !.extra = wanted,
                       !.drop = KeysOf(i) \ sel] \in Request
      <3>1. /\ imports[i].source \in Key \cup {NoKey} /\ wanted \in Key \cup {NoKey}
            /\ KeysOf(i) \ sel \in SUBSET Key
        BY <1>1 DEF ImportRow
      <3> HIDE DEF wanted
      <3> QED
        BY <3>1, IdleIsRequest DEF Request, Steps
    <2>1. PICK r \in Request :
            r = [Idle EXCEPT !.imp = i, !.step = "move", !.todo = sel,
                             !.source = imports[i].source, !.extra = wanted,
                             !.drop = KeysOf(i) \ sel]
      BY <2>0
    <2>2. r.source # NoKey /\ r.source \in sel /\ (r.extra # NoKey => r.extra \in sel)
      BY <1>5, <2>1 DEF CommitStart, Selections, KeysOf, Idle
    <2>3. Move(p, r) /\ UNCHANGED <<stored, cover, perm>>
      BY <1>5, <2>1 DEF CommitStart, tables, disk
    <2>4. TypeOK'
      BY <1>0, <1>5, <2>1, <2>3 DEF CommitStart, TypeOK, Move, tables, disk
    <2>5. /\ r.step = "move" /\ r.todo = sel /\ r.moved = {} /\ r.gone = NoFile
      BY <2>1 DEF Idle
    <2>6. Held(r) = {} /\ RequestShape(r)
      BY <2>2, <2>5 DEF Held, Working, RequestShape
    <2>7. RequestFiles(r)'
      BY <2>2, <2>5, <2>6 DEF RequestFiles, Held, Working
    <2>8. Tables'
      BY <2>3 DEF IInv, Tables, CoverIsStored
    <2> QED
      BY <2>1, <2>3, <2>4, <2>5, <2>6, <2>7, <2>8, StepInv
  <1> QED
    BY <1>2, <1>3, <1>4, <1>5

\* What follows the transactions.
LEMMA AfterInv ==
  ASSUME IInv, NEW p \in Req,
         DropUnused(p) \/ RestoreDone(p) \/ FailureCheck(p) \/ FailureMark(p)
  PROVE  IInv'
  <1>0. TypeOK /\ req[p] \in Request /\ RequestShape(req[p]) /\ RequestFiles(req[p])
    BY RequestFields DEF IInv
  <1>1. CASE DropUnused(p)
    <2>1. Move(p, Idle) /\ UNCHANGED <<stored, cover>> /\ req[p].step = "drop"
      BY <1>1 DEF DropUnused, Close, tables
    <2>2. temp' \in [Key -> Object] /\ perm' \in [File -> PermObject]
      BY <1>0, <1>1 DEF DropUnused, TypeOK, Object, PermObject
    <2>3. TypeOK'
      BY <1>0, <1>1, <2>1, <2>2, IdleIsRequest DEF DropUnused, TypeOK, Move, tables
    <2>4. \A f \in File : /\ perm'[f].from = perm[f].from
                          /\ f # req[p].gone => perm'[f].present = perm[f].present
      BY <1>0, <1>1 DEF DropUnused, TypeOK, PermObject
    <2>5. req[p].gone \notin stored /\ \A q \in Req : req[p].gone \notin Held(req[q])
      BY <1>0, <2>1 DEF IInv, RequestFiles, Separate
    <2>6. Held(Idle) = {} /\ RequestShape(Idle) /\ Idle.gone = NoFile /\ RequestFiles(Idle)'
      BY DEF Held, Working, Idle, RequestShape, RequestFiles
    <2>7. Tables'
      BY <1>0, <2>1, <2>4, <2>5 DEF IInv, Tables, CoverIsStored, TypeOK
    <2> QED
      BY <2>1, <2>3, <2>4, <2>5, <2>6, <2>7, IdleIsRequest, StepInv
  <1>2. CASE RestoreDone(p) \/ FailureCheck(p)
    <2>a. req[p].gone = NoFile
      BY <1>0, <1>2 DEF RestoreDone, FailureCheck, RequestShape
    <2>b. \A s \in {"check", "mark"} :
            LET r == [req[p] EXCEPT !.step = s]
            IN  r \in Request /\ r.step = s /\ r.gone = NoFile
      BY <1>0, <2>a DEF Request, Steps
    <2>1. PICK r : /\ r = Idle \/ \E s \in {"check", "mark"} : r = [req[p] EXCEPT !.step = s]
                   /\ Move(p, r)
      BY <1>2 DEF RestoreDone, FailureCheck, Close
    <2>c. Idle.step = "idle" /\ Idle.gone = NoFile
      BY DEF Idle
    <2>d. r \in Request /\ r.step \in {"idle", "check", "mark"} /\ r.gone = NoFile
      <3>1. CASE r = Idle
        BY <2>c, <3>1, IdleIsRequest
      <3>2. ASSUME NEW s \in {"check", "mark"}, r = [req[p] EXCEPT !.step = s]
            PROVE  r \in Request /\ r.step \in {"idle", "check", "mark"} /\ r.gone = NoFile
        BY <2>b, <3>2
      <3> QED
        BY <2>1, <3>1, <3>2
    <2>2. r \in Request /\ ~Working(r) /\ r.step # "restore" /\ r.gone = NoFile
      BY <2>d DEF Working
    <2>3. UNCHANGED <<tables, disk, job, faults>>
      BY <1>2 DEF RestoreDone, FailureCheck
    <2>4. TypeOK'
      BY <1>0, <2>1, <2>2, <2>3 DEF TypeOK, Move, tables, disk
    <2> QED
      BY <2>1, <2>2, <2>3, <2>4, AsideInv DEF tables, disk
  <1>3. CASE FailureMark(p)
    <2>1. Move(p, Idle) /\ UNCHANGED <<stored, cover, perm>>
      BY <1>3 DEF FailureMark, Close, disk
    <2>2. imports' \in [Import -> ImportRow]
      <3>1. PICK i : i = req[p].imp  OBVIOUS
      <3>2. imports \in [Import -> ImportRow]  BY <1>0 DEF TypeOK
      <3>3. imports' = imports \/ imports' = [imports EXCEPT ![i].status = "failed"]
        BY <1>3, <3>1 DEF FailureMark
      <3>4. PICK r : r = [imports[i] EXCEPT !.status = "failed"]  OBVIOUS
      <3>5. i \in Import => r \in ImportRow
        BY <3>2, <3>4 DEF ImportRow, Status
      <3>6. imports' = imports \/ imports' = [imports EXCEPT ![i] = r]
        BY <3>3, <3>4
      <3> QED
        BY <3>2, <3>5, <3>6
    <2>3. TypeOK'
      BY <1>0, <1>3, <2>1, <2>2, IdleIsRequest DEF FailureMark, TypeOK, Move, disk
    <2> QED
      BY <2>1, <2>3, IdleIsRequest, AsideInv DEF Idle, Working
  <1> QED
    BY <1>1, <1>2, <1>3

-----------------------------------------------------------------------------
(* Commits.                                                                *)

\* What the steps of a commit start from.
LEMMA CommitFacts ==
  ASSUME IInv, NEW p \in Req
  PROVE  /\ TypeOK /\ req[p] \in Request /\ RequestShape(req[p]) /\ RequestFiles(req[p])
         /\ Held(req[p]) \subseteq File
         /\ \A f \in Held(req[p]) : \A q \in Req \ {p} : f \notin Held(req[q])
  BY RequestFields, HeldAreFiles DEF IInv, Separate

LEMMA LinkInv ==
  ASSUME IInv, NEW p \in Req, NEW k \in Key, NEW f \in File, LinkPermanent(p, k, f)
  PROVE  IInv'
  <1>0. /\ TypeOK /\ req[p] \in Request /\ RequestShape(req[p]) /\ RequestFiles(req[p])
        /\ Held(req[p]) \subseteq File
    BY CommitFacts
  <1>1. PICK r : r = [req[p] EXCEPT !.step = "link", !.todo = @ \ {k}, !.cur = f]
    OBVIOUS
  <1>2. /\ r \in Request /\ r.step = "link" /\ r.cur = f /\ r.moved = req[p].moved
        /\ r.todo = req[p].todo \ {k} /\ r.gone = req[p].gone
        /\ r.source = req[p].source /\ r.extra = req[p].extra
    BY <1>0, <1>1 DEF Request, Steps
  <1>3. /\ Move(p, r) /\ UNCHANGED <<stored, cover>> /\ req[p].step = "move"
        /\ f \in FreshFile
    BY <1>1 DEF LinkPermanent, tables
  <1>4. perm' \in [File -> PermObject]
    BY <1>0 DEF LinkPermanent, TypeOK, PermObject, Object
  <1>5. TypeOK'
    BY <1>0, <1>2, <1>3, <1>4 DEF LinkPermanent, TypeOK, Move, tables
  <1>6. /\ perm'[f].from = k /\ perm'[f].present
        /\ \A g \in File \ {f} : perm'[g] = perm[g]
    BY <1>0 DEF LinkPermanent, TypeOK
  <1>7. Held(req[p]) = req[p].moved /\ Held(r) = req[p].moved \cup {f}
    BY <1>2, <1>3 DEF Held, Working
  <1>8. f \notin stored /\ f \notin Held(req[p]) /\ perm[f].from = NoKey /\ f # req[p].gone
    BY <1>0, <1>3, LibraryImportAssumption DEF FreshFile, IInv, Tables, RequestFiles
  <1>9. RequestShape(r)
    BY <1>0, <1>2, <1>3, <1>7, <1>8 DEF RequestShape, Working
  <1>10. RequestFiles(r)'
    <2>1. \A g \in Held(r) : g \notin stored' /\ perm'[g].from # NoKey
      BY <1>0, <1>3, <1>6, <1>7, <1>8, LibraryImportAssumption DEF RequestFiles
    <2>2. Working(req[p]) /\ \A g \in Held(req[p]) : perm'[g].from = perm[g].from
      BY <1>0, <1>3, <1>6, <1>8 DEF Working
    <2>3. \A j \in {r.source, r.extra} \ {NoKey} :
            j \in r.todo \/ \E g \in Held(r) : perm'[g].from = j
      BY <1>0, <1>2, <1>6, <1>7, <2>2 DEF RequestFiles
    <2>4. r.gone = NoFile
      BY <1>0, <1>2, <1>3 DEF RequestShape
    <2>5. ~DeleteOrphans => \A g \in r.moved : perm'[g].present
      BY <1>0, <1>2, <1>6, <1>7, <1>8, <2>2 DEF RequestFiles
    <2> QED
      BY <1>2, <2>1, <2>3, <2>4, <2>5 DEF RequestFiles, Held, Working
  <1>11. Tables'
    BY <1>0, <1>3, <1>6, <1>8 DEF IInv, Tables, CoverIsStored, TypeOK
  <1>12. \A g \in File : perm[g].from # NoKey => perm'[g].from = perm[g].from
    BY <1>6, <1>8
  <1>13. \A g \in File : ~(perm[g].present /\ ~perm'[g].present)
    BY <1>6
  <1> QED
    BY <1>2, <1>3, <1>5, <1>7, <1>9, <1>10, <1>11, <1>12, <1>13, StepInv

LEMMA UnlinkInv ==
  ASSUME IInv, NEW p \in Req, UnlinkTemporary(p)
  PROVE  IInv'
  <1>0. /\ TypeOK /\ req[p] \in Request /\ RequestShape(req[p]) /\ RequestFiles(req[p])
        /\ Held(req[p]) \subseteq File
    BY CommitFacts
  <1>f. PICK f : f = req[p].cur
    OBVIOUS
  <1>1. PICK r : r = [req[p] EXCEPT !.step = "move", !.moved = @ \cup {f}, !.cur = NoFile]
    OBVIOUS
  <1>2. req[p].step = "link" /\ f \in File
    BY <1>0, <1>f DEF UnlinkTemporary, RequestShape
  <1>3. /\ r \in Request /\ r.step = "move" /\ r.moved = req[p].moved \cup {f}
        /\ r.todo = req[p].todo /\ r.gone = req[p].gone
        /\ r.source = req[p].source /\ r.extra = req[p].extra
    BY <1>0, <1>1, <1>2 DEF Request, Steps
  <1>4. Move(p, r) /\ UNCHANGED <<stored, cover>> /\ perm[f].present
    BY <1>1, <1>f DEF UnlinkTemporary, tables
  <1>5. perm' = [perm EXCEPT ![f].old = FALSE] /\ temp' \in [Key -> Object]
    BY <1>0, <1>f, TempFileType DEF UnlinkTemporary
  <1>6. \A g \in File : perm'[g].present = perm[g].present /\ perm'[g].from = perm[g].from
    BY <1>0, <1>5 DEF TypeOK, PermObject
  <1>7. perm' \in [File -> PermObject]
    BY <1>0, <1>5 DEF TypeOK, PermObject
  <1>8. TypeOK'
    BY <1>0, <1>3, <1>4, <1>5, <1>7 DEF UnlinkTemporary, TypeOK, Move, tables
  <1>9. Held(r) = Held(req[p]) /\ r.moved \subseteq Held(req[p]) /\ Working(req[p]) /\ Working(r)
    BY <1>2, <1>3, <1>f DEF Held, Working
  <1>10. RequestShape(r)
    BY <1>0, <1>2, <1>3 DEF RequestShape, Working
  <1>11. RequestFiles(r)'
    <2>1. r.gone = NoFile
      BY <1>0, <1>2, <1>3 DEF RequestShape
    <2>2. \A g \in Held(r) : g \notin stored' /\ perm'[g].from # NoKey
      BY <1>0, <1>4, <1>6, <1>9 DEF RequestFiles
    <2>3. \A j \in {r.source, r.extra} \ {NoKey} :
            j \in r.todo \/ \E g \in Held(r) : perm'[g].from = j
      BY <1>0, <1>3, <1>6, <1>9 DEF RequestFiles
    <2>4. ~DeleteOrphans => \A g \in r.moved : perm'[g].present
      BY <1>0, <1>3, <1>4, <1>6, <1>9 DEF RequestFiles
    <2> QED
      BY <1>3, <2>1, <2>2, <2>3, <2>4 DEF RequestFiles, Held, Working
  <1>12. Tables'
    BY <1>0, <1>4, <1>6 DEF IInv, Tables, CoverIsStored, TypeOK
  <1> QED
    BY <1>3, <1>4, <1>6, <1>8, <1>9, <1>10, <1>11, <1>12, StepInv

LEMMA ApplyInv ==
  ASSUME IInv, NEW p \in Req, Apply(p)
  PROVE  IInv'
  <1>0. /\ TypeOK /\ req[p] \in Request /\ RequestShape(req[p]) /\ RequestFiles(req[p])
        /\ Held(req[p]) \subseteq File
    BY CommitFacts
  <1>g. PICK g : g = IF req[p].extra = NoKey THEN NoFile ELSE cover
    OBVIOUS
  <1>1. PICK r : r = [req[p] EXCEPT !.step = "publish", !.gone = g]
    OBVIOUS
  <1>2. /\ req[p].step = "move" /\ req[p].todo = {} /\ Move(p, r)
        /\ UNCHANGED <<tables, disk, job, faults>>
    BY <1>1, <1>g DEF Apply
  <1>3. /\ r \in Request /\ r.step = "publish" /\ r.gone = g /\ r.moved = req[p].moved
        /\ r.todo = {} /\ r.source = req[p].source /\ r.extra = req[p].extra
    BY <1>0, <1>1, <1>2, <1>g DEF Request, Steps, TypeOK
  <1>4. TypeOK'
    BY <1>0, <1>2, <1>3 DEF TypeOK, Move, tables, disk
  <1>5. Held(r) = Held(req[p]) /\ r.moved \subseteq Held(r) /\ Working(req[p]) /\ Working(r)
    BY <1>2, <1>3 DEF Held, Working
  <1>6. g # NoFile => g = cover /\ cover \in stored /\ r.extra # NoKey /\ perm[g].from # NoKey
    BY <1>3, <1>g DEF IInv, Tables, CoverIsStored
  <1>7. RequestShape(r)
    BY <1>0, <1>2, <1>3, <1>5, <1>6 DEF RequestShape, Working
  <1>8. RequestFiles(r)'
    BY <1>0, <1>2, <1>3, <1>5, <1>6 DEF RequestFiles, Held, Working, tables, disk
  <1>9. Tables'
    BY <1>2 DEF IInv, Tables, CoverIsStored, tables, disk
  <1> QED
    BY <1>2, <1>3, <1>4, <1>5, <1>6, <1>7, <1>8, <1>9, StepInv DEF tables, disk

\* A rollback gives up what was still to be moved; it keeps the list of the
\* files to be moved back.
LEMMA RollbackInv ==
  ASSUME IInv, NEW p \in Req, NEW fatal \in BOOLEAN, CommitFail(p, fatal) \/ LinkFail(p)
  PROVE  IInv'
  <1>0. /\ TypeOK /\ req[p] \in Request /\ RequestShape(req[p]) /\ RequestFiles(req[p])
        /\ Held(req[p]) \subseteq File
        /\ \A f \in Held(req[p]) : \A q \in Req \ {p} : f \notin Held(req[q])
    BY CommitFacts
  <1>1. PICK b \in BOOLEAN : Rollback(p, b)
    BY DEF CommitFail, LinkFail
  <1>2. PICK r : r = [req[p] EXCEPT !.step = "restore", !.todo = {}, !.cur = NoFile,
                                    !.source = NoKey, !.extra = NoKey, !.drop = {},
                                    !.gone = NoFile, !.fatal = b]
    OBVIOUS
  <1>3. /\ r \in Request /\ r.step = "restore" /\ r.moved = req[p].moved /\ r.gone = NoFile
    BY <1>0, <1>2 DEF Request, Steps
  <1>4. /\ Move(p, r) /\ UNCHANGED <<stored, cover>> /\ Working(req[p])
    BY <1>1, <1>2 DEF Rollback, CommitFail, LinkFail, tables, Working
  <1>5. Held(r) = req[p].moved /\ Held(r) \subseteq Held(req[p])
    BY <1>3, <1>4 DEF Held, Working
  <1>6. /\ \A g \in File : perm'[g].from = perm[g].from
        /\ \A g \in File : g \notin Held(req[p]) => perm'[g].present = perm[g].present
        /\ perm' \in [File -> PermObject]
    <2>1. CASE CommitFail(p, fatal)
      BY <1>0, <2>1 DEF CommitFail, TypeOK, disk
    <2>2. CASE LinkFail(p)
      <3>1. req[p].cur \in Held(req[p])
        BY <2>2 DEF LinkFail, Held
      <3>2. perm' = [perm EXCEPT ![req[p].cur].present = FALSE]
        BY <2>2 DEF LinkFail
      <3> QED
        BY <1>0, <3>1, <3>2 DEF TypeOK, PermObject
    <2> QED
      BY <2>1, <2>2
  <1>7. TypeOK'
    BY <1>0, <1>3, <1>4, <1>6 DEF CommitFail, LinkFail, TypeOK, Move, tables, disk
  <1>8. RequestShape(r)
    BY <1>3 DEF RequestShape, Working
  <1>9. RequestFiles(r)'
    <2>1. \A g \in Held(r) : g \notin stored' /\ perm'[g].from # NoKey
      BY <1>0, <1>4, <1>5, <1>6 DEF RequestFiles
    <2> QED
      BY <1>3, <2>1 DEF RequestFiles, Held, Working
  <1>10. \A g \in stored : g \in File /\ g \notin Held(req[p])
    BY <1>0 DEF RequestFiles, TypeOK
  <1>11. Tables'
    BY <1>4, <1>6, <1>10 DEF IInv, Tables, CoverIsStored
  <1> QED
    BY <1>0, <1>3, <1>4, <1>5, <1>6, <1>7, <1>8, <1>9, <1>11, StepInv

LEMMA PublishInv ==
  ASSUME IInv, NEW p \in Req, Publish(p)
  PROVE  IInv'
  <1>0. /\ TypeOK /\ req[p] \in Request /\ RequestShape(req[p]) /\ RequestFiles(req[p])
        /\ Held(req[p]) \subseteq File
        /\ \A f \in Held(req[p]) : \A q \in Req \ {p} : f \notin Held(req[q])
    BY CommitFacts
  <1>1. PICK r : r = [req[p] EXCEPT !.step = "drop"]
    OBVIOUS
  <1>2. /\ req[p].step = "publish" /\ Move(p, r) /\ Published(p)
        /\ UNCHANGED <<disk, job, faults>>
    BY <1>1 DEF Publish
  <1>3. /\ r \in Request /\ r.step = "drop" /\ r.gone = req[p].gone /\ r.extra = req[p].extra
    BY <1>0, <1>1 DEF Request, Steps
  <1>4. /\ Working(req[p]) /\ Held(req[p]) = req[p].moved /\ Held(r) = {}
    BY <1>2, <1>3 DEF Held, Working
  <1>5. stored' = (stored \cup req[p].moved) \ {req[p].gone}
    BY <1>2 DEF Published
  <1>6. \A k \in {req[p].source, req[p].extra} \ {NoKey} : MovedFrom(p, k) \in req[p].moved
    <2> SUFFICES ASSUME NEW k \in {req[p].source, req[p].extra} \ {NoKey}
                 PROVE  MovedFrom(p, k) \in req[p].moved
      OBVIOUS
    <2>1. \E f \in req[p].moved : perm[f].from = k
      BY <1>0, <1>2, <1>4 DEF RequestFiles, RequestShape
    <2> QED
      BY <2>1 DEF MovedFrom
  <1>7. req[p].source # NoKey
    BY <1>0, <1>4 DEF RequestShape
  <1>8. MovedFrom(p, req[p].source) \in File
    BY <1>0, <1>4, <1>6, <1>7
  <1>9. cover' = cover \/ (cover' \in req[p].moved /\ req[p].extra # NoKey)
    BY <1>2, <1>6 DEF Published
  <1>10. req[p].extra = NoKey => cover' = cover
    BY <1>2 DEF Published
  <1>11. req[p].gone \notin Held(req[p])
    BY DEF IInv, Separate
  <1>12. imports' \in [Import -> ImportRow]
    <2>1. PICK g \in File : g = MovedFrom(p, req[p].source)
      BY <1>8
    <2>2. imports' = [imports EXCEPT ![req[p].imp].status = "succeeded",
                                     ![req[p].imp].source = NoKey,
                                     ![req[p].imp].extra = NoKey, ![req[p].imp].file = g]
      BY <1>2, <2>1 DEF Published
    <2> DEFINE i == req[p].imp
               a == [imports EXCEPT ![i].status = "succeeded"]
               b == [a EXCEPT ![i].source = NoKey]
               c == [b EXCEPT ![i].extra = NoKey]
    <2>3. a \in [Import -> ImportRow]
      BY <1>0 DEF TypeOK, ImportRow, Status
    <2> HIDE DEF a
    <2>4. b \in [Import -> ImportRow]
      BY <2>3 DEF ImportRow
    <2> HIDE DEF b
    <2>5. c \in [Import -> ImportRow]
      BY <2>4 DEF ImportRow
    <2> HIDE DEF c
    <2>6. [c EXCEPT ![i].file = g] \in [Import -> ImportRow]
      BY <2>5 DEF ImportRow
    <2>7. imports' = [c EXCEPT ![i].file = g]
      BY <2>2 DEF a, b, c
    <2> QED
      BY <2>6, <2>7
  <1>13. TypeOK'
    <2>1. stored' \in SUBSET File /\ cover' \in File \cup {NoFile}
      BY <1>0, <1>4, <1>5, <1>9 DEF TypeOK
    <2> QED
      BY <1>0, <1>2, <1>3, <1>12, <2>1 DEF TypeOK, Move, disk
  <1>14. RequestShape(r)
    BY <1>0, <1>2, <1>3 DEF RequestShape, Working
  <1>15. RequestFiles(r)'
    <2>1. r.gone \notin stored' /\ (r.gone # NoFile => perm'[r.gone].from # NoKey)
      BY <1>0, <1>2, <1>3, <1>5 DEF RequestFiles, disk
    <2> QED
      BY <1>3, <1>4, <2>1 DEF RequestFiles, Held, Working
  <1>16. Tables'
    <2>1. \A f \in stored' : perm'[f].from # NoKey /\ (~DeleteOrphans => perm'[f].present)
      BY <1>0, <1>2, <1>4, <1>5 DEF IInv, Tables, RequestFiles, disk
    <2>2. CASE req[p].extra = NoKey
      <3>1. req[p].gone = NoFile /\ cover' = cover
        BY <1>0, <1>10, <2>2 DEF RequestShape
      <3> QED
        BY <1>5, <2>1, <3>1 DEF IInv, Tables, CoverIsStored
    <2>3. CASE req[p].extra # NoKey
      <3>1. cover' \in req[p].moved
        BY <1>2, <1>6, <2>3 DEF Published
      <3> QED
        BY <1>4, <1>5, <1>11, <2>1, <3>1 DEF Tables, CoverIsStored
    <2> QED
      BY <2>2, <2>3
  <1> QED
    BY <1>2, <1>3, <1>4, <1>5, <1>13, <1>14, <1>15, <1>16, StepInv DEF disk

LEMMA RestoreInv ==
  ASSUME IInv, NEW p \in Req, NEW f \in File, Restore(p, f) \/ RestoreFail(p, f)
  PROVE  IInv'
  <1>0. /\ TypeOK /\ req[p] \in Request /\ RequestShape(req[p]) /\ RequestFiles(req[p])
        /\ Held(req[p]) \subseteq File
        /\ \A g \in Held(req[p]) : \A q \in Req \ {p} : g \notin Held(req[q])
    BY CommitFacts
  <1>1. PICK r : r = [req[p] EXCEPT !.moved = @ \ {f}]
    OBVIOUS
  <1>2. /\ req[p].step = "restore" /\ f \in req[p].moved /\ Move(p, r)
        /\ UNCHANGED <<tables, job>>
    BY <1>1 DEF Restore, RestoreFail, RestoreTodo
  <1>3. /\ r \in Request /\ r.step = "restore" /\ r.moved = req[p].moved \ {f}
        /\ r.gone = req[p].gone
    BY <1>0, <1>1, <1>2 DEF Request
  <1>4. Held(req[p]) = req[p].moved /\ Held(r) = req[p].moved \ {f} /\ r.gone = NoFile
    BY <1>0, <1>2, <1>3 DEF Held, Working, RequestShape
  <1>5. /\ perm' \in [File -> PermObject]
        /\ \A g \in File : perm'[g].from = perm[g].from
        /\ \A g \in File \ {f} : perm'[g].present = perm[g].present
    <2>1. perm' = perm \/ perm' = [perm EXCEPT ![f].present = FALSE]
      BY DEF Restore, RestoreFail, disk
    <2>2. CASE perm' = perm
      BY <1>0, <2>2 DEF TypeOK
    <2>3. CASE perm' = [perm EXCEPT ![f].present = FALSE]
      BY <1>0, <2>3 DEF TypeOK, PermObject
    <2> QED
      BY <2>1, <2>2, <2>3
  <1>6. temp' \in [Key -> Object]
    <2>1. temp' = temp \/ TempFile(perm[f].from, TRUE, perm[f].old)
      BY DEF Restore, RestoreFail, disk
    <2>2. perm[f].old \in BOOLEAN
      BY <1>0 DEF TypeOK, PermObject
    <2> QED
      BY <1>0, <2>1, <2>2, TempFileType DEF TypeOK
  <1>7. faults' \in 0 .. MaxFaults
    <2>1. faults' = faults \/ (faults < MaxFaults /\ faults' = faults + 1)
      BY DEF Restore, RestoreFail
    <2> QED
      BY <1>0, <2>1, LibraryImportAssumption DEF TypeOK
  <1>8. TypeOK'
    BY <1>0, <1>2, <1>3, <1>5, <1>6, <1>7 DEF TypeOK, Move, tables
  <1>9. RequestShape(r)
    BY <1>3, <1>4 DEF RequestShape, Working
  <1>10. RequestFiles(r)'
    <2>1. \A g \in Held(r) : g \notin stored' /\ perm'[g].from # NoKey
      BY <1>0, <1>2, <1>4, <1>5 DEF RequestFiles, tables
    <2> QED
      BY <1>3, <1>4, <2>1 DEF RequestFiles, Held, Working
  <1>11. f \notin stored
    BY <1>0, <1>2, <1>4 DEF RequestFiles
  <1>12. Tables'
    BY <1>0, <1>2, <1>5, <1>11 DEF IInv, Tables, CoverIsStored, TypeOK, tables
  <1> QED
    BY <1>0, <1>2, <1>3, <1>4, <1>5, <1>8, <1>9, <1>10, <1>12, StepInv DEF tables

-----------------------------------------------------------------------------
(* The cleanup, the crashes and the clock.                                 *)

LEMMA CleanupInv ==
  ASSUME IInv, JobStart \/ JobNext
  PROVE  IInv'
  <1>0. TypeOK /\ job \in Job
    BY DEF IInv, TypeOK
  <1>k. \A i \in Import : KeysOf(i) \subseteq Key
    BY <1>0 DEF TypeOK, ImportRow, KeysOf
  <1>1. CASE JobStart
    <2>1. imports' \in [Import -> ImportRow]
      BY <1>0, <1>1 DEF JobStart, TypeOK, ImportRow, Status
    <2>2. UNION {KeysOf(i) : i \in Stale} \in SUBSET Key
      BY <1>k DEF Stale
    <2>3. job' \in Job
      BY <1>1, <2>2, NoJobIsJob DEF JobStart, Job, JobSteps
    <2>4. TypeOK'
      BY <1>0, <1>1, <2>1, <2>3 DEF JobStart, TypeOK, disk
    <2> QED
      BY <1>1, <2>4, OutsideInv DEF JobStart, disk
  <1>2. CASE \/ JobReferenced \/ JobRemaining \/ JobList \/ JobListOld \/ JobEnd
    <2>1. Remaining \in SUBSET Key /\ stored \in SUBSET File
      BY <1>0, <1>k DEF Remaining, TypeOK
    <2>2. job' \in Job
      BY <1>0, <1>2, <2>1, NoJobIsJob
      DEF JobReferenced, JobRemaining, JobList, JobListOld, JobEnd, Job, JobSteps
    <2>3. UNCHANGED <<tables, disk, req, faults>>
      BY <1>2 DEF JobReferenced, JobRemaining, JobList, JobListOld, JobEnd
    <2>4. TypeOK'
      BY <1>0, <2>2, <2>3 DEF TypeOK, tables, disk
    <2> QED
      BY <2>3, <2>4, OutsideInv DEF tables, disk
  <1>3. CASE JobDeleteExpired \/ JobSweep
    <2>1. temp' \in [Key -> Object]
      <3>1. \A k \in Key : temp[k] \in Object /\ [temp[k] EXCEPT !.present = FALSE] \in Object
        BY <1>0 DEF TypeOK, Object
      <3>2. PICK gone : temp' = [k \in Key |-> IF k \in gone
                                             THEN [temp[k] EXCEPT !.present = FALSE] ELSE temp[k]]
        BY <1>3 DEF JobDeleteExpired, JobSweep
      <3> QED
        BY <3>1, <3>2
    <2>2. job' \in Job
      BY <1>0, <1>3 DEF JobDeleteExpired, JobSweep, Job, JobSteps
    <2>3. UNCHANGED <<tables, perm, req, faults>>
      BY <1>3 DEF JobDeleteExpired, JobSweep
    <2>4. TypeOK'
      BY <1>0, <2>1, <2>2, <2>3 DEF TypeOK, tables
    <2> QED
      BY <2>3, <2>4, OutsideInv DEF tables
  <1>4. ASSUME NEW f \in File, JobDeleteOrphan(f) PROVE IInv'
    <2>1. /\ perm' \in [File -> PermObject] /\ \A g \in File : perm'[g].from = perm[g].from
      BY <1>0, <1>4 DEF JobDeleteOrphan, TypeOK, PermObject
    <2>2. job' \in Job
      BY <1>0, <1>4 DEF JobDeleteOrphan, Job
    <2>3. UNCHANGED <<tables, temp, req, faults>> /\ DeleteOrphans
      BY <1>4 DEF JobDeleteOrphan
    <2>4. TypeOK'
      BY <1>0, <2>1, <2>2, <2>3 DEF TypeOK, tables
    <2> QED
      BY <2>1, <2>3, <2>4, OutsideInv DEF tables
  <1> QED
    BY <1>1, <1>2, <1>3, <1>4 DEF JobNext

LEMMA CrashInv ==
  ASSUME IInv, Crash
  PROVE  IInv'
  <1>1. req' = [p \in Req |-> Idle] /\ UNCHANGED <<tables, disk, job>>
    BY DEF Crash
  <1>2. TypeOK'
    BY <1>1, IdleIsRequest, LibraryImportAssumption DEF Crash, IInv, TypeOK, tables, disk
  <1>3. Held(Idle) = {} /\ RequestShape(Idle) /\ RequestFiles(Idle)'
    BY DEF Held, Working, Idle, RequestShape, RequestFiles
  <1>4. \A p \in Req : RequestShape(req[p])' /\ RequestFiles(req[p])'
    BY <1>1, <1>3 DEF RequestShape, RequestFiles, Held, Working
  <1>5. Idle.gone \notin Held(Idle)
    BY <1>3
  <1>6. Separate'
    BY <1>1, <1>3, <1>5 DEF Separate, Held, Working
  <1>7. Tables'
    BY <1>1 DEF IInv, Tables, CoverIsStored, tables, disk
  <1> QED
    BY <1>2, <1>4, <1>6, <1>7 DEF IInv

LEMMA ClockInv ==
  ASSUME IInv, TimePasses
  PROVE  IInv'
  <1>1. TypeOK'
    BY DEF TimePasses, IInv, TypeOK, ImportRow, Object, PermObject, RowExists
  <1>2. \A f \in File : perm'[f].from = perm[f].from /\ perm'[f].present = perm[f].present
    BY DEF TimePasses, IInv, TypeOK, PermObject
  <1> QED
    BY <1>1, <1>2, OutsideInv DEF TimePasses

-----------------------------------------------------------------------------
(* The theorems.                                                           *)

\* Every step keeps the inductive invariant.
LEMMA NextInv == IInv /\ [Next]_vars => IInv'
  <1> SUFFICES ASSUME IInv, [Next]_vars PROVE IInv'
    OBVIOUS
  <1>1. ASSUME NEW p \in Req, Start(p) PROVE IInv'
    BY <1>1, StartInv
  <1>2. ASSUME NEW p \in Req, Inspect(p) PROVE IInv'
    BY <1>2, InspectInv
  <1>3. ASSUME NEW p \in Req, Commit(p) PROVE IInv'
    BY <1>3, LinkInv, UnlinkInv, ApplyInv, RollbackInv, PublishInv, RestoreInv, AfterInv
    DEF Commit
  <1>4. ASSUME NEW p \in Req, DropUnused(p) PROVE IInv'
    BY <1>4, AfterInv
  <1>5. CASE UNCHANGED vars
    BY <1>5, OutsideInv DEF vars, IInv, TypeOK
  <1>6. CASE Crash
    BY <1>6, CrashInv
  <1>7. CASE JobStart \/ JobNext
    BY <1>7, CleanupInv
  <1>8. CASE TimePasses
    BY <1>8, ClockInv
  <1> QED
    BY <1>1, <1>2, <1>3, <1>4, <1>5, <1>6, <1>7, <1>8 DEF Next, Server, Continue

LEMMA Invariance == Spec => []IInv
  BY InitInv, NextInv, PTL DEF Spec

\* The tables, the directories, the requests and the cleanup keep their types,
\* which for a publishing commit means that it knows its files.
THEOREM TypeCorrect == Spec => []TypeOK
  BY Invariance, PTL DEF IInv

\* Without --delete-orphans and as long as a COMMIT is not ambiguous, a file
\* with a stored_files row is in the library: whatever commits of the same
\* imports run, fail, restore and crash, and whatever the cleanup does.
THEOREM PublishedFilesAreKept ==
  ASSUME ~DeleteOrphans
  PROVE  Spec => []PublishedFilesPresent
  <1>1. IInv => PublishedFilesPresent
    BY DEF IInv, Tables, PublishedFilesPresent
  <1> QED
    BY <1>1, Invariance, PTL

\* The cover of the book has its row, although commits read it without a lock
\* before they replace it.
THEOREM CoverHasItsRow == Spec => []CoverIsStored
  <1>1. IInv => CoverIsStored
    BY DEF IInv, Tables
  <1> QED
    BY <1>1, Invariance, PTL

-----------------------------------------------------------------------------
(* Commits that fail leave nothing behind.                                 *)

\* The permanent files a request has taken over whole: temporary name gone.
Taken(r) == IF Working(r) \/ r.step = "restore" THEN r.moved ELSE {}

\* A request that makes a preview.
Inspecting(r) == r.step \in {"process", "write", "record", "parse", "finish"}

\* The files a request answers for: it holds them, or is about to delete them.
Owns(r, f) == f \in Held(r) \/ (r.step = "drop" /\ r.gone = f)

\* The temporary name of such a file is free, and no other one came from it: it
\* can be moved back.
CanGoBack ==
    \A p \in Req : \A f \in Taken(req[p]) :
        /\ perm[f].present => ~temp[perm[f].from].present
        /\ \A q \in Req : \A g \in Taken(req[q]) :
              perm[f].present /\ perm[g].present /\ perm[f].from = perm[g].from => f = g

\* Until something goes wrong with the server or the disk, each permanent file
\* has its row, or a request that holds it or is about to delete it.
Accounted ==
    faults = 0 => \A f \in File : perm[f].present =>
        f \in stored \/ \E p \in Req : Owns(req[p], f)

OInv == CanGoBack /\ Accounted

\* Moving request p to r, and nobody else.
LEMMA MoveOnly ==
  ASSUME TypeOK, NEW p \in Req, NEW r, Move(p, r)
  PROVE  req'[p] = r /\ \A q \in Req \ {p} : req'[q] = req[q]
  BY DEF Move, TypeOK

LEMMA TakenAreHeld ==
  ASSUME IInv, NEW p \in Req
  PROVE  /\ Taken(req[p]) \subseteq Held(req[p]) /\ Held(req[p]) \subseteq File
         /\ \A f \in Held(req[p]) : perm[f].from \in Key
  <1>1. Taken(req[p]) \subseteq Held(req[p]) /\ Held(req[p]) \subseteq File
    BY HeldAreFiles, RequestFields DEF IInv, Taken, Held
  <1>2. \A f \in Held(req[p]) : perm[f].from # NoKey
    BY DEF IInv, RequestFiles
  <1>3. \A f \in File : perm[f].from \in Key \cup {NoKey}
    BY DEF IInv, TypeOK, PermObject
  <1> QED
    BY <1>1, <1>2, <1>3

\* A step of request p leaves nothing behind if each file it lets go has its
\* row, and it takes no temporary name that a moved file is to go back to.
LEMMA StepAccounts ==
  ASSUME IInv, OInv, TypeOK', NEW p \in Req, NEW r \in Request, Move(p, r),
         faults' = faults \/ faults' # 0,
         \A f \in File : perm[f].from # NoKey => perm'[f].from = perm[f].from,
         \A f \in File : perm'[f].present => perm[f].present \/ Owns(r, f),
         \A f \in File : perm'[f].present /\ perm[f].from # NoKey => perm[f].present,
         faults' = 0 => \A f \in File : perm'[f].present /\ (f \in stored \/ Owns(req[p], f))
                                          => f \in stored' \/ Owns(r, f),
         \A q \in Req : \A f \in Taken(req'[q]) :
            perm'[f].present /\ temp'[perm[f].from].present => temp[perm[f].from].present,
         Taken(r) \subseteq Taken(req[p])
  PROVE  OInv'
  <1>1. req'[p] = r /\ \A q \in Req \ {p} : req'[q] = req[q]
    BY MoveOnly DEF IInv
  <1>2. \A q \in Req : Taken(req'[q]) \subseteq Taken(req[q])
    BY <1>1
  <1>3. CanGoBack'
    <2> SUFFICES ASSUME NEW q \in Req, NEW f \in Taken(req'[q])
                 PROVE  /\ perm'[f].present => ~temp'[perm'[f].from].present
                        /\ \A s \in Req : \A g \in Taken(req'[s]) :
                             perm'[f].present /\ perm'[g].present
                               /\ perm'[f].from = perm'[g].from => f = g
      BY DEF CanGoBack, Taken, Working
    <2>1. \A s \in Req : \A g \in Taken(req'[s]) :
             /\ g \in Taken(req[s]) /\ g \in File /\ perm[g].from \in Key
             /\ perm'[g].from = perm[g].from /\ (perm'[g].present => perm[g].present)
      BY <1>2, TakenAreHeld, LibraryImportAssumption
    <2> QED
      BY <2>1 DEF OInv, CanGoBack
  <1>4. Accounted'
    <2> SUFFICES ASSUME faults' = 0, NEW f \in File, perm'[f].present
                 PROVE  f \in stored' \/ \E q \in Req : Owns(req'[q], f)
      BY DEF Accounted, Owns, Held, Working
    <2>1. CASE ~perm[f].present
      BY <1>1, <2>1
    <2>2. CASE perm[f].present
      <3>1. f \in stored \/ \E q \in Req : Owns(req[q], f)
        BY <2>2 DEF OInv, Accounted
      <3>2. CASE f \in stored \/ Owns(req[p], f)
        BY <1>1, <3>2
      <3>3. CASE \E q \in Req \ {p} : Owns(req[q], f)
        BY <1>1, <3>3
      <3> QED
        BY <3>1, <3>2, <3>3
    <2> QED
      BY <2>1, <2>2
  <1> QED
    BY <1>3, <1>4 DEF OInv

\* So does a step that leaves the library alone.
LEMMA AsideAccounts ==
  ASSUME IInv, OInv, TypeOK', NEW p \in Req, NEW r \in Request, Move(p, r),
         UNCHANGED <<stored, perm, faults>>,
         \A f \in File : Owns(req[p], f) => Owns(r, f),
         \A k \in Key : temp'[k].present => temp[k].present \/ k \in FreshKey,
         Taken(r) \subseteq Taken(req[p])
  PROVE  OInv'
  <1>1. req'[p] = r /\ \A q \in Req \ {p} : req'[q] = req[q]
    BY MoveOnly DEF IInv
  <1>2. \A q \in Req : \A f \in Taken(req'[q]) :
            perm'[f].present /\ temp'[perm[f].from].present => temp[perm[f].from].present
    BY <1>1, TakenAreHeld DEF FreshKey
  <1> QED
    BY <1>2, StepAccounts

\* And a step of the cleanup, which only deletes, or of the clock.
LEMMA OutsideAccounts ==
  ASSUME IInv, OInv, UNCHANGED <<stored, req, faults>>,
         \A f \in File : perm'[f].from = perm[f].from /\ (perm'[f].present => perm[f].present),
         \A k \in Key : temp'[k].present => temp[k].present
  PROVE  OInv'
  <1>1. CanGoBack'
    <2> SUFFICES ASSUME NEW q \in Req, NEW f \in Taken(req[q])
                 PROVE  /\ perm'[f].present => ~temp'[perm'[f].from].present
                        /\ \A s \in Req : \A g \in Taken(req[s]) :
                             perm'[f].present /\ perm'[g].present
                               /\ perm'[f].from = perm'[g].from => f = g
      BY DEF CanGoBack, Taken, Working
    <2>1. \A s \in Req : \A g \in Taken(req[s]) :
             /\ g \in File /\ perm[g].from \in Key
             /\ perm'[g].from = perm[g].from /\ (perm'[g].present => perm[g].present)
      BY TakenAreHeld
    <2> QED
      BY <2>1 DEF OInv, CanGoBack
  <1>2. Accounted'
    BY DEF OInv, Accounted, Owns, Held, Working
  <1> QED
    BY <1>1, <1>2 DEF OInv

\* A request that is not at work on a commit, nor after one, answers for
\* nothing.
LEMMA OwnsNothing ==
  ASSUME NEW r, ~Working(r), r.step # "restore", r.step # "drop"
  PROVE  Taken(r) = {} /\ \A f : ~Owns(r, f)
  BY DEF Taken, Owns, Held, Working

LEMMA IdleOwnsNothing == Taken(Idle) = {} /\ \A f : ~Owns(Idle, f)
  BY OwnsNothing DEF Idle, Working

\* Every step of an inspection leaves the library and the cleanup alone, and
\* writes fresh temporary names only.
LEMMA InspectMoves ==
  ASSUME IInv, NEW p \in Req, Inspect(p)
  PROVE  /\ Inspecting(req[p]) /\ UNCHANGED <<stored, cover, perm, job, faults>>
         /\ \E r \in Request : Move(p, r) /\ (r = Idle \/ Inspecting(r))
         /\ \A k \in Key : temp'[k].present => temp[k].present \/ k \in FreshKey
  <1>0. TypeOK /\ req[p] \in Request
    BY RequestFields DEF IInv
  <1>1. Inspecting(req[p]) /\ UNCHANGED <<stored, cover, perm, job, faults>>
    BY DEF Inspect, Inspecting, InspectProcess, InspectRecord, InspectPlain, InspectReady,
           InspectWrite, InspectExtra, InspectFail, InspectLost, tables, disk
  <1>2. \A k \in Key : temp'[k].present => temp[k].present \/ k \in FreshKey
    <2>1. temp' = temp \/ \E k \in FreshKey : TempFile(k, TRUE, FALSE)
      BY DEF Inspect, InspectProcess, InspectRecord, InspectPlain, InspectReady,
             InspectWrite, InspectExtra, InspectFail, InspectLost, tables, disk
    <2>2. ASSUME NEW k \in FreshKey, TempFile(k, TRUE, FALSE)
          PROVE  \A j \in Key : temp'[j].present => temp[j].present \/ j \in FreshKey
      BY <1>0, <2>2 DEF TempFile, TypeOK
    <2> QED
      BY <2>1, <2>2
  <1>3. ASSUME NEW s \in {"write", "parse", "finish"}, Move(p, [req[p] EXCEPT !.step = s])
        PROVE  \E r \in Request : Move(p, r) /\ (r = Idle \/ Inspecting(r))
    <2>1. [req[p] EXCEPT !.step = s] \in Request /\ Inspecting([req[p] EXCEPT !.step = s])
      BY <1>0 DEF Request, Steps, Inspecting
    <2> QED
      BY <1>3, <2>1
  <1>4. ASSUME NEW k \in Key, Move(p, [req[p] EXCEPT !.step = "record", !.source = k])
        PROVE  \E r \in Request : Move(p, r) /\ (r = Idle \/ Inspecting(r))
    <2>1. /\ [req[p] EXCEPT !.step = "record", !.source = k] \in Request
          /\ Inspecting([req[p] EXCEPT !.step = "record", !.source = k])
      BY <1>0 DEF Request, Steps, Inspecting
    <2> QED
      BY <1>4, <2>1
  <1>5. ASSUME NEW k \in Key, Move(p, [req[p] EXCEPT !.step = "finish", !.extra = k])
        PROVE  \E r \in Request : Move(p, r) /\ (r = Idle \/ Inspecting(r))
    <2>1. /\ [req[p] EXCEPT !.step = "finish", !.extra = k] \in Request
          /\ Inspecting([req[p] EXCEPT !.step = "finish", !.extra = k])
      BY <1>0 DEF Request, Steps, Inspecting
    <2> QED
      BY <1>5, <2>1
  <1>6. \/ Move(p, Idle)
        \/ \E s \in {"write", "parse", "finish"} : Move(p, [req[p] EXCEPT !.step = s])
        \/ \E k \in Key : \/ Move(p, [req[p] EXCEPT !.step = "record", !.source = k])
                          \/ Move(p, [req[p] EXCEPT !.step = "finish", !.extra = k])
    BY DEF Inspect, InspectProcess, InspectRecord, InspectPlain, InspectReady,
           InspectWrite, InspectExtra, InspectFail, InspectLost, Close
  <1>7. \E r \in Request : Move(p, r) /\ (r = Idle \/ Inspecting(r))
    BY <1>3, <1>4, <1>5, <1>6, IdleIsRequest
  <1> QED
    BY <1>1, <1>2, <1>7

LEMMA InspectAccounts ==
  ASSUME IInv, OInv, NEW p \in Req, Inspect(p)
  PROVE  OInv'
  <1>1. PICK r \in Request : Move(p, r) /\ (r = Idle \/ Inspecting(r))
    BY InspectMoves
  <1>2. \A f \in File : ~Owns(req[p], f)
    BY InspectMoves, OwnsNothing DEF Inspecting, Working
  <1>3. Taken(r) = {}
    BY <1>1, OwnsNothing, IdleOwnsNothing DEF Inspecting, Working
  <1>4. TypeOK'
    BY InspectInv DEF IInv
  <1> QED
    BY <1>1, <1>2, <1>3, <1>4, InspectMoves, AsideAccounts

LEMMA StartMoves ==
  ASSUME IInv, NEW p \in Req, Start(p)
  PROVE  /\ req[p].step = "idle" /\ UNCHANGED <<stored, cover, disk, job, faults>>
         /\ \E r \in Request : Move(p, r) /\ r.moved = {}
  <1>0. TypeOK
    BY DEF IInv
  <1>1. PICK i \in Import : \/ InspectStart(p, i) \/ DeleteRow(p, i)
                           \/ \E sel \in SUBSET Key :
                                CommitStart(p, i, sel) \/ CommitRefused(p, i, sel)
    BY DEF Start
  <1>2. req[p].step = "idle" /\ UNCHANGED <<stored, cover, disk, job, faults>>
    BY <1>1 DEF InspectStart, DeleteRow, CommitStart, CommitRefused, tables
  <1>3. req' \in [Req -> Request]
    BY StartInv DEF IInv, TypeOK
  <1>4. \E r : Move(p, r) /\ r.moved = {}
    <2>1. CASE InspectStart(p, i)
      <3>1. PICK r : r = [Idle EXCEPT !.imp = i, !.step = "process"]
        OBVIOUS
      <3>2. r.moved = {}
        BY <3>1 DEF Idle
      <3>3. Move(p, r)
        BY <2>1, <3>1 DEF InspectStart
      <3> QED
        BY <3>2, <3>3
    <2>2. CASE DeleteRow(p, i)
      <3>1. PICK r : r = [Idle EXCEPT !.imp = i, !.step = "drop", !.drop = KeysOf(i)]
        OBVIOUS
      <3>2. r.moved = {}
        BY <3>1 DEF Idle
      <3>3. Move(p, r)
        BY <2>2, <3>1 DEF DeleteRow
      <3> QED
        BY <3>2, <3>3
    <2>3. ASSUME NEW sel \in SUBSET Key, CommitStart(p, i, sel)
          PROVE  \E r : Move(p, r) /\ r.moved = {}
      <3> DEFINE wanted == IF i \in Epub /\ imports[i].extra \in sel
                           THEN imports[i].extra ELSE NoKey
      <3>1. PICK r : r = [Idle EXCEPT !.imp = i, !.step = "move", !.todo = sel,
                                      !.source = imports[i].source, !.extra = wanted,
                                      !.drop = KeysOf(i) \ sel]
        OBVIOUS
      <3>2. r.moved = {}
        BY <3>1 DEF Idle
      <3>3. Move(p, r)
        BY <2>3, <3>1 DEF CommitStart
      <3> QED
        BY <3>2, <3>3
    <2>4. ASSUME NEW sel \in SUBSET Key, CommitRefused(p, i, sel)
          PROVE  \E r : Move(p, r) /\ r.moved = {}
      <3>1. PICK r : r = [Idle EXCEPT !.imp = i, !.step = "check", !.fatal = TRUE]
        OBVIOUS
      <3>2. r.moved = {}
        BY <3>1 DEF Idle
      <3>3. Move(p, r)
        BY <2>4, <3>1 DEF CommitRefused
      <3> QED
        BY <3>2, <3>3
    <2> QED
      BY <1>1, <2>1, <2>2, <2>3, <2>4
  <1>5. \E r \in Request : Move(p, r) /\ r.moved = {}
    BY <1>0, <1>3, <1>4, MoveOnly
  <1> QED
    BY <1>2, <1>5

LEMMA StartAccounts ==
  ASSUME IInv, OInv, NEW p \in Req, Start(p)
  PROVE  OInv'
  <1>1. PICK r \in Request : Move(p, r) /\ r.moved = {}
    BY StartMoves
  <1>2. \A f \in File : ~Owns(req[p], f)
    BY StartMoves, OwnsNothing DEF Working
  <1>3. Taken(r) = {}
    BY <1>1 DEF Taken
  <1>4. TypeOK'
    BY StartInv DEF IInv
  <1> QED
    BY <1>1, <1>2, <1>3, <1>4, StartMoves, AsideAccounts DEF disk

LEMMA AfterAccounts ==
  ASSUME IInv, OInv, NEW p \in Req,
         DropUnused(p) \/ RestoreDone(p) \/ FailureCheck(p) \/ FailureMark(p)
  PROVE  OInv'
  <1>0. TypeOK /\ TypeOK' /\ req[p] \in Request
    BY RequestFields, AfterInv DEF IInv
  <1>1. CASE DropUnused(p)
    <2>1. /\ Move(p, Idle) /\ req[p].step = "drop" /\ UNCHANGED <<stored, faults>>
      BY <1>1 DEF DropUnused, Close, tables
    <2>2. \A f \in File : /\ perm'[f].from = perm[f].from
                          /\ perm'[f].present => perm[f].present /\ f # req[p].gone
      BY <1>0, <1>1 DEF DropUnused, TypeOK, PermObject
    <2>3. \A k \in Key : temp'[k].present => temp[k].present
      BY <1>0, <1>1 DEF DropUnused, TypeOK, Object
    <2>4. \A f \in File : Owns(req[p], f) => f = req[p].gone
      BY <2>1 DEF Owns, Held, Working
    <2>5. \A q \in Req : \A f \in Taken(req'[q]) : perm[f].from \in Key
      BY <2>1, MoveOnly, TakenAreHeld, IdleOwnsNothing DEF IInv
    <2> QED
      BY <1>0, <2>1, <2>2, <2>3, <2>4, <2>5, IdleOwnsNothing, IdleIsRequest, StepAccounts
  <1>2. CASE RestoreDone(p) \/ FailureCheck(p) \/ FailureMark(p)
    <2>1. /\ UNCHANGED <<stored, faults, disk>> /\ \E r : Move(p, r) /\ (r = Idle
               \/ \E s \in {"check", "mark"} : r = [req[p] EXCEPT !.step = s])
      BY <1>2 DEF RestoreDone, FailureCheck, FailureMark, Close, tables
    <2>2. PICK r : /\ Move(p, r)
                   /\ r = Idle \/ \E s \in {"check", "mark"} : r = [req[p] EXCEPT !.step = s]
      BY <2>1
    <2>3. r \in Request
      BY <1>0, <2>2, MoveOnly DEF TypeOK
    <2>4. Taken(r) = {}
      <3>1. CASE r = Idle
        BY <3>1, IdleOwnsNothing
      <3>2. CASE r.step \in {"check", "mark"}
        BY <3>2 DEF Taken, Working
      <3> QED
        BY <1>0, <2>2, <3>1, <3>2 DEF Request
    <2>5. \A f \in File : ~Owns(req[p], f)
      BY <1>2 DEF RestoreDone, RestoreTodo, FailureCheck, FailureMark, Owns, Held, Working
    <2> QED
      BY <1>0, <2>1, <2>2, <2>3, <2>4, <2>5, AsideAccounts DEF disk
  <1> QED
    BY <1>1, <1>2

LEMMA LinkAccounts ==
  ASSUME IInv, OInv, NEW p \in Req, NEW k \in Key, NEW f \in File, LinkPermanent(p, k, f)
  PROVE  OInv'
  <1>0. TypeOK /\ TypeOK' /\ req[p] \in Request
    BY RequestFields, LinkInv DEF IInv
  <1>1. PICK r : r = [req[p] EXCEPT !.step = "link", !.todo = @ \ {k}, !.cur = f]
    OBVIOUS
  <1>2. r \in Request /\ r.step = "link" /\ r.cur = f /\ r.moved = req[p].moved
    BY <1>0, <1>1 DEF Request, Steps
  <1>3. /\ Move(p, r) /\ req[p].step = "move" /\ perm[f].from = NoKey
        /\ UNCHANGED <<stored, temp, faults>>
    BY <1>1 DEF LinkPermanent, FreshFile, tables
  <1>4. \A g \in File \ {f} : perm'[g] = perm[g]
    BY <1>0 DEF LinkPermanent, TypeOK
  <1>5. Taken(r) = Taken(req[p]) /\ \A g : Owns(req[p], g) \/ g = f <=> Owns(r, g)
    BY <1>2, <1>3 DEF Owns, Held, Taken, Working
  <1> QED
    BY <1>0, <1>2, <1>3, <1>4, <1>5, StepAccounts

\* An object that has been moved can be moved back: its temporary name is free
\* since this step.
LEMMA UnlinkAccounts ==
  ASSUME IInv, OInv, NEW p \in Req, UnlinkTemporary(p)
  PROVE  OInv'
  <1>0. TypeOK /\ TypeOK' /\ req[p] \in Request /\ RequestShape(req[p]) /\ RequestFiles(req[p])
    BY CommitFacts, UnlinkInv DEF IInv
  <1>f. PICK f : f = req[p].cur
    OBVIOUS
  <1>1. PICK r : r = [req[p] EXCEPT !.step = "move", !.moved = @ \cup {f}, !.cur = NoFile]
    OBVIOUS
  <1>2. req[p].step = "link" /\ f \in File /\ f \in Held(req[p])
    BY <1>0, <1>f DEF UnlinkTemporary, RequestShape, Held
  <1>3. r \in Request /\ r.step = "move" /\ r.moved = req[p].moved \cup {f}
    BY <1>0, <1>1, <1>2 DEF Request, Steps
  <1>4. Move(p, r) /\ UNCHANGED <<stored, faults>> /\ perm[f].present /\ temp[perm[f].from].present
    BY <1>1, <1>f DEF UnlinkTemporary, tables
  <1>k. PICK k \in Key : k = perm[f].from
    BY <1>2, TakenAreHeld
  <1>5. /\ ~temp'[k].present /\ \A j \in Key : temp'[j].present => temp[j].present
    BY <1>0, <1>f, <1>k DEF UnlinkTemporary, TempFile, TypeOK
  <1>6. \A g \in File : perm'[g].present = perm[g].present /\ perm'[g].from = perm[g].from
    BY <1>0, <1>f, <1>2 DEF UnlinkTemporary, TypeOK, PermObject
  <1>7. Taken(r) = Taken(req[p]) \cup {f} /\ \A g : Owns(req[p], g) => Owns(r, g)
    BY <1>2, <1>3, <1>f DEF Owns, Held, Taken, Working
  <1>8. req'[p] = r /\ \A q \in Req \ {p} : req'[q] = req[q]
    BY <1>0, <1>4, MoveOnly
  <1>9. CanGoBack'
    <2> SUFFICES ASSUME NEW q \in Req, NEW g \in Taken(req'[q])
                 PROVE  /\ perm'[g].present => ~temp'[perm'[g].from].present
                        /\ \A s \in Req : \A h \in Taken(req'[s]) :
                             perm'[g].present /\ perm'[h].present
                               /\ perm'[g].from = perm'[h].from => g = h
      BY DEF CanGoBack, Taken, Working
    <2>1. \A s \in Req : \A h \in Taken(req'[s]) :
             /\ h \in File /\ perm[h].from \in Key /\ (h \in Taken(req[s]) \/ h = f)
      BY <1>2, <1>7, <1>8, TakenAreHeld
    <2>2. \A s \in Req : \A h \in Taken(req[s]) : perm[h].present => perm[h].from # k
      BY <1>4, <1>k DEF OInv, CanGoBack
    <2> QED
      BY <1>5, <1>6, <1>k, <2>1, <2>2 DEF OInv, CanGoBack
  <1>10. Accounted'
    <2> SUFFICES ASSUME faults' = 0, NEW g \in File, perm'[g].present
                 PROVE  g \in stored' \/ \E q \in Req : Owns(req'[q], g)
      BY DEF Accounted, Owns, Held, Working
    <2>1. g \in stored \/ \E q \in Req : Owns(req[q], g)
      BY <1>4, <1>6 DEF OInv, Accounted
    <2> QED
      BY <1>4, <1>7, <1>8, <2>1
  <1> QED
    BY <1>9, <1>10 DEF OInv

LEMMA CommitAccounts ==
  ASSUME IInv, OInv, NEW p \in Req,
         Apply(p) \/ Publish(p) \/ LinkFail(p) \/ \E fatal \in BOOLEAN : CommitFail(p, fatal)
  PROVE  OInv'
  <1>0. TypeOK /\ TypeOK' /\ req[p] \in Request /\ RequestShape(req[p])
    BY CommitFacts, ApplyInv, PublishInv, RollbackInv DEF IInv
  <1>1. CASE Apply(p)
    <2>1. PICK g : g = IF req[p].extra = NoKey THEN NoFile ELSE cover
      OBVIOUS
    <2>2. PICK r : r = [req[p] EXCEPT !.step = "publish", !.gone = g]
      OBVIOUS
    <2>3. Move(p, r) /\ req[p].step = "move" /\ UNCHANGED <<tables, disk, job, faults>>
      BY <1>1, <2>1, <2>2 DEF Apply
    <2>4. r \in Request /\ r.step = "publish" /\ r.moved = req[p].moved
      BY <1>0, <2>1, <2>2 DEF Request, Steps, TypeOK
    <2>5. Taken(r) = Taken(req[p]) /\ \A f : Owns(req[p], f) => Owns(r, f)
      BY <2>3, <2>4 DEF Owns, Held, Taken, Working
    <2> QED
      BY <1>0, <2>3, <2>4, <2>5, AsideAccounts DEF tables, disk
  <1>2. CASE Publish(p)
    <2>1. PICK r : r = [req[p] EXCEPT !.step = "drop"]
      OBVIOUS
    <2>2. /\ Move(p, r) /\ req[p].step = "publish" /\ UNCHANGED <<disk, job, faults>>
          /\ stored' = (stored \cup req[p].moved) \ {req[p].gone}
      BY <1>2, <2>1 DEF Publish, Published
    <2>3. r \in Request /\ r.step = "drop" /\ r.gone = req[p].gone
      BY <1>0, <2>1 DEF Request, Steps
    <2>4. /\ Taken(r) = {} /\ \A f : Owns(r, f) <=> f = req[p].gone
          /\ \A f : Owns(req[p], f) => f \in req[p].moved
      BY <2>2, <2>3 DEF Owns, Held, Taken, Working
    <2>5. \A f \in File : perm'[f] = perm[f]
      BY <2>2 DEF disk
    <2>6. temp' = temp /\ faults' = faults
      BY <2>2 DEF disk
    <2>7. \A f \in File : perm'[f].present /\ (f \in stored \/ Owns(req[p], f))
                           => f \in stored' \/ Owns(r, f)
      BY <2>2, <2>4
    <2> QED
      BY <1>0, <2>2, <2>3, <2>4, <2>5, <2>6, <2>7, StepAccounts
  <1>3. CASE LinkFail(p) \/ \E fatal \in BOOLEAN : CommitFail(p, fatal)
    <2>1. PICK b \in BOOLEAN : Rollback(p, b)
      BY <1>3 DEF CommitFail, LinkFail
    <2>2. PICK r : r = [req[p] EXCEPT !.step = "restore", !.todo = {}, !.cur = NoFile,
                                      !.source = NoKey, !.extra = NoKey, !.drop = {},
                                      !.gone = NoFile, !.fatal = b]
      OBVIOUS
    <2>3. Move(p, r) /\ UNCHANGED <<stored, temp, faults>> /\ Working(req[p])
      BY <1>3, <2>1, <2>2 DEF Rollback, CommitFail, LinkFail, tables, disk, Working
    <2>4. r \in Request /\ r.step = "restore" /\ r.moved = req[p].moved
      BY <1>0, <2>2 DEF Request, Steps
    <2>5. Taken(r) = Taken(req[p]) /\ \A f : Owns(r, f) <=> f \in req[p].moved
      BY <2>3, <2>4 DEF Owns, Held, Taken, Working
    <2>6. \A f \in File : /\ perm'[f].from = perm[f].from
                          /\ perm'[f].present => perm[f].present
                          /\ perm'[f].present /\ Owns(req[p], f) => f \in req[p].moved
      <3>1. CASE req[p].step = "link"
        <4>1. perm' = [perm EXCEPT ![req[p].cur].present = FALSE]
          BY <1>3, <3>1 DEF LinkFail, CommitFail
        <4>2. req[p].cur \in File
          BY <1>0, <3>1 DEF RequestShape
        <4>3. \A f : Owns(req[p], f) => f \in req[p].moved \/ f = req[p].cur
          BY <3>1 DEF Owns, Held, Working
        <4> QED
          BY <1>0, <4>1, <4>2, <4>3 DEF TypeOK, PermObject
      <3>2. CASE req[p].step # "link"
        <4>1. perm' = perm
          BY <1>3, <3>2 DEF LinkFail, CommitFail, disk
        <4>2. \A f : Owns(req[p], f) => f \in req[p].moved
          BY <2>3, <3>2 DEF Owns, Held, Working
        <4> QED
          BY <4>1, <4>2
      <3> QED
        BY <3>1, <3>2
    <2> QED
      BY <1>0, <2>3, <2>4, <2>5, <2>6, StepAccounts
  <1> QED
    BY <1>1, <1>2, <1>3

\* Each moved object goes back under its temporary name, which is free: the file
\* is not left behind.
LEMMA RestoreAccounts ==
  ASSUME IInv, OInv, NEW p \in Req, NEW f \in File, Restore(p, f) \/ RestoreFail(p, f)
  PROVE  OInv'
  <1>0. TypeOK /\ TypeOK' /\ req[p] \in Request
    BY CommitFacts, RestoreInv DEF IInv
  <1>1. PICK r : r = [req[p] EXCEPT !.moved = @ \ {f}]
    OBVIOUS
  <1>2. /\ req[p].step = "restore" /\ f \in req[p].moved /\ Move(p, r) /\ UNCHANGED stored
    BY <1>1 DEF Restore, RestoreFail, RestoreTodo, tables
  <1>3. r \in Request /\ r.step = "restore" /\ r.moved = req[p].moved \ {f}
    BY <1>0, <1>1, <1>2 DEF Request
  <1>4. /\ Taken(r) = Taken(req[p]) \ {f} /\ f \in Taken(req[p])
        /\ \A g : Owns(req[p], g) => Owns(r, g) \/ g = f
    BY <1>2, <1>3 DEF Owns, Held, Taken, Working
  <1>5. CASE RestoreFail(p, f)
    <2>1. faults' # 0 /\ UNCHANGED disk
      BY <1>0, <1>5 DEF RestoreFail, TypeOK
    <2> QED
      BY <1>0, <1>2, <1>3, <1>4, <2>1, StepAccounts DEF disk
  <1>6. CASE Restore(p, f) /\ ~perm[f].present
    <2>1. UNCHANGED disk /\ faults' = faults
      BY <1>6 DEF Restore
    <2> QED
      BY <1>0, <1>2, <1>3, <1>4, <1>6, <2>1, StepAccounts DEF disk
  <1>7. CASE Restore(p, f) /\ perm[f].present
    <2>1. PICK k \in Key : k = perm[f].from
      BY <1>4, TakenAreHeld
    <2>2. ~temp[k].present
      BY <1>4, <1>7, <2>1 DEF OInv, CanGoBack
    <2>3. /\ faults' = faults /\ perm' = [perm EXCEPT ![f].present = FALSE]
          /\ \A j \in Key : temp'[j].present /\ j # k => temp[j].present
      BY <1>0, <1>7, <2>1, <2>2 DEF Restore, TempFile, TypeOK
    <2>4. \A g \in File : perm'[g].from = perm[g].from
                           /\ (perm'[g].present <=> perm[g].present /\ g # f)
      BY <1>0, <2>3 DEF TypeOK, PermObject
    <2>5. \A q \in Req : \A g \in Taken(req'[q]) :
            perm'[g].present /\ temp'[perm[g].from].present => temp[perm[g].from].present
      <3> SUFFICES ASSUME NEW q \in Req, NEW g \in Taken(req'[q]), perm'[g].present
                   PROVE  temp'[perm[g].from].present => temp[perm[g].from].present
        OBVIOUS
      <3>1. g \in Taken(req[q]) /\ g \in File /\ perm[g].from \in Key /\ g # f /\ perm[g].present
        BY <1>0, <1>2, <1>4, <2>4, MoveOnly, TakenAreHeld
      <3>2. perm[g].from # k
        BY <1>4, <1>7, <2>1, <3>1 DEF OInv, CanGoBack
      <3> QED
        BY <2>3, <3>1, <3>2
    <2> QED
      BY <1>0, <1>2, <1>3, <1>4, <2>3, <2>4, <2>5, StepAccounts
  <1> QED
    BY <1>5, <1>6, <1>7

LEMMA OutsideSteps ==
  ASSUME IInv, OInv, JobStart \/ JobNext \/ TimePasses \/ UNCHANGED vars
  PROVE  OInv'
  <1>0. TypeOK
    BY DEF IInv
  <1>1. UNCHANGED <<stored, req, faults>>
    BY DEF JobStart, JobNext, JobReferenced, JobRemaining, JobDeleteExpired, JobSweep, JobList,
           JobListOld, JobEnd, JobDeleteOrphan, TimePasses, vars, tables
  <1>2. \A f \in File : perm'[f].from = perm[f].from /\ (perm'[f].present => perm[f].present)
    <2>1. CASE TimePasses
      BY <1>0, <2>1 DEF TimePasses, TypeOK, PermObject
    <2>2. ASSUME NEW f \in File, JobDeleteOrphan(f)
          PROVE  \A g \in File : /\ perm'[g].from = perm[g].from
                                 /\ perm'[g].present => perm[g].present
      BY <1>0, <2>2 DEF JobDeleteOrphan, TypeOK, PermObject
    <2>3. TimePasses \/ (\E f \in File : JobDeleteOrphan(f)) \/ perm' = perm
      BY DEF JobStart, JobNext, JobReferenced, JobRemaining, JobDeleteExpired, JobSweep, JobList,
             JobListOld, JobEnd, vars, disk
    <2> QED
      BY <2>1, <2>2, <2>3
  <1>3. \A k \in Key : temp'[k].present => temp[k].present
    <2>1. CASE TimePasses
      BY <1>0, <2>1 DEF TimePasses, TypeOK, Object
    <2>2. CASE JobDeleteExpired \/ JobSweep
      <3>1. PICK gone : temp' = [k \in Key |-> IF k \in gone
                                             THEN [temp[k] EXCEPT !.present = FALSE] ELSE temp[k]]
        BY <2>2 DEF JobDeleteExpired, JobSweep
      <3> QED
        BY <1>0, <3>1 DEF TypeOK, Object
    <2>3. TimePasses \/ JobDeleteExpired \/ JobSweep \/ temp' = temp
      BY DEF JobStart, JobNext, JobReferenced, JobRemaining, JobList,
             JobListOld, JobEnd, JobDeleteOrphan, vars, disk
    <2> QED
      BY <2>1, <2>2, <2>3
  <1> QED
    BY <1>1, <1>2, <1>3, OutsideAccounts

LEMMA CrashAccounts ==
  ASSUME IInv, Crash
  PROVE  OInv'
  <1>1. req' = [p \in Req |-> Idle] /\ faults' # 0
    BY DEF Crash, IInv, TypeOK
  <1>2. \A p \in Req : Taken(req'[p]) = {}
    BY <1>1, IdleOwnsNothing
  <1> QED
    BY <1>1, <1>2 DEF OInv, CanGoBack, Accounted, Taken, Working

LEMMA InitOInv == Init => OInv
  <1> SUFFICES ASSUME Init PROVE OInv
    OBVIOUS
  <1>1. \A p \in Req : Taken(req[p]) = {}
    BY IdleOwnsNothing DEF Init
  <1> QED
    BY <1>1 DEF Init, OInv, CanGoBack, Accounted

LEMMA NextOInv == IInv /\ OInv /\ [Next]_vars => OInv'
  <1> SUFFICES ASSUME IInv, OInv, [Next]_vars PROVE OInv'
    OBVIOUS
  <1>1. ASSUME NEW p \in Req, Start(p) PROVE OInv'
    BY <1>1, StartAccounts
  <1>2. ASSUME NEW p \in Req, Inspect(p) PROVE OInv'
    BY <1>2, InspectAccounts
  <1>3. ASSUME NEW p \in Req, Commit(p) PROVE OInv'
    BY <1>3, LinkAccounts, UnlinkAccounts, CommitAccounts, RestoreAccounts, AfterAccounts DEF Commit
  <1>4. ASSUME NEW p \in Req, DropUnused(p) PROVE OInv'
    BY <1>4, AfterAccounts
  <1>5. CASE JobStart \/ JobNext \/ TimePasses \/ UNCHANGED vars
    BY <1>5, OutsideSteps
  <1>6. CASE Crash
    BY <1>6, CrashAccounts
  <1> QED
    BY <1>1, <1>2, <1>3, <1>4, <1>5, <1>6 DEF Next, Server, Continue

\* A failed commit leaves nothing behind: as long as the server has not been
\* killed and no restore has failed, every permanent file has its row once no
\* request is open.
THEOREM NothingLeftBehind == Spec => []NoOrphanWithoutFault
  <1>1. OInv => NoOrphanWithoutFault
    BY IdleOwnsNothing DEF OInv, Accounted, NoOrphanWithoutFault, Quiet
  <1> QED
    BY <1>1, Invariance, InitOInv, NextOInv, PTL DEF Spec

-----------------------------------------------------------------------------
(* What a ready preview needs is kept.                                     *)

\* The key that an inspection has written and not yet recorded.
Private(r) == IF r.step = "record" THEN {r.source}
              ELSE IF r.step = "finish" THEN {r.extra} \ {NoKey} ELSE {}

\* The object of a key is in one of the directories.
Kept(k) == temp[k].present \/ \E f \in File : perm[f].present /\ perm[f].from = k

\* What the row of an import may count on: its keys are its own, the cleanup has
\* not expired them and has read them before it sweeps what is old, no stored
\* file has come of them, and their objects are there.
RowKept(i) ==
    /\ imports[i].status = "none" => ~imports[i].old
    /\ imports[i].status = "ready" => imports[i].source # NoKey
    /\ KeysOf(i) \cap job.expired = {}
    /\ \A j \in Import \ {i} : KeysOf(i) \cap KeysOf(j) = {}
    /\ \A k \in KeysOf(i) : /\ Kept(k)
                            /\ job.step \in {"expired", "sweep"} => k \in job.keep \/ ~temp[k].old
    /\ \A f \in stored : perm[f].from \notin KeysOf(i)

\* An inspection has a row that is new, and not yet ready.
Inspection(r) ==
    Inspecting(r) => /\ r.imp \in Import /\ ~imports[r.imp].old
                     /\ imports[r.imp].status \notin {"none", "ready"}
                     /\ r.step # "finish" => r.extra = NoKey
                     /\ r.step \in {"parse", "finish"} /\ RowExists(r.imp)
                          => imports[r.imp].source # NoKey

\* What it has written and not recorded is new, and nobody else's.
Unrecorded(r) ==
    \A k \in Private(r) : /\ k \in Key /\ temp[k].present /\ ~temp[k].old /\ k \notin job.expired
                          /\ \A i \in Import : k \notin KeysOf(i)
                          /\ \A f \in File : perm[f].from # k

\* A commit has locked a ready row, whose keys it moves and will drop; while a
\* permanent name is linked the temporary one is there, and what has been moved
\* is new.
CommitHolds(r) ==
    /\ Working(r) => /\ r.imp \in Import /\ imports[r.imp].status = "ready"
                     /\ r.todo \cup r.drop \subseteq KeysOf(r.imp)
                     /\ \A f \in Held(r) : perm[f].from \in KeysOf(r.imp)
    /\ r.step = "link" => temp[perm[r.cur].from].present
    /\ \A f \in Taken(r) : ~perm[f].old

\* What a request is to delete after its transaction, no row names.
LetGo(r) ==
    /\ r.gone # NoFile => \A i \in Import : perm[r.gone].from \notin KeysOf(i)
    /\ r.step = "drop" => \A i \in Import : r.drop \cap KeysOf(i) = {}

\* No two requests are at work on one row, nor with one object.
Apart ==
    \A p, q \in Req : p # q =>
        /\ (Inspecting(req[p]) /\ Inspecting(req[q])) \/ (Working(req[p]) /\ Working(req[q]))
             => req[p].imp # req[q].imp
        /\ Private(req[p]) \cap Private(req[q]) = {}
        /\ req[q].step = "drop" => Private(req[p]) \cap req[q].drop = {}

\* What a request that is at work may count on.
Keeps(r) == Inspection(r) /\ Unrecorded(r) /\ CommitHolds(r) /\ LetGo(r)

CInv == /\ \A i \in Import : RowKept(i)
        /\ \A p \in Req : Keeps(req[p])
        /\ Apart

\* Request r has nothing in common with the requests other than p.
Joins(p, r) ==
    \A q \in Req \ {p} :
        /\ (Inspecting(r) /\ Inspecting(req[q])) \/ (Working(r) /\ Working(req[q]))
             => r.imp # req[q].imp
        /\ Private(r) \cap Private(req[q]) = {}
        /\ req[q].step = "drop" => Private(r) \cap req[q].drop = {}
        /\ r.step = "drop" => Private(req[q]) \cap r.drop = {}

\* What a step of request p may do to the rows: it adds no keys but its own, it
\* makes only a whole preview ready, and it changes no row that another commit
\* has locked, nor one that is being inspected except to delete it.
RowsStep(p) ==
    /\ \A i \in Import :
         /\ \A k \in KeysOf(i)' :
               k \in KeysOf(i) \/ (Inspecting(req[p]) /\ i = req[p].imp /\ k \in Private(req[p]))
         /\ imports'[i].old = imports[i].old
         /\ imports'[i].status = "none" => imports[i].status = "none"
         /\ imports'[i].status = "ready" => imports'[i].source # NoKey
    /\ \A q \in Req \ {p} :
         /\ Working(req[q]) => imports'[req[q].imp] = imports[req[q].imp]
         /\ Inspecting(req[q]) =>
              LET i == req[q].imp
              IN  imports'[i] = imports[i] \/ imports'[i].status = "deleted"
                  \/ (/\ imports'[i].status \notin {"none", "ready"}
                      /\ imports[i].status # "deleted" /\ imports'[i].source = imports[i].source)

\* What it may do to the directories: no object grows old, new names are made
\* of the keys of rows, and temporary objects go only if they are its own.
DiskStep(p) ==
    /\ \A f \in File :
         /\ perm[f].from # NoKey => /\ perm'[f].from = perm[f].from
                                    /\ perm'[f].old => perm[f].old
         /\ perm'[f].from # perm[f].from => \E i \in Import : perm'[f].from \in KeysOf(i)
    /\ \A k \in Key :
         /\ temp'[k].old => temp[k].old
         /\ temp[k].present /\ ~temp'[k].present =>
               \/ Working(req[p]) /\ k \in KeysOf(req[p].imp)
               \/ req[p].step = "drop" /\ k \in req[p].drop

LEMMA KeysAreKeys ==
  ASSUME TypeOK, NEW i \in Import
  PROVE  KeysOf(i) \subseteq Key
  BY DEF TypeOK, ImportRow, KeysOf

\* A step of request p keeps what the imports need if it loses none of the keys
\* that a row names afterwards, leaves the rows of other commits and inspections
\* alone, and deletes only temporary objects that are its own.
LEMMA StepKeepsContent ==
  ASSUME IInv, TypeOK', CInv, NEW p \in Req, NEW r \in Request, Move(p, r), UNCHANGED job,
         RowsStep(p), DiskStep(p), Keeps(r)', Joins(p, r),
         \A i \in Import : \A k \in KeysOf(i)' : Kept(k)',
         \A f \in stored' \ stored : \A i \in Import : perm'[f].from \notin KeysOf(i)'
  PROVE  CInv'
  <1> USE DEF RowsStep, DiskStep, Joins, Keeps
  <1>0. TypeOK /\ NoKey \notin Key /\ NoFile \notin File
    BY LibraryImportAssumption DEF IInv
  <1>1. req'[p] = r /\ \A q \in Req \ {p} : req'[q] = req[q]
    BY <1>0, MoveOnly
  <1>2. \A i \in Import : KeysOf(i) \subseteq Key
    BY <1>0, KeysAreKeys
  <1>3. \A q \in Req : Private(req[q]) \subseteq Key
    BY DEF CInv, Keeps, Unrecorded
  <1>4. \A i \in Import : RowKept(i)'
    <2> SUFFICES ASSUME NEW i \in Import PROVE RowKept(i)'
      OBVIOUS
    <2>1. \A j \in Import : RowKept(j)
      BY DEF CInv
    <2>2. Unrecorded(req[p])
      BY DEF CInv, Keeps
    <2>3. /\ imports'[i].status = "none" => ~imports'[i].old
          /\ imports'[i].status = "ready" => imports'[i].source # NoKey
      BY <2>1 DEF RowKept
    <2>4. KeysOf(i)' \cap job'.expired = {}
      BY <2>1, <2>2 DEF RowKept, Unrecorded
    <2>5. \A j \in Import \ {i} : KeysOf(i)' \cap KeysOf(j)' = {}
      BY <2>1, <2>2 DEF RowKept, Unrecorded
    <2>6. \A k \in KeysOf(i)' :
             job'.step \in {"expired", "sweep"} => k \in job'.keep \/ ~temp'[k].old
      BY <1>2, <1>3, <2>1, <2>2 DEF RowKept, Unrecorded
    <2>7. \A f \in stored' : perm'[f].from \notin KeysOf(i)'
      <3> SUFFICES ASSUME NEW f \in stored PROVE perm'[f].from \notin KeysOf(i)'
        OBVIOUS
      <3>1. f \in File /\ perm[f].from # NoKey
        BY <1>0 DEF IInv, Tables, TypeOK
      <3>2. perm[f].from \notin KeysOf(i) /\ perm[f].from \notin Private(req[p])
        BY <2>1, <2>2, <3>1 DEF RowKept, Unrecorded
      <3> QED
        BY <3>1, <3>2
    <2> QED
      BY <2>3, <2>4, <2>5, <2>6, <2>7 DEF RowKept, Kept
  <1>5. ASSUME NEW q \in Req \ {p}
        PROVE  /\ Inspection(req[q])' /\ Unrecorded(req[q])'
               /\ CommitHolds(req[q])' /\ LetGo(req[q])'
    <2> DEFINE s == req[q]
    <2>1. req'[q] = s /\ s \in Request
      BY <1>0, <1>1, RequestFields
    <2>2. /\ Inspection(s) /\ Unrecorded(s) /\ CommitHolds(s) /\ LetGo(s)
          /\ \A i \in Import : RowKept(i)
      BY DEF CInv
    <2>3. /\ Private(s) \cap Private(req[p]) = {}
          /\ req[p].step = "drop" => Private(s) \cap req[p].drop = {}
          /\ Working(s) /\ Working(req[p]) => s.imp # req[p].imp
      BY DEF CInv, Apart
    <2>a. Working(req[p]) => req[p].imp \in Import
      BY DEF CInv, CommitHolds
    <2>4. Inspection(req[q])'
      <3>1. Inspecting(s) => /\ s.imp \in Import /\ imports'[s.imp].old = imports[s.imp].old
        BY <2>2 DEF Inspection
      <3>2. CASE imports'[s.imp] = imports[s.imp]
        BY <2>1, <2>2, <3>1, <3>2 DEF Inspection, Inspecting, RowExists
      <3>3. CASE imports'[s.imp] # imports[s.imp]
        BY <2>1, <2>2, <3>1, <3>3 DEF Inspection, Inspecting, RowExists
      <3> QED
        BY <3>2, <3>3
    <2>5. Unrecorded(req[q])'
      <3> SUFFICES ASSUME NEW k \in Private(s)
                   PROVE  /\ k \in Key /\ temp'[k].present /\ ~temp'[k].old
                          /\ k \notin job'.expired
                          /\ \A i \in Import : k \notin KeysOf(i)'
                          /\ \A f \in File : perm'[f].from # k
        BY <2>1 DEF Unrecorded, Private, KeysOf
      <3>1. /\ k \in Key /\ temp[k].present /\ ~temp[k].old /\ k \notin job.expired
            /\ \A i \in Import : k \notin KeysOf(i)
            /\ \A f \in File : perm[f].from # k
        BY <1>3, <2>2 DEF Unrecorded
      <3>2. temp'[k].present /\ ~temp'[k].old
        BY <2>3, <2>a, <3>1
      <3>3. \A i \in Import : k \notin KeysOf(i)'
        BY <2>3, <3>1
      <3> QED
        BY <3>1, <3>2, <3>3
    <2>6. LetGo(req[q])'
      <3>1. s.gone # NoFile => s.gone \in File /\ perm[s.gone].from # NoKey
        BY <2>1 DEF IInv, RequestFiles, Request
      <3>2. \A f \in File : perm[f].from \notin Private(req[p])
        <4>1. Unrecorded(req[p])
          BY DEF CInv
        <4> QED
          BY <4>1 DEF Unrecorded
      <3>3. s.gone # NoFile => \A i \in Import : perm'[s.gone].from \notin KeysOf(i)'
        BY <2>2, <3>1, <3>2 DEF LetGo
      <3>4. s.step = "drop" => Private(req[p]) \cap s.drop = {}
        BY DEF CInv, Apart
      <3>5. s.step = "drop" => \A i \in Import : s.drop \cap KeysOf(i)' = {}
        BY <2>2, <3>4 DEF LetGo
      <3> QED
        BY <2>1, <3>3, <3>5 DEF LetGo, KeysOf
    <2>7. CommitHolds(req[q])'
      <3>1. \A f \in Held(s) : f \in File /\ perm[f].from # NoKey /\ perm'[f].from = perm[f].from
        BY TakenAreHeld, <1>0
      <3>2. \A f \in Taken(s) : f \in Held(s) /\ ~perm'[f].old
        BY <2>2, <3>1, TakenAreHeld DEF CommitHolds
      <3>3. Working(s) => /\ s.imp \in Import /\ imports'[s.imp] = imports[s.imp]
        BY <2>2 DEF CommitHolds
      <3>4. Working(s) => /\ imports'[s.imp].status = "ready"
                          /\ s.todo \cup s.drop \subseteq KeysOf(s.imp)'
                          /\ \A f \in Held(s) : perm'[f].from \in KeysOf(s.imp)'
        <4>1. Working(s) => KeysOf(s.imp)' = KeysOf(s.imp)
          BY <2>1, <3>3 DEF KeysOf
        <4>2. Working(s) => \A f \in Held(s) : perm[f].from \in KeysOf(s.imp)
          BY <2>2 DEF CommitHolds
        <4> QED
          BY <2>2, <3>1, <3>3, <4>1, <4>2 DEF CommitHolds
      <3>5. s.step = "link" => temp'[perm'[s.cur].from].present
        <4> SUFFICES ASSUME s.step = "link" PROVE temp'[perm'[s.cur].from].present
          OBVIOUS
        <4>1. Working(s) /\ s.cur \in Held(s)
          BY DEF Working, Held
        <4>2. PICK k : k = perm[s.cur].from
          OBVIOUS
        <4>3. /\ temp[k].present /\ k \in KeysOf(s.imp) /\ k \in Key /\ perm'[s.cur].from = k
          BY <1>2, <2>2, <3>1, <3>3, <4>1, <4>2 DEF CommitHolds
        <4>4. ~(Working(req[p]) /\ k \in KeysOf(req[p].imp))
          BY <2>2, <2>3, <2>a, <3>3, <4>1, <4>3 DEF RowKept
        <4>5. ~(req[p].step = "drop" /\ k \in req[p].drop)
          BY <3>3, <4>1, <4>3 DEF CInv, LetGo
        <4> QED
          BY <4>3, <4>4, <4>5
      <3> QED
        BY <2>1, <3>2, <3>3, <3>4, <3>5 DEF CommitHolds, Held, Taken, Working, KeysOf
    <2> QED
      BY <2>4, <2>5, <2>6, <2>7
  <1>6. /\ Inspection(req[p])' /\ Unrecorded(req[p])' /\ CommitHolds(req[p])' /\ LetGo(req[p])'
    BY <1>1 DEF Inspection, Inspecting, RowExists, Unrecorded, Private, KeysOf, CommitHolds,
                Working, Held, Taken, LetGo
  <1>7. Apart'
    <2>1. \A q, s \in Req : q # s =>
            /\ (\/ Inspecting(req'[q]) /\ Inspecting(req'[s])
                \/ Working(req'[q]) /\ Working(req'[s]))
                 => req'[q].imp # req'[s].imp
            /\ Private(req'[q]) \cap Private(req'[s]) = {}
            /\ req'[s].step = "drop" => Private(req'[q]) \cap req'[s].drop = {}
      BY <1>1 DEF CInv, Apart
    <2> QED
      BY <2>1 DEF Apart, Inspecting, Working, Private
  <1> QED
    BY <1>4, <1>5, <1>6, <1>7 DEF CInv

\* A step that changes no permanent or stored file, and no temporary object.
LEMMA RowsOnly ==
  ASSUME IInv, TypeOK', CInv, NEW p \in Req, NEW r \in Request, Move(p, r),
         UNCHANGED <<stored, disk, job>>, RowsStep(p), Keeps(r)', Joins(p, r)
  PROVE  CInv'
  <1>1. DiskStep(p)
    BY DEF DiskStep, disk
  <1>2. \A i \in Import : \A k \in KeysOf(i)' : Kept(k)'
    <2> SUFFICES ASSUME NEW i \in Import, NEW k \in KeysOf(i)' PROVE Kept(k)'
      OBVIOUS
    <2>1. k \in KeysOf(i) => Kept(k)
      BY DEF CInv, RowKept
    <2>2. k \in Private(req[p]) => temp[k].present
      BY DEF CInv, Keeps, Unrecorded
    <2> QED
      BY <2>1, <2>2 DEF RowsStep, Kept, disk
  <1> QED
    BY <1>1, <1>2, StepKeepsContent

\* A step that changes no row.
LEMMA DiskOnly ==
  ASSUME IInv, TypeOK', CInv, NEW p \in Req, NEW r \in Request, Move(p, r),
         UNCHANGED <<imports, stored, job>>, DiskStep(p), Keeps(r)', Joins(p, r),
         \A i \in Import : \A k \in KeysOf(i) : Kept(k) => Kept(k)'
  PROVE  CInv'
  <1>1. RowsStep(p)
    BY DEF RowsStep, KeysOf, CInv, RowKept
  <1>2. \A i \in Import : \A k \in KeysOf(i)' : Kept(k)'
    <2>1. \A i \in Import : KeysOf(i)' = KeysOf(i)
      BY DEF KeysOf
    <2> QED
      BY <2>1 DEF CInv, RowKept
  <1> QED
    BY <1>1, <1>2, StepKeepsContent

\* A step of the request alone.
LEMMA RequestOnly ==
  ASSUME IInv, TypeOK', CInv, NEW p \in Req, NEW r \in Request, Move(p, r),
         UNCHANGED <<imports, stored, disk, job>>, Keeps(r)', Joins(p, r)
  PROVE  CInv'
  <1>1. RowsStep(p)
    BY DEF RowsStep, KeysOf, CInv, RowKept
  <1> QED
    BY <1>1, RowsOnly

\* A request that is done, or is to record its failure, needs nothing.
LEMMA NeedsNothing ==
  ASSUME NEW p \in Req, NEW r, ~Working(r), ~Inspecting(r), r.step # "drop",
         r.step # "restore", r.gone = NoFile
  PROVE  Keeps(r)' /\ Joins(p, r)
  <1>1. Private(r) = {} /\ Taken(r) = {}
    BY DEF Private, Inspecting, Taken
  <1>2. r.step # "link"
    BY DEF Working
  <1>3. Inspection(r)' /\ Unrecorded(r)'
    BY <1>1 DEF Inspection, Unrecorded, Inspecting, Private
  <1>4. CommitHolds(r)' /\ LetGo(r)'
    BY <1>1, <1>2 DEF CommitHolds, LetGo, Working, Taken
  <1> QED
    BY <1>1, <1>3, <1>4 DEF Keeps, Joins

LEMMA IdleNeedsNothing ==
  ASSUME NEW p \in Req
  PROVE  Keeps(Idle)' /\ Joins(p, Idle)
  BY NeedsNothing DEF Idle, Working, Inspecting

\* A change of one row that leaves its keys alone: the rows of the others stay.
LEMMA RowsOfOthers ==
  ASSUME IInv, CInv, NEW p \in Req, NEW i \in Import,
         \A j \in Import \ {i} : imports'[j] = imports[j],
         \A k \in KeysOf(i)' :
            k \in KeysOf(i) \/ (Inspecting(req[p]) /\ i = req[p].imp /\ k \in Private(req[p])),
         imports'[i].old = imports[i].old,
         imports'[i].status # "none",
         imports'[i].status = "ready" => imports'[i].source # NoKey,
         \A q \in Req \ {p} : Working(req[q]) => req[q].imp # i,
         \A q \in Req \ {p} : Inspecting(req[q]) /\ req[q].imp = i =>
            \/ imports'[i].status = "deleted"
            \/ /\ imports'[i].status # "ready" /\ imports[i].status # "deleted"
               /\ imports'[i].source = imports[i].source
  PROVE  RowsStep(p)
  <1>1. \A j \in Import : RowKept(j)
    BY DEF CInv
  <1>2. \A q \in Req : /\ Working(req[q]) => req[q].imp \in Import
                       /\ Inspecting(req[q]) => req[q].imp \in Import
    BY DEF CInv, Keeps, CommitHolds, Inspection
  <1>3. \A j \in Import \ {i} : /\ \A k \in KeysOf(j)' : k \in KeysOf(j)
                                /\ imports'[j].status = "ready" => imports'[j].source # NoKey
    BY <1>1 DEF KeysOf, RowKept
  <1> QED
    BY <1>2, <1>3 DEF RowsStep

\* An inspection changes its own row only.
LEMMA OwnRow ==
  ASSUME IInv, CInv, NEW p \in Req, Inspecting(req[p])
  PROVE  /\ req[p].imp \in Import /\ imports[req[p].imp].status \notin {"none", "ready"}
         /\ ~imports[req[p].imp].old
         /\ \A q \in Req \ {p} : Working(req[q]) \/ Inspecting(req[q]) => req[q].imp # req[p].imp
  BY DEF CInv, Keeps, Inspection, CommitHolds, Apart

LEMMA SetStatusFields ==
  ASSUME TypeOK, NEW i \in Import, NEW s, SetStatus(i, s)
  PROVE  /\ \A j \in Import \ {i} : imports'[j] = imports[j]
         /\ \A j \in Import : KeysOf(j)' = KeysOf(j)
         /\ imports'[i].status = s /\ imports'[i].old = imports[i].old
         /\ imports'[i].source = imports[i].source /\ imports'[i].extra = imports[i].extra
  BY DEF SetStatus, TypeOK, ImportRow, KeysOf

\* Until its object is recorded, an inspection has a row that names none of it.
LEMMA StartKeeps ==
  ASSUME IInv, CInv, NEW p \in Req, NEW i \in Import, InspectStart(p, i)
  PROVE  CInv'
  <1>0. TypeOK /\ TypeOK' /\ req[p] \in Request
    BY RequestFields, StartInv DEF IInv, Start
  <1>1. PICK r : r = [Idle EXCEPT !.imp = i, !.step = "process"]
    OBVIOUS
  <1>2. r \in Request /\ r.imp = i /\ r.step = "process" /\ r.gone = NoFile /\ r.extra = NoKey
    BY <1>1, IdleIsRequest DEF Idle, Request, Steps
  <1>3. /\ Move(p, r) /\ imports[i].status = "none" /\ SetStatus(i, "pending")
        /\ UNCHANGED <<stored, disk, job>>
    BY <1>1 DEF InspectStart
  <1>4. ~imports[i].old
    BY <1>3 DEF CInv, RowKept
  <1>5. \A q \in Req : Working(req[q]) \/ Inspecting(req[q]) => req[q].imp # i
    BY <1>3 DEF CInv, Keeps, Inspection, CommitHolds
  <1>6. /\ imports'[i].status = "pending" /\ ~imports'[i].old
        /\ KeysOf(i)' = KeysOf(i) /\ \A j \in Import \ {i} : imports'[j] = imports[j]
    BY <1>0, <1>3, <1>4, SetStatusFields
  <1>7. RowsStep(p)
    <2>1. \A k \in KeysOf(i)' : k \in KeysOf(i)
      BY <1>6
    <2>2. /\ imports'[i].old = imports[i].old
          /\ imports'[i].status # "none" /\ imports'[i].status # "ready"
      BY <1>0, <1>3, <1>6, SetStatusFields
    <2> QED
      BY <1>5, <1>6, <2>1, <2>2, RowsOfOthers
  <1>8. Private(r) = {} /\ ~Working(r) /\ Taken(r) = {}
    BY <1>2 DEF Private, Working, Taken
  <1>9. Keeps(r)'
    <2>1. Inspection(r)'
      BY <1>2, <1>6 DEF Inspection
    <2>2. Unrecorded(r)' /\ CommitHolds(r)' /\ LetGo(r)'
      BY <1>2, <1>8 DEF Unrecorded, Private, CommitHolds, Working, Taken, LetGo
    <2> QED
      BY <2>1, <2>2 DEF Keeps
  <1>10. Joins(p, r)
    BY <1>2, <1>5, <1>8 DEF Joins
  <1> QED
    BY <1>0, <1>2, <1>3, <1>7, <1>9, <1>10, RowsOnly

LEMMA InspectsOn ==
  ASSUME IInv, CInv, NEW p \in Req, NEW r, Inspecting(req[p]), Inspecting(r),
         r.imp = req[p].imp, r.gone = NoFile,
         Private(r) \subseteq Private(req[p]) \cup FreshKey,
         Inspection(r)', Unrecorded(r)'
  PROVE  Keeps(r)' /\ Joins(p, r)
  <1>1. /\ ~Working(r) /\ r.step # "drop" /\ r.step # "restore" /\ r.step # "link" /\ Taken(r) = {}
    BY DEF Inspecting, Working, Taken
  <1>2. CommitHolds(r)' /\ LetGo(r)'
    BY <1>1 DEF CommitHolds, LetGo, Working, Taken
  <1>3. \A q \in Req \ {p} : Inspecting(req[q]) => r.imp # req[q].imp
    BY OwnRow
  <1>4. \A q \in Req \ {p} : /\ Private(r) \cap Private(req[q]) = {}
                             /\ req[q].step = "drop" => Private(r) \cap req[q].drop = {}
    <2> SUFFICES ASSUME NEW q \in Req \ {p}
                 PROVE  /\ Private(r) \cap Private(req[q]) = {}
                        /\ req[q].step = "drop" => Private(r) \cap req[q].drop = {}
      OBVIOUS
    <2>1. FreshKey \cap (Private(req[q]) \cup req[q].drop) = {}
      BY DEF FreshKey, Private
    <2> QED
      BY <2>1 DEF CInv, Apart
  <1> QED
    BY <1>1, <1>2, <1>3, <1>4 DEF Keeps, Joins

\* The steps of an inspection that write its row.
LEMMA ProcessKeeps ==
  ASSUME IInv, CInv, NEW p \in Req, InspectProcess(p)
  PROVE  CInv'
  <1>0. TypeOK /\ TypeOK' /\ req[p] \in Request /\ RequestShape(req[p])
    BY RequestFields, InspectInv DEF IInv, Inspect
  <1>s. Inspecting(req[p]) /\ UNCHANGED <<stored, disk, job>>
    BY DEF InspectProcess, Inspecting
  <1>i. PICK i \in Import : i = req[p].imp
    BY <1>s, OwnRow
  <1>1. CASE ~RowExists(i)
    BY <1>0, <1>s, <1>i, <1>1, IdleIsRequest, IdleNeedsNothing, RequestOnly
    DEF InspectProcess, Close, disk
  <1>2. CASE RowExists(i)
    <2>1. PICK r : r = [req[p] EXCEPT !.step = "write"]
      OBVIOUS
    <2>2. /\ r \in Request /\ r.imp = i /\ r.step = "write" /\ r.gone = req[p].gone
          /\ r.extra = req[p].extra
      BY <1>0, <1>i, <2>1 DEF Request, Steps
    <2>3. /\ Move(p, r) /\ SetStatus(i, "processing") /\ req[p].step = "process"
      BY <1>2, <1>i, <2>1 DEF InspectProcess
    <2>4. /\ imports'[i].status = "processing" /\ imports'[i].old = imports[i].old
          /\ KeysOf(i)' = KeysOf(i) /\ \A j \in Import \ {i} : imports'[j] = imports[j]
      BY <1>0, <2>3, SetStatusFields
    <2>5. RowsStep(p)
      <3>1. \A k \in KeysOf(i)' : k \in KeysOf(i)
        BY <2>4
      <3>2. imports'[i].status # "none" /\ imports'[i].status # "ready"
        BY <2>4
      <3>3. \A q \in Req \ {p} : Working(req[q]) \/ Inspecting(req[q]) => req[q].imp # i
        BY <1>s, <1>i, OwnRow
      <3> QED
        BY <2>4, <3>1, <3>2, <3>3, RowsOfOthers
    <2>6. Inspecting(r) /\ Private(r) = {} /\ r.gone = NoFile
      BY <1>0, <2>2, <2>3 DEF Inspecting, Private, RequestShape
    <2>7. Inspection(r)' /\ Unrecorded(r)'
      <3>1. ~imports[i].old /\ req[p].extra = NoKey
        BY <1>s, <1>i, <2>3, OwnRow DEF CInv, Keeps, Inspection
      <3>2. Inspection(r)'
        BY <2>2, <2>4, <3>1 DEF Inspection
      <3>3. Unrecorded(r)'
        BY <2>6 DEF Unrecorded, Private
      <3> QED
        BY <3>2, <3>3
    <2>8. Keeps(r)' /\ Joins(p, r)
      BY <1>s, <1>i, <2>2, <2>6, <2>7, InspectsOn
    <2> QED
      BY <1>0, <1>s, <2>2, <2>3, <2>5, <2>8, RowsOnly
  <1> QED
    BY <1>1, <1>2

\* The key is recorded before the object is parsed: what was private is the
\* row's.
LEMMA RecordKeeps ==
  ASSUME IInv, CInv, NEW p \in Req, InspectRecord(p)
  PROVE  CInv'
  <1>0. TypeOK /\ TypeOK' /\ req[p] \in Request /\ RequestShape(req[p])
    BY RequestFields, InspectInv DEF IInv, Inspect
  <1>s. Inspecting(req[p]) /\ UNCHANGED <<stored, disk, job>> /\ req[p].step = "record"
    BY DEF InspectRecord, Inspecting
  <1>i. PICK i \in Import : i = req[p].imp
    BY <1>s, OwnRow
  <1>1. CASE ~RowExists(i)
    BY <1>0, <1>s, <1>i, <1>1, IdleIsRequest, IdleNeedsNothing, RequestOnly
    DEF InspectRecord, Close, disk
  <1>2. CASE RowExists(i)
    <2>1. PICK r : r = [req[p] EXCEPT !.step = "parse"]
      OBVIOUS
    <2>2. /\ r \in Request /\ r.imp = i /\ r.step = "parse" /\ r.gone = req[p].gone
          /\ r.extra = req[p].extra
      BY <1>0, <1>i, <2>1 DEF Request, Steps
    <2>3. Move(p, r) /\ imports' = [imports EXCEPT ![i].source = req[p].source]
      BY <1>2, <1>i, <2>1 DEF InspectRecord
    <2>4. Private(req[p]) = {req[p].source} /\ req[p].source # NoKey
      <3>1. Private(req[p]) = {req[p].source}
        BY <1>s DEF Private
      <3>2. Unrecorded(req[p])
        BY DEF CInv, Keeps
      <3> QED
        BY <3>1, <3>2, LibraryImportAssumption DEF Unrecorded
    <2>5. /\ imports'[i].status = imports[i].status /\ imports'[i].old = imports[i].old
          /\ imports'[i].source = req[p].source /\ imports'[i].extra = imports[i].extra
          /\ \A j \in Import \ {i} : imports'[j] = imports[j]
      BY <1>0, <2>3 DEF TypeOK, ImportRow
    <2>6. /\ imports[i].status \notin {"none", "ready"} /\ ~imports[i].old
          /\ \A q \in Req \ {p} : Working(req[q]) \/ Inspecting(req[q]) => req[q].imp # i
      BY <1>s, <1>i, OwnRow
    <2>7. RowsStep(p)
      <3>1. \A k \in KeysOf(i)' : k \in KeysOf(i) \/ k \in Private(req[p])
        BY <2>4, <2>5 DEF KeysOf
      <3> QED
        BY <1>s, <1>i, <2>5, <2>6, <3>1, RowsOfOthers
    <2>8. Inspecting(r) /\ Private(r) = {} /\ r.gone = NoFile
      BY <1>0, <1>s, <2>2 DEF Inspecting, Private, RequestShape
    <2>9. Inspection(r)' /\ Unrecorded(r)'
      <3>a. req[p].extra = NoKey
        BY <1>s DEF CInv, Keeps, Inspection
      <3>1. Inspection(r)'
        BY <2>2, <2>4, <2>5, <2>6, <3>a DEF Inspection
      <3>2. Unrecorded(r)'
        BY <2>8 DEF Unrecorded, Private
      <3> QED
        BY <3>1, <3>2
    <2>10. Keeps(r)' /\ Joins(p, r)
      BY <1>s, <1>i, <2>2, <2>8, <2>9, InspectsOn
    <2> QED
      BY <1>0, <1>s, <2>2, <2>3, <2>7, <2>10, RowsOnly
  <1> QED
    BY <1>1, <1>2

\* The preview is ready once both objects are recorded; or it has failed, with
\* the keys it has.
LEMMA InspectEndKeeps ==
  ASSUME IInv, CInv, NEW p \in Req, InspectReady(p) \/ InspectFail(p) \/ InspectLost(p)
  PROVE  CInv'
  <1>0. TypeOK /\ TypeOK' /\ req[p] \in Request
    BY RequestFields, InspectInv DEF IInv, Inspect
  <1>s. Inspecting(req[p]) /\ UNCHANGED <<stored, disk, job>> /\ Move(p, Idle)
    BY DEF InspectReady, InspectFail, InspectLost, Inspecting, Close
  <1>i. PICK i \in Import : i = req[p].imp
    BY <1>s, OwnRow
  <1>6. /\ imports[i].status \notin {"none", "ready"} /\ ~imports[i].old
        /\ \A q \in Req \ {p} : Working(req[q]) \/ Inspecting(req[q]) => req[q].imp # i
    BY <1>s, <1>i, OwnRow
  <1>1. CASE imports' = imports
    BY <1>0, <1>s, <1>1, IdleIsRequest, IdleNeedsNothing, RequestOnly DEF disk
  <1>2. CASE SetStatus(i, "failed")
    <2>4. /\ imports'[i].status = "failed" /\ imports'[i].old = imports[i].old
          /\ KeysOf(i)' = KeysOf(i) /\ \A j \in Import \ {i} : imports'[j] = imports[j]
      BY <1>0, <1>2, SetStatusFields
    <2>5. RowsStep(p)
      <3>1. \A k \in KeysOf(i)' : k \in KeysOf(i)
        BY <2>4
      <3>2. imports'[i].status # "none" /\ imports'[i].status # "ready"
        BY <2>4
      <3> QED
        BY <1>6, <2>4, <3>1, <3>2, RowsOfOthers
    <2> QED
      BY <1>0, <1>s, <2>5, IdleIsRequest, IdleNeedsNothing, RowsOnly
  <1>3. CASE /\ InspectReady(p) /\ RowExists(i)
             /\ imports' = [imports EXCEPT ![i].status = "ready", ![i].extra = req[p].extra]
    <2>1. req[p].step = "finish"
      BY <1>3 DEF InspectReady
    <2>2. imports[i].source # NoKey
      BY <1>s, <1>i, <1>3, <2>1 DEF CInv, Keeps, Inspection
    <2>3. /\ imports'[i].status = "ready" /\ imports'[i].old = imports[i].old
          /\ imports'[i].source = imports[i].source /\ imports'[i].extra = req[p].extra
          /\ \A j \in Import \ {i} : imports'[j] = imports[j]
      BY <1>0, <1>3 DEF TypeOK, ImportRow
    <2>4. \A k \in KeysOf(i)' : k \in KeysOf(i) \/ k \in Private(req[p])
      BY <2>1, <2>3 DEF KeysOf, Private
    <2>5. RowsStep(p)
      <3>1. imports'[i].status # "none"
        BY <2>3
      <3> QED
        BY <1>s, <1>i, <1>6, <2>2, <2>3, <2>4, <3>1, RowsOfOthers
    <2> QED
      BY <1>0, <1>s, <2>5, IdleIsRequest, IdleNeedsNothing, RowsOnly
  <1> QED
    BY <1>1, <1>2, <1>3, <1>i DEF InspectReady, InspectFail, InspectLost, SetStatus

\* A new object has a key of its own.
LEMMA WriteKeeps ==
  ASSUME IInv, CInv, NEW p \in Req, NEW k \in Key, InspectWrite(p, k) \/ InspectExtra(p, k)
  PROVE  CInv'
  <1>0. TypeOK /\ TypeOK' /\ req[p] \in Request /\ RequestShape(req[p])
    BY RequestFields, InspectInv DEF IInv, Inspect
  <1>s. /\ Inspecting(req[p]) /\ UNCHANGED <<imports, stored, perm, job>> /\ k \in FreshKey
        /\ TempFile(k, TRUE, FALSE)
    BY DEF InspectWrite, InspectExtra, Inspecting, tables
  <1>i. PICK i \in Import : i = req[p].imp
    BY <1>s, OwnRow
  <1>1. PICK r : /\ Move(p, r)
                 /\ \/ req[p].step = "write" /\ r = [req[p] EXCEPT !.step = "record", !.source = k]
                    \/ req[p].step = "parse" /\ r = [req[p] EXCEPT !.step = "finish", !.extra = k]
    BY DEF InspectWrite, InspectExtra
  <1>2. /\ r \in Request /\ r.imp = i /\ r.gone = NoFile /\ Inspecting(r)
        /\ Private(r) = {k}
        /\ \/ r.step = "record" /\ r.extra = req[p].extra /\ req[p].step = "write"
           \/ r.step = "finish" /\ req[p].step = "parse"
    <2>1. k # NoKey
      BY LibraryImportAssumption
    <2>2. CASE req[p].step = "write" /\ r = [req[p] EXCEPT !.step = "record", !.source = k]
      BY <1>0, <1>i, <2>2 DEF Request, Steps, Inspecting, Private, RequestShape
    <2>3. CASE req[p].step = "parse" /\ r = [req[p] EXCEPT !.step = "finish", !.extra = k]
      <3>1. /\ r \in Request /\ r.imp = i /\ r.gone = NoFile /\ r.step = "finish" /\ r.extra = k
        BY <1>0, <1>i, <2>3 DEF Request, Steps, RequestShape
      <3>2. Inspecting(r) /\ Private(r) = {k}
        BY <2>1, <3>1 DEF Inspecting, Private
      <3> QED
        BY <2>3, <3>1, <3>2
    <2> QED
      BY <1>1, <2>2, <2>3
  <1>3. /\ temp'[k].present /\ ~temp'[k].old
        /\ \A j \in Key \ {k} : temp'[j] = temp[j]
    BY <1>0, <1>s DEF TempFile, TypeOK
  <1>4. DiskStep(p)
    BY <1>3, <1>s DEF DiskStep
  <1>5. Inspection(r)'
    <2>1. Inspection(req[p])
      BY DEF CInv, Keeps
    <2>2. req[p].step = "parse" /\ RowExists(i) => imports[i].source # NoKey
      BY <1>s, <1>i, <2>1 DEF Inspection
    <2>3. ~imports[i].old /\ imports[i].status \notin {"none", "ready"}
      BY <1>s, <1>i, OwnRow
    <2>4. req[p].step = "write" => req[p].extra = NoKey
      BY <1>s, <2>1 DEF Inspection
    <2> QED
      BY <1>s, <1>2, <2>2, <2>3, <2>4 DEF Inspection, RowExists
  <1>6. Unrecorded(r)'
    <2>1. \A j \in Import : k \notin KeysOf(j)'
      BY <1>s DEF FreshKey, KeysOf
    <2>2. \A f \in File : perm'[f].from # k
      BY <1>s DEF FreshKey
    <2>3. k \notin job'.expired
      BY <1>s DEF FreshKey
    <2> QED
      BY <1>2, <1>3, <2>1, <2>2, <2>3 DEF Unrecorded, Private
  <1>7. Keeps(r)' /\ Joins(p, r)
    BY <1>s, <1>i, <1>2, <1>5, <1>6, InspectsOn
  <1>8. \A j \in Import : \A n \in KeysOf(j) : Kept(n) => Kept(n)'
    <2> SUFFICES ASSUME NEW j \in Import, NEW n \in KeysOf(j), Kept(n) PROVE Kept(n)'
      OBVIOUS
    <2>1. n \in Key /\ n # k
      BY <1>0, <1>s, KeysAreKeys DEF FreshKey
    <2> QED
      BY <1>s, <1>3, <2>1 DEF Kept
  <1> QED
    BY <1>0, <1>1, <1>2, <1>4, <1>7, <1>8, <1>s, DiskOnly

LEMMA PlainKeeps ==
  ASSUME IInv, CInv, NEW p \in Req, InspectPlain(p)
  PROVE  CInv'
  <1>0. TypeOK /\ TypeOK' /\ req[p] \in Request /\ RequestShape(req[p])
    BY RequestFields, InspectInv DEF IInv, Inspect
  <1>s. /\ Inspecting(req[p]) /\ UNCHANGED <<tables, disk, job>> /\ req[p].step = "parse"
    BY DEF InspectPlain, Inspecting
  <1>1. PICK r : r = [req[p] EXCEPT !.step = "finish"]
    OBVIOUS
  <1>2. /\ r \in Request /\ r.step = "finish" /\ r.imp = req[p].imp /\ r.gone = NoFile
        /\ r.extra = req[p].extra /\ Move(p, r)
    BY <1>0, <1>s, <1>1 DEF Request, Steps, RequestShape, InspectPlain
  <1>3. req[p].extra = NoKey
    BY <1>s DEF CInv, Keeps, Inspection
  <1>4. Inspecting(r) /\ Private(r) = {}
    BY <1>2, <1>3 DEF Inspecting, Private
  <1>5. Inspection(r)' /\ Unrecorded(r)'
    <2>1. Inspection(req[p])
      BY DEF CInv, Keeps
    <2>2. Inspection(r)'
      BY <1>s, <1>2, <2>1 DEF Inspection, Inspecting, RowExists, tables
    <2>3. Unrecorded(r)'
      BY <1>4 DEF Unrecorded, Private
    <2> QED
      BY <2>2, <2>3
  <1>6. Keeps(r)' /\ Joins(p, r)
    BY <1>s, <1>2, <1>4, <1>5, InspectsOn
  <1> QED
    BY <1>0, <1>s, <1>2, <1>6, RequestOnly DEF tables, disk

\* A row that no commit has locked is nobody's; its keys go with it.
LEMMA DeleteKeeps ==
  ASSUME IInv, CInv, NEW p \in Req, NEW i \in Import, DeleteRow(p, i)
  PROVE  CInv'
  <1>0. TypeOK /\ TypeOK' /\ req[p] \in Request
    BY RequestFields, StartInv DEF IInv, Start
  <1>1. PICK r : r = [Idle EXCEPT !.imp = i, !.step = "drop", !.drop = KeysOf(i)]
    OBVIOUS
  <1>2. r \in Request /\ r.step = "drop" /\ r.drop = KeysOf(i) /\ r.gone = NoFile
    BY <1>0, <1>1, IdleIsRequest, KeysAreKeys DEF Idle, Request, Steps
  <1>3. Move(p, r) /\ UNCHANGED <<stored, disk, job>> /\ ~Locked(i)
    BY <1>1 DEF DeleteRow, CommitRow
  <1>4. /\ imports'[i].status = "deleted" /\ imports'[i].old = imports[i].old
        /\ imports'[i].source = NoKey /\ imports'[i].extra = NoKey
        /\ \A j \in Import \ {i} : imports'[j] = imports[j]
    BY <1>0 DEF DeleteRow, TypeOK, ImportRow
  <1>5. KeysOf(i)' = {} /\ \A j \in Import \ {i} : KeysOf(j)' = KeysOf(j)
    BY <1>4 DEF KeysOf
  <1>6. \A q \in Req : Working(req[q]) => req[q].imp # i
    BY <1>3 DEF Locked, Working
  <1>7. RowsStep(p)
    <2>1. imports'[i].status # "none" /\ imports'[i].status # "ready"
      BY <1>4
    <2> QED
      BY <1>4, <1>5, <1>6, <2>1, RowsOfOthers
  <1>8. Private(r) = {} /\ ~Working(r) /\ ~Inspecting(r) /\ Taken(r) = {}
    BY <1>2 DEF Private, Working, Inspecting, Taken
  <1>9. Keeps(r)'
    <2>1. \A j \in Import : r.drop \cap KeysOf(j)' = {}
      BY <1>2, <1>5 DEF CInv, RowKept
    <2>2. Inspection(r)' /\ Unrecorded(r)' /\ CommitHolds(r)'
      BY <1>2, <1>8 DEF Inspection, Inspecting, Unrecorded, Private, CommitHolds, Working, Taken
    <2>3. LetGo(r)'
      BY <1>2, <2>1 DEF LetGo
    <2> QED
      BY <2>2, <2>3 DEF Keeps
  <1>10. Joins(p, r)
    BY <1>2, <1>8 DEF Joins, CInv, Keeps, Unrecorded
  <1> QED
    BY <1>0, <1>2, <1>3, <1>7, <1>9, <1>10, RowsOnly

\* A commit starts on a ready row that no other commit has locked.
LEMMA CommitStartKeeps ==
  ASSUME IInv, CInv, NEW p \in Req, NEW i \in Import, NEW sel \in SUBSET Key,
         CommitStart(p, i, sel) \/ CommitRefused(p, i, sel)
  PROVE  CInv'
  <1>0. TypeOK /\ TypeOK' /\ req[p] \in Request
    BY RequestFields, StartInv DEF IInv, Start
  <1>1. CASE CommitRefused(p, i, sel)
    <2>1. PICK r : r = [Idle EXCEPT !.imp = i, !.step = "check", !.fatal = TRUE]
      OBVIOUS
    <2>2. Move(p, r) /\ UNCHANGED <<tables, disk, job>>
      BY <1>1, <2>1 DEF CommitRefused
    <2>3. /\ r \in Request /\ ~Working(r) /\ ~Inspecting(r) /\ r.step # "drop"
          /\ r.step # "restore" /\ r.gone = NoFile
      BY <2>1, IdleIsRequest DEF Idle, Request, Steps, Working, Inspecting
    <2>4. Keeps(r)' /\ Joins(p, r)
      BY <2>3, NeedsNothing
    <2> QED
      BY <1>0, <2>2, <2>3, <2>4, RequestOnly DEF tables, disk
  <1>2. CASE CommitStart(p, i, sel)
    <2> DEFINE wanted == IF i \in Epub /\ imports[i].extra \in sel THEN imports[i].extra ELSE NoKey
    <2>1. PICK r : r = [Idle EXCEPT !.imp = i, !.step = "move", !.todo = sel,
                                    !.source = imports[i].source, !.extra = wanted,
                                    !.drop = KeysOf(i) \ sel]
      OBVIOUS
    <2>2. Move(p, r) /\ UNCHANGED <<tables, disk, job>> /\ ~Locked(i)
      BY <1>2, <2>1 DEF CommitStart, CommitRow
    <2>3. /\ r.step = "move" /\ r.imp = i /\ r.todo = sel /\ r.drop = KeysOf(i) \ sel
          /\ r.moved = {} /\ r.gone = NoFile
      BY <2>1 DEF Idle
    <2>4. r \in Request
      BY <1>0, <2>2, MoveOnly DEF TypeOK
    <2>5. imports[i].status = "ready" /\ sel \subseteq KeysOf(i)
      BY <1>2 DEF CommitStart, Selections, KeysOf
    <2>6. /\ Working(r) /\ ~Inspecting(r) /\ Private(r) = {} /\ Taken(r) = {} /\ Held(r) = {}
      BY <2>3 DEF Working, Inspecting, Private, Taken, Held
    <2>7. Keeps(r)'
      <3>1. imports' = imports
        BY <2>2 DEF tables
      <3>2. CommitHolds(r)'
        <4>1. KeysOf(i)' = KeysOf(i)
          BY <3>1 DEF KeysOf
        <4> QED
          BY <2>3, <2>5, <2>6, <3>1, <4>1 DEF CommitHolds, Held, Taken, Working
      <3>3. Inspection(r)' /\ Unrecorded(r)' /\ LetGo(r)'
        BY <2>3, <2>6 DEF Inspection, Inspecting, Unrecorded, Private, LetGo
      <3> QED
        BY <3>2, <3>3 DEF Keeps
    <2>8. Joins(p, r)
      BY <2>2, <2>3, <2>6 DEF Joins, Locked, Working
    <2> QED
      BY <1>0, <2>2, <2>4, <2>7, <2>8, RequestOnly DEF tables, disk
  <1> QED
    BY <1>1, <1>2

LEMMA FailureKeeps ==
  ASSUME IInv, CInv, NEW p \in Req, RestoreDone(p) \/ FailureCheck(p) \/ FailureMark(p)
  PROVE  CInv'
  <1>0. TypeOK /\ TypeOK' /\ req[p] \in Request /\ RequestShape(req[p])
    BY RequestFields, AfterInv DEF IInv
  <1>1. CASE RestoreDone(p) \/ FailureCheck(p)
    <2>1. PICK r : Move(p, r) /\ (\/ r = Idle
                                 \/ \E s \in {"check", "mark"} : r = [req[p] EXCEPT !.step = s])
      BY <1>1 DEF RestoreDone, FailureCheck, Close
    <2>2. r \in Request /\ UNCHANGED <<tables, disk, job>>
      BY <1>0, <1>1, <2>1, MoveOnly DEF RestoreDone, FailureCheck, TypeOK
    <2>3. Keeps(r)' /\ Joins(p, r)
      <3>1. CASE r = Idle
        BY <3>1, IdleNeedsNothing
      <3>2. CASE r # Idle
        <4>1. r.step \in {"check", "mark"} /\ r.gone = req[p].gone
          BY <1>0, <2>1, <3>2 DEF Request
        <4>2. req[p].gone = NoFile
          BY <1>0, <1>1 DEF RestoreDone, FailureCheck, RequestShape
        <4> QED
          BY <4>1, <4>2, NeedsNothing DEF Working, Inspecting
      <3> QED
        BY <3>1, <3>2
    <2> QED
      BY <1>0, <2>1, <2>2, <2>3, RequestOnly DEF tables, disk
  <1>2. CASE FailureMark(p)
    <2>1. PICK i : i = req[p].imp
      OBVIOUS
    <2>2. Move(p, Idle) /\ UNCHANGED <<stored, disk, job>> /\ ~Locked(i)
      BY <1>2, <2>1 DEF FailureMark, Close
    <2>3. CASE imports' = imports
      BY <1>0, <2>2, <2>3, IdleIsRequest, IdleNeedsNothing, RequestOnly DEF disk
    <2>4. CASE i \in Import /\ RowExists(i) /\ SetStatus(i, "failed")
      <3>1. /\ imports'[i].status = "failed" /\ imports'[i].old = imports[i].old
            /\ imports'[i].source = imports[i].source
            /\ KeysOf(i)' = KeysOf(i) /\ \A j \in Import \ {i} : imports'[j] = imports[j]
        BY <1>0, <2>4, SetStatusFields
      <3>2. /\ \A k \in KeysOf(i)' : k \in KeysOf(i)
            /\ imports'[i].status # "none" /\ imports'[i].status # "ready"
            /\ imports[i].status # "deleted"
        BY <2>4, <3>1 DEF RowExists
      <3>3. \A q \in Req : Working(req[q]) => req[q].imp # i
        BY <2>2 DEF Locked, Working
      <3>4. RowsStep(p)
        BY <2>4, <3>1, <3>2, <3>3, RowsOfOthers
      <3> QED
        BY <1>0, <2>2, <3>4, IdleIsRequest, IdleNeedsNothing, RowsOnly
    <2>5. imports' = imports \/ (i \in Import /\ RowExists(i) /\ SetStatus(i, "failed"))
      <3>1. i \notin Import => [imports EXCEPT ![i].status = "failed"] = imports
        BY <1>0 DEF TypeOK
      <3> QED
        BY <1>2, <2>1, <3>1 DEF FailureMark, SetStatus
    <2> QED
      BY <2>3, <2>4, <2>5
  <1> QED
    BY <1>1, <1>2

\* What is deleted after a transaction is named by no row.
LEMMA DropKeeps ==
  ASSUME IInv, CInv, NEW p \in Req, DropUnused(p)
  PROVE  CInv'
  <1>0. TypeOK /\ TypeOK' /\ req[p] \in Request
    BY RequestFields, AfterInv DEF IInv
  <1>1. Move(p, Idle) /\ UNCHANGED <<imports, stored, job>> /\ req[p].step = "drop"
    BY DEF DropUnused, Close, tables
  <1>2. \A f \in File : /\ perm'[f].from = perm[f].from /\ perm'[f].old = perm[f].old
                        /\ f # req[p].gone => perm'[f].present = perm[f].present
    BY <1>0 DEF DropUnused, TypeOK, PermObject
  <1>3. \A k \in Key : /\ temp'[k].old = temp[k].old
                       /\ k \notin req[p].drop => temp'[k].present = temp[k].present
    BY <1>0 DEF DropUnused, TypeOK, Object
  <1>4. DiskStep(p)
    BY <1>1, <1>2, <1>3 DEF DiskStep
  <1>5. LetGo(req[p])
    BY DEF CInv, Keeps
  <1>6. \A i \in Import : \A k \in KeysOf(i) : Kept(k) => Kept(k)'
    <2> SUFFICES ASSUME NEW i \in Import, NEW k \in KeysOf(i), Kept(k) PROVE Kept(k)'
      OBVIOUS
    <2>1. k \in Key /\ k \notin req[p].drop
      BY <1>0, <1>1, <1>5, KeysAreKeys DEF LetGo
    <2>2. \A f \in File : perm[f].from = k => f # req[p].gone
      BY <1>5, LibraryImportAssumption DEF LetGo
    <2> QED
      BY <1>2, <1>3, <2>1, <2>2 DEF Kept
  <1> QED
    BY <1>0, <1>1, <1>4, <1>6, IdleIsRequest, IdleNeedsNothing, DiskOnly

LEMMA WorksOn ==
  ASSUME IInv, CInv, NEW p \in Req, NEW r, Working(req[p]), Working(r), r.imp = req[p].imp,
         CommitHolds(r)', r.gone # NoFile => \A i \in Import : perm'[r.gone].from \notin KeysOf(i)'
  PROVE  Keeps(r)' /\ Joins(p, r)
  <1>1. ~Inspecting(r) /\ Private(r) = {} /\ r.step # "drop"
    BY DEF Working, Inspecting, Private
  <1>2. Inspection(r)' /\ Unrecorded(r)' /\ LetGo(r)'
    BY <1>1 DEF Inspection, Inspecting, Unrecorded, Private, LetGo
  <1>3. Joins(p, r)
    BY <1>1 DEF Joins, CInv, Apart
  <1> QED
    BY <1>2, <1>3 DEF Keeps

LEMMA RestoresOn ==
  ASSUME NEW p \in Req, NEW r, r.step = "restore", r.gone = NoFile,
         \A f \in r.moved : ~perm'[f].old
  PROVE  Keeps(r)' /\ Joins(p, r)
  <1>1. ~Inspecting(r) /\ ~Working(r) /\ Private(r) = {} /\ r.step # "drop" /\ Taken(r) = r.moved
    BY DEF Working, Inspecting, Private, Taken
  <1>2. Inspection(r)' /\ Unrecorded(r)' /\ LetGo(r)' /\ CommitHolds(r)'
    BY <1>1 DEF Inspection, Inspecting, Unrecorded, Private, LetGo, CommitHolds, Working, Taken
  <1> QED
    BY <1>1, <1>2 DEF Keeps, Joins

\* What a commit at work may count on.
LEMMA WorkFacts ==
  ASSUME IInv, CInv, NEW p \in Req, Working(req[p])
  PROVE  /\ req[p].imp \in Import /\ imports[req[p].imp].status = "ready"
         /\ req[p].todo \cup req[p].drop \subseteq KeysOf(req[p].imp)
         /\ \A f \in Held(req[p]) : f \in File /\ perm[f].from \in KeysOf(req[p].imp)
         /\ req[p].step = "link" => temp[perm[req[p].cur].from].present
         /\ req[p].moved \subseteq Held(req[p]) /\ \A f \in req[p].moved : ~perm[f].old
  BY TakenAreHeld DEF CInv, Keeps, CommitHolds, Taken, Held

LEMMA LinkKeeps ==
  ASSUME IInv, CInv, NEW p \in Req, NEW k \in Key, NEW f \in File, LinkPermanent(p, k, f)
  PROVE  CInv'
  <1>0. TypeOK /\ TypeOK' /\ req[p] \in Request /\ RequestShape(req[p])
    BY RequestFields, LinkInv DEF IInv
  <1>1. PICK r : r = [req[p] EXCEPT !.step = "link", !.todo = @ \ {k}, !.cur = f]
    OBVIOUS
  <1>2. /\ r \in Request /\ r.step = "link" /\ r.cur = f /\ r.moved = req[p].moved
        /\ r.imp = req[p].imp /\ r.todo = req[p].todo \ {k} /\ r.drop = req[p].drop
        /\ r.gone = req[p].gone
    BY <1>0, <1>1 DEF Request, Steps
  <1>3. /\ Move(p, r) /\ req[p].step = "move" /\ perm[f].from = NoKey /\ k \in req[p].todo
        /\ temp[k].present /\ UNCHANGED <<imports, stored, temp, job>>
    BY <1>1 DEF LinkPermanent, FreshFile, tables
  <1>4. /\ perm'[f].from = k /\ \A g \in File \ {f} : perm'[g] = perm[g]
    BY <1>0 DEF LinkPermanent, TypeOK
  <1>5. /\ Working(req[p]) /\ Working(r) /\ Held(r) = req[p].moved \cup {f}
        /\ Taken(r) = req[p].moved /\ Held(req[p]) = req[p].moved
    BY <1>2, <1>3 DEF Working, Held, Taken
  <1>6. k \in KeysOf(req[p].imp) /\ req[p].imp \in Import /\ f \notin req[p].moved
    BY <1>3, <1>5, WorkFacts, LibraryImportAssumption, KeysAreKeys, <1>0
  <1>7. DiskStep(p)
    BY <1>3, <1>4, <1>6 DEF DiskStep
  <1>8. CommitHolds(r)'
    <2>1. imports' = imports /\ KeysOf(r.imp)' = KeysOf(r.imp)
      BY <1>3 DEF KeysOf
    <2>2. \A g \in Held(r) : perm'[g].from \in KeysOf(r.imp)
      BY <1>2, <1>4, <1>5, <1>6, WorkFacts
    <2>3. temp'[perm'[r.cur].from].present
      BY <1>2, <1>3, <1>4
    <2>4. \A g \in Taken(r) : ~perm'[g].old
      BY <1>4, <1>5, <1>6, WorkFacts
    <2>5. /\ r.imp \in Import /\ imports[r.imp].status = "ready"
          /\ r.todo \cup r.drop \subseteq KeysOf(r.imp)
      BY <1>2, <1>5, WorkFacts
    <2> QED
      BY <2>1, <2>2, <2>3, <2>4, <2>5 DEF CommitHolds, Held, Taken, Working
  <1>9. Keeps(r)' /\ Joins(p, r)
    BY <1>0, <1>2, <1>3, <1>5, <1>8, WorksOn DEF RequestShape
  <1>10. \A i \in Import : \A n \in KeysOf(i) : Kept(n) => Kept(n)'
    <2> SUFFICES ASSUME NEW i \in Import, NEW n \in KeysOf(i), Kept(n) PROVE Kept(n)'
      OBVIOUS
    <2>1. n # NoKey
      BY DEF KeysOf
    <2> QED
      BY <1>3, <1>4, <2>1 DEF Kept
  <1> QED
    BY <1>0, <1>2, <1>3, <1>7, <1>9, <1>10, DiskOnly

\* The temporary name goes when the permanent one is there.
LEMMA UnlinkKeeps ==
  ASSUME IInv, CInv, NEW p \in Req, UnlinkTemporary(p)
  PROVE  CInv'
  <1>0. TypeOK /\ TypeOK' /\ req[p] \in Request /\ RequestShape(req[p])
    BY RequestFields, UnlinkInv DEF IInv
  <1>f. PICK f : f = req[p].cur
    OBVIOUS
  <1>1. PICK r : r = [req[p] EXCEPT !.step = "move", !.moved = @ \cup {f}, !.cur = NoFile]
    OBVIOUS
  <1>2. req[p].step = "link" /\ f \in File /\ f \in Held(req[p]) /\ Working(req[p])
    BY <1>0, <1>f DEF UnlinkTemporary, RequestShape, Held, Working
  <1>3. /\ r \in Request /\ r.step = "move" /\ r.moved = req[p].moved \cup {f}
        /\ r.imp = req[p].imp /\ r.todo = req[p].todo /\ r.drop = req[p].drop
        /\ r.gone = req[p].gone
    BY <1>0, <1>1, <1>2 DEF Request, Steps
  <1>4. Move(p, r) /\ UNCHANGED <<imports, stored, job>> /\ perm[f].present
    BY <1>1, <1>f DEF UnlinkTemporary, tables
  <1>k. PICK k \in Key : k = perm[f].from
    BY <1>2, TakenAreHeld
  <1>5. ~temp'[k].present /\ ~temp'[k].old /\ \A j \in Key \ {k} : temp'[j] = temp[j]
    BY <1>0, <1>f, <1>k DEF UnlinkTemporary, TempFile, TypeOK
  <1>6. /\ ~perm'[f].old /\ perm'[f].present /\ perm'[f].from = k
        /\ \A g \in File \ {f} : perm'[g] = perm[g]
    BY <1>0, <1>f, <1>2, <1>4, <1>k DEF UnlinkTemporary, TypeOK, PermObject
  <1>7. /\ Working(r) /\ Held(r) = Held(req[p]) /\ Taken(r) = req[p].moved \cup {f}
    BY <1>2, <1>3, <1>f DEF Working, Held, Taken
  <1>8. k \in KeysOf(req[p].imp) /\ req[p].imp \in Import
    BY <1>2, <1>k, WorkFacts
  <1>9. DiskStep(p)
    BY <1>2, <1>5, <1>6, <1>k, <1>8 DEF DiskStep
  <1>10. CommitHolds(r)'
    <2>1. imports' = imports /\ KeysOf(r.imp)' = KeysOf(r.imp)
      BY <1>4 DEF KeysOf
    <2>2. \A g \in Held(r) : perm'[g].from \in KeysOf(r.imp)
      BY <1>2, <1>3, <1>6, <1>7, <1>8, WorkFacts
    <2>3. r.step # "link"
      BY <1>3
    <2>4. \A g \in Taken(r) : ~perm'[g].old
      BY <1>2, <1>6, <1>7, WorkFacts
    <2>5. /\ r.imp \in Import /\ imports[r.imp].status = "ready"
          /\ r.todo \cup r.drop \subseteq KeysOf(r.imp)
      BY <1>2, <1>3, WorkFacts
    <2> QED
      BY <2>1, <2>2, <2>3, <2>4, <2>5 DEF CommitHolds, Held, Taken, Working
  <1>11. Keeps(r)' /\ Joins(p, r)
    BY <1>0, <1>2, <1>3, <1>7, <1>10, WorksOn DEF RequestShape
  <1>12. \A i \in Import : \A n \in KeysOf(i) : Kept(n) => Kept(n)'
    <2> SUFFICES ASSUME NEW i \in Import, NEW n \in KeysOf(i), Kept(n) PROVE Kept(n)'
      OBVIOUS
    <2>1. n \in Key
      BY <1>0, KeysAreKeys
    <2> QED
      <3>1. CASE n = k
        BY <1>2, <1>6, <3>1 DEF Kept
      <3>2. CASE n # k
        <4>1. temp'[n] = temp[n] /\ f \in File
          BY <1>2, <1>5, <2>1, <3>2
        <4>2. \A g \in File : perm[g].present /\ perm[g].from = n
                               => perm'[g].present /\ perm'[g].from = n
          BY <1>6, <1>k, <3>2
        <4> QED
          BY <4>1, <4>2 DEF Kept
      <3> QED
        BY <3>1, <3>2
  <1> QED
    BY <1>0, <1>3, <1>4, <1>9, <1>11, <1>12, DiskOnly

\* The cover to be replaced is a stored file, whose key no row names.
LEMMA ApplyKeeps ==
  ASSUME IInv, CInv, NEW p \in Req, Apply(p)
  PROVE  CInv'
  <1>0. TypeOK /\ TypeOK' /\ req[p] \in Request
    BY RequestFields, ApplyInv DEF IInv
  <1>g. PICK g : g = IF req[p].extra = NoKey THEN NoFile ELSE cover
    OBVIOUS
  <1>1. PICK r : r = [req[p] EXCEPT !.step = "publish", !.gone = g]
    OBVIOUS
  <1>2. req[p].step = "move" /\ Move(p, r) /\ UNCHANGED <<tables, disk, job, faults>>
    BY <1>1, <1>g DEF Apply
  <1>3. /\ r \in Request /\ r.step = "publish" /\ r.gone = g /\ r.moved = req[p].moved
        /\ r.imp = req[p].imp /\ r.todo = req[p].todo /\ r.drop = req[p].drop
    BY <1>0, <1>1, <1>g DEF Request, Steps, TypeOK
  <1>4. /\ Working(req[p]) /\ Working(r) /\ Held(r) = Held(req[p]) /\ Taken(r) = Taken(req[p])
    BY <1>2, <1>3 DEF Working, Held, Taken
  <1>5. imports' = imports /\ perm' = perm /\ temp' = temp
    BY <1>2 DEF tables, disk
  <1>6. CommitHolds(r)'
    <2>1. KeysOf(r.imp)' = KeysOf(r.imp)
      BY <1>5 DEF KeysOf
    <2>2. CommitHolds(req[p])
      BY DEF CInv, Keeps
    <2>3. r.step # "link"
      BY <1>3
    <2>4. /\ r.imp \in Import /\ imports[r.imp].status = "ready"
          /\ r.todo \cup r.drop \subseteq KeysOf(r.imp)
          /\ \A f \in Held(r) : perm[f].from \in KeysOf(r.imp)
          /\ \A f \in Taken(r) : ~perm[f].old
      BY <1>3, <1>4, <2>2 DEF CommitHolds
    <2> QED
      BY <1>5, <2>1, <2>3, <2>4 DEF CommitHolds, Held, Taken, Working
  <1>7. r.gone # NoFile => \A i \in Import : perm'[r.gone].from \notin KeysOf(i)'
    <2>1. g # NoFile => g \in stored
      BY <1>g DEF IInv, Tables, CoverIsStored
    <2>2. \A i \in Import : KeysOf(i)' = KeysOf(i)
      BY <1>5 DEF KeysOf
    <2> QED
      BY <1>3, <1>5, <2>1, <2>2 DEF CInv, RowKept
  <1>8. Keeps(r)' /\ Joins(p, r)
    BY <1>3, <1>4, <1>6, <1>7, WorksOn
  <1> QED
    BY <1>0, <1>2, <1>3, <1>8, RequestOnly DEF tables, disk

\* A rollback: the name that was linked goes, and the temporary one is there.
LEMMA RollbackKeeps ==
  ASSUME IInv, CInv, NEW p \in Req, NEW fatal \in BOOLEAN, CommitFail(p, fatal) \/ LinkFail(p)
  PROVE  CInv'
  <1>0. TypeOK /\ TypeOK' /\ req[p] \in Request /\ RequestShape(req[p])
    BY RequestFields, RollbackInv DEF IInv
  <1>1. PICK b \in BOOLEAN : Rollback(p, b)
    BY DEF CommitFail, LinkFail
  <1>2. PICK r : r = [req[p] EXCEPT !.step = "restore", !.todo = {}, !.cur = NoFile,
                                    !.source = NoKey, !.extra = NoKey, !.drop = {},
                                    !.gone = NoFile, !.fatal = b]
    OBVIOUS
  <1>3. r \in Request /\ r.step = "restore" /\ r.moved = req[p].moved /\ r.gone = NoFile
    BY <1>0, <1>2 DEF Request, Steps
  <1>4. Move(p, r) /\ UNCHANGED <<imports, stored, temp, job>> /\ Working(req[p])
    BY <1>1, <1>2 DEF Rollback, CommitFail, LinkFail, tables, disk, Working
  <1>5. CASE CommitFail(p, fatal)
    <2>1. UNCHANGED disk
      BY <1>5 DEF CommitFail
    <2>2. \A f \in r.moved : ~perm'[f].old
      BY <1>3, <1>4, <2>1, WorkFacts DEF disk
    <2>3. Keeps(r)' /\ Joins(p, r)
      BY <1>3, <2>2, RestoresOn
    <2> QED
      BY <1>0, <1>3, <1>4, <2>1, <2>3, RequestOnly
  <1>6. CASE LinkFail(p)
    <2>1. PICK f : f = req[p].cur
      OBVIOUS
    <2>2. req[p].step = "link" /\ f \in File /\ temp[perm[f].from].present
      BY <1>0, <1>4, <1>6, <2>1, WorkFacts DEF LinkFail, RequestShape
    <2>3. /\ \A g \in File : perm'[g].from = perm[g].from /\ perm'[g].old = perm[g].old
          /\ \A g \in File \ {f} : perm'[g].present = perm[g].present
      BY <1>0, <1>6, <2>1, <2>2 DEF LinkFail, TypeOK, PermObject
    <2>4. DiskStep(p)
      BY <1>4, <2>3 DEF DiskStep
    <2>5. \A g \in r.moved : ~perm'[g].old
      BY <1>3, <1>4, <2>3, WorkFacts
    <2>6. Keeps(r)' /\ Joins(p, r)
      BY <1>3, <2>5, RestoresOn
    <2>7. \A i \in Import : \A n \in KeysOf(i) : Kept(n) => Kept(n)'
      BY <1>4, <2>2, <2>3 DEF Kept
    <2> QED
      BY <1>0, <1>3, <1>4, <2>4, <2>6, <2>7, DiskOnly
  <1> QED
    BY <1>5, <1>6

\* The row gives up its keys when the files have theirs.
LEMMA PublishKeeps ==
  ASSUME IInv, CInv, NEW p \in Req, Publish(p)
  PROVE  CInv'
  <1>0. /\ TypeOK /\ TypeOK' /\ req[p] \in Request /\ RequestShape(req[p]) /\ RequestFiles(req[p])
    BY CommitFacts, PublishInv DEF IInv
  <1>1. PICK r : r = [req[p] EXCEPT !.step = "drop"]
    OBVIOUS
  <1>2. /\ req[p].step = "publish" /\ Move(p, r) /\ UNCHANGED <<disk, job, faults>>
        /\ stored' = (stored \cup req[p].moved) \ {req[p].gone}
    BY <1>1 DEF Publish, Published
  <1>3. /\ r \in Request /\ r.step = "drop" /\ r.gone = req[p].gone /\ r.drop = req[p].drop
    BY <1>0, <1>1 DEF Request, Steps
  <1>i. PICK i : i = req[p].imp
    OBVIOUS
  <1>4. /\ Working(req[p]) /\ i \in Import /\ imports[i].status = "ready"
        /\ req[p].drop \subseteq KeysOf(i)
        /\ \A f \in req[p].moved : f \in File /\ perm[f].from \in KeysOf(i)
    <2>1. Working(req[p])
      BY <1>2 DEF Working
    <2> QED
      BY <1>i, <2>1, WorkFacts
  <1>5. /\ imports'[i].status = "succeeded" /\ imports'[i].old = imports[i].old
        /\ imports'[i].source = NoKey /\ imports'[i].extra = NoKey
        /\ \A j \in Import \ {i} : imports'[j] = imports[j]
    <2>1. PICK g : g = MovedFrom(p, req[p].source)
      OBVIOUS
    <2>2. imports' = [imports EXCEPT ![i].status = "succeeded", ![i].source = NoKey,
                                     ![i].extra = NoKey, ![i].file = g]
      BY <1>i, <2>1 DEF Publish, Published
    <2> QED
      BY <1>0, <1>4, <2>2 DEF TypeOK, ImportRow
  <1>6. KeysOf(i)' = {} /\ \A j \in Import \ {i} : KeysOf(j)' = KeysOf(j)
    BY <1>5 DEF KeysOf
  <1>7. \A j \in Import : KeysOf(j)' \cap KeysOf(i) = {} /\ KeysOf(j)' \subseteq KeysOf(j)
    BY <1>4, <1>6 DEF CInv, RowKept
  <1>8. RowsStep(p)
    <2>1. \A q \in Req \ {p} : /\ Working(req[q]) => req[q].imp # i
                               /\ Inspecting(req[q]) => req[q].imp # i
      BY <1>4, <1>i DEF CInv, Keeps, Inspection, Apart
    <2>2. imports'[i].status # "none" /\ imports'[i].status # "ready"
      BY <1>5
    <2> QED
      BY <1>4, <1>5, <1>6, <2>1, <2>2, RowsOfOthers
  <1>9. DiskStep(p)
    BY <1>2 DEF DiskStep, disk
  <1>10. /\ ~Working(r) /\ ~Inspecting(r) /\ Private(r) = {} /\ Taken(r) = {}
    BY <1>3 DEF Working, Inspecting, Private, Taken
  <1>11. Keeps(r)'
    <2>1. LetGo(req[p])
      BY DEF CInv, Keeps
    <2>2. r.gone # NoFile => \A j \in Import : perm'[r.gone].from \notin KeysOf(j)'
      BY <1>2, <1>3, <1>7, <2>1 DEF LetGo, disk
    <2>3. \A j \in Import : r.drop \cap KeysOf(j)' = {}
      BY <1>3, <1>4, <1>7
    <2>4. LetGo(r)'
      BY <2>2, <2>3 DEF LetGo
    <2>5. Inspection(r)' /\ Unrecorded(r)' /\ CommitHolds(r)'
      BY <1>3, <1>10 DEF Inspection, Inspecting, Unrecorded, Private, CommitHolds, Working, Taken
    <2> QED
      BY <2>4, <2>5 DEF Keeps
  <1>12. Joins(p, r)
    BY <1>3, <1>4, <1>10 DEF Joins, CInv, Keeps, Unrecorded
  <1>13. \A j \in Import : \A k \in KeysOf(j)' : Kept(k)'
    <2> SUFFICES ASSUME NEW j \in Import, NEW k \in KeysOf(j)' PROVE Kept(k)'
      OBVIOUS
    <2>1. Kept(k)
      BY <1>7 DEF CInv, RowKept
    <2> QED
      BY <1>2, <2>1 DEF Kept, disk
  <1>14. \A f \in stored' \ stored : \A j \in Import : perm'[f].from \notin KeysOf(j)'
    <2>1. perm' = perm
      BY <1>2 DEF disk
    <2> QED
      BY <1>2, <1>4, <1>7, <2>1
  <1> QED
    BY <1>0, <1>2, <1>3, <1>8, <1>9, <1>11, <1>12, <1>13, <1>14, StepKeepsContent

\* An object goes back in one step, as a new temporary one.
LEMMA RestoreKeeps ==
  ASSUME IInv, CInv, NEW p \in Req, NEW f \in File, Restore(p, f) \/ RestoreFail(p, f)
  PROVE  CInv'
  <1>0. TypeOK /\ TypeOK' /\ req[p] \in Request /\ RequestShape(req[p])
    BY CommitFacts, RestoreInv DEF IInv
  <1>1. PICK r : r = [req[p] EXCEPT !.moved = @ \ {f}]
    OBVIOUS
  <1>2. /\ req[p].step = "restore" /\ f \in req[p].moved /\ Move(p, r)
        /\ UNCHANGED <<imports, stored, job>>
    BY <1>1 DEF Restore, RestoreFail, RestoreTodo, tables
  <1>3. r \in Request /\ r.step = "restore" /\ r.moved = req[p].moved \ {f} /\ r.gone = NoFile
    BY <1>0, <1>1, <1>2 DEF Request, RequestShape
  <1>4. \A g \in req[p].moved : ~perm[g].old /\ g \in File
    <2>1. Taken(req[p]) = req[p].moved
      BY <1>2 DEF Taken
    <2> QED
      BY <2>1, TakenAreHeld DEF CInv, Keeps, CommitHolds
  <1>5. CASE UNCHANGED disk
    <2>1. Keeps(r)' /\ Joins(p, r)
      BY <1>3, <1>4, <1>5, RestoresOn DEF disk
    <2> QED
      BY <1>0, <1>2, <1>3, <1>5, <2>1, RequestOnly
  <1>6. CASE Restore(p, f) /\ ~UNCHANGED disk
    <2>1. PICK k : k = perm[f].from
      OBVIOUS
    <2>2. k \in Key
      <3>1. f \in Taken(req[p])
        BY <1>2 DEF Taken
      <3> QED
        BY <2>1, <3>1, TakenAreHeld
    <2>3. TempFile(k, TRUE, FALSE) /\ perm' = [perm EXCEPT ![f].present = FALSE]
      <3>1. perm[f].old = FALSE
        BY <1>0, <1>2, <1>4 DEF TypeOK, PermObject
      <3> QED
        BY <1>6, <2>1, <3>1 DEF Restore
    <2>4. temp'[k].present /\ ~temp'[k].old /\ \A j \in Key \ {k} : temp'[j] = temp[j]
      BY <1>0, <2>2, <2>3 DEF TempFile, TypeOK
    <2>5. /\ \A g \in File : perm'[g].from = perm[g].from /\ perm'[g].old = perm[g].old
          /\ \A g \in File \ {f} : perm'[g].present = perm[g].present
      BY <1>0, <2>3 DEF TypeOK, PermObject
    <2>6. DiskStep(p)
      BY <2>4, <2>5 DEF DiskStep
    <2>7. Keeps(r)' /\ Joins(p, r)
      BY <1>3, <1>4, <2>5, RestoresOn
    <2>8. \A i \in Import : \A n \in KeysOf(i) : Kept(n) => Kept(n)'
      <3> SUFFICES ASSUME NEW i \in Import, NEW n \in KeysOf(i), Kept(n) PROVE Kept(n)'
        OBVIOUS
      <3>1. n \in Key
        BY <1>0, KeysAreKeys
      <3>2. CASE n = k
        BY <2>4, <3>2 DEF Kept
      <3>3. CASE n # k
        <4>1. temp'[n] = temp[n]
          BY <2>4, <3>1, <3>3
        <4>2. \A g \in File : perm[g].present /\ perm[g].from = n
                               => perm'[g].present /\ perm'[g].from = n
          BY <2>1, <2>5, <3>3
        <4> QED
          BY <4>1, <4>2 DEF Kept
      <3> QED
        BY <3>2, <3>3
    <2> QED
      BY <1>0, <1>2, <1>3, <2>6, <2>7, <2>8, DiskOnly
  <1> QED
    BY <1>5, <1>6 DEF RestoreFail

\* A step of the cleanup or of the clock keeps what the imports need if it loses
\* no key that a row names or an inspection holds.
LEMMA OutsideContent ==
  ASSUME IInv, CInv, UNCHANGED <<stored, req>>,
         \A i \in Import :
            \/ imports'[i] = imports[i]
            \/ /\ KeysOf(i)' = {} /\ imports'[i].status = "failed"
               /\ \A q \in Req : Inspecting(req[q]) \/ Working(req[q]) => req[q].imp # i,
         \A f \in File : /\ perm'[f].from = perm[f].from
                         /\ perm'[f].present = perm[f].present /\ perm'[f].old = perm[f].old,
         \A k \in Key : /\ temp'[k].old = temp[k].old
                        /\ temp[k].present /\ ~temp'[k].present =>
                             /\ \A i \in Import : k \notin KeysOf(i)
                             /\ temp[k].old \/ k \in job.expired,
         \A i \in Import : KeysOf(i)' \cap job'.expired = {},
         \A k \in job'.expired : k \in job.expired \/ \E i \in Import : k \in KeysOf(i),
         \A i \in Import : \A k \in KeysOf(i)' :
            job'.step \in {"expired", "sweep"} => k \in job'.keep \/ ~temp[k].old
  PROVE  CInv'
  <1>0. TypeOK
    BY DEF IInv
  <1>1. \A i \in Import : KeysOf(i)' \subseteq KeysOf(i) /\ KeysOf(i) \subseteq Key
    BY <1>0, KeysAreKeys DEF KeysOf
  <1>2. \A i \in Import : RowKept(i)'
    <2> SUFFICES ASSUME NEW i \in Import PROVE RowKept(i)'
      OBVIOUS
    <2>1. RowKept(i) /\ \A j \in Import : RowKept(j)
      BY DEF CInv
    <2>2. /\ imports'[i].status = "none" => ~imports'[i].old
          /\ imports'[i].status = "ready" => imports'[i].source # NoKey
      BY <2>1 DEF RowKept
    <2>3. \A j \in Import \ {i} : KeysOf(i)' \cap KeysOf(j)' = {}
      BY <1>1, <2>1 DEF RowKept
    <2>4. \A k \in KeysOf(i)' :
             Kept(k)' /\ (job'.step \in {"expired", "sweep"} => k \in job'.keep \/ ~temp'[k].old)
      <3> SUFFICES ASSUME NEW k \in KeysOf(i)'
                   PROVE  Kept(k)' /\ (job'.step \in {"expired", "sweep"} =>
                                         k \in job'.keep \/ ~temp'[k].old)
        OBVIOUS
      <3>1. k \in Key /\ k \in KeysOf(i) /\ Kept(k)
        BY <1>1, <2>1 DEF RowKept
      <3>2. Kept(k)'
        BY <3>1 DEF Kept
      <3> QED
        BY <3>1, <3>2
    <2>5. \A f \in stored' : perm'[f].from \notin KeysOf(i)'
      BY <1>0, <1>1, <2>1 DEF RowKept, TypeOK
    <2> QED
      BY <2>2, <2>3, <2>4, <2>5 DEF RowKept, Kept
  <1>3. ASSUME NEW q \in Req PROVE Keeps(req[q])'
    <2> DEFINE s == req[q]
    <2>1. req'[q] = s /\ s \in Request
      BY <1>0, RequestFields
    <2>2. Inspection(s) /\ Unrecorded(s) /\ CommitHolds(s) /\ LetGo(s)
      BY DEF CInv, Keeps
    <2>3. Inspection(req[q])'
      BY <2>1, <2>2 DEF Inspection, Inspecting, RowExists
    <2>4. Unrecorded(req[q])'
      <3>1. \A k \in Private(s) : /\ k \in Key /\ temp'[k].present /\ ~temp'[k].old
                                  /\ k \notin job'.expired
                                  /\ \A i \in Import : k \notin KeysOf(i)'
                                  /\ \A f \in File : perm'[f].from # k
        BY <1>1, <2>2 DEF Unrecorded
      <3> QED
        BY <2>1, <3>1 DEF Unrecorded, Private, KeysOf
    <2>5. LetGo(req[q])'
      <3>1. s.gone # NoFile => s.gone \in File
        BY <2>1 DEF Request
      <3>2. /\ s.gone # NoFile => \A i \in Import : perm'[s.gone].from \notin KeysOf(i)'
            /\ s.step = "drop" => \A i \in Import : s.drop \cap KeysOf(i)' = {}
        BY <1>1, <2>2, <3>1 DEF LetGo
      <3> QED
        BY <2>1, <3>2 DEF LetGo, KeysOf
    <2>6. CommitHolds(req[q])'
      <3>1. \A f \in Held(s) : f \in File /\ perm'[f].from = perm[f].from
        BY TakenAreHeld
      <3>2. \A f \in Taken(s) : ~perm'[f].old
        BY <2>2, <3>1, TakenAreHeld DEF CommitHolds
      <3>3. Working(s) => s.imp \in Import /\ imports'[s.imp] = imports[s.imp]
        BY <2>2 DEF CommitHolds
      <3>4. Working(s) => KeysOf(s.imp)' = KeysOf(s.imp)
        BY <2>1, <3>3 DEF KeysOf
      <3>5. Working(s) => /\ imports'[s.imp].status = "ready"
                          /\ s.todo \cup s.drop \subseteq KeysOf(s.imp)'
                          /\ \A f \in Held(s) : perm'[f].from \in KeysOf(s.imp)'
        BY <2>2, <3>1, <3>3, <3>4 DEF CommitHolds
      <3>6. s.step = "link" => temp'[perm'[s.cur].from].present
        <4> SUFFICES ASSUME s.step = "link" PROVE temp'[perm'[s.cur].from].present
          OBVIOUS
        <4>1. Working(s) /\ s.cur \in Held(s)
          BY DEF Working, Held
        <4>2. /\ temp[perm[s.cur].from].present /\ perm[s.cur].from \in KeysOf(s.imp)
              /\ perm[s.cur].from \in Key /\ s.imp \in Import
          BY <1>1, <2>2, <4>1 DEF CommitHolds
        <4> QED
          BY <3>1, <4>1, <4>2
      <3> QED
        BY <2>1, <3>2, <3>3, <3>5, <3>6 DEF CommitHolds, Held, Taken, Working, KeysOf
    <2> QED
      BY <2>3, <2>4, <2>5, <2>6 DEF Keeps
  <1>4. Apart'
    BY DEF CInv, Apart, Inspecting, Working, Private
  <1> QED
    BY <1>2, <1>3, <1>4 DEF CInv

\* What the cleanup deletes, no row names: an expired import gave up its keys
\* with its row, and the keys that are old when it sweeps were read before.
LEMMA CleanupKeeps ==
  ASSUME IInv, CInv, ~DeleteOrphans, JobStart \/ JobNext \/ UNCHANGED vars
  PROVE  CInv'
  <1>0. TypeOK
    BY DEF IInv
  <1>r. \A i \in Import : RowKept(i) /\ KeysOf(i) \subseteq Key
    BY <1>0, KeysAreKeys DEF CInv
  <1>1. CASE JobStart
    <2>1. \A q \in Req : Inspecting(req[q]) \/ Working(req[q]) => req[q].imp \notin Stale
      <3> SUFFICES ASSUME NEW q \in Req, Inspecting(req[q]) \/ Working(req[q])
                   PROVE  req[q].imp \notin Stale
        OBVIOUS
      <3>1. CASE Inspecting(req[q])
        BY <3>1, OwnRow DEF Stale
      <3>2. CASE Working(req[q])
        BY <3>2 DEF Stale, Locked, Working
      <3> QED
        BY <3>1, <3>2
    <2>2. \A i \in Import : IF i \in Stale THEN /\ KeysOf(i)' = {} /\ imports'[i].status = "failed"
                            ELSE imports'[i] = imports[i] /\ KeysOf(i)' = KeysOf(i)
      BY <1>0, <1>1 DEF JobStart, TypeOK, ImportRow, KeysOf
    <2>3. job'.expired = UNION {KeysOf(i) : i \in Stale} /\ job'.step = "referenced"
      BY <1>1 DEF JobStart, NoJob
    <2>4. \A k \in job'.expired : \E i \in Stale : k \in KeysOf(i)
      BY <2>3
    <2>5. Stale \subseteq Import
      BY DEF Stale
    <2>6. \A i \in Import : KeysOf(i)' \cap job'.expired = {}
      BY <1>r, <2>2, <2>4, <2>5 DEF RowKept
    <2>7. UNCHANGED <<stored, req, disk>>
      BY <1>1 DEF JobStart
    <2> QED
      BY <2>1, <2>2, <2>3, <2>4, <2>5, <2>6, <2>7, OutsideContent DEF disk
  <1>2. CASE JobReferenced \/ JobRemaining \/ JobList \/ JobListOld \/ JobEnd \/ UNCHANGED vars
    <2>1. UNCHANGED <<imports, stored, req, disk>>
      BY <1>2 DEF JobReferenced, JobRemaining, JobList, JobListOld, JobEnd, vars, tables, disk
    <2>2. \A i \in Import : KeysOf(i)' = KeysOf(i)
      BY <2>1 DEF KeysOf
    <2>3. job'.expired = job.expired \/ job'.expired = {}
      <3>0. job \in Job
        BY <1>0 DEF TypeOK
      <3>1. CASE JobReferenced \/ JobRemaining \/ UNCHANGED vars
        BY <3>0, <3>1 DEF JobReferenced, JobRemaining, vars, Job
      <3>2. CASE JobList
        BY <3>0, <3>2 DEF JobList, Job
      <3>3. CASE JobListOld
        BY <3>0, <3>3 DEF JobListOld, Job
      <3>4. CASE JobEnd
        BY <3>4 DEF JobEnd, NoJob
      <3> QED
        BY <1>2, <3>1, <3>2, <3>3, <3>4
    <2>4. \A i \in Import : \A k \in KeysOf(i)' :
            job'.step \in {"expired", "sweep"} => k \in job'.keep \/ ~temp[k].old
      <3>1. CASE JobRemaining
        <4>1. job'.keep = Remaining
          BY <1>0, <3>1 DEF JobRemaining, TypeOK, Job
        <4> QED
          BY <2>2, <4>1 DEF Remaining
      <3>2. CASE UNCHANGED vars
        BY <1>r, <2>2, <3>2 DEF RowKept, vars
      <3>3. CASE JobReferenced \/ JobList \/ JobListOld \/ JobEnd
        <4>1. job'.step \notin {"expired", "sweep"}
          <5>0. job \in Job
            BY <1>0 DEF TypeOK
          <5>1. CASE JobReferenced
            BY <5>0, <5>1 DEF JobReferenced, Job
          <5>2. CASE JobList
            BY <5>0, <5>2 DEF JobList, Job
          <5>3. CASE JobListOld
            BY <5>0, <5>3 DEF JobListOld, Job
          <5>4. CASE JobEnd
            BY <5>4 DEF JobEnd, NoJob
          <5> QED
            BY <3>3, <5>1, <5>2, <5>3, <5>4
        <4> QED
          BY <4>1
      <3> QED
        BY <1>2, <3>1, <3>2, <3>3
    <2>5. \A i \in Import : KeysOf(i)' \cap job'.expired = {}
      BY <1>r, <2>2, <2>3 DEF RowKept
    <2> QED
      BY <2>1, <2>3, <2>4, <2>5, OutsideContent DEF disk
  <1>3. CASE JobDeleteExpired \/ JobSweep
    <2>1. /\ UNCHANGED <<imports, stored, req, perm>> /\ job'.expired = job.expired
          /\ job'.keep = job.keep
      BY <1>0, <1>3 DEF JobDeleteExpired, JobSweep, tables, TypeOK, Job
    <2>2. \A i \in Import : KeysOf(i)' = KeysOf(i)
      BY <2>1 DEF KeysOf
    <2>3. /\ job.step = "sweep" \/ job.step = "expired"
          /\ \A k \in Key : /\ temp'[k].old = temp[k].old
                            /\ temp[k].present /\ ~temp'[k].present =>
                                 \/ job.step = "sweep" /\ temp[k].old /\ k \notin job.keep
                                 \/ k \in job.expired
      <3>1. CASE JobDeleteExpired
        BY <1>0, <3>1 DEF JobDeleteExpired, TypeOK, Object
      <3>2. CASE JobSweep
        BY <1>0, <3>2 DEF JobSweep, SweepKeys, TypeOK, Object
      <3> QED
        BY <1>3, <3>1, <3>2
    <2>4. \A i \in Import : \A k \in KeysOf(i) : /\ k \in job.keep \/ ~temp[k].old
                                                 /\ k \notin job.expired
      BY <1>r, <2>3 DEF RowKept
    <2>5. \A k \in Key : temp[k].present /\ ~temp'[k].present =>
             /\ \A i \in Import : k \notin KeysOf(i)
             /\ temp[k].old \/ k \in job.expired
      BY <2>3, <2>4
    <2> QED
      BY <2>1, <2>2, <2>3, <2>4, <2>5, OutsideContent
  <1>4. ~\E f \in File : JobDeleteOrphan(f)
    BY DEF JobDeleteOrphan
  <1> QED
    BY <1>1, <1>2, <1>3, <1>4 DEF JobNext

\* Without a request, only what the rows say remains to be kept.
LEMMA NoRequestKeeps ==
  ASSUME \A p \in Req : req[p] = Idle
  PROVE  Apart /\ \A p \in Req : Keeps(req[p])
  <1>1. /\ ~Inspecting(Idle) /\ ~Working(Idle) /\ Private(Idle) = {} /\ Taken(Idle) = {}
        /\ Idle.step = "idle" /\ Idle.gone = NoFile
    BY DEF Inspecting, Working, Private, Taken, Idle
  <1>2. Keeps(Idle)
    BY <1>1 DEF Keeps, Inspection, Unrecorded, CommitHolds, LetGo
  <1>3. Apart
    BY <1>1 DEF Apart
  <1> QED
    BY <1>2, <1>3

LEMMA ClockKeeps ==
  ASSUME IInv, CInv, TimePasses
  PROVE  CInv'
  <1>0. TypeOK
    BY DEF IInv
  <1>1. (\A p \in Req : req[p] = Idle) /\ job = NoJob /\ UNCHANGED <<stored, req, job>>
    BY DEF TimePasses, Quiet
  <1>2. \A i \in Import : /\ imports'[i].status = imports[i].status
                          /\ imports'[i].source = imports[i].source
                          /\ imports'[i].extra = imports[i].extra
                          /\ imports'[i].status = "none" => ~imports'[i].old
    BY <1>0 DEF TimePasses, TypeOK, ImportRow, RowExists
  <1>3. \A i \in Import : KeysOf(i)' = KeysOf(i) /\ KeysOf(i) \subseteq Key
    BY <1>0, <1>2, KeysAreKeys DEF KeysOf
  <1>4. /\ \A k \in Key : temp'[k].present = temp[k].present
        /\ \A f \in File : perm'[f].present = perm[f].present /\ perm'[f].from = perm[f].from
    BY <1>0 DEF TimePasses, TypeOK, Object, PermObject
  <1>5. \A i \in Import : RowKept(i)'
    <2> SUFFICES ASSUME NEW i \in Import PROVE RowKept(i)'
      OBVIOUS
    <2>1. RowKept(i)
      BY DEF CInv
    <2>2. job'.step = "idle" /\ job'.expired = {}
      BY <1>1 DEF NoJob
    <2>3. \A k \in KeysOf(i)' : Kept(k)'
      <3> SUFFICES ASSUME NEW k \in KeysOf(i)' PROVE Kept(k)'
        OBVIOUS
      <3>1. k \in Key /\ Kept(k)
        BY <1>3, <2>1 DEF RowKept
      <3> QED
        BY <1>4, <3>1 DEF Kept
    <2>4. \A f \in stored' : perm'[f].from \notin KeysOf(i)'
      BY <1>0, <1>1, <1>3, <1>4, <2>1 DEF RowKept, TypeOK
    <2>5. \A j \in Import \ {i} : KeysOf(i)' \cap KeysOf(j)' = {}
      BY <1>3, <2>1 DEF RowKept
    <2>6. imports'[i].status = "ready" => imports'[i].source # NoKey
      BY <1>2, <2>1 DEF RowKept
    <2> QED
      BY <1>2, <2>2, <2>3, <2>4, <2>5, <2>6 DEF RowKept, Kept
  <1>6. (\A p \in Req : req[p] = Idle)'
    BY <1>1
  <1>7. (Apart /\ \A p \in Req : Keeps(req[p]))'
    BY <1>6, NoRequestKeeps, PTL
  <1> QED
    BY <1>5, <1>7 DEF CInv

LEMMA CrashKeeps ==
  ASSUME IInv, CInv, Crash
  PROVE  CInv'
  <1>1. UNCHANGED <<tables, disk, job>> /\ (\A p \in Req : req[p] = Idle)'
    BY DEF Crash
  <1>2. (Apart /\ \A p \in Req : Keeps(req[p]))'
    BY <1>1, NoRequestKeeps, PTL
  <1>3. \A i \in Import : RowKept(i)'
    BY <1>1 DEF CInv, RowKept, Kept, KeysOf, tables, disk
  <1> QED
    BY <1>2, <1>3 DEF CInv

LEMMA InitCInv == Init => CInv
  <1> SUFFICES ASSUME Init PROVE CInv
    OBVIOUS
  <1>1. Apart /\ \A p \in Req : Keeps(req[p])
    BY NoRequestKeeps DEF Init
  <1>2. \A i \in Import : RowKept(i)
    BY DEF Init, RowKept, KeysOf, NoJob
  <1> QED
    BY <1>1, <1>2 DEF CInv

LEMMA NextCInv ==
  ASSUME ~DeleteOrphans
  PROVE  IInv /\ CInv /\ [Next]_vars => CInv'
  <1> SUFFICES ASSUME IInv, CInv, [Next]_vars PROVE CInv'
    OBVIOUS
  <1>1. ASSUME NEW p \in Req, Start(p) PROVE CInv'
    BY <1>1, StartKeeps, DeleteKeeps, CommitStartKeeps DEF Start
  <1>2. ASSUME NEW p \in Req, Inspect(p) PROVE CInv'
    BY <1>2, ProcessKeeps, RecordKeeps, WriteKeeps, PlainKeeps, InspectEndKeeps DEF Inspect
  <1>3. ASSUME NEW p \in Req, Commit(p) PROVE CInv'
    BY <1>3, LinkKeeps, UnlinkKeeps, ApplyKeeps, RollbackKeeps, PublishKeeps, RestoreKeeps,
       FailureKeeps DEF Commit
  <1>4. ASSUME NEW p \in Req, DropUnused(p) PROVE CInv'
    BY <1>4, DropKeeps
  <1>5. CASE JobStart \/ JobNext \/ UNCHANGED vars
    BY <1>5, CleanupKeeps
  <1>6. CASE TimePasses
    BY <1>6, ClockKeeps
  <1>7. CASE Crash
    BY <1>7, CrashKeeps
  <1> QED
    BY <1>1, <1>2, <1>3, <1>4, <1>5, <1>6, <1>7 DEF Next, Server, Continue

\* Without --delete-orphans, what a ready preview needs for its commit is there,
\* in the temporary directory or where a commit has moved it: whatever commits
\* fail, restore and crash, and whatever expires and is swept meanwhile.
THEOREM PreviewsStayWhole ==
  ASSUME ~DeleteOrphans
  PROVE  Spec => []ReadyContentKept
  <1>1. IInv /\ CInv => ReadyContentKept
    <2> SUFFICES ASSUME IInv, CInv, NEW i \in Import, imports[i].status = "ready",
                        NEW k \in Needed(i)
                 PROVE  Kept(k)
      BY DEF ReadyContentKept, Kept
    <2>1. RowKept(i)
      BY DEF CInv
    <2>2. Needed(i) \subseteq KeysOf(i)
      BY <2>1 DEF Needed, KeysOf, RowKept
    <2> QED
      BY <2>1, <2>2 DEF RowKept
  <1> QED
    BY <1>1, Invariance, InitCInv, NextCInv, PTL DEF Spec
=============================================================================
