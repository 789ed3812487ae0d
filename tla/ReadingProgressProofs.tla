------------------------ MODULE ReadingProgressProofs ------------------------
(***************************************************************************)
(* Proofs about ReadingProgress for any number of devices, requests,       *)
(* positions, versions and file revisions: its types, that a version names *)
(* one position, that the file revision never goes back, and that every    *)
(* behaviour is one of the register of ADR 0011.                           *)
(***************************************************************************)
EXTENDS ReadingProgress, TLAPS

\* Two requests never hold the row at the same time.
OneHolder ==
    \A p, q \in Req : req[p].step = "commit" /\ req[q].step = "commit" => p = q

\* What an open request has established.
Work(p) ==
    LET r == req[p]
    IN  /\ r.step = "idle" <=> r.op = "none"
        /\ r.op # "none" => r.dev \in Device /\ r.revision \in 1 .. revision
        /\ r.op = "open" => r.step \in {"read", "commit"}
        /\ r.op = "save" =>
             /\ r.place \in Place
             /\ r.expected \in Known(r.dev) /\ r.expected < MaxVersion
             /\ row.version = r.expected => row.revision <= r.revision
        /\ r.step = "insert" => r.op = "save" /\ r.expected = 0
        /\ r.step = "commit" =>
             /\ row.version < MaxVersion
             /\ r.op = "save" => row.version = r.expected

\* What a device was told is not newer than the row, and agrees with it.
ToldIsOld ==
    \A d \in Device : \A t \in told[d] :
        t.version <= row.version /\ (t.version = row.version => t = row)

\* Two devices that were told of one version were told the same.
ToldAgree ==
    \A d, e \in Device : \A s \in told[d], t \in told[e] : s.version = t.version => s = t

IInv ==
    /\ TypeOK
    /\ OneHolder
    /\ \A p \in Req : Work(p)
    /\ row.revision <= revision
    /\ ToldIsOld
    /\ ToldAgree

-----------------------------------------------------------------------------
(* Rows and answers.                                                       *)

\* The fields of the row.
LEMMA RowFields ==
    ASSUME row \in Position \cup {NoRow}
    PROVE  /\ row.version \in 0 .. MaxVersion
           /\ row.revision \in 0 .. MaxRevision
           /\ row.version = 0 <=> row = NoRow
           /\ row # NoRow => row \in Position /\ row.version >= 1
  BY ReadingProgressAssumption DEF Position, NoRow

\* An answer adds one version to those its device knows.
LEMMA AnswerKnown ==
    ASSUME told \in [Device -> SUBSET Position],
           NEW d \in Device, NEW n \in Position,
           Answer(d, n)
    PROVE  /\ told' \in [Device -> SUBSET Position]
           /\ told'[d] = told[d] \cup {n}
           /\ \A e \in Device \ {d} : told'[e] = told[e]
           /\ Known(d)' = Known(d) \cup {n.version}
           /\ \A e \in Device \ {d} : Known(e)' = Known(e)
  <1>1. told' = [told EXCEPT ![d] = told[d] \cup {n}]
    BY DEF Answer
  <1>2. told' \in [Device -> SUBSET Position] /\ told'[d] = told[d] \cup {n}
    BY <1>1
  <1>3. \A e \in Device \ {d} : told'[e] = told[e]
    BY <1>1
  <1>4. Known(d)' = Known(d) \cup {n.version}
    BY <1>2 DEF Known
  <1>5. \A e \in Device \ {d} : Known(e)' = Known(e)
    BY <1>3 DEF Known
  <1> QED
    BY <1>2, <1>3, <1>4, <1>5

\* A step that ends or moves one request, with the row and the answers as they
\* were, preserves the invariant if the request's new record is in order.
LEMMA MoveInv ==
    ASSUME IInv, NEW p \in Req, NEW r \in Request,
           req' = [req EXCEPT ![p] = r],
           UNCHANGED <<row, revision, told>>,
           Work(p)',
           r.step = "commit" => Free(p)
    PROVE  IInv'
  <1>1. TypeOK'
    BY DEF IInv, TypeOK
  <1>2. \A q \in Req \ {p} : req'[q] = req[q]
    BY DEF IInv, TypeOK
  <1>3. req'[p] = r
    BY DEF IInv, TypeOK
  <1>4. OneHolder'
    BY <1>2, <1>3 DEF IInv, OneHolder, Free
  <1>5. ASSUME NEW q \in Req PROVE Work(q)'
    <2>1. CASE q = p
      BY <2>1
    <2>2. CASE q # p
      <3>1. req'[q] = req[q]
        BY <2>2, <1>2
      <3>2. Known(req[q].dev)' = Known(req[q].dev) BY <3>1 DEF Known
      <3> QED
        BY <3>1, <3>2 DEF IInv, Work
    <2> QED
      BY <2>1, <2>2
  <1> QED
    BY <1>1, <1>4, <1>5 DEF IInv, ToldIsOld, ToldAgree

\* The commit of a request writes the row it holds and answers with it.
LEMMA CommitInv ==
    ASSUME IInv, NEW p \in Req, NEW n \in Position,
           req[p].step = "commit",
           n = row \/ n.version = row.version + 1,
           row.revision <= n.revision, n.revision <= revision,
           row' = n, Answer(req[p].dev, n), End(p),
           revision' = revision
    PROVE  IInv'
  <1>1. PICK d \in Device : d = req[p].dev
    BY DEF IInv, Work
  <1>2. told \in [Device -> SUBSET Position]
    BY DEF IInv, TypeOK
  <1>3. /\ told' \in [Device -> SUBSET Position]
        /\ told'[d] = told[d] \cup {n}
        /\ \A e \in Device \ {d} : told'[e] = told[e]
    <2>1. Answer(d, n)
      BY <1>1 DEF Answer
    <2> QED
      BY <2>1, <1>2, AnswerKnown
  <1>4. /\ req' \in [Req -> Request] /\ req'[p] = Idle
        /\ \A q \in Req \ {p} : req'[q] = req[q]
    BY ReadingProgressAssumption DEF IInv, TypeOK, End, Request, Idle
  <1>5. TypeOK'
    BY <1>3, <1>4 DEF IInv, TypeOK
  <1>6. OneHolder'
    BY <1>4 DEF IInv, OneHolder, Idle
  <1>7. /\ row.version \in Nat /\ n.version \in Nat /\ row.version <= n.version
        /\ row.revision \in Nat /\ n.revision \in Nat /\ revision \in Nat
    BY RowFields, ReadingProgressAssumption DEF IInv, TypeOK, Position
  <1>8. ASSUME NEW q \in Req PROVE Work(q)'
    <2>1. CASE q = p
      BY <2>1, <1>4 DEF Work, Idle
    <2>2. CASE q # p
      <3>1. req'[q] = req[q] /\ req[q].step # "commit"
        BY <2>2, <1>4 DEF IInv, OneHolder
      <3>2. req[q].op # "none" => told[req[q].dev] \subseteq told'[req[q].dev]
        BY <1>3 DEF IInv, Work
      <3>3. ASSUME req[q].op = "save", n.version = req[q].expected
            PROVE  n.revision <= req[q].revision
        <4>1. req[q].dev \in Device /\ req[q].expected \in Known(req[q].dev)
          BY <3>3 DEF IInv, Work
        <4>2. req[q].expected <= row.version
          BY <4>1, <1>7 DEF IInv, ToldIsOld, Known
        <4>3. n = row
          BY <3>3, <4>2, <1>7
        <4> QED
          BY <3>3, <4>3 DEF IInv, Work
      <3> QED
        BY <3>1, <3>2, <3>3 DEF IInv, Work, Known
    <2> QED
      BY <2>1, <2>2
  <1>9. row'.revision <= revision'
    OBVIOUS
  <1>10. ToldIsOld'
    <2>1. ASSUME NEW e \in Device, NEW t \in told[e]
          PROVE  t.version <= n.version /\ (t.version = n.version => t = n)
      <3>1. /\ t.version \in Nat /\ t.version <= row.version
            /\ t.version = row.version => t = row
        BY <1>2, <1>7 DEF IInv, ToldIsOld, Position
      <3> QED
        BY <3>1, <1>7
    <2>2. \A e \in Device : told'[e] \subseteq told[e] \cup {n}
      BY <1>3
    <2> QED
      BY <2>1, <2>2, <1>7 DEF ToldIsOld
  <1>11. ToldAgree'
    <2>1. \A e \in Device : told'[e] \subseteq told[e] \cup {n}
      BY <1>3
    <2>2. \A e \in Device : \A t \in told[e] : t.version = n.version => t = n
      BY <1>10, <1>3 DEF ToldIsOld
    <2> QED
      BY <2>1, <2>2 DEF IInv, ToldAgree
  <1> QED
    BY <1>5, <1>6, <1>8, <1>9, <1>10, <1>11 DEF IInv

-----------------------------------------------------------------------------
(* Steps.                                                                  *)

\* An answer about the row as it stands, by a request that ends.
LEMMA RefusedInv ==
    ASSUME IInv, NEW p \in Req, row # NoRow, req[p].op # "none",
           Answer(req[p].dev, row), End(p),
           UNCHANGED <<row, revision>>
    PROVE  IInv'
  <1>1. PICK d \in Device : d = req[p].dev
    BY DEF IInv, Work
  <1>2. row \in Position /\ told \in [Device -> SUBSET Position]
    BY DEF IInv, TypeOK
  <1>3. Answer(d, row)
    BY <1>1 DEF Answer
  <1>4. /\ told' \in [Device -> SUBSET Position]
        /\ told'[d] = told[d] \cup {row}
        /\ \A e \in Device \ {d} : told'[e] = told[e]
    BY <1>2, <1>3, AnswerKnown
  <1>5. /\ req' \in [Req -> Request] /\ req'[p] = Idle
        /\ \A q \in Req \ {p} : req'[q] = req[q]
    BY ReadingProgressAssumption DEF IInv, TypeOK, End, Request, Idle
  <1>6. TypeOK'
    BY <1>4, <1>5 DEF IInv, TypeOK
  <1>7. OneHolder'
    BY <1>5 DEF IInv, OneHolder, Idle
  <1>8. ASSUME NEW q \in Req PROVE Work(q)'
    <2>1. CASE q = p
      BY <2>1, <1>5 DEF Work, Idle
    <2>2. CASE q # p
      <3>1. req'[q] = req[q]
        BY <2>2, <1>5
      <3>2. req[q].op # "none" => told[req[q].dev] \subseteq told'[req[q].dev]
        BY <1>4 DEF IInv, Work
      <3> QED
        BY <3>1, <3>2 DEF IInv, Work, Known
    <2> QED
      BY <2>1, <2>2
  <1>9. \A e \in Device : told'[e] \subseteq told[e] \cup {row}
    BY <1>4
  <1>10. ToldIsOld'
    <2>1. row.version \in Nat
      BY <1>2, ReadingProgressAssumption DEF Position
    <2> QED
      BY <1>9, <2>1 DEF IInv, ToldIsOld
  <1>11. ToldAgree'
    BY <1>9 DEF IInv, ToldAgree, ToldIsOld
  <1> QED
    BY <1>6, <1>7, <1>8, <1>10, <1>11 DEF IInv

\* The row after an open.
LEMMA OpenedRow ==
    ASSUME IInv, NEW p \in Req, req[p].op = "open", req[p].step = "commit"
    PROVE  /\ Opened(p) \in Position
           /\ Opened(p) = row \/ Opened(p).version = row.version + 1
           /\ row.revision <= Opened(p).revision
           /\ Opened(p).revision <= revision
  <1>1. /\ row \in Position \cup {NoRow} /\ row.version < MaxVersion
        /\ req[p].revision \in 1 .. revision /\ revision \in 1 .. MaxRevision
        /\ row.revision <= revision
    BY DEF IInv, Work, TypeOK
  <1>2. CASE row = NoRow
    BY <1>1, <1>2, ReadingProgressAssumption DEF Opened, Position, NoRow, Status
  <1>3. CASE row # NoRow /\ row.status = "not_started"
    <2>1. /\ row.version \in 1 .. MaxVersion /\ row.place \in Place
          /\ row.revision \in 1 .. MaxRevision
          /\ Opened(p) = [row EXCEPT !.status = "reading", !.version = @ + 1]
      BY <1>1, <1>3 DEF Opened, Position
    <2>2. Opened(p) = [version |-> row.version + 1, place |-> row.place,
                       revision |-> row.revision, status |-> "reading"]
      BY <1>1, <1>3, <2>1 DEF Position
    <2>3. row.version + 1 \in 1 .. MaxVersion
      BY <1>1, <2>1, ReadingProgressAssumption
    <2>4. Opened(p) \in Position
      BY <2>1, <2>2, <2>3 DEF Position, Status
    <2> QED
      BY <1>1, <2>1, <2>2, <2>4
  <1>4. CASE row # NoRow /\ row.status # "not_started"
    BY <1>1, <1>4 DEF Opened, Position
  <1> QED
    BY <1>2, <1>3, <1>4

\* The row after a save.
LEMMA SavedRow ==
    ASSUME IInv, NEW p \in Req, req[p].op = "save", req[p].step = "commit"
    PROVE  /\ Saved(p) \in Position
           /\ Saved(p).version = row.version + 1
           /\ row.revision <= Saved(p).revision
           /\ Saved(p).revision <= revision
           /\ Saved(p).place = req[p].place
  <1>1. /\ row.version \in 0 .. MaxVersion /\ row.version < MaxVersion
        /\ row.revision <= req[p].revision
        /\ req[p].revision \in 1 .. revision /\ revision \in 1 .. MaxRevision
        /\ req[p].place \in Place
    BY RowFields DEF IInv, Work, TypeOK
  <1>2. req[p].status \in Status \cup {"none"}
    BY DEF IInv, TypeOK, Request
  <1>3. SavedStatus(p) \in Status
    BY <1>2 DEF SavedStatus, Status
  <1>4. row.version + 1 \in 1 .. MaxVersion /\ req[p].revision \in 1 .. MaxRevision
    BY <1>1, ReadingProgressAssumption
  <1> QED
    BY <1>1, <1>3, <1>4 DEF Saved, Position

LEMMA OpenPreserves ==
    ASSUME IInv, NEW p \in Req, OpenRequest(p)
    PROVE  IInv'
  <1>1. CASE \E d \in Device : OpenRead(p, d)
    <2>1. PICK d \in Device : OpenRead(p, d)
      BY <1>1
    <2> DEFINE r == [op |-> "open", step |-> "read", dev |-> d, expected |-> 0,
                     place |-> NoPlace, revision |-> revision, status |-> "none"]
    <2>2. revision \in 1 .. MaxRevision
      BY DEF IInv, TypeOK
    <2>4. r \in Request
      BY <2>2, ReadingProgressAssumption DEF Request
    <2>5. req' = [req EXCEPT ![p] = r] /\ req'[p] = r
      BY <2>1 DEF OpenRead, IInv, TypeOK
    <2>6. Work(p)'
      BY <2>1, <2>2, <2>5 DEF Work, OpenRead
    <2>7. UNCHANGED <<row, revision, told>>
      BY <2>1 DEF OpenRead, IInv, TypeOK
    <2>8. r.step # "commit"
      OBVIOUS
    <2> HIDE DEF r
    <2> QED
      BY <2>4, <2>5, <2>6, <2>7, <2>8, MoveInv
  <1>2. CASE OpenLock(p)
    <2> DEFINE r == [req[p] EXCEPT !.step = "commit"]
    <2>1. r \in Request /\ req' = [req EXCEPT ![p] = r] /\ req'[p] = r
      BY <1>2 DEF OpenLock, Goto, IInv, TypeOK, Request
    <2>2. Work(p)'
      BY <1>2, <2>1 DEF Work, OpenLock, IInv, TypeOK, Request
    <2>3. /\ UNCHANGED <<row, revision, told>> /\ Free(p)
         
      BY <1>2 DEF OpenLock, IInv, TypeOK
    <2> HIDE DEF r
    <2> QED
      BY <2>1, <2>2, <2>3, MoveInv
  <1>3. CASE OpenCommit(p)
    <2>1. req[p].op = "open" /\ req[p].step = "commit"
      BY <1>3 DEF OpenCommit
    <2>2. /\ Opened(p) \in Position
          /\ Opened(p) = row \/ Opened(p).version = row.version + 1
          /\ row.revision <= Opened(p).revision
          /\ Opened(p).revision <= revision
      BY <2>1, OpenedRow
    <2> DEFINE n == Opened(p)
    <2>4. row' = n /\ Answer(req[p].dev, n) /\ End(p) /\ revision' = revision
      BY <1>3 DEF OpenCommit
    <2> HIDE DEF n
    <2>5. /\ n \in Position
          /\ n = row \/ n.version = row.version + 1
          /\ row.revision <= n.revision /\ n.revision <= revision
      BY <2>2 DEF n
    <2> QED
      BY <2>1, <2>4, <2>5, CommitInv
  <1> QED
    BY <1>1, <1>2, <1>3 DEF OpenRequest

LEMMA SavePreserves ==
    ASSUME IInv, NEW p \in Req, SaveRequest(p)
    PROVE  IInv'
  <1>1. CASE \E d \in Device, v \in 0 .. MaxVersion, place \in Place,
               status \in Chosen \cup {"none"} : SaveRead(p, d, v, place, status)
    <2>1. PICK d \in Device, v \in 0 .. MaxVersion, place \in Place,
               status \in Chosen \cup {"none"} : SaveRead(p, d, v, place, status)
      BY <1>1
    <2> DEFINE r == [op |-> "save", step |-> "read", dev |-> d, expected |-> v,
                     place |-> place, revision |-> revision, status |-> status]
    <2>2. revision \in 1 .. MaxRevision /\ row.revision <= revision
      BY DEF IInv, TypeOK
    <2>3. r \in Request
      BY <2>2, ReadingProgressAssumption DEF Request
    <2>4. req' = [req EXCEPT ![p] = r] /\ req'[p] = r
      BY <2>1 DEF SaveRead, IInv, TypeOK
    <2>5. Work(p)'
      BY <2>1, <2>2, <2>4 DEF Work, SaveRead, Known
    <2>6. UNCHANGED <<row, revision, told>>
      BY <2>1 DEF SaveRead, IInv, TypeOK
    <2>7. r.step # "commit"
      OBVIOUS
    <2> HIDE DEF r
    <2> QED
      BY <2>3, <2>4, <2>5, <2>6, <2>7, MoveInv
  <1>2. CASE SaveLock(p) \/ SaveInsert(p)
    <2> DEFINE r == [req[p] EXCEPT !.step = "commit"]
    <2>1. r \in Request /\ req' = [req EXCEPT ![p] = r] /\ req'[p] = r
      BY <1>2 DEF SaveLock, SaveInsert, Goto, IInv, TypeOK, Request
    <2>2. /\ UNCHANGED <<row, revision, told>> /\ Free(p)
         
      BY <1>2 DEF SaveLock, SaveInsert, IInv, TypeOK
    <2>3. req[p].op = "save" /\ row.version = req[p].expected /\ req[p].expected < MaxVersion
      BY <1>2 DEF SaveLock, SaveInsert, IInv, Work, NoRow
    <2>4. Work(p)'
      BY <2>1, <2>2, <2>3 DEF Work, IInv, TypeOK, Request, Known
    <2> HIDE DEF r
    <2> QED
      BY <2>1, <2>2, <2>4, MoveInv
  <1>3. CASE SaveNoRow(p)
    <2> DEFINE r == [req[p] EXCEPT !.step = "insert"]
    <2>1. r \in Request /\ req' = [req EXCEPT ![p] = r] /\ req'[p] = r
      BY <1>3 DEF SaveNoRow, Goto, IInv, TypeOK, Request
    <2>2. /\ UNCHANGED <<row, revision, told>>
         
      BY <1>3 DEF SaveNoRow, IInv, TypeOK
    <2>3. Work(p)'
      BY <1>3, <2>1, <2>2 DEF SaveNoRow, Work, IInv, TypeOK, Request, Known
    <2>4. r.step # "commit"
      BY DEF IInv, TypeOK, Request
    <2> HIDE DEF r
    <2> QED
      BY <2>1, <2>2, <2>3, <2>4, MoveInv
  <1>4. CASE SaveConflict(p) \/ SaveLate(p)
    <2>1. /\ row # NoRow /\ Answer(req[p].dev, row) /\ End(p)
          /\ UNCHANGED <<row, revision>>
          /\ req[p].op # "none"
      BY <1>4 DEF SaveConflict, SaveLate, IInv, Work
    <2> QED
      BY <2>1, RefusedInv
  <1>5. CASE SaveCommit(p)
    <2> DEFINE n == Saved(p)
    <2>1. /\ req[p].op = "save" /\ req[p].step = "commit"
          /\ row' = n /\ Answer(req[p].dev, n) /\ End(p) /\ revision' = revision
         
      BY <1>5 DEF SaveCommit, IInv, TypeOK
    <2>2. /\ n \in Position /\ n.version = row.version + 1
          /\ row.revision <= n.revision /\ n.revision <= revision
      BY <2>1, SavedRow
    <2> HIDE DEF n
    <2> QED
      BY <2>1, <2>2, CommitInv
  <1> QED
    BY <1>1, <1>2, <1>3, <1>4, <1>5 DEF SaveRequest

LEMMA RestPreserves ==
    ASSUME IInv, (\E p \in Req : Rollback(p)) \/ ReplaceFile \/ UNCHANGED vars
    PROVE  IInv'
  <1>1. ASSUME NEW p \in Req, Rollback(p) PROVE IInv'
    <2>1. Idle \in Request /\ req' = [req EXCEPT ![p] = Idle] /\ req'[p] = Idle
      BY <1>1, ReadingProgressAssumption DEF Rollback, End, IInv, TypeOK, Request, Idle
    <2>2. Work(p)' /\ Idle.step # "commit"
      BY <2>1 DEF Work, Idle
    <2>3. UNCHANGED <<row, revision, told>>
      BY <1>1 DEF Rollback, IInv, TypeOK
    <2> QED
      BY <2>1, <2>2, <2>3, MoveInv
  <1>2. CASE ReplaceFile
    <2>1. /\ revision' \in 1 .. MaxRevision /\ revision <= revision'
          /\ 1 .. revision \subseteq 1 .. revision'
          /\ row.revision \in Nat
      BY <1>2, RowFields, ReadingProgressAssumption DEF ReplaceFile, IInv, TypeOK
    <2>2. TypeOK'
      BY <1>2, <2>1 DEF ReplaceFile, IInv, TypeOK
    <2>3. row'.revision <= revision'
      BY <1>2, <2>1 DEF ReplaceFile, IInv, TypeOK
    <2>4. ASSUME NEW q \in Req PROVE Work(q)'
      BY <1>2, <2>1 DEF ReplaceFile, IInv, Work, Known
    <2> QED
      BY <1>2, <2>2, <2>3, <2>4 DEF ReplaceFile, IInv, OneHolder, ToldIsOld, ToldAgree
  <1>3. CASE UNCHANGED vars
    BY <1>3 DEF vars, IInv, TypeOK, OneHolder, Work, Known, ToldIsOld, ToldAgree
  <1> QED
    BY <1>1, <1>2, <1>3

LEMMA InitIInv == Init => IInv
  BY ReadingProgressAssumption
     DEF Init, IInv, TypeOK, OneHolder, Work, ToldIsOld, ToldAgree, NoRow, Idle, Request

LEMMA StepIInv == IInv /\ [Next]_vars => IInv'
  BY OpenPreserves, SavePreserves, RestPreserves DEF Next

\* The invariant holds in every reachable state.
LEMMA InvariantHolds == Spec => []IInv
  BY InitIInv, StepIInv, PTL DEF Spec

-----------------------------------------------------------------------------
(* What the proofs establish.                                              *)

\* Rows, answers and requests have their types (reading_progresses and the
\* locals of ReaderService.open and save_progress).
THEOREM ProgressTypeCorrect == Spec => []TypeOK
  <1>1. IInv => TypeOK
    BY DEF IInv
  <1> QED
    BY <1>1, InvariantHolds, PTL

\* A version names one position, for any number of devices and requests: every
\* answer of open and save_progress may be compared by its version alone.
THEOREM VersionsNameOnePosition == Spec => []VersionNamesOnePosition
  <1>1. ASSUME IInv PROVE VersionNamesOnePosition
    BY <1>1 DEF IInv, ToldIsOld, ToldAgree, VersionNamesOnePosition
  <1> QED
    BY <1>1, InvariantHolds, PTL

\* A step leaves the row or commits the row of a request that held it.
LEMMA RowStep ==
    ASSUME IInv, [Next]_vars
    PROVE  \/ row' = row
           \/ \E p \in Req : OpenCommit(p) /\ req[p].op = "open" /\ req[p].step = "commit"
           \/ \E p \in Req : SaveCommit(p) /\ req[p].op = "save" /\ req[p].step = "commit"
  BY DEF Next, vars, OpenRequest, OpenRead, OpenLock, OpenCommit, SaveRequest,
         SaveRead, SaveLock, SaveConflict, SaveNoRow, SaveInsert, SaveLate,
         SaveCommit, Rollback, ReplaceFile

\* A saved position never returns to an older file of the edition: the check of
\* the revision in save_progress, made before the row is locked, is enough,
\* because a save of an old file names a version that a newer save has replaced.
THEOREM RevisionsGrow == Spec => RevisionNeverGoesBack
  <1>1. ASSUME IInv, [Next]_vars PROVE [row'.revision >= row.revision]_vars
    <2>1. row.revision \in Nat
      BY <1>1, RowFields, ReadingProgressAssumption DEF IInv, TypeOK
    <2>2. CASE row' = row
      BY <2>1, <2>2
    <2>3. ASSUME NEW p \in Req, OpenCommit(p), req[p].op = "open", req[p].step = "commit"
          PROVE  row'.revision >= row.revision
      <3>1. row.revision <= Opened(p).revision /\ Opened(p) \in Position
        BY <1>1, <2>3, OpenedRow
      <3> QED
        BY <2>1, <2>3, <3>1 DEF OpenCommit, Position
    <2>4. ASSUME NEW p \in Req, SaveCommit(p), req[p].op = "save", req[p].step = "commit"
          PROVE  row'.revision >= row.revision
      <3>1. row.revision <= Saved(p).revision /\ Saved(p) \in Position
        BY <1>1, <2>4, SavedRow
      <3> QED
        BY <2>1, <2>4, <3>1 DEF SaveCommit, Position
    <2> QED
      BY <1>1, <2>2, <2>3, <2>4, RowStep
  <1> QED
    BY <1>1, InvariantHolds, PTL DEF Spec, RevisionNeverGoesBack

-----------------------------------------------------------------------------
(* The register of ADR 0011.                                               *)

\* The versions each device was shown, and the content of the register.
Seen == [d \in Device |-> Known(d)]
Held == <<row.place, row.revision>>

\* An answer to one device shows it one version.
LEMMA AnswerSeen ==
    ASSUME IInv, NEW d \in Device, NEW n \in Position, Answer(d, n)
    PROVE  Seen' = [Seen EXCEPT ![d] = @ \cup {n.version}]
  <1>1. told \in [Device -> SUBSET Position]
    BY DEF IInv, TypeOK
  <1>2. /\ Known(d)' = Known(d) \cup {n.version}
        /\ \A e \in Device \ {d} : Known(e)' = Known(e)
    BY <1>1, AnswerKnown
  <1> QED
    BY <1>2 DEF Seen

\* The commit of an open is a write, a new version of the same position, or
\* only shows the row.
LEMMA OpenIsRegisterStep ==
    ASSUME IInv, NEW p \in Req, OpenCommit(p), req[p].op = "open", req[p].step = "commit"
    PROVE  Register!RegNext
  <1>1. PICK d \in Device : d = req[p].dev
    BY DEF IInv, Work
  <1>2. /\ Opened(p) \in Position /\ row' = Opened(p)
        /\ req[p].revision \in 1 .. MaxRevision
    <2>1. /\ req[p].revision \in 1 .. revision /\ revision \in 1 .. MaxRevision
      BY DEF IInv, TypeOK, Work
    <2> QED
      BY <2>1, OpenedRow, ReadingProgressAssumption DEF OpenCommit
  <1>3. Seen' = [Seen EXCEPT ![d] = @ \cup {row'.version}]
    BY <1>1, <1>2, AnswerSeen DEF OpenCommit, Answer
  <1>4. /\ row \in Position \cup {NoRow}
        /\ row.version = 0 <=> row = NoRow
        /\ row.version \in Nat
    BY RowFields, ReadingProgressAssumption DEF IInv, TypeOK
  <1>5. CASE row = NoRow
    <2>1. row' = [version |-> 1, place |-> First, revision |-> req[p].revision,
                  status |-> "reading"]
      BY <1>2, <1>5 DEF Opened
    <2>2. Held' = <<First, req[p].revision>> /\ row'.version = row.version + 1
      BY <2>1, <1>5 DEF Held, NoRow
    <2>3. <<First, req[p].revision>> \in Place \X (1 .. MaxRevision)
      BY <1>2, ReadingProgressAssumption
    <2>4. row.version \in Seen[d]
      BY <1>4, <1>5 DEF Seen, Known
    <2>5. Register!Write(d, <<First, req[p].revision>>)
      BY <1>3, <2>2, <2>4 DEF Register!Write, Seen, Held
    <2> QED
      BY <2>3, <2>5 DEF Register!RegNext
  <1>6. CASE row # NoRow /\ row.status = "not_started"
    <2>1. /\ row'.version = row.version + 1 /\ Held' = Held
      BY <1>2, <1>4, <1>6 DEF Opened, Held, Position
    <2>2. Register!Touch(d)
      BY <1>3, <1>4, <1>6, <2>1 DEF Register!Touch, Seen, Held
    <2> QED
      BY <2>2 DEF Register!RegNext
  <1>7. CASE row # NoRow /\ row.status # "not_started"
    <2>1. row' = row
      BY <1>2, <1>7 DEF Opened
    <2>2. Register!Look(d)
      BY <1>3, <2>1 DEF Register!Look, Seen
    <2> QED
      BY <2>2 DEF Register!RegNext
  <1> QED
    BY <1>5, <1>6, <1>7

\* The commit of a save is a write that names a version its device was shown.
LEMMA SaveIsRegisterStep ==
    ASSUME IInv, NEW p \in Req, SaveCommit(p), req[p].op = "save", req[p].step = "commit"
    PROVE  Register!RegNext
  <1>1. PICK d \in Device : d = req[p].dev
    BY DEF IInv, Work
  <1>2. /\ Saved(p) \in Position /\ row' = Saved(p)
        /\ Saved(p).version = row.version + 1
    BY SavedRow DEF SaveCommit
  <1>3. Seen' = [Seen EXCEPT ![d] = @ \cup {row'.version}]
    BY <1>1, <1>2, AnswerSeen DEF SaveCommit, Answer
  <1>4. Held' \in Place \X (1 .. MaxRevision)
    BY <1>2 DEF Held, Position
  <1>5. row.version \in Seen[d]
    BY <1>1 DEF IInv, Work, Seen
  <1>6. row'.version = row.version + 1
    BY <1>2
  <1>7. Register!Write(d, Held')
    BY <1>3, <1>5, <1>6 DEF Register!Write, Seen, Held
  <1> QED
    BY <1>4, <1>7 DEF Register!RegNext

\* A refusal shows the row; every other step is invisible.
LEMMA RestIsRegisterStep ==
    ASSUME IInv, [Next]_vars, row' = row
    PROVE  Register!RegNext \/ (row' = row /\ Seen' = Seen)
  <1>1. CASE told' = told
    BY <1>1 DEF Seen, Known
  <1>2. ASSUME NEW p \in Req, SaveConflict(p) \/ SaveLate(p)
        PROVE  Register!RegNext
    <2>1. PICK d \in Device : d = req[p].dev
      BY <1>2 DEF IInv, Work, SaveConflict, SaveLate
    <2>2. row \in Position /\ Answer(d, row)
      BY <1>2, <2>1 DEF SaveConflict, SaveLate, Answer, IInv, TypeOK
    <2>3. Seen' = [Seen EXCEPT ![d] = @ \cup {row.version}]
      BY <2>2, AnswerSeen
    <2>4. Register!Look(d)
      BY <2>3 DEF Register!Look, Seen
    <2> QED
      BY <2>4 DEF Register!RegNext
  <1>3. ASSUME NEW p \in Req, OpenCommit(p) PROVE Register!RegNext
    BY <1>3, OpenIsRegisterStep DEF OpenCommit
  <1>4. ASSUME NEW p \in Req, SaveCommit(p) PROVE Register!RegNext
    BY <1>4, SaveIsRegisterStep DEF SaveCommit
  <1>5. \/ told' = told
        \/ \E p \in Req : SaveConflict(p) \/ SaveLate(p) \/ OpenCommit(p) \/ SaveCommit(p)
    BY DEF Next, vars, OpenRequest, OpenRead, OpenLock, SaveRequest, SaveRead,
           SaveLock, SaveNoRow, SaveInsert, Rollback, ReplaceFile
  <1> QED
    BY <1>1, <1>2, <1>3, <1>4, <1>5

\* Opening and saving implement the register: no device replaces a position
\* that it was not shown, however its requests overlap with those of the others.
THEOREM ImplementsRegister == Spec => NoSilentOverwrite
  <1>1. Init => Register!Init
    BY DEF Init, Register!Init, NoRow, Known
  <1>2. ASSUME IInv, [Next]_vars PROVE [Register!RegNext]_(Register!regVars)
    <2>1. Register!RegNext \/ (row' = row /\ Seen' = Seen)
      BY <1>2, RowStep, OpenIsRegisterStep, SaveIsRegisterStep, RestIsRegisterStep
    <2> QED
      BY <2>1 DEF Register!regVars, Seen
  <1> QED
    BY <1>1, <1>2, InvariantHolds, PTL DEF Spec, NoSilentOverwrite, Register!RegSpec
==============================================================================
