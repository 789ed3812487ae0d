---------------------------- MODULE CatalogueProofs ----------------------------
(***************************************************************************)
(* What the catalogue keeps true for any number of books, editions, files, *)
(* people and requests: the types, the relations of editions and           *)
(* preferences, and that stored files and their rows name one another.     *)
(*                                                                         *)
(* None of the two is inductive, because a request writes what it has      *)
(* validated without a lock.  CatalogueInv says why it may: a key is used  *)
(* once, and an edition never changes its book or its role, so that what   *)
(* was validated still holds when the foreign keys find the rows.          *)
(***************************************************************************)
EXTENDS Catalogue, FiniteSetTheorems, WellFoundedInduction, TLAPS

LOCAL INSTANCE FiniteSetsExt

\* The maximum of some numbers up to N is one of them.
LEMMA MaxIsMember ==
  ASSUME NEW N \in Nat, NEW S \in SUBSET (0 .. N), S # {}
  PROVE  Max(S) \in S
  <1> DEFINE T == {n \in Nat : \E x \in S : n = N - x}
             R == {p \in Nat \X Nat : p[1] < p[2]}
  <1>1. IsWellFoundedOn(R, Nat)
    BY NatLessThanWellFounded DEF OpToRel
  <1>2. \A x \in S : x \in Nat /\ N - x \in T
    OBVIOUS
  <1>3. PICK t \in T : \A u \in T : ~(<<u, t>> \in R)
    <2>1. T \subseteq Nat /\ T # {}
      BY <1>2
    <2> QED
      BY <1>1, <2>1, WFMin
  <1>4. PICK s \in S : t = N - s
    OBVIOUS
  <1>5. ASSUME NEW y \in S
        PROVE  s >= y
    <2>1. N - y \in T /\ y \in Nat /\ s \in Nat
      BY <1>2
    <2>2. ~(<<N - y, t>> \in R)
      BY <1>3, <2>1
    <2> HIDE DEF T
    <2>3. ~(N - y < N - s)
      BY <1>2, <1>4, <2>2, <2>1
    <2> QED
      BY <2>1, <2>3
  <1> QED
    BY <1>5 DEF Max

\* What the kinds of requests have in their records.
LEMMA Requests ==
  ASSUME NEW r \in Handling
  PROVE  /\ r.op = "add edition" => r.row \in EditionRow /\ r.cover \in StoredId \cup {Null}
         /\ r.op = "update edition" => r.edition \in EditionId /\ r.from \in EditionRow
                                       /\ r.to \in EditionRow
         /\ r.op = "prefer" => r.person \in Person /\ r.book \in BookId
                               /\ r.field \in {"preferred", "opened"}
                               /\ r.edition \in EditionId \cup {Null}
         /\ r.op = "delete book" => r.book \in BookId /\ r.editions \in SUBSET EditionId
                                    /\ r.files \in SUBSET FileRow
                                    /\ r.cover \in StoredId \cup {Null}
         /\ r.op \in {"delete edition", "replace file"} =>
               r.edition \in EditionId /\ r.files \in SUBSET FileRow
         /\ r.op = "idle" => r = NoRequest
         /\ r.op \in {"idle", "add edition", "update edition", "prefer", "delete book",
                      "delete edition", "replace file"}
  <1>1. CASE r = NoRequest
    BY <1>1 DEF NoRequest
  <1>2. CASE r \in [op : {"delete edition", "replace file"}, edition : EditionId,
                    files : SUBSET FileRow]
    BY <1>2
  <1>3. CASE r \in [op : {"delete book"}, book : BookId, editions : SUBSET EditionId,
                    files : SUBSET FileRow, cover : StoredId \cup {Null}]
    BY <1>3
  <1>4. CASE r \in [op : {"add edition"}, row : EditionRow, cover : StoredId \cup {Null}]
    BY <1>4
  <1>5. CASE r \in [op : {"update edition"}, edition : EditionId, from : EditionRow,
                    to : EditionRow]
    BY <1>5
  <1>6. CASE r \in [op : {"prefer"}, person : Person, book : BookId,
                    field : {"preferred", "opened"}, edition : EditionId \cup {Null}]
    BY <1>6
  <1> QED
    BY <1>1, <1>2, <1>3, <1>4, <1>5, <1>6 DEF Handling

\* A revision of a file, one above the highest there is.
LEMMA NewFileTyped ==
  ASSUME CatalogueTypeOK, NEW e \in EditionId, NEW source \in FreshId(StoredId),
         NEW text \in FreshId(StoredId) \cup {Null},
         NewFile(e, source, text)
  PROVE  /\ edition_files' \subseteq FileRow
         /\ \E f \in FileRow : /\ edition_files' = edition_files \cup {f}
                               /\ f.edition = e /\ f.source = source /\ f.text = text
  <1> DEFINE S == {f.revision : f \in FilesOf({e})} \cup {0}
             n == Max(S) + 1
             f == [edition |-> e, revision |-> n, source |-> source, text |-> text]
  <1>1. n \in Nat /\ n >= 1
    <2>1. S \in SUBSET (0 .. MaxFileRevision) /\ S # {}
      BY CatalogueAssumption DEF CatalogueTypeOK, FilesOf, FileRow
    <2> HIDE DEF S
    <2>2. Max(S) \in S /\ \A x \in S : x \in Nat
      BY <2>1, MaxIsMember, CatalogueAssumption
    <2> QED
      BY <2>2
  <1>2. n <= MaxFileRevision /\ edition_files' = edition_files \cup {f}
    BY DEF NewFile, Max
  <1>3. f \in FileRow
    BY <1>1, <1>2, CatalogueAssumption DEF FileRow, FreshId
  <1> QED
    BY <1>2, <1>3 DEF CatalogueTypeOK

-----------------------------------------------------------------------------
(* Types.                                                                  *)

\* What a request that begins leaves alone.
Begins(h, r) == /\ handler' = [handler EXCEPT ![h] = r]
                /\ UNCHANGED <<books, editions, edition_files, stored_files, preferences,
                               issued, overtaken>>

LEMMA BeginTyped ==
  ASSUME CatalogueTypeOK, NEW h \in Handler, NEW r \in Handling, Begins(h, r)
  PROVE  CatalogueTypeOK'
  BY DEF CatalogueTypeOK, Begins

LEMMA IdleIsTyped == NoRequest \in Handling
  BY DEF Handling

LEMMA UpdatedRow ==
  ASSUME NEW row \in EditionRow, NEW ready \in BOOLEAN, NEW source \in EditionId \cup {Null},
         NEW supersedes \in EditionId \cup {Null}
  PROVE  LET new == [row EXCEPT !.ready = ready, !.source = source,
                                !.supersedes = supersedes]
         IN  /\ new \in EditionRow /\ new.book = row.book /\ new.role = row.role
             /\ new.ready = ready /\ new.source = source /\ new.supersedes = supersedes
  BY DEF EditionRow

LEMMA RequestBeginsTyped ==
  ASSUME CatalogueTypeOK, NEW h \in Handler,
         RequestBegins(h, EditionRow, EditionId \cup {Null})
  PROVE  \E r \in Handling : Begins(h, r)
  <1>1. ASSUME NEW row \in EditionRow, AddRead(h, row)
        PROVE  \E r \in Handling : Begins(h, r)
    <2> DEFINE r == [op |-> "add edition", row |-> row, cover |-> books[row.book].cover]
    <2>1. books[row.book].cover \in StoredId \cup {Null}
      BY <1>1, NullAssumption DEF AddRead, BookHere, CatalogueTypeOK, EditionRow, BookRow
    <2>2. r \in Handling
      BY <2>1 DEF Handling
    <2>3. Begins(h, r)
      BY <1>1 DEF AddRead, Read, Begins
    <2> QED
      BY <2>2, <2>3
  <1>2. ASSUME NEW e \in EditionId, ReplaceLock(h, e)
        PROVE  \E r \in Handling : Begins(h, r)
    <2> DEFINE r == [op |-> "replace file", edition |-> e, files |-> {}]
    <2>1. r \in Handling
      BY DEF Handling
    <2>2. Begins(h, r)
      BY <1>2 DEF ReplaceLock, Read, Begins
    <2> QED
      BY <2>1, <2>2
  <1>3. ASSUME NEW e \in EditionId, DeleteEditionLock(h, e)
        PROVE  \E r \in Handling : Begins(h, r)
    <2> DEFINE r == [op |-> "delete edition", edition |-> e, files |-> FilesOf({e})]
    <2>1. r \in Handling
      BY DEF Handling, FilesOf, CatalogueTypeOK
    <2>2. Begins(h, r)
      BY <1>3 DEF DeleteEditionLock, Read, Begins
    <2> QED
      BY <2>1, <2>2
  <1>4. ASSUME NEW e \in EditionId, NEW ready \in BOOLEAN, NEW source \in EditionId \cup {Null},
               NEW supersedes \in EditionId \cup {Null}, UpdateRead(h, e, ready, source, supersedes)
        PROVE  \E r \in Handling : Begins(h, r)
    <2> DEFINE row == [editions[e] EXCEPT !.ready = ready, !.source = source,
                                          !.supersedes = supersedes]
               r == [op |-> "update edition", edition |-> e, from |-> editions[e], to |-> row]
    <2>1. editions[e] \in EditionRow
      BY <1>4, NullAssumption DEF UpdateRead, EditionHere, CatalogueTypeOK
    <2>2. row \in EditionRow
      BY <2>1, UpdatedRow
    <2>3. r \in Handling
      BY <2>1, <2>2 DEF Handling
    <2>4. Begins(h, r)
      BY <1>4 DEF UpdateRead, Read, Begins
    <2> QED
      BY <2>3, <2>4
  <1>5. ASSUME NEW u \in Person, NEW b \in BookId, NEW field \in {"preferred", "opened"},
               NEW e \in EditionId \cup {Null}, PreferRead(h, u, b, field, e)
        PROVE  \E r \in Handling : Begins(h, r)
    <2> DEFINE r == [op |-> "prefer", person |-> u, book |-> b, field |-> field, edition |-> e]
    <2>1. r \in Handling
      BY DEF Handling
    <2>2. Begins(h, r)
      BY <1>5 DEF PreferRead, Read, Begins
    <2> QED
      BY <2>1, <2>2
  <1>6. ASSUME NEW b \in BookId, DeleteBookRead(h, b)
        PROVE  \E r \in Handling : Begins(h, r)
    <2> DEFINE r == [op |-> "delete book", book |-> b, editions |-> EditionsOf(b),
                     files |-> FilesOf(EditionsOf(b)), cover |-> books[b].cover]
    <2>1. books[b].cover \in StoredId \cup {Null}
      BY <1>6, NullAssumption DEF DeleteBookRead, BookHere, CatalogueTypeOK, BookRow
    <2>2. FilesOf(EditionsOf(b)) \subseteq FileRow /\ EditionsOf(b) \subseteq EditionId
      BY DEF FilesOf, EditionsOf, CatalogueTypeOK
    <2>3. r \in Handling
      BY <2>1, <2>2 DEF Handling
    <2>4. Begins(h, r)
      BY <1>6 DEF DeleteBookRead, Read, Begins
    <2> QED
      BY <2>3, <2>4
  <1> QED
    BY <1>1, <1>2, <1>3, <1>4, <1>5, <1>6 DEF RequestBegins

LEMMA CloseTyped ==
  ASSUME CatalogueTypeOK, NEW h \in Handler, Close(h)
  PROVE  /\ handler' \in [Handler -> Handling] /\ handler'[h] = NoRequest
         /\ \A q \in Handler \ {h} : handler'[q] = handler[q]
  BY IdleIsTyped DEF Close, CatalogueTypeOK

\* What MayAdd says of the request that brings an edition.
LEMMA MayAddTyped ==
  ASSUME CatalogueTypeOK, NEW h \in Handler, NEW e, MayAdd(h, e)
  PROVE  /\ handler[h].op = "add edition" /\ handler[h].row \in EditionRow
         /\ handler[h].cover \in StoredId \cup {Null}
         /\ handler[h].row.book \in BookId /\ BookHere(handler[h].row.book)
         /\ e \in EditionId /\ e \notin issued
  <1>1. handler[h] \in Handling
    BY DEF CatalogueTypeOK
  <1>2. handler[h].row \in EditionRow /\ handler[h].cover \in StoredId \cup {Null}
    BY <1>1, Requests DEF MayAdd
  <1> QED
    BY <1>2 DEF MayAdd, EditionRow, FreshId

LEMMA NewBookTyped ==
  ASSUME CatalogueTypeOK, NEW b \in BookId, NewBook(b)
  PROVE  CatalogueTypeOK'
  <1>1. [cover |-> Null] \in BookRow
    BY DEF BookRow
  <1> QED
    BY <1>1 DEF CatalogueTypeOK, NewBook, Use

LEMMA NewEditionTyped ==
  ASSUME CatalogueTypeOK, NEW h \in Handler, NEW e \in EditionId, NewEdition(h, e)
  PROVE  CatalogueTypeOK'
  <1>1. MayAdd(h, e) /\ Close(h)
    BY DEF NewEdition
  <1> QED
    BY <1>1, MayAddTyped, CloseTyped DEF CatalogueTypeOK, NewEdition, Use

\* What an import prefers, in a book and an edition that exist.
LEMMA ImportPrefersTyped ==
  ASSUME CatalogueTypeOK, NEW b \in BookId, NEW e \in EditionId, NEW preferred \in BOOLEAN,
         ImportPrefers(b, e, preferred)
  PROVE  /\ preferences' \in [Person \X BookId -> PreferenceRow \cup {Null}]
         /\ \A k \in Person \X BookId :
              \/ preferences'[k] = preferences[k]
              \/ /\ k = <<Administrator, b>>
                 /\ preferences'[k] =
                      [preferred |-> e,
                       opened |-> IF preferences[k] = Null THEN Null ELSE preferences[k].opened]
  <1> DEFINE old == preferences[<<Administrator, b>>]
             new == [preferred |-> e, opened |-> IF old = Null THEN Null ELSE old.opened]
  <1>1. <<Administrator, b>> \in Person \X BookId
    BY CatalogueAssumption
  <1>2. new \in PreferenceRow
    BY <1>1 DEF CatalogueTypeOK, PreferenceRow
  <1>3. preferences' = IF ~preferred THEN preferences
                       ELSE [preferences EXCEPT ![<<Administrator, b>>] = new]
    BY DEF ImportPrefers
  <1> QED
    BY <1>1, <1>2, <1>3 DEF CatalogueTypeOK

LEMMA ImportEditionTyped ==
  ASSUME CatalogueTypeOK, NEW h \in Handler, NEW e \in EditionId, NEW preferred \in BOOLEAN,
         NEW source \in FreshId(StoredId), NEW text \in FreshId(StoredId) \cup {Null},
         NEW cover \in FreshId(StoredId) \cup {Null},
         ImportEdition(h, e, source, text, cover, preferred)
  PROVE  CatalogueTypeOK'
  <1> DEFINE b == handler[h].row.book
  <1>1. MayAdd(h, e) /\ Close(h) /\ NewFile(e, source, text)
    BY DEF ImportEdition
  <1>2. b \in BookId /\ books[b] \in BookRow
    BY <1>1, MayAddTyped DEF CatalogueTypeOK, BookHere
  <1>3. edition_files' \subseteq FileRow
    BY <1>1, NewFileTyped
  <1>4. handler' \in [Handler -> Handling]
    BY <1>1, CloseTyped
  <1>5. editions' \in [EditionId -> EditionRow \cup {Null}]
    BY <1>1, MayAddTyped DEF CatalogueTypeOK, ImportEdition
  <1>6. preferences' \in [Person \X BookId -> PreferenceRow \cup {Null}]
    <2>1. PICK c \in BookId : c = b
      BY <1>2
    <2>2. ImportPrefers(c, e, preferred)
      BY <2>1 DEF ImportEdition
    <2> QED
      BY <2>2, ImportPrefersTyped
  <1>7. /\ stored_files' \subseteq StoredId
        /\ issued' \subseteq BookId \cup EditionId \cup StoredId
    BY DEF CatalogueTypeOK, ImportEdition, FreshId, Use
  <1>8. books' \in [BookId -> BookRow \cup {Null}] /\ overtaken' \in BOOLEAN
    <2>1. CASE cover = Null /\ UNCHANGED <<books, overtaken>>
      BY <2>1 DEF CatalogueTypeOK
    <2>2. CASE /\ cover \in StoredId /\ books' = [books EXCEPT ![b].cover = cover]
               /\ Overtake(h, b)
      <3>1. [books[b] EXCEPT !.cover = cover] \in BookRow
        BY <1>2, <2>2 DEF BookRow
      <3>2. books' = [books EXCEPT ![b] = [books[b] EXCEPT !.cover = cover]]
        BY <2>2, <1>2 DEF CatalogueTypeOK
      <3> QED
        BY <2>2, <3>1, <3>2 DEF CatalogueTypeOK, Overtake
    <2> QED
      BY <2>1, <2>2 DEF ImportEdition, FreshId
  <1> QED
    BY <1>3, <1>4, <1>5, <1>6, <1>7, <1>8 DEF CatalogueTypeOK

LEMMA ImportBookTyped ==
  ASSUME CatalogueTypeOK, NEW b \in FreshId(BookId), NEW e \in FreshId(EditionId),
         NEW role \in {"source", "translation"}, NEW ready \in BOOLEAN,
         NEW source \in FreshId(StoredId), NEW text \in FreshId(StoredId) \cup {Null},
         NEW cover \in FreshId(StoredId) \cup {Null}, NEW preferred \in BOOLEAN,
         ImportBook(b, e, role, ready, source, text, cover, preferred)
  PROVE  CatalogueTypeOK'
  <1> DEFINE row == [book |-> b, role |-> role, ready |-> ready, source |-> Null,
                     supersedes |-> Null]
  <1>1. b \in BookId /\ e \in EditionId /\ source \in StoredId
        /\ text \in StoredId \cup {Null} /\ cover \in StoredId \cup {Null}
    BY DEF FreshId
  <1>2. row \in EditionRow /\ [cover |-> cover] \in BookRow
    BY <1>1 DEF EditionRow, BookRow
  <1>3. edition_files' \subseteq FileRow
    BY <1>1, NewFileTyped DEF ImportBook
  <1>4. books' = [books EXCEPT ![b] = [cover |-> cover]] /\ editions' = [editions EXCEPT ![e] = row]
    BY DEF ImportBook
  <1>5. preferences' \in [Person \X BookId -> PreferenceRow \cup {Null}]
    BY <1>1, ImportPrefersTyped DEF ImportBook
  <1> QED
    BY <1>1, <1>2, <1>3, <1>4, <1>5 DEF CatalogueTypeOK, ImportBook, Use

LEMMA ReplaceCommitTyped ==
  ASSUME CatalogueTypeOK, NEW h \in Handler,
         NEW source \in FreshId(StoredId), NEW text \in FreshId(StoredId) \cup {Null},
         ReplaceCommit(h, source, text)
  PROVE  CatalogueTypeOK'
  <1>1. handler[h].edition \in EditionId
    BY Requests DEF CatalogueTypeOK, ReplaceCommit
  <1>2. edition_files' \subseteq FileRow
    BY <1>1, NewFileTyped DEF ReplaceCommit
  <1> QED
    BY <1>2, CloseTyped DEF CatalogueTypeOK, ReplaceCommit, Use, FreshId

\* The row that an update leaves: book and role stay, a relation is the one that was
\* read and changed, and is there, or the one the row has by now.
LEMMA UpdateWrites ==
  ASSUME CatalogueTypeOK, NEW h \in Handler, UpdateCommit(h)
  PROVE  LET r == handler[h]
             row == editions[r.edition]
             new == editions'[r.edition]
         IN  /\ handler[h] \in Handling /\ r.op = "update edition"
             /\ r.edition \in EditionId /\ EditionHere(r.edition)
             /\ row \in EditionRow /\ r.to \in EditionRow
             /\ editions' = [editions EXCEPT ![r.edition] = new]
             /\ new \in EditionRow /\ new.book = row.book /\ new.role = row.role
             /\ \/ new.source = row.source
                \/ new.source = r.to.source /\ (new.source # Null => EditionHere(new.source))
             /\ \/ new.supersedes = row.supersedes
                \/ /\ new.supersedes = r.to.supersedes
                   /\ new.supersedes # Null => EditionHere(new.supersedes)
  <1> DEFINE r == handler[h]
             row == editions[r.edition]
             changed == {x \in {"ready", "source", "supersedes"} : r.to[x] # r.from[x]}
             new == [x \in DOMAIN row |-> IF x \in changed THEN r.to[x] ELSE row[x]]
  <1>1. r \in Handling /\ r.op = "update edition" /\ EditionHere(r.edition)
    BY DEF UpdateCommit, CatalogueTypeOK
  <1>2. r.edition \in EditionId /\ r.from \in EditionRow /\ r.to \in EditionRow
    BY <1>1, Requests
  <1>3. row \in EditionRow
    BY <1>1, <1>2 DEF EditionHere, CatalogueTypeOK
  <1>4. DOMAIN row = {"book", "role", "ready", "source", "supersedes"}
    BY <1>3 DEF EditionRow
  <1>5. /\ new.book = row.book /\ new.role = row.role
        /\ new.ready \in {row.ready, r.to.ready}
        /\ new.source = row.source \/ (new.source = r.to.source /\ "source" \in changed)
        /\ \/ new.supersedes = row.supersedes
           \/ new.supersedes = r.to.supersedes /\ "supersedes" \in changed
    BY <1>4
  <1>6. new \in EditionRow
    <2>1. /\ row.book \in BookId /\ row.role \in {"source", "translation"}
          /\ new.ready \in BOOLEAN /\ new.source \in EditionId \cup {Null}
          /\ new.supersedes \in EditionId \cup {Null}
      BY <1>2, <1>3, <1>5 DEF EditionRow
    <2>2. new = [book |-> new.book, role |-> new.role, ready |-> new.ready,
                 source |-> new.source, supersedes |-> new.supersedes]
      BY <1>4
    <2> QED
      BY <1>5, <2>1, <2>2 DEF EditionRow
  <1>7. editions' = [editions EXCEPT ![r.edition] = new]
    BY DEF UpdateCommit
  <1>8. editions'[r.edition] = new
    BY <1>2, <1>7 DEF CatalogueTypeOK
  <1>9. /\ "source" \in changed /\ r.to.source # Null => EditionHere(r.to.source)
        /\ "supersedes" \in changed /\ r.to.supersedes # Null => EditionHere(r.to.supersedes)
    BY DEF UpdateCommit
  <1> HIDE DEF new, changed
  <1> QED
    BY <1>1, <1>2, <1>3, <1>5, <1>6, <1>7, <1>8, <1>9

LEMMA UpdateCommitTyped ==
  ASSUME CatalogueTypeOK, NEW h \in Handler, UpdateCommit(h)
  PROVE  CatalogueTypeOK'
  <1>1. editions' \in [EditionId -> EditionRow \cup {Null}]
    BY UpdateWrites DEF CatalogueTypeOK
  <1> QED
    BY <1>1, CloseTyped DEF CatalogueTypeOK, UpdateCommit

\* The preference that a request leaves.
LEMMA PreferWrites ==
  ASSUME CatalogueTypeOK, NEW h \in Handler, PreferCommit(h)
  PROVE  LET r == handler[h]
             old == preferences[<<r.person, r.book>>]
             new == preferences'[<<r.person, r.book>>]
         IN  /\ r \in Handling /\ r.op = "prefer" /\ r.person \in Person /\ r.book \in BookId
             /\ preferences' = [preferences EXCEPT ![<<r.person, r.book>>] = new]
             /\ new \in PreferenceRow
             /\ {new.preferred, new.opened}
                  \subseteq {r.edition, Null} \cup
                            (IF old = Null THEN {} ELSE {old.preferred, old.opened})
             /\ r.edition # Null => EditionHere(r.edition)
  <1> DEFINE r == handler[h]
             old == preferences[<<r.person, r.book>>]
             row == IF old = Null THEN [preferred |-> Null, opened |-> Null] ELSE old
             new == [row EXCEPT ![r.field] = r.edition]
  <1>1. r \in Handling /\ r.op = "prefer"
    BY DEF PreferCommit, CatalogueTypeOK
  <1>2. /\ r.person \in Person /\ r.book \in BookId /\ r.field \in {"preferred", "opened"}
        /\ r.edition \in EditionId \cup {Null}
    BY <1>1, Requests
  <1>3. old \in PreferenceRow \cup {Null}
    BY <1>2 DEF CatalogueTypeOK
  <1>4. row \in PreferenceRow
    BY <1>3 DEF PreferenceRow
  <1>5. /\ new \in PreferenceRow
        /\ {new.preferred, new.opened} \subseteq {r.edition, row.preferred, row.opened}
    <2>1. CASE r.field = "preferred"
      BY <1>2, <1>4, <2>1 DEF PreferenceRow
    <2>2. CASE r.field = "opened"
      BY <1>2, <1>4, <2>2 DEF PreferenceRow
    <2> QED
      BY <1>2, <2>1, <2>2
  <1>6. preferences' = [preferences EXCEPT ![<<r.person, r.book>>] = new]
    BY DEF PreferCommit
  <1>7. preferences'[<<r.person, r.book>>] = new
    BY <1>2, <1>6 DEF CatalogueTypeOK
  <1>8. {row.preferred, row.opened} \subseteq
           {Null} \cup (IF old = Null THEN {} ELSE {old.preferred, old.opened})
    OBVIOUS
  <1>9. r.edition # Null => EditionHere(r.edition)
    BY DEF PreferCommit
  <1> HIDE DEF row, new
  <1> QED
    BY <1>1, <1>2, <1>5, <1>6, <1>7, <1>8, <1>9

LEMMA PreferCommitTyped ==
  ASSUME CatalogueTypeOK, NEW h \in Handler, PreferCommit(h)
  PROVE  CatalogueTypeOK'
  <1>1. preferences' \in [Person \X BookId -> PreferenceRow \cup {Null}]
    BY PreferWrites DEF CatalogueTypeOK
  <1> QED
    BY <1>1, CloseTyped DEF CatalogueTypeOK, PreferCommit

\* What is left of a preference when an edition is deleted.
LEMMA ClearedRows ==
  ASSUME CatalogueTypeOK, NEW e
  PROVE  /\ Cleared(e) \in [Person \X BookId -> PreferenceRow \cup {Null}]
         /\ \A k \in Person \X BookId :
              /\ (Cleared(e)[k] = Null) <=> (preferences[k] = Null)
              /\ preferences[k] # Null =>
                   {Cleared(e)[k].preferred, Cleared(e)[k].opened} \subseteq
                   {preferences[k].preferred, preferences[k].opened, Null}
  <1> DEFINE Without(p) == [field \in {"preferred", "opened"} |->
                              IF p[field] = e THEN Null ELSE p[field]]
  <1>1. ASSUME NEW p \in PreferenceRow
        PROVE  /\ Without(p) \in PreferenceRow
               /\ {Without(p).preferred, Without(p).opened} \subseteq {p.preferred, p.opened, Null}
    <2>1. /\ Without(p).preferred = IF p.preferred = e THEN Null ELSE p.preferred
          /\ Without(p).opened = IF p.opened = e THEN Null ELSE p.opened
      OBVIOUS
    <2>2. Without(p) = [preferred |-> Without(p).preferred, opened |-> Without(p).opened]
      OBVIOUS
    <2> HIDE DEF Without
    <2>3. Without(p).preferred \in EditionId \cup {Null} /\ Without(p).opened \in EditionId \cup {Null}
      BY <2>1 DEF PreferenceRow
    <2> QED
      BY <2>1, <2>2, <2>3 DEF PreferenceRow
  <1>2. \A i \in Person \X BookId :
          Cleared(e)[i] = IF i[1] # Administrator \/ ~Names(preferences[i], {e})
                          THEN preferences[i] ELSE Without(preferences[i])
    BY DEF Cleared
  <1>3. \A i \in Person \X BookId : preferences[i] \in PreferenceRow \cup {Null}
    BY DEF CatalogueTypeOK
  <1>4. \A i \in Person \X BookId : Names(preferences[i], {e}) => preferences[i] \in PreferenceRow
    BY <1>3 DEF Names
  <1>5. DOMAIN Cleared(e) = Person \X BookId /\ Cleared(e) = [i \in Person \X BookId |-> Cleared(e)[i]]
    BY DEF Cleared
  <1> HIDE DEF Without
  <1>6. \A i \in Person \X BookId : Cleared(e)[i] \in PreferenceRow \cup {Null}
    BY <1>1, <1>2, <1>3, <1>4
  <1>7. Cleared(e) \in [Person \X BookId -> PreferenceRow \cup {Null}]
    BY <1>5, <1>6
  <1>8. \A k \in Person \X BookId : (Cleared(e)[k] = Null) <=> (preferences[k] = Null)
    BY <1>1, <1>2, <1>4, NullAssumption DEF Names
  <1>9. \A k \in Person \X BookId : preferences[k] # Null =>
              {Cleared(e)[k].preferred, Cleared(e)[k].opened} \subseteq
              {preferences[k].preferred, preferences[k].opened, Null}
    BY <1>1, <1>2, <1>3
  <1> QED
    BY <1>7, <1>8, <1>9

LEMMA DeleteEditionCommitTyped ==
  ASSUME CatalogueTypeOK, NEW h \in Handler, DeleteEditionCommit(h)
  PROVE  CatalogueTypeOK'
  <1>1. Cleared(handler[h].edition) \in [Person \X BookId -> PreferenceRow \cup {Null}]
    BY ClearedRows
  <1> QED
    BY <1>1, CloseTyped DEF CatalogueTypeOK, DeleteEditionCommit

LEMMA DeleteBookCommitTyped ==
  ASSUME CatalogueTypeOK, NEW h \in Handler, DeleteBookCommit(h)
  PROVE  CatalogueTypeOK'
  BY CloseTyped DEF CatalogueTypeOK, DeleteBookCommit

LEMMA CatalogueTypeStep ==
  ASSUME CatalogueTypeOK, [CatalogueNext]_catalogueVars
  PROVE  CatalogueTypeOK'
  <1>1. CASE UNCHANGED catalogueVars
    BY <1>1 DEF catalogueVars, CatalogueTypeOK
  <1>2. ASSUME NEW b \in BookId, NewBook(b)
        PROVE  CatalogueTypeOK'
    BY <1>2, NewBookTyped
  <1>3. ASSUME NEW source \in FreshId(StoredId), NEW text \in FreshId(StoredId) \cup {Null},
               NEW cover \in FreshId(StoredId) \cup {Null}, ImportCommit(source, text, cover)
        PROVE  CatalogueTypeOK'
    <2>1. ASSUME NEW h \in Handler, NEW e \in FreshId(EditionId), NEW preferred \in BOOLEAN,
                 ImportEdition(h, e, source, text, cover, preferred)
          PROVE  CatalogueTypeOK'
      BY <2>1, ImportEditionTyped DEF FreshId
    <2>2. ASSUME NEW b \in FreshId(BookId), NEW e \in FreshId(EditionId),
                 NEW role \in {"source", "translation"}, NEW ready \in BOOLEAN,
                 NEW preferred \in BOOLEAN,
                 ImportBook(b, e, role, ready, source, text, cover, preferred)
          PROVE  CatalogueTypeOK'
      BY <2>2, ImportBookTyped
    <2>3. ASSUME NEW h \in Handler, ReplaceCommit(h, source, text)
          PROVE  CatalogueTypeOK'
      BY <2>3, ReplaceCommitTyped
    <2> QED
      BY <1>3, <2>1, <2>2, <2>3 DEF ImportCommit
  <1>4. ASSUME NEW h \in Handler, RequestBegins(h, EditionRow, EditionId \cup {Null})
        PROVE  CatalogueTypeOK'
    BY <1>4, RequestBeginsTyped, BeginTyped
  <1>5. ASSUME NEW h \in Handler, RequestEnds(h)
        PROVE  CatalogueTypeOK'
    <2>1. ASSUME CatalogueRollback(h)
          PROVE  CatalogueTypeOK'
      BY <2>1, CloseTyped DEF CatalogueRollback, CatalogueTypeOK
    <2> QED
      BY <1>5, <2>1, NewEditionTyped, UpdateCommitTyped, PreferCommitTyped,
         DeleteEditionCommitTyped, DeleteBookCommitTyped DEF RequestEnds
  <1> QED
    BY <1>1, <1>2, <1>3, <1>4, <1>5 DEF CatalogueNext

\* Rows and requests have their types.
THEOREM CatalogueTypeCorrect == CatalogueSpec => []CatalogueTypeOK
  <1>1. CatalogueInit => CatalogueTypeOK
    BY IdleIsTyped DEF CatalogueInit, CatalogueTypeOK
  <1>2. CatalogueTypeOK /\ [CatalogueNext]_catalogueVars => CatalogueTypeOK'
    BY CatalogueTypeStep
  <1> QED
    BY <1>1, <1>2, PTL DEF CatalogueSpec

-----------------------------------------------------------------------------
(* Relations and preferences.                                              *)

\* A primary key is used once: a row that is there was issued its key.
RowsAreIssued ==
    /\ \A b \in BookId : BookHere(b) => b \in issued
    /\ \A e \in EditionId : EditionHere(e) => e \in issued

\* An edition that was read in book b is in b still, or is gone for good.
StaysIn(e, b) == e \in issued /\ (EditionHere(e) => editions[e].book = b)

\* What was validated of a row that is to be written.
StaysValid(row) ==
    /\ row.source # Null =>
         row.role = "translation" /\ (EditionHere(row.source) => editions[row.source].role = "source")
    /\ \A x \in Relations(row) : StaysIn(x, row.book)

\* What a request has read and relies on when it writes.
ReadStands(r) ==
    /\ r.op = "add edition" => r.row.book \in issued /\ StaysValid(r.row)
    /\ r.op = "update edition" =>
         /\ StaysIn(r.edition, r.to.book) /\ StaysValid(r.to) /\ r.edition \notin Relations(r.to)
         /\ EditionHere(r.edition) => editions[r.edition].role = r.to.role
    /\ r.op = "prefer" /\ r.edition # Null => StaysIn(r.edition, r.book)
    /\ r.op = "delete book" => r.book \in issued /\ \A e \in r.editions : StaysIn(e, r.book)
    /\ r.op \in {"delete edition", "replace file"} => EditionHere(r.edition)

LocksAreExclusive == \A h, q \in Handler : h # q => Locked(h) \cap Locked(q) = {}

\* A revision belongs to an edition that is there (the foreign key of edition_files).
FilesHaveTheirEdition == \A f \in edition_files : EditionHere(f.edition)

CatalogueInv ==
    /\ CatalogueTypeOK /\ RowsAreIssued /\ RelationsHold /\ LocksAreExclusive
    /\ FilesHaveTheirEdition /\ \A h \in Handler : ReadStands(handler[h])

\* RelationsHold, edition by edition and preference by preference.
RowHolds(e) ==
    EditionHere(e) =>
        /\ BookHere(editions[e].book)
        /\ \A x \in Relations(editions[e]) :
              x # e /\ EditionHere(x) /\ editions[x].book = editions[e].book
        /\ editions[e].source # Null =>
              editions[e].role = "translation" /\ editions[editions[e].source].role = "source"

PreferenceHolds(k) ==
    preferences[k] # Null =>
        \A x \in {preferences[k].preferred, preferences[k].opened} \ {Null} :
            EditionHere(x) /\ editions[x].book = k[2]

EachHolds == /\ \A e \in EditionId : RowHolds(e)
             /\ \A k \in Person \X BookId : PreferenceHolds(k)

LEMMA RelationsByRow == RelationsHold <=> EachHolds
  <1>1. ASSUME NEW b, NEW S
        PROVE  S \subseteq EditionsOf(b) <=>
                 \A x \in S : EditionHere(x) /\ editions[x].book = b
    BY DEF EditionsOf, EditionHere
  <1>2. \A e \in EditionId :
          Relations(editions[e]) \subseteq EditionsOf(editions[e].book) \ {e} <=>
            \A x \in Relations(editions[e]) :
              x # e /\ EditionHere(x) /\ editions[x].book = editions[e].book
    BY <1>1
  <1>3. \A k \in Person \X BookId :
          {preferences[k].preferred, preferences[k].opened} \ {Null} \subseteq EditionsOf(k[2]) <=>
            \A x \in {preferences[k].preferred, preferences[k].opened} \ {Null} :
              EditionHere(x) /\ editions[x].book = k[2]
    <2> TAKE k \in Person \X BookId
    <2> DEFINE S == {preferences[k].preferred, preferences[k].opened} \ {Null}
    <2> HIDE DEF S
    <2>1. S \subseteq EditionsOf(k[2]) <=> \A x \in S : EditionHere(x) /\ editions[x].book = k[2]
      BY <1>1
    <2> QED
      BY <2>1 DEF S
  <1> QED
    BY <1>2, <1>3 DEF RelationsHold, EachHolds, RowHolds, PreferenceHolds, Relations

LEMMA RelationsByRowAfter ==
  ASSUME \A e \in EditionId : RowHolds(e)',
         \A k \in Person \X BookId : PreferenceHolds(k)'
  PROVE  RelationsHold'
  <1>1. EachHolds'
    BY DEF EachHolds
  <1> QED
    BY <1>1, RelationsByRow, PTL

\* Editions keep their book and role, and no key is used again.
KeepsEditions ==
    /\ issued \subseteq issued'
    /\ \A e \in EditionId : EditionHere(e)' =>
          \/ e \notin issued
          \/ /\ EditionHere(e) /\ editions'[e].book = editions[e].book
             /\ editions'[e].role = editions[e].role

LEMMA StaysInKept ==
  ASSUME KeepsEditions, NEW e, NEW b, StaysIn(e, b)
  PROVE  StaysIn(e, b)'
  BY DEF KeepsEditions, StaysIn, EditionHere

LEMMA StaysValidKept ==
  ASSUME KeepsEditions, NEW row, StaysValid(row)
  PROVE  StaysValid(row)'
  <1>1. \A x \in Relations(row) : StaysIn(x, row.book)'
    BY StaysInKept DEF StaysValid
  <1>2. row.source # Null =>
          /\ row.role = "translation"
          /\ EditionHere(row.source)' => editions'[row.source].role = "source"
    <2>1. row.source # Null => row.source \in issued
      BY DEF StaysValid, StaysIn, Relations
    <2> QED
      BY <2>1 DEF StaysValid, KeepsEditions, EditionHere
  <1> QED
    BY <1>1, <1>2 DEF StaysValid, Relations

\* What a request has read stands after a step of another one that does not delete
\* an edition it has locked.
LEMMA ReadStandsKept ==
  ASSUME KeepsEditions, NEW r \in Handling, ReadStands(r),
         r.op \in {"delete edition", "replace file"} => EditionHere(r.edition)'
  PROVE  ReadStands(r)'
  <1>1. r.op = "add edition" => r.row.book \in issued' /\ StaysValid(r.row)'
    BY StaysValidKept DEF ReadStands, KeepsEditions
  <1>2. r.op = "update edition" =>
         /\ StaysIn(r.edition, r.to.book)' /\ StaysValid(r.to)' /\ r.edition \notin Relations(r.to)
         /\ EditionHere(r.edition)' => editions'[r.edition].role = r.to.role
    <2>1. r.op = "update edition" => r.edition \in EditionId /\ r.edition \in issued
      BY Requests DEF ReadStands, StaysIn
    <2> QED
      BY <2>1, StaysValidKept, StaysInKept DEF ReadStands, KeepsEditions
  <1>3. r.op = "prefer" /\ r.edition # Null => StaysIn(r.edition, r.book)'
    BY StaysInKept DEF ReadStands
  <1>4. r.op = "delete book" => r.book \in issued' /\ \A e \in r.editions : StaysIn(e, r.book)'
    BY StaysInKept DEF ReadStands, KeepsEditions
  <1> QED
    BY <1>1, <1>2, <1>3, <1>4 DEF ReadStands, Relations

\* The requests after one has ended.
LEMMA CloseKeeps ==
  ASSUME CatalogueInv, NEW h \in Handler, Close(h), KeepsEditions,
         \A q \in Handler \ {h} : \A e \in Locked(q) : EditionHere(e)'
  PROVE  LocksAreExclusive' /\ \A q \in Handler : ReadStands(handler[q])'
  <1>1. handler'[h] = NoRequest /\ \A q \in Handler \ {h} : handler'[q] = handler[q]
    BY CloseTyped DEF CatalogueInv
  <1>2. LocksAreExclusive'
    <2>1. Locked(h)' = {}
      <3>1. handler'[h].op = "idle"
        BY <1>1 DEF NoRequest
      <3> QED
        BY <3>1 DEF Locked
    <2>2. \A q \in Handler \ {h} : Locked(q)' = Locked(q)
      BY <1>1 DEF Locked
    <2> QED
      BY <2>1, <2>2 DEF CatalogueInv, LocksAreExclusive
  <1>3. ReadStands(handler[h])'
    BY <1>1 DEF ReadStands, NoRequest
  <1>4. ASSUME NEW q \in Handler \ {h}
        PROVE  ReadStands(handler[q])'
    <2>1. PICK r : r = handler[q]
      OBVIOUS
    <2>2. r \in Handling /\ ReadStands(r)
      BY <2>1 DEF CatalogueInv, CatalogueTypeOK
    <2>3. r.op \in {"delete edition", "replace file"} => EditionHere(r.edition)'
      <3>1. r.op \in {"delete edition", "replace file"} => r.edition \in Locked(q)
        BY <2>1 DEF Locked
      <3> QED
        BY <3>1
    <2>4. ReadStands(r)'
      BY <2>2, <2>3, ReadStandsKept
    <2>5. handler'[q] = r
      BY <1>1, <2>1
    <2> QED
      BY <2>4, <2>5 DEF ReadStands, StaysValid, StaysIn, Relations
  <1> QED
    BY <1>2, <1>3, <1>4

\* A row with valid relations appears under a key that was not used.
LEMMA AddedRow ==
  ASSUME CatalogueInv, NEW e \in EditionId, e \notin issued, NEW row \in EditionRow,
         editions' = [editions EXCEPT ![e] = row], issued \cup {e} \subseteq issued',
         \A b \in BookId : BookHere(b) => BookHere(b)',
         BookHere(row.book)',
         \A x \in Relations(row) : EditionHere(x) /\ editions[x].book = row.book,
         row.source # Null => row.role = "translation" /\ editions[row.source].role = "source"
  PROVE  /\ \A d \in EditionId : RowHolds(d)' /\ (EditionHere(d)' => d \in issued')
         /\ KeepsEditions
         /\ EditionHere(e)' /\ editions'[e] = row
         /\ \A x : EditionHere(x) => /\ x # e /\ EditionHere(x)' /\ editions'[x] = editions[x]
                                     /\ editions'[x].book = editions[x].book
  <1>1. ~EditionHere(e)
    BY DEF CatalogueInv, RowsAreIssued
  <1>2. \A x \in EditionId : editions'[x] = IF x = e THEN row ELSE editions[x]
    BY DEF CatalogueInv, CatalogueTypeOK
  <1>3. EditionHere(e)' /\ editions'[e] = row
    BY <1>2, NullAssumption DEF EditionHere
  <1>4. \A x : EditionHere(x) => /\ x # e /\ EditionHere(x)' /\ editions'[x] = editions[x]
                                 /\ editions'[x].book = editions[x].book
    BY <1>1, <1>2 DEF EditionHere
  <1>5. \A d \in EditionId : EditionHere(d)' => d = e \/ EditionHere(d)
    BY <1>2 DEF EditionHere
  <1>6. KeepsEditions
    BY <1>4, <1>5 DEF KeepsEditions
  <1>7. \A d \in EditionId : EditionHere(d)' => d \in issued'
    BY <1>5 DEF CatalogueInv, RowsAreIssued
  <1>8. RowHolds(e)'
    <2>1. \A x \in Relations(row) : x # e /\ EditionHere(x)' /\ editions'[x].book = row.book
      BY <1>4
    <2>2. row.source # Null => editions'[row.source].role = "source"
      BY <1>4 DEF Relations
    <2> QED
      BY <1>3, <2>1, <2>2 DEF RowHolds
  <1>9. ASSUME NEW d \in EditionId, d # e
        PROVE  RowHolds(d)'
    <2> SUFFICES ASSUME EditionHere(d)
                 PROVE  RowHolds(d)'
      BY <1>5, <1>9 DEF RowHolds
    <2>1. PICK old : old = editions[d] /\ old = editions'[d] /\ old \in EditionRow
      BY <1>4 DEF EditionHere, CatalogueInv, CatalogueTypeOK
    <2>2. /\ BookHere(old.book)
          /\ \A x \in Relations(old) : x # d /\ EditionHere(x) /\ editions[x].book = old.book
          /\ old.source # Null => old.role = "translation" /\ editions[old.source].role = "source"
      <3>1. RowHolds(d)
        BY RelationsByRow DEF EachHolds, CatalogueInv
      <3> QED
        BY <2>1, <3>1 DEF RowHolds
    <2>3. BookHere(old.book)'
      BY <2>1, <2>2 DEF EditionRow
    <2>4. \A x \in Relations(old) : x # d /\ EditionHere(x)' /\ editions'[x].book = old.book
      BY <1>4, <2>2
    <2>5. old.source # Null => editions'[old.source].role = "source"
      BY <1>4, <2>2 DEF Relations
    <2> QED
      BY <2>1, <2>2, <2>3, <2>4, <2>5 DEF RowHolds
  <1> QED
    BY <1>3, <1>4, <1>6, <1>7, <1>8, <1>9

\* Preferences hold when what they name stays.
LEMMA PreferencesStay ==
  ASSUME CatalogueInv, NEW k \in Person \X BookId, preferences'[k] = preferences[k],
         preferences[k] # Null =>
           \A x \in {preferences[k].preferred, preferences[k].opened} \ {Null} :
              EditionHere(x) => EditionHere(x)' /\ editions'[x].book = editions[x].book
  PROVE  PreferenceHolds(k)'
  <1>1. PreferenceHolds(k)
    BY RelationsByRow DEF CatalogueInv, EachHolds
  <1> QED
    BY <1>1 DEF PreferenceHolds

\* They hold, too, when an imported edition of their book is preferred.
LEMMA ImportedIsPreferred ==
  ASSUME CatalogueInv, NEW b \in BookId, NEW e \in EditionId, NEW preferred \in BOOLEAN,
         ImportPrefers(b, e, preferred), EditionHere(e)', editions'[e].book = b,
         \A x : EditionHere(x) => EditionHere(x)' /\ editions'[x].book = editions[x].book
  PROVE  \A k \in Person \X BookId : PreferenceHolds(k)'
  <1> SUFFICES ASSUME NEW k \in Person \X BookId PROVE PreferenceHolds(k)'
    OBVIOUS
  <1>1. CASE preferences'[k] = preferences[k]
    BY <1>1, PreferencesStay
  <1>2. CASE preferences'[k] # preferences[k]
    <2>1. /\ k = <<Administrator, b>> /\ k[2] = b
          /\ preferences'[k] =
               [preferred |-> e,
                opened |-> IF preferences[k] = Null THEN Null ELSE preferences[k].opened]
      BY <1>2, ImportPrefersTyped DEF CatalogueInv
    <2>2. PreferenceHolds(k)
      BY RelationsByRow DEF CatalogueInv, EachHolds
    <2> QED
      BY <2>1, <2>2 DEF PreferenceHolds
  <1> QED
    BY <1>1, <1>2

\* Locked editions are there.
LEMMA LockedAreHere ==
  ASSUME CatalogueInv, NEW q \in Handler, NEW e \in Locked(q)
  PROVE  EditionHere(e)
  BY DEF CatalogueInv, ReadStands, Locked

\* The relations of the row a request brings, when they are there.
LEMMA MayAddRow ==
  ASSUME CatalogueInv, NEW h \in Handler, NEW e, MayAdd(h, e)
  PROVE  LET row == handler[h].row
         IN  /\ \A x \in Relations(row) : EditionHere(x) /\ editions[x].book = row.book
             /\ row.source # Null =>
                  row.role = "translation" /\ editions[row.source].role = "source"
  <1> DEFINE row == handler[h].row
  <1>1. StaysValid(row) /\ \A x \in Relations(row) : EditionHere(x)
    BY DEF CatalogueInv, ReadStands, MayAdd
  <1> HIDE DEF row
  <1>2. \A x \in Relations(row) : EditionHere(x) /\ editions[x].book = row.book
    BY <1>1 DEF StaysValid, StaysIn
  <1>3. row.source # Null =>
          row.role = "translation" /\ editions[row.source].role = "source"
    BY <1>1 DEF StaysValid, Relations
  <1> QED
    BY <1>2, <1>3 DEF row

LEMMA NewEditionKeeps ==
  ASSUME CatalogueInv, NEW h \in Handler, NEW e \in EditionId, NewEdition(h, e)
  PROVE  CatalogueInv'
  <1> DEFINE row == handler[h].row
  <1>0. MayAdd(h, e) /\ Close(h) /\ CatalogueTypeOK
    BY DEF NewEdition, CatalogueInv
  <1>1. row \in EditionRow /\ BookHere(row.book) /\ e \notin issued
    BY <1>0, MayAddTyped
  <1>2. /\ \A x \in Relations(row) : EditionHere(x) /\ editions[x].book = row.book
        /\ row.source # Null => row.role = "translation" /\ editions[row.source].role = "source"
    BY <1>0, MayAddRow
  <1>3. /\ editions' = [editions EXCEPT ![e] = row] /\ issued' = issued \cup {e}
        /\ UNCHANGED <<books, edition_files, stored_files, preferences, overtaken>>
    BY DEF NewEdition, Use
  <1>4. PICK new : new = row
    OBVIOUS
  <1> HIDE DEF row
  <1>5. /\ \A d \in EditionId : RowHolds(d)' /\ (EditionHere(d)' => d \in issued')
        /\ KeepsEditions
        /\ \A x : EditionHere(x) => EditionHere(x)' /\ editions'[x].book = editions[x].book
    <2>1. \A b : BookHere(b) => BookHere(b)'
      BY <1>3 DEF BookHere
    <2>2. BookHere(new.book)' /\ issued \cup {e} \subseteq issued'
      BY <1>1, <1>3, <1>4, <2>1
    <2>3. editions' = [editions EXCEPT ![e] = new]
      BY <1>3, <1>4
    <2> QED
      BY <1>1, <1>2, <1>4, <2>1, <2>2, <2>3, AddedRow
  <1>6. RelationsHold'
    <2>1. \A k \in Person \X BookId : PreferenceHolds(k)'
      BY <1>3, <1>5, PreferencesStay
    <2> QED
      BY <1>5, <2>1, RelationsByRowAfter
  <1>7. LocksAreExclusive' /\ \A q \in Handler : ReadStands(handler[q])'
    BY <1>0, <1>5, CloseKeeps, LockedAreHere
  <1>8. RowsAreIssued' /\ FilesHaveTheirEdition'
    BY <1>3, <1>5 DEF CatalogueInv, RowsAreIssued, FilesHaveTheirEdition, BookHere
  <1> QED
    BY <1>0, <1>6, <1>7, <1>8, NewEditionTyped DEF CatalogueInv

LEMMA ImportEditionKeeps ==
  ASSUME CatalogueInv, NEW h \in Handler, NEW e \in EditionId, NEW preferred \in BOOLEAN,
         NEW source \in FreshId(StoredId), NEW text \in FreshId(StoredId) \cup {Null},
         NEW cover \in FreshId(StoredId) \cup {Null},
         ImportEdition(h, e, source, text, cover, preferred)
  PROVE  CatalogueInv'
  <1> DEFINE row == handler[h].row
  <1>0. /\ MayAdd(h, e) /\ Close(h) /\ NewFile(e, source, text) /\ CatalogueTypeOK
        /\ editions' = [editions EXCEPT ![e] = row]
        /\ issued \cup {e} \subseteq issued'
    BY CatalogueAssumption DEF ImportEdition, CatalogueInv, Use
  <1>1. row \in EditionRow /\ BookHere(row.book) /\ e \notin issued /\ row.book \in BookId
    BY <1>0, MayAddTyped
  <1>2. /\ \A x \in Relations(row) : EditionHere(x) /\ editions[x].book = row.book
        /\ row.source # Null => row.role = "translation" /\ editions[row.source].role = "source"
    BY <1>0, MayAddRow
  <1>3. \A b \in BookId : BookHere(b)' <=> BookHere(b)
    <2>1. books' = books \/ books' = [books EXCEPT ![row.book].cover = cover]
      BY DEF ImportEdition
    <2>2. [books[row.book] EXCEPT !.cover = cover] \in BookRow
      BY <1>0, <1>1 DEF CatalogueTypeOK, BookHere, BookRow, FreshId
    <2>3. [books[row.book] EXCEPT !.cover = cover] # Null
      BY <2>2, NullAssumption
    <2>4. CASE books' = [books EXCEPT ![row.book].cover = cover]
      <3>1. \A b \in BookId : books'[b] = IF b = row.book
                                THEN [books[row.book] EXCEPT !.cover = cover] ELSE books[b]
        BY <1>0, <2>4 DEF CatalogueTypeOK
      <3> QED
        BY <1>1, <2>3, <3>1 DEF BookHere
    <2> QED
      BY <2>1, <2>4 DEF BookHere
  <1>4. PICK new : new = row
    OBVIOUS
  <1>5. ImportPrefers(new.book, e, preferred)
    BY <1>4 DEF ImportEdition
  <1> HIDE DEF row
  <1>6. /\ \A d \in EditionId : RowHolds(d)' /\ (EditionHere(d)' => d \in issued')
        /\ KeepsEditions /\ EditionHere(e)' /\ editions'[e] = new
        /\ \A x : EditionHere(x) => EditionHere(x)' /\ editions'[x].book = editions[x].book
    <2>1. editions' = [editions EXCEPT ![e] = new] /\ BookHere(new.book)'
      BY <1>0, <1>1, <1>3, <1>4
    <2> QED
      BY <1>0, <1>1, <1>2, <1>3, <1>4, <2>1, AddedRow
  <1>7. RelationsHold'
    <2>1. new.book \in BookId /\ editions'[e].book = new.book
      BY <1>1, <1>4, <1>6
    <2>2. \A k \in Person \X BookId : PreferenceHolds(k)'
      BY <1>5, <1>6, <2>1, ImportedIsPreferred
    <2> QED
      BY <1>6, <2>2, RelationsByRowAfter
  <1>8. LocksAreExclusive' /\ \A q \in Handler : ReadStands(handler[q])'
    BY <1>0, <1>6, CloseKeeps, LockedAreHere
  <1>9. RowsAreIssued' /\ FilesHaveTheirEdition'
    <2>1. \E f : edition_files' = edition_files \cup {f} /\ f.edition = e
      BY <1>0, NewFileTyped
    <2>2. FilesHaveTheirEdition'
      BY <1>6, <2>1 DEF CatalogueInv, FilesHaveTheirEdition
    <2> QED
      BY <1>0, <1>3, <1>6, <2>2 DEF CatalogueInv, RowsAreIssued
  <1>10. CatalogueTypeOK'
    BY <1>0, ImportEditionTyped
  <1> QED
    BY <1>7, <1>8, <1>9, <1>10 DEF CatalogueInv

\* A step that no request ends with: what they have read stands.
LEMMA OthersKeep ==
  ASSUME CatalogueInv, UNCHANGED handler, KeepsEditions,
         \A e \in EditionId : EditionHere(e) => EditionHere(e)'
  PROVE  LocksAreExclusive' /\ \A q \in Handler : ReadStands(handler[q])'
  <1>1. LocksAreExclusive'
    <2>1. \A q \in Handler : Locked(q)' = Locked(q)
      BY DEF Locked
    <2> QED
      BY <2>1 DEF CatalogueInv, LocksAreExclusive
  <1>2. ASSUME NEW q \in Handler
        PROVE  ReadStands(handler[q])'
    <2>1. PICK r : r = handler[q]
      OBVIOUS
    <2>2. r \in Handling /\ ReadStands(r)
      BY <2>1 DEF CatalogueInv, CatalogueTypeOK
    <2>3. r.op \in {"delete edition", "replace file"} => EditionHere(r.edition)'
      BY <2>2 DEF ReadStands, EditionHere
    <2>4. ReadStands(r)'
      BY <2>2, <2>3, ReadStandsKept
    <2>5. handler'[q] = r
      BY <2>1
    <2> QED
      BY <2>4, <2>5 DEF ReadStands, StaysValid, StaysIn, Relations
  <1> QED
    BY <1>1, <1>2

LEMMA ImportBookKeeps ==
  ASSUME CatalogueInv, NEW b \in FreshId(BookId), NEW e \in FreshId(EditionId),
         NEW role \in {"source", "translation"}, NEW ready \in BOOLEAN,
         NEW source \in FreshId(StoredId), NEW text \in FreshId(StoredId) \cup {Null},
         NEW cover \in FreshId(StoredId) \cup {Null}, NEW preferred \in BOOLEAN,
         ImportBook(b, e, role, ready, source, text, cover, preferred)
  PROVE  CatalogueInv'
  <1>1. PICK row : row = [book |-> b, role |-> role, ready |-> ready,
                          source |-> Null, supersedes |-> Null]
    OBVIOUS
  <1>2. /\ row \in EditionRow /\ row.book = b /\ row.source = Null /\ Relations(row) = {}
        /\ e \in EditionId /\ e \notin issued /\ b \in BookId /\ b \notin issued
    BY <1>1 DEF EditionRow, Relations, FreshId
  <1>3. /\ editions' = [editions EXCEPT ![e] = row] /\ issued \cup {b, e} \subseteq issued'
        /\ ImportPrefers(b, e, preferred) /\ UNCHANGED handler /\ NewFile(e, source, text)
        /\ books' = [books EXCEPT ![b] = [cover |-> cover]] /\ CatalogueTypeOK
    BY <1>1, <1>2, CatalogueAssumption DEF ImportBook, Use, CatalogueInv
  <1>4. [cover |-> cover] # Null
    <2>1. [cover |-> cover] \in BookRow
      BY DEF FreshId, BookRow
    <2> QED
      BY <2>1, NullAssumption
  <1>5. BookHere(b)' /\ \A c \in BookId : /\ BookHere(c) => BookHere(c)'
                                          /\ BookHere(c)' => c = b \/ BookHere(c)
    BY <1>2, <1>3, <1>4 DEF BookHere, CatalogueTypeOK
  <1>6. /\ \A d \in EditionId : RowHolds(d)' /\ (EditionHere(d)' => d \in issued')
        /\ KeepsEditions /\ EditionHere(e)'
        /\ \A x : EditionHere(x) => EditionHere(x)' /\ editions'[x].book = editions[x].book
    BY <1>2, <1>3, <1>5, AddedRow
  <1>7. RelationsHold'
    <2>1. editions'[e].book = b
      BY <1>2, <1>3 DEF CatalogueTypeOK
    <2>2. \A k \in Person \X BookId : PreferenceHolds(k)'
      BY <1>2, <1>3, <1>6, <2>1, ImportedIsPreferred
    <2> QED
      BY <1>6, <2>2, RelationsByRowAfter
  <1>8. LocksAreExclusive' /\ \A q \in Handler : ReadStands(handler[q])'
    BY <1>3, <1>6, OthersKeep
  <1>9. RowsAreIssued' /\ FilesHaveTheirEdition'
    <2>1. \E f : edition_files' = edition_files \cup {f} /\ f.edition = e
      BY <1>2, <1>3, NewFileTyped
    <2>2. FilesHaveTheirEdition'
      BY <1>6, <2>1 DEF CatalogueInv, FilesHaveTheirEdition
    <2>3. \A c \in BookId : BookHere(c)' => c \in issued'
      BY <1>3, <1>5 DEF CatalogueInv, RowsAreIssued
    <2> QED
      BY <1>6, <2>2, <2>3 DEF RowsAreIssued
  <1>10. CatalogueTypeOK'
    BY <1>3, ImportBookTyped
  <1> QED
    BY <1>7, <1>8, <1>9, <1>10 DEF CatalogueInv

\* Rows and relations after a step that changes no edition and loses no book.
LEMMA SameEditions ==
  ASSUME CatalogueInv, UNCHANGED editions, issued \subseteq issued',
         \A b \in BookId : BookHere(b) => BookHere(b)'
  PROVE  /\ KeepsEditions
         /\ \A e \in EditionId : /\ RowHolds(e)' /\ EditionHere(e)' = EditionHere(e)
                                 /\ EditionHere(e)' => e \in issued'
         /\ \A k \in Person \X BookId : preferences'[k] = preferences[k] => PreferenceHolds(k)'
  <1>1. \A x : EditionHere(x)' = EditionHere(x) /\ editions'[x] = editions[x]
    BY DEF EditionHere
  <1>2. KeepsEditions
    BY <1>1 DEF KeepsEditions
  <1>3. ASSUME NEW e \in EditionId
        PROVE  RowHolds(e)'
    <2>1. RowHolds(e)
      BY RelationsByRow DEF CatalogueInv, EachHolds
    <2>2. EditionHere(e) => editions[e].book \in BookId
      BY NullAssumption DEF CatalogueInv, CatalogueTypeOK, EditionHere, EditionRow
    <2> QED
      BY <1>1, <2>1, <2>2 DEF RowHolds
  <1>4. \A e \in EditionId : EditionHere(e)' => e \in issued'
    BY <1>1 DEF CatalogueInv, RowsAreIssued
  <1>5. ASSUME NEW k \in Person \X BookId, preferences'[k] = preferences[k]
        PROVE  PreferenceHolds(k)'
    <2>1. PreferenceHolds(k)
      BY RelationsByRow DEF CatalogueInv, EachHolds
    <2> QED
      BY <1>1, <1>5, <2>1 DEF PreferenceHolds
  <1> QED
    BY <1>1, <1>2, <1>3, <1>4, <1>5

LEMMA NewBookKeeps ==
  ASSUME CatalogueInv, NEW b \in BookId, NewBook(b)
  PROVE  CatalogueInv'
  <1>1. /\ UNCHANGED <<editions, edition_files, preferences, handler>>
        /\ issued' = issued \cup {b} /\ books' = [books EXCEPT ![b] = [cover |-> Null]]
        /\ CatalogueTypeOK
    BY DEF NewBook, Use, CatalogueInv
  <1>2. [cover |-> Null] # Null
    <2>1. [cover |-> Null] \in BookRow
      BY DEF BookRow
    <2> QED
      BY <2>1, NullAssumption
  <1>3. \A c \in BookId : /\ BookHere(c) => BookHere(c)'
                          /\ BookHere(c)' => c \in issued'
    BY <1>1, <1>2 DEF BookHere, CatalogueTypeOK, CatalogueInv, RowsAreIssued
  <1>4. /\ KeepsEditions
        /\ \A e \in EditionId : /\ RowHolds(e)' /\ EditionHere(e)' = EditionHere(e)
                                /\ EditionHere(e)' => e \in issued'
        /\ \A k \in Person \X BookId : PreferenceHolds(k)'
    BY <1>1, <1>3, SameEditions
  <1>5. LocksAreExclusive' /\ \A q \in Handler : ReadStands(handler[q])'
    BY <1>1, <1>4, OthersKeep
  <1>6. RelationsHold'
    BY <1>4, RelationsByRowAfter
  <1>7. RowsAreIssued' /\ FilesHaveTheirEdition'
    BY <1>1, <1>3, <1>4 DEF RowsAreIssued, FilesHaveTheirEdition, CatalogueInv, EditionHere
  <1> QED
    BY <1>1, <1>5, <1>6, <1>7, NewBookTyped DEF CatalogueInv

LEMMA ReplaceCommitKeeps ==
  ASSUME CatalogueInv, NEW h \in Handler,
         NEW source \in FreshId(StoredId), NEW text \in FreshId(StoredId) \cup {Null},
         ReplaceCommit(h, source, text)
  PROVE  CatalogueInv'
  <1>1. /\ UNCHANGED <<books, editions, preferences>> /\ issued \subseteq issued' /\ Close(h)
        /\ CatalogueTypeOK /\ NewFile(handler[h].edition, source, text)
        /\ handler[h].op = "replace file"
    BY DEF ReplaceCommit, Use, CatalogueInv
  <1>2. \A c \in BookId : BookHere(c)' = BookHere(c)
    BY <1>1 DEF BookHere
  <1>3. /\ KeepsEditions
        /\ \A e \in EditionId : /\ RowHolds(e)' /\ EditionHere(e)' = EditionHere(e)
                                /\ EditionHere(e)' => e \in issued'
        /\ \A k \in Person \X BookId : PreferenceHolds(k)'
    BY <1>1, <1>2, SameEditions
  <1>4. LocksAreExclusive' /\ \A q \in Handler : ReadStands(handler[q])'
    BY <1>1, <1>3, CloseKeeps, LockedAreHere DEF EditionHere
  <1>5. RelationsHold'
    BY <1>3, RelationsByRowAfter
  <1>6. FilesHaveTheirEdition'
    <2>1. PICK e : e = handler[h].edition
      OBVIOUS
    <2>2. EditionHere(e) /\ e \in EditionId
      BY <1>1, <2>1 DEF CatalogueInv, ReadStands, EditionHere
    <2>3. \E f : edition_files' = edition_files \cup {f} /\ f.edition = e
      <3>1. NewFile(e, source, text)
        BY <1>1, <2>1 DEF NewFile, FilesOf
      <3> QED
        BY <1>1, <2>2, <3>1, NewFileTyped
    <2> QED
      BY <1>3, <2>2, <2>3 DEF FilesHaveTheirEdition, CatalogueInv, EditionHere
  <1>7. RowsAreIssued'
    BY <1>1, <1>2, <1>3 DEF RowsAreIssued, CatalogueInv
  <1> QED
    BY <1>1, <1>4, <1>5, <1>6, <1>7, ReplaceCommitTyped DEF CatalogueInv

LEMMA UpdateCommitKeeps ==
  ASSUME CatalogueInv, NEW h \in Handler, UpdateCommit(h)
  PROVE  CatalogueInv'
  <1>0. CatalogueTypeOK /\ Close(h)
        /\ UNCHANGED <<books, edition_files, stored_files, preferences, issued, overtaken>>
    BY DEF CatalogueInv, UpdateCommit
  <1>1. PICK e, to, row, new :
          /\ e = handler[h].edition /\ to = handler[h].to /\ row = editions[e] /\ new = editions'[e]
    OBVIOUS
  <1>2. /\ handler[h].op = "update edition" /\ e \in EditionId /\ EditionHere(e)
        /\ row \in EditionRow /\ editions' = [editions EXCEPT ![e] = new]
        /\ new \in EditionRow /\ new.book = row.book /\ new.role = row.role
        /\ \/ new.source = row.source
           \/ new.source = to.source /\ (new.source # Null => EditionHere(new.source))
        /\ \/ new.supersedes = row.supersedes
           \/ /\ new.supersedes = to.supersedes
              /\ new.supersedes # Null => EditionHere(new.supersedes)
    BY <1>0, <1>1, UpdateWrites
  <1>3. /\ StaysIn(e, to.book) /\ StaysValid(to) /\ e \notin Relations(to)
        /\ row.book = to.book /\ row.role = to.role
    BY <1>1, <1>2 DEF CatalogueInv, ReadStands, StaysIn
  <1>4. RowHolds(e)
    BY <1>2, RelationsByRow DEF CatalogueInv, EachHolds
  <1>5. /\ \A x \in Relations(new) : x # e /\ EditionHere(x) /\ editions[x].book = new.book
        /\ new.source # Null =>
             new.role = "translation" /\ editions[new.source].role = "source"
    <2>1. \A x \in Relations(new) : x \in Relations(row) \/ (x \in Relations(to) /\ EditionHere(x))
      BY <1>2 DEF Relations
    <2>2. \A x \in Relations(row) : x # e /\ EditionHere(x) /\ editions[x].book = row.book
      BY <1>1, <1>2, <1>4 DEF RowHolds
    <2>3. \A x \in Relations(to) : x # e /\ (EditionHere(x) => editions[x].book = to.book)
      BY <1>3 DEF StaysValid, StaysIn
    <2>4. row.source # Null => row.role = "translation" /\ editions[row.source].role = "source"
      BY <1>1, <1>2, <1>4 DEF RowHolds
    <2>5. to.source # Null =>
            to.role = "translation" /\ (EditionHere(to.source) => editions[to.source].role = "source")
      BY <1>3 DEF StaysValid
    <2> QED
      BY <1>2, <1>3, <2>1, <2>2, <2>3, <2>4, <2>5
  <1>6. \A x \in EditionId : editions'[x] = IF x = e THEN new ELSE editions[x]
    BY <1>0, <1>2 DEF CatalogueTypeOK
  <1>7. \A x : /\ EditionHere(x)' = EditionHere(x)
               /\ EditionHere(x) => /\ editions'[x].book = editions[x].book
                                    /\ editions'[x].role = editions[x].role
    BY <1>1, <1>2, <1>6, NullAssumption DEF EditionHere
  <1>8. KeepsEditions
    BY <1>0, <1>7 DEF KeepsEditions
  <1>9. \A b : BookHere(b)' = BookHere(b)
    BY <1>0 DEF BookHere
  <1>10. ASSUME NEW d \in EditionId
         PROVE  RowHolds(d)'
    <2>1. CASE d = e
      <3>1. BookHere(new.book)
        BY <1>1, <1>2, <1>4 DEF RowHolds
      <3>2. \A x \in Relations(new) : x # e /\ EditionHere(x)' /\ editions'[x].book = new.book
        BY <1>5, <1>7
      <3>3. new.source # Null => new.role = "translation" /\ editions'[new.source].role = "source"
        BY <1>5, <1>7 DEF Relations
      <3>4. editions'[d] = new
        BY <1>1, <2>1
      <3> QED
        BY <1>9, <2>1, <3>1, <3>2, <3>3, <3>4 DEF RowHolds
    <2>2. CASE d # e
      <3>1. PICK old : old = editions[d] /\ old = editions'[d]
        BY <1>6, <2>2
      <3>2. RowHolds(d)
        BY RelationsByRow DEF CatalogueInv, EachHolds
      <3>3. EditionHere(d) =>
              /\ BookHere(old.book)'
              /\ \A x \in Relations(old) : x # d /\ EditionHere(x)' /\ editions'[x].book = old.book
              /\ old.source # Null => old.role = "translation" /\ editions'[old.source].role = "source"
        <4> SUFFICES ASSUME EditionHere(d)
                     PROVE  /\ BookHere(old.book)'
                            /\ \A x \in Relations(old) :
                                  x # d /\ EditionHere(x)' /\ editions'[x].book = old.book
                            /\ old.source # Null =>
                                  old.role = "translation" /\ editions'[old.source].role = "source"
          OBVIOUS
        <4>1. /\ BookHere(old.book)
              /\ \A x \in Relations(old) : x # d /\ EditionHere(x) /\ editions[x].book = old.book
              /\ old.source # Null => old.role = "translation" /\ editions[old.source].role = "source"
          BY <3>1, <3>2 DEF RowHolds
        <4> QED
          BY <1>7, <1>9, <4>1 DEF Relations
      <3> QED
        BY <1>7, <3>1, <3>3 DEF RowHolds
    <2> QED
      BY <2>1, <2>2
  <1>11. RelationsHold'
    <2>1. ASSUME NEW k \in Person \X BookId
          PROVE  PreferenceHolds(k)'
      BY <1>0, <1>7, PreferencesStay
    <2> QED
      BY <1>10, <2>1, RelationsByRowAfter
  <1>12. LocksAreExclusive' /\ \A q \in Handler : ReadStands(handler[q])'
    BY <1>0, <1>7, <1>8, CloseKeeps, LockedAreHere
  <1>13. RowsAreIssued' /\ FilesHaveTheirEdition'
    BY <1>0, <1>7, <1>9 DEF CatalogueInv, RowsAreIssued, FilesHaveTheirEdition
  <1> QED
    BY <1>0, <1>11, <1>12, <1>13, UpdateCommitTyped DEF CatalogueInv

LEMMA PreferCommitKeeps ==
  ASSUME CatalogueInv, NEW h \in Handler, PreferCommit(h)
  PROVE  CatalogueInv'
  <1>0. CatalogueTypeOK /\ Close(h)
        /\ UNCHANGED <<books, editions, edition_files, stored_files, issued, overtaken>>
    BY DEF CatalogueInv, PreferCommit
  <1>1. \A c \in BookId : BookHere(c)' = BookHere(c)
    BY <1>0 DEF BookHere
  <1>2. /\ KeepsEditions
        /\ \A e \in EditionId : /\ RowHolds(e)' /\ EditionHere(e)' = EditionHere(e)
                                /\ EditionHere(e)' => e \in issued'
        /\ \A k \in Person \X BookId : preferences'[k] = preferences[k] => PreferenceHolds(k)'
    BY <1>0, <1>1, SameEditions
  <1>3. ASSUME NEW k \in Person \X BookId, preferences'[k] # preferences[k]
        PROVE  PreferenceHolds(k)'
    <2>1. PICK r, old, new : /\ r = handler[h] /\ old = preferences[<<r.person, r.book>>]
                             /\ new = preferences'[<<r.person, r.book>>]
      OBVIOUS
    <2>2. /\ r.op = "prefer" /\ r.person \in Person /\ r.book \in BookId
          /\ preferences' = [preferences EXCEPT ![<<r.person, r.book>>] = new]
          /\ {new.preferred, new.opened}
               \subseteq {r.edition, Null} \cup
                         (IF old = Null THEN {} ELSE {old.preferred, old.opened})
          /\ r.edition # Null => EditionHere(r.edition)
      BY <1>0, <2>1, PreferWrites
    <2>3. k = <<r.person, r.book>> /\ k[2] = r.book /\ preferences'[k] = new /\ old = preferences[k]
      BY <1>0, <1>3, <2>1, <2>2 DEF CatalogueTypeOK
    <2>4. r.edition # Null => StaysIn(r.edition, r.book)
      BY <2>1, <2>2 DEF CatalogueInv, ReadStands
    <2>5. r.edition # Null => EditionHere(r.edition) /\ editions[r.edition].book = k[2]
      BY <2>2, <2>3, <2>4 DEF StaysIn
    <2>6. PreferenceHolds(k)
      BY RelationsByRow DEF CatalogueInv, EachHolds
    <2>7. \A x \in {new.preferred, new.opened} \ {Null} : EditionHere(x) /\ editions[x].book = k[2]
      BY <2>2, <2>3, <2>5, <2>6 DEF PreferenceHolds
    <2> QED
      BY <1>0, <2>3, <2>7 DEF PreferenceHolds, EditionHere
  <1>4. RelationsHold'
    BY <1>2, <1>3, RelationsByRowAfter
  <1>5. LocksAreExclusive' /\ \A q \in Handler : ReadStands(handler[q])'
    BY <1>0, <1>2, CloseKeeps, LockedAreHere DEF EditionHere
  <1>6. RowsAreIssued' /\ FilesHaveTheirEdition'
    BY <1>0, <1>1, <1>2 DEF CatalogueInv, RowsAreIssued, FilesHaveTheirEdition, EditionHere
  <1> QED
    BY <1>0, <1>4, <1>5, <1>6, PreferCommitTyped DEF CatalogueInv

LEMMA BookIsHere ==
  ASSUME CatalogueInv, NEW d \in EditionId, EditionHere(d)
  PROVE  books[editions[d].book] # Null /\ editions[d].book \in BookId
  <1>1. RowHolds(d)
    BY RelationsByRow DEF CatalogueInv, EachHolds
  <1>2. editions[d] \in EditionRow
    BY DEF CatalogueInv, CatalogueTypeOK, EditionHere
  <1> QED
    BY <1>1, <1>2 DEF RowHolds, BookHere, EditionRow

\* Editions are deleted: those that stay relate to none of them.
LEMMA DeletedRows ==
  ASSUME CatalogueInv, NEW E, UNCHANGED issued,
         \A x \in EditionId : editions'[x] = IF x \in E THEN Null ELSE editions[x],
         \A d \in EditionId : EditionHere(d) /\ d \notin E => Relations(editions[d]) \cap E = {},
         \A d \in EditionId : EditionHere(d) /\ d \notin E => BookHere(editions[d].book)'
  PROVE  /\ KeepsEditions
         /\ \A d : EditionHere(d)' <=> EditionHere(d) /\ d \notin E
         /\ \A d \in EditionId : RowHolds(d)' /\ (EditionHere(d)' => editions'[d] = editions[d])
  <1>1. \A d : /\ EditionHere(d)' <=> EditionHere(d) /\ d \notin E
               /\ EditionHere(d)' => editions'[d] = editions[d]
    BY DEF EditionHere
  <1>2. KeepsEditions
    BY <1>1 DEF KeepsEditions
  <1>3. ASSUME NEW d \in EditionId, EditionHere(d), d \notin E
        PROVE  RowHolds(d)'
    <2>1. PICK old : old = editions[d] /\ old = editions'[d]
      BY <1>1, <1>3
    <2>2. /\ \A x \in Relations(old) : x # d /\ EditionHere(x) /\ editions[x].book = old.book
          /\ old.source # Null => old.role = "translation" /\ editions[old.source].role = "source"
      <3>1. RowHolds(d)
        BY RelationsByRow DEF CatalogueInv, EachHolds
      <3> QED
        BY <1>3, <2>1, <3>1 DEF RowHolds
    <2>3. Relations(old) \cap E = {} /\ BookHere(old.book)'
      BY <1>3, <2>1
    <2>4. \A x \in Relations(old) : /\ x # d /\ EditionHere(x)' /\ editions'[x].book = old.book
                                    /\ editions'[x] = editions[x]
      BY <1>1, <2>2, <2>3
    <2>5. old.source # Null => editions'[old.source].role = "source"
      BY <2>2, <2>4 DEF Relations
    <2> QED
      BY <2>1, <2>2, <2>3, <2>4, <2>5 DEF RowHolds
  <1>4. \A d \in EditionId : RowHolds(d)'
    BY <1>1, <1>3 DEF RowHolds
  <1> QED
    BY <1>1, <1>2, <1>4

LEMMA DeleteEditionCommitKeeps ==
  ASSUME CatalogueInv, NEW h \in Handler, DeleteEditionCommit(h)
  PROVE  CatalogueInv'
  <1>1. PICK e : e = handler[h].edition
    OBVIOUS
  <1>2. /\ CatalogueTypeOK /\ Close(h) /\ handler[h].op = "delete edition"
        /\ editions' = [editions EXCEPT ![e] = Null] /\ preferences' = Cleared(e)
        /\ UNCHANGED <<books, issued>>
        /\ edition_files' \subseteq edition_files /\ \A f \in edition_files' : f.edition # e
    BY <1>1 DEF CatalogueInv, DeleteEditionCommit
  <1>3. \A d \in EditionId : EditionHere(d) => e \notin Relations(editions[d])
    BY <1>1 DEF DeleteEditionCommit, Dependents
  <1>4. \A b : BookHere(b)' = BookHere(b)
    BY <1>2 DEF BookHere
  <1>5. /\ KeepsEditions
        /\ \A d : EditionHere(d)' <=> EditionHere(d) /\ d # e
        /\ \A d \in EditionId : RowHolds(d)' /\ (EditionHere(d)' => editions'[d] = editions[d])
    <2>1. \A x \in EditionId : editions'[x] = IF x \in {e} THEN Null ELSE editions[x]
      BY <1>2 DEF CatalogueTypeOK
    <2>2. \A d \in EditionId : EditionHere(d) /\ d # e => BookHere(editions[d].book)'
      BY <1>2, <2>1, BookIsHere DEF BookHere
    <2>3. \A d : d \in {e} <=> d = e
      OBVIOUS
    <2> QED
      BY <1>2, <1>3, <2>1, <2>2, <2>3, DeletedRows
  <1>6. ASSUME NEW k \in Person \X BookId
        PROVE  PreferenceHolds(k)'
    <2>1. /\ (preferences'[k] = Null) <=> (preferences[k] = Null)
          /\ preferences[k] # Null =>
               {preferences'[k].preferred, preferences'[k].opened} \subseteq
               {preferences[k].preferred, preferences[k].opened, Null}
      BY <1>2, ClearedRows
    <2>2. ~Names(preferences'[k], {e})
      BY <1>1, <1>2, ClearedRows DEF DeleteEditionCommit
    <2>3. PreferenceHolds(k)
      BY RelationsByRow DEF CatalogueInv, EachHolds
    <2>4. preferences'[k] # Null =>
            \A x \in {preferences'[k].preferred, preferences'[k].opened} \ {Null} :
               x # e /\ EditionHere(x) /\ editions[x].book = k[2]
      BY <2>1, <2>2, <2>3 DEF PreferenceHolds, Names
    <2>5. \A x : EditionHere(x) /\ x # e => EditionHere(x)' /\ editions'[x].book = editions[x].book
      BY <1>5 DEF EditionHere
    <2> QED
      BY <2>4, <2>5 DEF PreferenceHolds
  <1>7. RelationsHold'
    BY <1>5, <1>6, RelationsByRowAfter
  <1>8. LocksAreExclusive' /\ \A q \in Handler : ReadStands(handler[q])'
    <2>1. e \in Locked(h)
      BY <1>1, <1>2 DEF Locked
    <2>2. \A q \in Handler \ {h} : e \notin Locked(q)
      BY <2>1 DEF CatalogueInv, LocksAreExclusive
    <2> QED
      BY <1>2, <1>5, <2>2, CloseKeeps, LockedAreHere
  <1>9. RowsAreIssued' /\ FilesHaveTheirEdition'
    BY <1>2, <1>4, <1>5 DEF CatalogueInv, RowsAreIssued, FilesHaveTheirEdition
  <1> QED
    BY <1>2, <1>7, <1>8, <1>9, DeleteEditionCommitTyped DEF CatalogueInv

LEMMA DeleteBookCommitKeeps ==
  ASSUME CatalogueInv, NEW h \in Handler, DeleteBookCommit(h)
  PROVE  CatalogueInv'
  <1>1. PICK b, E : b = handler[h].book /\ E = handler[h].editions
    OBVIOUS
  <1>2. /\ CatalogueTypeOK /\ Close(h) /\ handler[h].op = "delete book" /\ UNCHANGED issued
        /\ books' = [books EXCEPT ![b] = Null]
        /\ preferences' = [preferences EXCEPT ![<<Administrator, b>>] = Null]
        /\ \A u \in Person \ {Administrator} : preferences[<<u, b>>] = Null
        /\ editions' = [x \in EditionId |-> IF x \in E THEN Null ELSE editions[x]]
        /\ edition_files' = edition_files \ handler[h].files
    BY <1>1 DEF CatalogueInv, DeleteBookCommit
  <1>3. /\ b \in BookId /\ E \subseteq EditionId
        /\ \A e \in E : EditionHere(e) => editions[e].book = b
    <2>1. handler[h] \in Handling /\ ReadStands(handler[h])
      BY DEF CatalogueInv, CatalogueTypeOK
    <2> QED
      BY <1>1, <1>2, <2>1, Requests DEF ReadStands, StaysIn
  <1>4. /\ EditionsOf(b) \subseteq E
        /\ \A d \in EditionId : EditionHere(d) /\ d \notin E => Relations(editions[d]) \cap E = {}
        /\ \A f \in edition_files' : f.edition \notin EditionsOf(b)
        /\ \A q \in Handler \ {h} : Locked(q) \cap EditionsOf(b) = {}
    BY <1>1, <1>2 DEF DeleteBookCommit, Dependents, FilesOf, Unlocked
  <1>5. \A c \in BookId : BookHere(c)' <=> BookHere(c) /\ c # b
    BY <1>2, <1>3 DEF BookHere, CatalogueTypeOK
  <1>6. \A d \in EditionId : EditionHere(d) /\ d \notin E =>
           editions[d].book \in BookId /\ editions[d].book # b
    BY <1>2, <1>4, NullAssumption DEF EditionsOf, EditionHere, CatalogueTypeOK, EditionRow
  <1>7. /\ KeepsEditions
        /\ \A d : EditionHere(d)' <=> EditionHere(d) /\ d \notin E
        /\ \A d \in EditionId : RowHolds(d)' /\ (EditionHere(d)' => editions'[d] = editions[d])
    <2>1. \A x \in EditionId : editions'[x] = IF x \in E THEN Null ELSE editions[x]
      BY <1>2
    <2>2. \A d \in EditionId : EditionHere(d) /\ d \notin E => BookHere(editions[d].book)'
      BY <1>2, <1>6, <2>1, BookIsHere DEF BookHere, CatalogueTypeOK
    <2> QED
      BY <1>2, <1>4, <2>1, <2>2, DeletedRows
  <1>8. ASSUME NEW k \in Person \X BookId
        PROVE  PreferenceHolds(k)'
    <2>1. /\ k = <<Administrator, b>> => preferences'[k] = Null
          /\ k # <<Administrator, b>> => preferences'[k] = preferences[k]
          /\ k # <<Administrator, b>> /\ preferences[k] # Null => k[2] # b
      <3>1. k = <<k[1], k[2]>> /\ k[1] \in Person
        OBVIOUS
      <3>2. k # <<Administrator, b>> /\ k[2] = b => preferences[k] = Null
        BY <1>2, <3>1
      <3> QED
        BY <1>2, <1>3, <3>2 DEF CatalogueTypeOK
    <2>2. PreferenceHolds(k)
      BY RelationsByRow DEF CatalogueInv, EachHolds
    <2>3. \A x : EditionHere(x) /\ editions[x].book = k[2] /\ k[2] # b =>
                   EditionHere(x)' /\ editions'[x].book = k[2]
      BY <1>3, <1>7 DEF EditionHere
    <2> QED
      BY <2>1, <2>2, <2>3 DEF PreferenceHolds
  <1>9. RelationsHold'
    BY <1>7, <1>8, RelationsByRowAfter
  <1>10. \A x : EditionHere(x) /\ x \notin EditionsOf(b) => EditionHere(x)'
    BY <1>3, <1>7 DEF EditionsOf, EditionHere
  <1>11. LocksAreExclusive' /\ \A q \in Handler : ReadStands(handler[q])'
    <2>1. \A q \in Handler \ {h} : \A e \in Locked(q) : EditionHere(e)'
      BY <1>4, <1>10, LockedAreHere
    <2> QED
      BY <1>2, <1>7, <2>1, CloseKeeps
  <1>12. RowsAreIssued' /\ FilesHaveTheirEdition'
    BY <1>2, <1>4, <1>5, <1>7, <1>10 DEF CatalogueInv, RowsAreIssued, FilesHaveTheirEdition
  <1> QED
    BY <1>2, <1>9, <1>11, <1>12, DeleteBookCommitTyped DEF CatalogueInv

LEMMA CatalogueRollbackKeeps ==
  ASSUME CatalogueInv, NEW h \in Handler, CatalogueRollback(h)
  PROVE  CatalogueInv'
  <1>1. /\ CatalogueTypeOK /\ Close(h) /\ UNCHANGED <<books, editions, edition_files, preferences, issued>>
        /\ UNCHANGED <<stored_files, overtaken>>
    BY DEF CatalogueInv, CatalogueRollback
  <1>2. \A b : BookHere(b)' = BookHere(b)
    BY <1>1 DEF BookHere
  <1>3. /\ KeepsEditions
        /\ \A e \in EditionId : /\ RowHolds(e)' /\ EditionHere(e)' = EditionHere(e)
                                /\ EditionHere(e)' => e \in issued'
        /\ \A k \in Person \X BookId : PreferenceHolds(k)'
    BY <1>1, <1>2, SameEditions
  <1>4. LocksAreExclusive' /\ \A q \in Handler : ReadStands(handler[q])'
    BY <1>1, <1>3, CloseKeeps, LockedAreHere DEF EditionHere
  <1>5. RelationsHold'
    BY <1>3, RelationsByRowAfter
  <1>6. RowsAreIssued' /\ FilesHaveTheirEdition'
    BY <1>1, <1>2, <1>3 DEF CatalogueInv, RowsAreIssued, FilesHaveTheirEdition, EditionHere
  <1>7. CatalogueTypeOK'
    BY <1>1, CloseTyped DEF CatalogueTypeOK
  <1> QED
    BY <1>4, <1>5, <1>6, <1>7 DEF CatalogueInv

\* A request begins with something that stands.
LEMMA BeginKeeps ==
  ASSUME CatalogueInv, NEW h \in Handler, NEW r \in Handling, Begins(h, r), ReadStands(r),
         r.op \in {"delete edition", "replace file"} => Unlocked(h, {r.edition})
  PROVE  CatalogueInv'
  <1>1. /\ UNCHANGED <<books, editions, edition_files, preferences, issued>> /\ CatalogueTypeOK
        /\ handler'[h] = r /\ \A q \in Handler \ {h} : handler'[q] = handler[q]
    BY DEF Begins, CatalogueInv, CatalogueTypeOK
  <1>2. /\ \A b : BookHere(b)' = BookHere(b)
        /\ \A e : EditionHere(e)' = EditionHere(e) /\ editions'[e] = editions[e]
    BY <1>1 DEF BookHere, EditionHere
  <1>3. /\ KeepsEditions /\ \A e \in EditionId : RowHolds(e)'
        /\ \A k \in Person \X BookId : PreferenceHolds(k)'
    BY <1>1, <1>2, SameEditions
  <1>4. RelationsHold'
    BY <1>3, RelationsByRowAfter
  <1>5. LocksAreExclusive'
    <2>1. Locked(h)' = IF r.op \in {"delete edition", "replace file"} THEN {r.edition} ELSE {}
      BY <1>1 DEF Locked
    <2>2. \A q \in Handler \ {h} : /\ Locked(q)' = Locked(q)
                                   /\ Locked(h)' \cap Locked(q) = {} /\ Locked(q) \cap Locked(h)' = {}
      BY <1>1, <2>1 DEF Locked, Unlocked
    <2>3. ASSUME NEW a \in Handler, NEW b \in Handler, a # b
          PROVE  Locked(a)' \cap Locked(b)' = {}
      <3>1. CASE a = h
        BY <2>2, <2>3, <3>1
      <3>2. CASE b = h
        <4>1. Locked(a)' = Locked(a) /\ Locked(a) \cap Locked(h)' = {}
          BY <2>2, <2>3, <3>2
        <4> QED
          BY <4>1, <3>2
      <3>3. CASE a # h /\ b # h
        BY <2>2, <2>3, <3>3 DEF CatalogueInv, LocksAreExclusive
      <3> QED
        BY <3>1, <3>2, <3>3
    <2> QED
      BY <2>3 DEF LocksAreExclusive
  <1>6. ASSUME NEW q \in Handler
        PROVE  ReadStands(handler[q])'
    <2>1. PICK s : /\ s = handler'[q] /\ s \in Handling /\ ReadStands(s)
      BY <1>1 DEF CatalogueInv, CatalogueTypeOK
    <2>2. s.op \in {"delete edition", "replace file"} => EditionHere(s.edition)'
      BY <1>2, <2>1 DEF ReadStands
    <2>3. ReadStands(s)'
      BY <1>3, <2>1, <2>2, ReadStandsKept
    <2> QED
      BY <2>1, <2>3 DEF ReadStands, StaysValid, StaysIn, Relations
  <1>7. RowsAreIssued' /\ FilesHaveTheirEdition'
    BY <1>1, <1>2 DEF CatalogueInv, RowsAreIssued, FilesHaveTheirEdition
  <1> QED
    BY <1>1, <1>4, <1>5, <1>6, <1>7, BeginTyped DEF CatalogueInv

\* What the validation of a row has found.
LEMMA ValidRow ==
  ASSUME CatalogueInv, NEW row \in EditionRow, ValidRelations(row.book, row)
  PROVE  StaysValid(row)
  <1>1. \A e \in EditionId : EditionHere(e) => e \in issued
    BY DEF CatalogueInv, RowsAreIssued
  <1>2. \A x \in Relations(row) : x \in EditionsOf(row.book)
    BY DEF ValidRelations, Relations
  <1>3. row.source # Null => row.role = "translation" /\ editions[row.source].role = "source"
    BY DEF ValidRelations, EditionRow
  <1> QED
    BY <1>1, <1>2, <1>3 DEF StaysValid, StaysIn, EditionsOf

LEMMA RequestBeginsKeeps ==
  ASSUME CatalogueInv, NEW h \in Handler, RequestBegins(h, EditionRow, EditionId \cup {Null})
  PROVE  CatalogueInv'
  <1>0. \A e \in EditionId : EditionHere(e) => e \in issued
    BY DEF CatalogueInv, RowsAreIssued
  <1>1. ASSUME NEW r \in Handling, Begins(h, r)
        PROVE  handler'[h] = r
    BY <1>1 DEF Begins, CatalogueInv, CatalogueTypeOK
  <1>2. PICK r \in Handling : Begins(h, r) /\ handler'[h] = r
    BY <1>1, RequestBeginsTyped DEF CatalogueInv
  <1>3. \A s : Read(h, s) => r = s
    BY <1>2 DEF Read, CatalogueInv, CatalogueTypeOK
  <1>4. ASSUME NEW row \in EditionRow, AddRead(h, row)
        PROVE  ReadStands(r) /\ r.op = "add edition"
    <2>1. r = [op |-> "add edition", row |-> row, cover |-> books[row.book].cover]
      BY <1>3, <1>4 DEF AddRead
    <2>2. row.book \in issued /\ StaysValid(row)
      BY <1>4, ValidRow DEF AddRead, CatalogueInv, RowsAreIssued, EditionRow
    <2>3. r.op = "add edition" /\ r.row = row
      BY <2>1
    <2> QED
      BY <2>2, <2>3 DEF ReadStands, StaysValid, StaysIn, Relations
  <1>5. ASSUME NEW e \in EditionId, ReplaceLock(h, e) \/ DeleteEditionLock(h, e)
        PROVE  ReadStands(r) /\ r.op \in {"delete edition", "replace file"} /\ Unlocked(h, {r.edition})
    <2>1. /\ r.op \in {"delete edition", "replace file"} /\ r.edition = e
          /\ EditionHere(e) /\ Unlocked(h, {e})
      <3>1. CASE ReplaceLock(h, e)
        <4>1. r = [op |-> "replace file", edition |-> e, files |-> {}]
          BY <1>3, <3>1 DEF ReplaceLock
        <4> QED
          BY <3>1, <4>1 DEF ReplaceLock
      <3>2. CASE DeleteEditionLock(h, e)
        <4>1. r = [op |-> "delete edition", edition |-> e, files |-> FilesOf({e})]
          BY <1>3, <3>2 DEF DeleteEditionLock
        <4> QED
          BY <3>2, <4>1 DEF DeleteEditionLock
      <3> QED
        BY <1>5, <3>1, <3>2
    <2> QED
      BY <2>1 DEF ReadStands, Unlocked
  <1>6. ASSUME NEW e \in EditionId, NEW ready \in BOOLEAN, NEW source \in EditionId \cup {Null},
               NEW supersedes \in EditionId \cup {Null}, UpdateRead(h, e, ready, source, supersedes)
        PROVE  ReadStands(r) /\ r.op = "update edition"
    <2> DEFINE row == [editions[e] EXCEPT !.ready = ready, !.source = source,
                                          !.supersedes = supersedes]
    <2>1. r = [op |-> "update edition", edition |-> e, from |-> editions[e], to |-> row]
          /\ EditionHere(e) /\ e \notin {source, supersedes} /\ ValidRelations(row.book, row)
      BY <1>3, <1>6 DEF UpdateRead
    <2>2. editions[e] \in EditionRow
      BY <2>1, NullAssumption DEF EditionHere, CatalogueInv, CatalogueTypeOK
    <2>3. /\ row \in EditionRow /\ row.book = editions[e].book /\ row.role = editions[e].role
          /\ row.source = source /\ row.supersedes = supersedes
      <3>1. PICK old \in EditionRow : old = editions[e]
        BY <2>2
      <3> QED
        BY <3>1 DEF EditionRow
    <2>4. r.op = "update edition" /\ r.edition = e /\ r.to = row
      BY <2>1
    <2> HIDE DEF row
    <2>5. PICK to : to = row
      OBVIOUS
    <2>6. StaysValid(to) /\ e \notin Relations(to)
      BY <2>1, <2>3, <2>5, ValidRow DEF Relations, ValidRelations
    <2>7. StaysIn(e, to.book)
      BY <1>0, <2>1, <2>3, <2>5 DEF StaysIn
    <2>8. r.to = to /\ editions[e].role = to.role
      BY <2>3, <2>4, <2>5
    <2> QED
      BY <2>4, <2>6, <2>7, <2>8 DEF ReadStands
  <1>7. ASSUME NEW u \in Person, NEW b \in BookId, NEW field \in {"preferred", "opened"},
               NEW e \in EditionId \cup {Null}, PreferRead(h, u, b, field, e)
        PROVE  ReadStands(r) /\ r.op = "prefer"
    <2>1. r = [op |-> "prefer", person |-> u, book |-> b, field |-> field, edition |-> e]
      BY <1>3, <1>7 DEF PreferRead
    <2>2. e # Null => StaysIn(e, b)
      BY <1>0, <1>7 DEF PreferRead, EditionsOf, StaysIn
    <2>3. r.op = "prefer" /\ r.edition = e /\ r.book = b
      BY <2>1
    <2> QED
      BY <2>2, <2>3 DEF ReadStands
  <1>8. ASSUME NEW b \in BookId, DeleteBookRead(h, b)
        PROVE  ReadStands(r) /\ r.op = "delete book"
    <2>1. r.op = "delete book" /\ r.book = b /\ r.editions = EditionsOf(b)
      <3>1. r = [op |-> "delete book", book |-> b, editions |-> EditionsOf(b),
                 files |-> FilesOf(EditionsOf(b)), cover |-> books[b].cover]
        BY <1>3, <1>8 DEF DeleteBookRead
      <3> QED
        BY <3>1
    <2>2. b \in issued /\ \A e \in EditionsOf(b) : StaysIn(e, b)
      BY <1>0, <1>8 DEF DeleteBookRead, EditionsOf, StaysIn, CatalogueInv, RowsAreIssued
    <2> QED
      BY <2>1, <2>2 DEF ReadStands
  <1>9. ReadStands(r) /\ (r.op \in {"delete edition", "replace file"} => Unlocked(h, {r.edition}))
    BY <1>4, <1>5, <1>6, <1>7, <1>8 DEF RequestBegins
  <1> QED
    BY <1>2, <1>9, BeginKeeps

LEMMA CatalogueStepKeeps ==
  ASSUME CatalogueInv, [CatalogueNext]_catalogueVars
  PROVE  CatalogueInv'
  <1>1. CASE UNCHANGED catalogueVars
    <2>1. /\ UNCHANGED <<books, editions, edition_files, preferences, handler, issued>>
          /\ \A c : BookHere(c)' = BookHere(c)
      BY <1>1 DEF catalogueVars, BookHere
    <2>2. /\ KeepsEditions
          /\ \A e \in EditionId : /\ RowHolds(e)' /\ EditionHere(e)' = EditionHere(e)
                                  /\ EditionHere(e)' => e \in issued'
          /\ \A k \in Person \X BookId : PreferenceHolds(k)'
      BY <2>1, SameEditions
    <2>3. LocksAreExclusive' /\ \A q \in Handler : ReadStands(handler[q])'
      BY <2>1, <2>2, OthersKeep
    <2>4. RelationsHold' /\ CatalogueTypeOK'
      BY <2>2, RelationsByRowAfter, CatalogueTypeStep DEF CatalogueInv
    <2>5. RowsAreIssued' /\ FilesHaveTheirEdition'
      BY <2>1, <2>2 DEF CatalogueInv, RowsAreIssued, FilesHaveTheirEdition, EditionHere
    <2> QED
      BY <2>3, <2>4, <2>5 DEF CatalogueInv
  <1>2. ASSUME NEW b \in BookId, NewBook(b)
        PROVE  CatalogueInv'
    BY <1>2, NewBookKeeps
  <1>3. ASSUME NEW source \in FreshId(StoredId), NEW text \in FreshId(StoredId) \cup {Null},
               NEW cover \in FreshId(StoredId) \cup {Null}, ImportCommit(source, text, cover)
        PROVE  CatalogueInv'
    <2>1. ASSUME NEW h \in Handler, NEW e \in FreshId(EditionId), NEW preferred \in BOOLEAN,
                 ImportEdition(h, e, source, text, cover, preferred)
          PROVE  CatalogueInv'
      BY <2>1, ImportEditionKeeps DEF FreshId
    <2>2. ASSUME NEW b \in FreshId(BookId), NEW e \in FreshId(EditionId),
                 NEW role \in {"source", "translation"}, NEW ready \in BOOLEAN,
                 NEW preferred \in BOOLEAN,
                 ImportBook(b, e, role, ready, source, text, cover, preferred)
          PROVE  CatalogueInv'
      BY <2>2, ImportBookKeeps
    <2>3. ASSUME NEW h \in Handler, ReplaceCommit(h, source, text)
          PROVE  CatalogueInv'
      BY <2>3, ReplaceCommitKeeps
    <2> QED
      BY <1>3, <2>1, <2>2, <2>3 DEF ImportCommit
  <1>4. ASSUME NEW h \in Handler, RequestBegins(h, EditionRow, EditionId \cup {Null})
        PROVE  CatalogueInv'
    BY <1>4, RequestBeginsKeeps
  <1>5. ASSUME NEW h \in Handler, RequestEnds(h)
        PROVE  CatalogueInv'
    BY <1>5, NewEditionKeeps, UpdateCommitKeeps, PreferCommitKeeps, DeleteEditionCommitKeeps,
       DeleteBookCommitKeeps, CatalogueRollbackKeeps DEF RequestEnds
  <1> QED
    BY <1>1, <1>2, <1>3, <1>4, <1>5 DEF CatalogueNext

LEMMA CatalogueStarts == CatalogueInit => CatalogueInv
  <1> SUFFICES ASSUME CatalogueInit
               PROVE  CatalogueInv
    OBVIOUS
  <1>1. \A h \in Handler : handler[h].op = "idle"
    BY DEF CatalogueInit, NoRequest
  <1>2. CatalogueTypeOK
    BY IdleIsTyped DEF CatalogueInit, CatalogueTypeOK
  <1>3. \A e : ~EditionHere(e)
    BY DEF CatalogueInit, EditionHere
  <1>4. \A b \in BookId : ~BookHere(b)
    BY DEF CatalogueInit, BookHere
  <1>5. \A k \in Person \X BookId : preferences[k] = Null
    BY DEF CatalogueInit
  <1>6. RowsAreIssued /\ FilesHaveTheirEdition /\ LocksAreExclusive
    BY <1>1, <1>3, <1>4 DEF RowsAreIssued, FilesHaveTheirEdition, LocksAreExclusive, Locked, CatalogueInit
  <1>7. \A h \in Handler : ReadStands(handler[h])
    BY <1>1 DEF ReadStands
  <1>8. RelationsHold
    BY <1>3, <1>5 DEF RelationsHold
  <1> QED
    BY <1>2, <1>6, <1>7, <1>8 DEF CatalogueInv

\* What a request has read stands until it writes, and what the rows say of one
\* another holds.
THEOREM CatalogueInvariance == CatalogueSpec => []CatalogueInv
  <1>1. CatalogueInv /\ [CatalogueNext]_catalogueVars => CatalogueInv'
    BY CatalogueStepKeeps
  <1> QED
    BY <1>1, CatalogueStarts, PTL DEF CatalogueSpec

\* The relations of an edition stay inside its book, a source has the source role, and
\* a preference names an edition of its book.
THEOREM RelationsAlwaysHold == CatalogueSpec => []RelationsHold
  <1>1. CatalogueInv => RelationsHold
    BY DEF CatalogueInv
  <1> QED
    BY <1>1, CatalogueInvariance, PTL

\* No deletion leaves a revision of an edition that is gone.
THEOREM FilesAlwaysHaveTheirEdition == CatalogueSpec => []FilesHaveTheirEdition
  <1>1. CatalogueInv => FilesHaveTheirEdition
    BY DEF CatalogueInv
  <1> QED
    BY <1>1, CatalogueInvariance, PTL

-----------------------------------------------------------------------------
(* Stored files.                                                           *)

\* The cover a request has read of a book that is there is its cover, unless another
\* one was brought meanwhile.
CoverStands(r) ==
    /\ r.op = "delete book" /\ BookHere(r.book) => r.cover = books[r.book].cover
    /\ r.op = "add edition" /\ BookHere(r.row.book) => r.cover = books[r.row.book].cover

FilesInv ==
    StoredFilesAreReferenced /\ (~overtaken => \A h \in Handler : CoverStands(handler[h]))

LEMMA ObjectIn ==
  ASSUME NEW F, NEW x
  PROVE  x \in Objects(F) <=> x # Null /\ \E f \in F : x \in {f.source, f.text}
  <1> DEFINE Of(f) == {f.source, f.text}
  <1>1. Objects(F) = (UNION {Of(f) : f \in F}) \ {Null}
    BY DEF Objects
  <1> HIDE DEF Of
  <1>2. x \in UNION {Of(f) : f \in F} <=> \E f \in F : x \in Of(f)
    OBVIOUS
  <1> QED
    BY <1>1, <1>2 DEF Of

LEMMA CoverIn ==
  ASSUME NEW B, NEW x
  PROVE  x \in Covers(B) <=> x # Null /\ \E b \in BookId : B[b] # Null /\ x = B[b].cover
  BY DEF Covers

LEMMA CoverInAfter ==
  ASSUME NEW x
  PROVE  x \in Covers(books)' <=> x # Null /\ \E b \in BookId : books'[b] # Null /\ x = books'[b].cover
  BY DEF Covers

\* The stored files that a revision or a cover names.
Named == Objects(edition_files) \cup Covers(books)

FilesAgree == /\ Named \subseteq stored_files
              /\ ~overtaken => stored_files \subseteq Named

LEMMA NamedFiles == StoredFilesAreReferenced <=> FilesAgree
  <1>1. {b \in BookId : books[b] # Null} = {x \in BookId : BookHere(x)}
    BY DEF BookHere
  <1> DEFINE named == ((UNION {{f.source, f.text} : f \in edition_files})
                       \cup {books[b].cover : b \in {x \in BookId : BookHere(x)}}) \ {Null}
  <1>4. \A x : x \in named <=> x \in Named
    <2> DEFINE A == UNION {{f.source, f.text} : f \in edition_files}
               B == {books[b].cover : b \in {x \in BookId : BookHere(x)}}
    <2>2. Objects(edition_files) = A \ {Null} /\ Covers(books) = B \ {Null}
      BY <1>1 DEF Objects, Covers
    <2>3. named = (A \cup B) \ {Null}
      OBVIOUS
    <2> HIDE DEF A, B, named
    <2>1. named = (Objects(edition_files) \cup Covers(books))
      BY <2>2, <2>3
    <2> QED
      BY <2>1 DEF Named
  <1>5. named = Named
    <2> HIDE DEF named
    <2> QED
      BY <1>4
  <1> QED
    BY <1>5 DEF StoredFilesAreReferenced, FilesAgree

LEMMA NamedFilesAfter ==
  ASSUME Named' \subseteq stored_files', ~overtaken' => stored_files' \subseteq Named'
  PROVE  StoredFilesAreReferenced'
  <1>1. FilesAgree'
    BY DEF FilesAgree
  <1> QED
    BY <1>1, NamedFiles, PTL

\* A file is stored with what it was made of; what goes is named no more.
LEMMA FilesAdded ==
  ASSUME FilesInv, NEW S, NEW gone,
         stored_files' = (stored_files \cup S) \ Unreferenced(gone, edition_files', books'),
         Named' \subseteq Named \cup S, S \subseteq Named',
         ~overtaken' => ~overtaken /\ Named \ Named' \subseteq gone
  PROVE  StoredFilesAreReferenced'
  <1>1. /\ Named \subseteq stored_files
        /\ ~overtaken => stored_files \subseteq Named
    BY NamedFiles DEF FilesInv, FilesAgree
  <1>2. Unreferenced(gone, edition_files', books') = gone \ Named'
    BY DEF Unreferenced, Named
  <1> QED
    BY <1>1, <1>2, NamedFilesAfter

LEMMA FilesRemoved ==
  ASSUME FilesInv, NEW gone,
         stored_files' = stored_files \ Unreferenced(gone, edition_files', books'),
         Named' \subseteq Named,
         ~overtaken' => ~overtaken /\ Named \ Named' \subseteq gone
  PROVE  StoredFilesAreReferenced'
  <1>1. /\ Named \subseteq stored_files
        /\ ~overtaken => stored_files \subseteq Named
    BY NamedFiles DEF FilesInv, FilesAgree
  <1>2. Unreferenced(gone, edition_files', books') = gone \ Named'
    BY DEF Unreferenced, Named
  <1> QED
    BY <1>1, <1>2, NamedFilesAfter

LEMMA FilesSame ==
  ASSUME FilesInv, UNCHANGED stored_files, Named' = Named, ~overtaken' => ~overtaken
  PROVE  StoredFilesAreReferenced'
  BY NamedFiles, NamedFilesAfter DEF FilesInv, FilesAgree

\* The covers that requests have read, after a step that replaces none of them.
LEMMA CoverStandsKept ==
  ASSUME NEW r,
         \A b : (r.op = "delete book" /\ r.book = b) \/ (r.op = "add edition" /\ r.row.book = b) =>
                   (BookHere(b)' => BookHere(b) /\ books'[b].cover = books[b].cover),
         CoverStands(r)
  PROVE  CoverStands(r)'
  BY DEF CoverStands

LEMMA CoversKept ==
  ASSUME FilesInv, CatalogueTypeOK, (\E h \in Handler : Close(h)) \/ UNCHANGED handler,
         ~overtaken' => ~overtaken,
         ~overtaken' => \A q \in Handler, b \in BookId :
            /\ handler'[q] = handler[q]
            /\ \/ handler[q].op = "delete book" /\ handler[q].book = b
               \/ handler[q].op = "add edition" /\ handler[q].row.book = b
            => (BookHere(b)' => BookHere(b) /\ books'[b].cover = books[b].cover)
  PROVE  ~overtaken' => \A q \in Handler : CoverStands(handler[q])'
  <1> SUFFICES ASSUME ~overtaken', NEW q \in Handler
               PROVE  CoverStands(handler[q])'
    OBVIOUS
  <1>1. CASE handler'[q] = handler[q]
    <2>1. PICK r : r = handler[q] /\ r = handler'[q] /\ CoverStands(r) /\ r \in Handling
      BY <1>1 DEF FilesInv, CatalogueTypeOK
    <2>2. /\ r.op = "delete book" => r.book \in BookId
          /\ r.op = "add edition" => r.row.book \in BookId
      BY <2>1, Requests DEF EditionRow
    <2>3. \A b : (r.op = "delete book" /\ r.book = b) \/ (r.op = "add edition" /\ r.row.book = b) =>
                   (BookHere(b)' => BookHere(b) /\ books'[b].cover = books[b].cover)
      BY <1>1, <2>1, <2>2
    <2>4. CoverStands(r)'
      BY <2>1, <2>3, CoverStandsKept
    <2> QED
      BY <2>1, <2>4 DEF CoverStands, BookHere
  <1>2. CASE handler'[q] # handler[q]
    <2>1. handler'[q] = NoRequest
      BY <1>2, CloseTyped
    <2>2. NoRequest.op = "idle"
      BY DEF NoRequest
    <2>3. PICK r : r = handler'[q] /\ r.op = "idle"
      BY <2>1, <2>2
    <2> QED
      BY <2>3 DEF CoverStands
  <1> QED
    BY <1>1, <1>2

\* A book that a request has read was issued its key.
LEMMA ReadBookIsIssued ==
  ASSUME CatalogueInv, NEW q \in Handler
  PROVE  /\ handler[q].op = "delete book" => handler[q].book \in issued
         /\ handler[q].op = "add edition" => handler[q].row.book \in issued
  BY DEF CatalogueInv, ReadStands

\* Steps that touch neither files nor covers.
LEMMA SameFilesKeep ==
  ASSUME CatalogueInv, FilesInv, (\E h \in Handler : Close(h)) \/ UNCHANGED handler,
         UNCHANGED <<books, edition_files, stored_files, overtaken>>
  PROVE  FilesInv'
  <1>1. Named' = Named
    BY DEF Named
  <1>2. StoredFilesAreReferenced'
    BY <1>1, FilesSame
  <1>3. CatalogueTypeOK /\ \A b : BookHere(b)' = BookHere(b) /\ books'[b] = books[b]
    BY DEF BookHere, CatalogueInv
  <1>4. ~overtaken' => \A q \in Handler : CoverStands(handler[q])'
    BY <1>3, CoversKept
  <1> QED
    BY <1>2, <1>4 DEF FilesInv

LEMMA BeginFiles ==
  ASSUME CatalogueInv, FilesInv, NEW h \in Handler, NEW r, Begins(h, r), CoverStands(r)
  PROVE  FilesInv'
  <1>0. UNCHANGED <<books, edition_files, stored_files, overtaken>>
    BY DEF Begins
  <1>1. Named' = Named
    BY <1>0 DEF Named
  <1>2. StoredFilesAreReferenced'
    BY <1>0, <1>1, FilesSame
  <1>3. ASSUME NEW q \in Handler, ~overtaken'
        PROVE  CoverStands(handler[q])'
    <2>1. PICK s : s = handler'[q] /\ CoverStands(s)
      BY <1>0, <1>3 DEF Begins, FilesInv, CatalogueInv, CatalogueTypeOK
    <2> QED
      BY <1>0, <2>1 DEF CoverStands, BookHere
  <1> QED
    BY <1>2, <1>3 DEF FilesInv

LEMMA RequestBeginsFiles ==
  ASSUME CatalogueInv, FilesInv, NEW h \in Handler,
         RequestBegins(h, EditionRow, EditionId \cup {Null})
  PROVE  FilesInv'
  <1>1. PICK r \in Handling : Begins(h, r)
    BY RequestBeginsTyped DEF CatalogueInv
  <1>2. \A s : Read(h, s) => r = s
    BY <1>1 DEF Begins, Read, CatalogueInv, CatalogueTypeOK
  <1>3. ASSUME NEW row \in EditionRow, AddRead(h, row)
        PROVE  CoverStands(r)
    <2>1. r = [op |-> "add edition", row |-> row, cover |-> books[row.book].cover]
      BY <1>2, <1>3 DEF AddRead
    <2>2. r.op = "add edition" /\ r.row = row /\ r.cover = books[row.book].cover
      BY <2>1
    <2> QED
      BY <2>2 DEF CoverStands
  <1>4. ASSUME NEW e \in EditionId, ReplaceLock(h, e) \/ DeleteEditionLock(h, e)
        PROVE  CoverStands(r)
    <2>1. r = [op |-> "replace file", edition |-> e, files |-> {}]
          \/ r = [op |-> "delete edition", edition |-> e, files |-> FilesOf({e})]
      BY <1>2, <1>4 DEF ReplaceLock, DeleteEditionLock
    <2>2. r.op = "replace file" \/ r.op = "delete edition"
      <3>1. CASE r = [op |-> "replace file", edition |-> e, files |-> {}]
        BY <3>1
      <3>2. CASE r = [op |-> "delete edition", edition |-> e, files |-> FilesOf({e})]
        BY <3>2
      <3> QED
        BY <2>1, <3>1, <3>2
    <2> QED
      BY <2>2 DEF CoverStands
  <1>5. ASSUME NEW e \in EditionId, NEW ready \in BOOLEAN, NEW source \in EditionId \cup {Null},
               NEW supersedes \in EditionId \cup {Null}, UpdateRead(h, e, ready, source, supersedes)
        PROVE  CoverStands(r)
    <2> DEFINE row == [editions[e] EXCEPT !.ready = ready, !.source = source,
                                          !.supersedes = supersedes]
    <2>1. r = [op |-> "update edition", edition |-> e, from |-> editions[e], to |-> row]
      BY <1>2, <1>5 DEF UpdateRead
    <2>2. r.op = "update edition"
      BY <2>1
    <2> QED
      BY <2>2 DEF CoverStands
  <1>6. ASSUME NEW u \in Person, NEW b \in BookId, NEW field \in {"preferred", "opened"},
               NEW e \in EditionId \cup {Null}, PreferRead(h, u, b, field, e)
        PROVE  CoverStands(r)
    <2>1. r = [op |-> "prefer", person |-> u, book |-> b, field |-> field, edition |-> e]
      BY <1>2, <1>6 DEF PreferRead
    <2>2. r.op = "prefer"
      BY <2>1
    <2> QED
      BY <2>2 DEF CoverStands
  <1>7. ASSUME NEW b \in BookId, DeleteBookRead(h, b)
        PROVE  CoverStands(r)
    <2>1. r = [op |-> "delete book", book |-> b, editions |-> EditionsOf(b),
               files |-> FilesOf(EditionsOf(b)), cover |-> books[b].cover]
      BY <1>2, <1>7 DEF DeleteBookRead
    <2>2. r.op = "delete book" /\ r.book = b /\ r.cover = books[b].cover
      BY <2>1
    <2> QED
      BY <2>2 DEF CoverStands
  <1>8. CoverStands(r)
    BY <1>3, <1>4, <1>5, <1>6, <1>7 DEF RequestBegins
  <1> QED
    BY <1>1, <1>8, BeginFiles

LEMMA NewBookFiles ==
  ASSUME CatalogueInv, FilesInv, NEW b \in BookId, NewBook(b)
  PROVE  FilesInv'
  <1>0. /\ b \notin issued /\ ~BookHere(b) /\ CatalogueTypeOK
        /\ books' = [books EXCEPT ![b] = [cover |-> Null]]
        /\ UNCHANGED <<edition_files, stored_files, handler, overtaken>>
    BY DEF NewBook, FreshId, CatalogueInv, RowsAreIssued
  <1>1. \A c \in BookId : books'[c] = IF c = b THEN [cover |-> Null] ELSE books[c]
    BY <1>0 DEF CatalogueTypeOK
  <1>2. \A x : x \in Covers(books)' <=> x \in Covers(books)
    <2>1. ASSUME NEW x, NEW c \in BookId, x # Null
          PROVE  (books'[c] # Null /\ x = books'[c].cover) <=> (books[c] # Null /\ x = books[c].cover)
      <3>1. [cover |-> Null].cover = Null
        OBVIOUS
      <3> QED
        BY <1>0, <1>1, <2>1, <3>1 DEF BookHere
    <2> QED
      BY <2>1, CoverIn, CoverInAfter
  <1>3. Named' = Named
    BY <1>0, <1>2 DEF Named
  <1>4. StoredFilesAreReferenced'
    BY <1>0, <1>3, FilesSame
  <1>5. \A c \in BookId : c \in issued => books'[c] = books[c] /\ BookHere(c)' = BookHere(c)
    BY <1>0, <1>1 DEF BookHere
  <1>6. ~overtaken' => \A q \in Handler : CoverStands(handler[q])'
    BY <1>0, <1>5, ReadBookIsIssued, CoversKept
  <1> QED
    BY <1>4, <1>6 DEF FilesInv

\* The names after a new revision.
LEMMA NamesWithFile ==
  ASSUME NEW e, NEW source, NEW text,
         \E f : edition_files' = edition_files \cup {f} /\ f.edition = e
                /\ f.source = source /\ f.text = text
  PROVE  Objects(edition_files)' = Objects(edition_files) \cup ({source, text} \ {Null})
  <1>1. PICK f : edition_files' = edition_files \cup {f} /\ f.source = source /\ f.text = text
    OBVIOUS
  <1>2. ASSUME NEW x
        PROVE  x \in Objects(edition_files \cup {f}) <=>
                 x \in Objects(edition_files) \cup ({source, text} \ {Null})
    <2>1. x \in Objects(edition_files \cup {f}) <=>
            x # Null /\ \E g \in edition_files \cup {f} : x \in {g.source, g.text}
      BY ObjectIn
    <2>2. x \in Objects(edition_files) <=> x # Null /\ \E g \in edition_files : x \in {g.source, g.text}
      BY ObjectIn
    <2> QED
      BY <1>1, <2>1, <2>2
  <1>3. Objects(edition_files \cup {f}) = Objects(edition_files) \cup ({source, text} \ {Null})
    BY <1>2
  <1> QED
    BY <1>1, <1>3 DEF Objects

LEMMA ReplaceCommitFiles ==
  ASSUME CatalogueInv, FilesInv, NEW h \in Handler,
         NEW source \in FreshId(StoredId), NEW text \in FreshId(StoredId) \cup {Null},
         ReplaceCommit(h, source, text)
  PROVE  FilesInv'
  <1>0. /\ CatalogueTypeOK /\ Close(h) /\ UNCHANGED <<books, overtaken>>
        /\ stored_files' = stored_files \cup ({source, text} \ {Null})
    BY DEF CatalogueInv, ReplaceCommit
  <1>1. PICK e : e = handler[h].edition /\ e \in EditionId
    BY Requests DEF ReplaceCommit, CatalogueInv, CatalogueTypeOK
  <1>2. NewFile(e, source, text)
    BY <1>1 DEF ReplaceCommit, NewFile, FilesOf
  <1>3. Objects(edition_files)' = Objects(edition_files) \cup ({source, text} \ {Null})
    BY <1>0, <1>1, <1>2, NewFileTyped, NamesWithFile
  <1>4. Named' = Named \cup ({source, text} \ {Null})
    BY <1>0, <1>3 DEF Named
  <1>5. StoredFilesAreReferenced'
    BY <1>0, <1>4, FilesAdded DEF Unreferenced
  <1>6. ~overtaken' => \A q \in Handler : CoverStands(handler[q])'
    BY <1>0, CoversKept DEF BookHere
  <1> QED
    BY <1>5, <1>6 DEF FilesInv

LEMMA ImportBookFiles ==
  ASSUME CatalogueInv, FilesInv, NEW b \in FreshId(BookId), NEW e \in FreshId(EditionId),
         NEW role \in {"source", "translation"}, NEW ready \in BOOLEAN,
         NEW source \in FreshId(StoredId), NEW text \in FreshId(StoredId) \cup {Null},
         NEW cover \in FreshId(StoredId) \cup {Null}, NEW preferred \in BOOLEAN,
         ImportBook(b, e, role, ready, source, text, cover, preferred)
  PROVE  FilesInv'
  <1>0. /\ CatalogueTypeOK /\ UNCHANGED <<handler, overtaken>>
        /\ stored_files' = stored_files \cup ({source, text, cover} \ {Null})
        /\ books' = [books EXCEPT ![b] = [cover |-> cover]] /\ NewFile(e, source, text)
    BY DEF CatalogueInv, ImportBook
  <1>1. b \in BookId /\ b \notin issued /\ e \in EditionId /\ ~BookHere(b)
    BY DEF FreshId, CatalogueInv, RowsAreIssued
  <1>2. Objects(edition_files)' = Objects(edition_files) \cup ({source, text} \ {Null})
    <2>1. \E f \in FileRow : edition_files' = edition_files \cup {f} /\ f.edition = e
                             /\ f.source = source /\ f.text = text
      BY <1>0, <1>1, NewFileTyped
    <2> QED
      BY <2>1, NamesWithFile
  <1>3. \A c \in BookId : books'[c] = IF c = b THEN [cover |-> cover] ELSE books[c]
    BY <1>0 DEF CatalogueTypeOK
  <1>4. Covers(books)' = Covers(books) \cup ({cover} \ {Null})
    <2>1. [cover |-> cover].cover = cover /\ [cover |-> cover] # Null
      <3>1. [cover |-> cover] \in BookRow
        BY DEF BookRow, FreshId
      <3> QED
        BY <3>1, NullAssumption
    <2>2. ASSUME NEW x
          PROVE  x \in Covers(books)' <=> x \in Covers(books) \/ (x = cover /\ x # Null)
      <3>1. books'[b] # Null /\ books'[b].cover = cover /\ books[b] = Null
        BY <1>1, <1>3, <2>1 DEF BookHere
      <3>2. \A c \in BookId \ {b} : books'[c] = books[c]
        BY <1>3
      <3> QED
        BY <1>1, <3>1, <3>2, CoverIn, CoverInAfter
    <2> QED
      BY <2>2
  <1>5. Named' = Named \cup ({source, text, cover} \ {Null})
    BY <1>2, <1>4 DEF Named
  <1>6. StoredFilesAreReferenced'
    BY <1>0, <1>5, FilesAdded DEF Unreferenced
  <1>7. \A c \in BookId : c \in issued => books'[c] = books[c] /\ BookHere(c)' = BookHere(c)
    BY <1>1, <1>3 DEF BookHere
  <1>8. ~overtaken' => \A q \in Handler : CoverStands(handler[q])'
    BY <1>0, <1>7, ReadBookIsIssued, CoversKept
  <1> QED
    BY <1>6, <1>8 DEF FilesInv

LEMMA ImportEditionFiles ==
  ASSUME CatalogueInv, FilesInv, NEW h \in Handler, NEW e \in EditionId, NEW preferred \in BOOLEAN,
         NEW source \in FreshId(StoredId), NEW text \in FreshId(StoredId) \cup {Null},
         NEW cover \in FreshId(StoredId) \cup {Null},
         ImportEdition(h, e, source, text, cover, preferred)
  PROVE  FilesInv'
  <1>1. PICK b, old : b = handler[h].row.book /\ old = handler[h].cover
    OBVIOUS
  <1>2. CatalogueTypeOK /\ Close(h) /\ NewFile(e, source, text) /\ MayAdd(h, e)
    BY DEF CatalogueInv, ImportEdition
  <1>3. b \in BookId /\ BookHere(b) /\ handler[h].op = "add edition"
    BY <1>1, <1>2, MayAddTyped
  <1>4. Objects(edition_files)' = Objects(edition_files) \cup ({source, text} \ {Null})
    BY <1>2, NewFileTyped, NamesWithFile
  <1>5. CASE /\ cover = Null /\ stored_files' = stored_files \cup ({source, text} \ {Null})
             /\ UNCHANGED <<books, overtaken>>
    <2>1. Named' = Named \cup ({source, text} \ {Null})
      BY <1>4, <1>5 DEF Named
    <2>2. StoredFilesAreReferenced'
      BY <1>5, <2>1, FilesAdded DEF Unreferenced
    <2>3. ~overtaken' => \A q \in Handler : CoverStands(handler[q])'
      BY <1>2, <1>5, CoversKept DEF BookHere
    <2> QED
      BY <2>2, <2>3 DEF FilesInv
  <1>6. CASE /\ cover \in StoredId /\ books' = [books EXCEPT ![b].cover = cover]
             /\ stored_files' = (stored_files \cup ({source, text, cover} \ {Null}))
                                \ Unreferenced({old}, edition_files', books')
             /\ Overtake(h, b)
    <2>1. cover # Null
      BY <1>6, CatalogueAssumption
    <2>2. /\ \A c \in BookId \ {b} : books'[c] = books[c]
          /\ books'[b] # Null /\ books'[b].cover = cover /\ books[b] # Null
      <3>1. books[b] \in BookRow
        BY <1>2, <1>3 DEF BookHere, CatalogueTypeOK
      <3>2. books' = [books EXCEPT ![b] = [books[b] EXCEPT !.cover = cover]]
        BY <1>2, <1>3, <1>6 DEF CatalogueTypeOK
      <3>3. [books[b] EXCEPT !.cover = cover] \in BookRow /\ [books[b] EXCEPT !.cover = cover].cover = cover
        BY <1>6, <3>1 DEF BookRow
      <3> QED
        BY <1>2, <1>3, <3>2, <3>3, NullAssumption DEF CatalogueTypeOK, BookHere
    <2>3. /\ Covers(books)' \subseteq Covers(books) \cup {cover} /\ cover \in Covers(books)'
          /\ \A x \in Covers(books) \ Covers(books)' : x = books[b].cover
      <3>1. \A x : x \in Covers(books)' => x \in Covers(books) \/ x = cover
        BY <2>2, CoverIn, CoverInAfter
      <3>2. \A x : x \in Covers(books) /\ x \notin Covers(books)' => x = books[b].cover
        BY <2>2, CoverIn, CoverInAfter
      <3>3. cover \in Covers(books)'
        BY <1>3, <2>1, <2>2, CoverInAfter
      <3> QED
        BY <3>1, <3>2, <3>3
    <2>4. ~overtaken => old = books[b].cover
      BY <1>1, <1>3 DEF FilesInv, CoverStands
    <2>5. ~overtaken' =>
            /\ ~overtaken
            /\ \A q \in Handler \ {h} :
                  /\ ~(handler[q].op = "delete book" /\ handler[q].book = b)
                  /\ ~(handler[q].op = "add edition" /\ handler[q].row.book = b)
      BY <1>6 DEF Overtake
    <2>6. StoredFilesAreReferenced'
      <3> DEFINE S == {source, text, cover} \ {Null}
      <3>1. Named' \subseteq Named \cup S /\ S \subseteq Named'
        BY <1>4, <2>1, <2>3 DEF Named
      <3>2. ~overtaken' => ~overtaken /\ Named \ Named' \subseteq {old}
        BY <1>4, <2>3, <2>4, <2>5 DEF Named
      <3> HIDE DEF S
      <3>3. stored_files' = (stored_files \cup S) \ Unreferenced({old}, edition_files', books')
        BY <1>6 DEF S
      <3> QED
        BY <3>1, <3>2, <3>3, FilesAdded
    <2>7. ~overtaken' => \A q \in Handler : CoverStands(handler[q])'
      <3>1. handler'[h] = NoRequest /\ NoRequest.op = "idle"
        BY <1>2, CloseTyped DEF NoRequest
      <3>2. handler'[h] # handler[h]
        BY <1>3, <3>1
      <3>3. ASSUME ~overtaken', NEW q \in Handler, NEW c \in BookId, handler'[q] = handler[q],
                   \/ handler[q].op = "delete book" /\ handler[q].book = c
                   \/ handler[q].op = "add edition" /\ handler[q].row.book = c
            PROVE  BookHere(c)' => BookHere(c) /\ books'[c].cover = books[c].cover
        <4>1. q # h
          BY <3>2, <3>3
        <4>2. /\ ~(handler[q].op = "delete book" /\ handler[q].book = b)
              /\ ~(handler[q].op = "add edition" /\ handler[q].row.book = b)
          BY <2>5, <3>3, <4>1
        <4>3. c # b
          BY <3>3, <4>2
        <4> QED
          BY <2>2, <4>3 DEF BookHere
      <3> QED
        BY <1>2, <2>5, <3>3, CoversKept
    <2> QED
      BY <2>6, <2>7 DEF FilesInv
  <1> QED
    BY <1>1, <1>5, <1>6 DEF ImportEdition, FreshId

LEMMA DeleteEditionCommitFiles ==
  ASSUME CatalogueInv, FilesInv, NEW h \in Handler, DeleteEditionCommit(h)
  PROVE  FilesInv'
  <1>1. PICK files : files = handler[h].files
    OBVIOUS
  <1>2. /\ CatalogueTypeOK /\ Close(h) /\ UNCHANGED <<books, overtaken>>
        /\ edition_files' = edition_files \ files
        /\ stored_files' = stored_files \ Unreferenced(Objects(files), edition_files', books)
    BY <1>1 DEF CatalogueInv, DeleteEditionCommit
  <1>3. /\ Objects(edition_files)' \subseteq Objects(edition_files)
        /\ Objects(edition_files) \subseteq Objects(edition_files)' \cup Objects(files)
    <2>1. \A x : x \in Objects(edition_files \ files) => x \in Objects(edition_files)
      BY ObjectIn
    <2>2. \A x : x \in Objects(edition_files) => x \in Objects(edition_files \ files) \cup Objects(files)
      BY ObjectIn
    <2>3. Objects(edition_files)' = Objects(edition_files \ files)
      BY <1>2 DEF Objects
    <2> QED
      BY <2>1, <2>2, <2>3
  <1>4. Named' \subseteq Named /\ Named \ Named' \subseteq Objects(files)
    BY <1>2, <1>3 DEF Named
  <1>5. StoredFilesAreReferenced'
    <2>1. stored_files' = stored_files \ Unreferenced(Objects(files), edition_files', books')
      BY <1>2
    <2> QED
      BY <1>2, <1>4, <2>1, FilesRemoved
  <1>6. ~overtaken' => \A q \in Handler : CoverStands(handler[q])'
    BY <1>2, CoversKept DEF BookHere
  <1> QED
    BY <1>5, <1>6 DEF FilesInv

LEMMA DeleteBookCommitFiles ==
  ASSUME CatalogueInv, FilesInv, NEW h \in Handler, DeleteBookCommit(h)
  PROVE  FilesInv'
  <1>1. PICK files, b, cover :
          files = handler[h].files /\ b = handler[h].book /\ cover = handler[h].cover
    OBVIOUS
  <1>2. /\ CatalogueTypeOK /\ Close(h) /\ UNCHANGED overtaken
        /\ edition_files' = edition_files \ files /\ books' = [books EXCEPT ![b] = Null]
        /\ stored_files' = stored_files \ Unreferenced(Objects(files) \cup {cover}, edition_files', books')
        /\ handler[h].op = "delete book" /\ BookHere(b)
    BY <1>1 DEF CatalogueInv, DeleteBookCommit
  <1>3. /\ Objects(edition_files)' \subseteq Objects(edition_files)
        /\ Objects(edition_files) \subseteq Objects(edition_files)' \cup Objects(files)
    <2>1. \A x : x \in Objects(edition_files \ files) => x \in Objects(edition_files)
      BY ObjectIn
    <2>2. \A x : x \in Objects(edition_files) => x \in Objects(edition_files \ files) \cup Objects(files)
      BY ObjectIn
    <2>3. Objects(edition_files)' = Objects(edition_files \ files)
      BY <1>2 DEF Objects
    <2> QED
      BY <2>1, <2>2, <2>3
  <1>4. \A c \in BookId : books'[c] = IF c = b THEN Null ELSE books[c]
    BY <1>2 DEF CatalogueTypeOK
  <1>5. /\ Covers(books)' \subseteq Covers(books)
        /\ \A x \in Covers(books) \ Covers(books)' : x = books[b].cover
    <2>1. \A x : x \in Covers(books)' => x \in Covers(books)
      BY <1>4, CoverIn, CoverInAfter
    <2>2. \A x : x \in Covers(books) /\ x \notin Covers(books)' => x = books[b].cover
      BY <1>4, CoverIn, CoverInAfter
    <2> QED
      BY <2>1, <2>2
  <1>6. ~overtaken => cover = books[b].cover
    BY <1>1, <1>2 DEF FilesInv, CoverStands
  <1>7. Named' \subseteq Named /\ (~overtaken => Named \ Named' \subseteq Objects(files) \cup {cover})
    BY <1>3, <1>5, <1>6 DEF Named
  <1>8. StoredFilesAreReferenced'
    <2>1. stored_files' = stored_files
                          \ Unreferenced(Objects(files) \cup {cover}, edition_files', books')
      BY <1>2
    <2> QED
      BY <1>2, <1>7, <2>1, FilesRemoved
  <1>9. \A c \in BookId : BookHere(c)' => BookHere(c) /\ books'[c].cover = books[c].cover
    BY <1>4 DEF BookHere
  <1>10. ~overtaken' => \A q \in Handler : CoverStands(handler[q])'
    BY <1>2, <1>9, CoversKept
  <1> QED
    BY <1>8, <1>10 DEF FilesInv

LEMMA FilesStepKeeps ==
  ASSUME CatalogueInv, FilesInv, [CatalogueNext]_catalogueVars
  PROVE  FilesInv'
  <1>1. CASE UNCHANGED catalogueVars
    <2>1. UNCHANGED <<books, edition_files, stored_files, handler, overtaken>>
      BY <1>1 DEF catalogueVars
    <2> QED
      BY <2>1, SameFilesKeep
  <1>2. ASSUME NEW b \in BookId, NewBook(b)
        PROVE  FilesInv'
    BY <1>2, NewBookFiles
  <1>3. ASSUME NEW source \in FreshId(StoredId), NEW text \in FreshId(StoredId) \cup {Null},
               NEW cover \in FreshId(StoredId) \cup {Null}, ImportCommit(source, text, cover)
        PROVE  FilesInv'
    <2>1. ASSUME NEW h \in Handler, NEW e \in FreshId(EditionId), NEW preferred \in BOOLEAN,
                 ImportEdition(h, e, source, text, cover, preferred)
          PROVE  FilesInv'
      BY <2>1, ImportEditionFiles DEF FreshId
    <2>2. ASSUME NEW b \in FreshId(BookId), NEW e \in FreshId(EditionId),
                 NEW role \in {"source", "translation"}, NEW ready \in BOOLEAN,
                 NEW preferred \in BOOLEAN,
                 ImportBook(b, e, role, ready, source, text, cover, preferred)
          PROVE  FilesInv'
      BY <2>2, ImportBookFiles
    <2>3. ASSUME NEW h \in Handler, ReplaceCommit(h, source, text)
          PROVE  FilesInv'
      BY <2>3, ReplaceCommitFiles
    <2> QED
      BY <1>3, <2>1, <2>2, <2>3 DEF ImportCommit
  <1>4. ASSUME NEW h \in Handler, RequestBegins(h, EditionRow, EditionId \cup {Null})
        PROVE  FilesInv'
    BY <1>4, RequestBeginsFiles
  <1>5. ASSUME NEW h \in Handler, RequestEnds(h)
        PROVE  FilesInv'
    <2>1. CASE (\E e \in EditionId : NewEdition(h, e)) \/ UpdateCommit(h) \/ PreferCommit(h)
               \/ CatalogueRollback(h)
      <3>1. Close(h) /\ UNCHANGED <<books, edition_files, stored_files, overtaken>>
        BY <2>1 DEF NewEdition, UpdateCommit, PreferCommit, CatalogueRollback
      <3> QED
        BY <3>1, SameFilesKeep
    <2> QED
      BY <1>5, <2>1, DeleteEditionCommitFiles, DeleteBookCommitFiles DEF RequestEnds
  <1> QED
    BY <1>1, <1>2, <1>3, <1>4, <1>5 DEF CatalogueNext

LEMMA FilesStart == CatalogueInit => FilesInv
  <1> SUFFICES ASSUME CatalogueInit
               PROVE  FilesInv
    OBVIOUS
  <1>1. \A x : x \notin Named
    BY ObjectIn, CoverIn DEF CatalogueInit, Named
  <1>2. StoredFilesAreReferenced
    BY <1>1, NamedFiles DEF CatalogueInit, FilesAgree
  <1>3. \A h \in Handler : handler[h].op = "idle"
    BY DEF CatalogueInit, NoRequest
  <1> QED
    BY <1>2, <1>3 DEF FilesInv, CoverStands

\* Every stored file that a revision or a cover names has its row, and every row is
\* named, unless a cover was replaced that another request had read.
THEOREM FilesAndRowsAgree == CatalogueSpec => []StoredFilesAreReferenced
  <1>1. CatalogueInv /\ FilesInv /\ [CatalogueNext]_catalogueVars => FilesInv'
    BY FilesStepKeeps
  <1>2. FilesInv => StoredFilesAreReferenced
    BY DEF FilesInv
  <1> QED
    BY <1>1, <1>2, FilesStart, CatalogueInvariance, PTL DEF CatalogueSpec
================================================================================
