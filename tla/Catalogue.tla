------------------------------- MODULE Catalogue -------------------------------
(***************************************************************************)
(* The rows of the library: books with a cover, their editions and the     *)
(* relations of these, the revisions of an edition's file, the stored      *)
(* files these and the covers name, and what each user prefers and opened  *)
(* last.  A handler is one request and one transaction (READ COMMITTED):   *)
(* what it has read and validated is in its record, what it writes appears *)
(* with its COMMIT, where the foreign keys (RESTRICT) are checked.         *)
(*                                                                         *)
(* An import is one of these requests from _apply_operation on; how its    *)
(* objects move between the directories is in LibraryImport.  A cover and  *)
(* its thumbnail are one object.  The current file of an edition is the    *)
(* one with the highest revision: whoever adds one holds the lock of the   *)
(* edition and takes the mark from the others.                             *)
(***************************************************************************)
EXTENDS Naturals, FiniteSets

LOCAL INSTANCE FiniteSetsExt

CONSTANTS
    BookId, EditionId, StoredId,    \* primary keys; one is used once
    Person,         \* users
    Administrator,  \* the one of them that is no reader
    Handler,        \* requests at the same time
    Null,           \* NULL, or no row
    MaxFileRevision \* bound: revisions of a file

ASSUME CatalogueAssumption ==
    /\ Administrator \in Person /\ MaxFileRevision \in Nat \ {0}
    /\ Null \notin BookId \cup EditionId \cup StoredId

VARIABLES
    books,          \* books
    editions,       \* book_editions
    edition_files,  \* edition_files
    stored_files,   \* stored_files
    preferences,    \* user_book_preferences
    handler,        \* open transactions
    issued,         \* history: primary keys that were used
    overtaken       \* history: a cover was changed while another request had read it

catalogueVars == <<books, editions, edition_files, stored_files, preferences, handler,
                   issued, overtaken>>

BookRow == [cover : StoredId \cup {Null}]
EditionRow == [book : BookId, role : {"source", "translation"}, ready : BOOLEAN,
               source : EditionId \cup {Null}, supersedes : EditionId \cup {Null}]
FileRow == [edition : EditionId, revision : 1 .. MaxFileRevision,
            source : StoredId, text : StoredId \cup {Null}]
PreferenceRow == [preferred : EditionId \cup {Null}, opened : EditionId \cup {Null}]

\* No row is NULL.
ASSUME NullAssumption == Null \notin BookRow \cup EditionRow \cup PreferenceRow

NoRequest == [op |-> "idle"]

\* What a request has read.
Handling ==
    {NoRequest}
    \cup [op : {"delete edition", "replace file"}, edition : EditionId,
          files : SUBSET FileRow]
    \cup [op : {"delete book"}, book : BookId, editions : SUBSET EditionId,
          files : SUBSET FileRow, cover : StoredId \cup {Null}]
    \cup [op : {"add edition"}, row : EditionRow, cover : StoredId \cup {Null}]
    \cup [op : {"update edition"}, edition : EditionId, from : EditionRow,
          to : EditionRow]
    \cup [op : {"prefer"}, person : Person, book : BookId,
          field : {"preferred", "opened"}, edition : EditionId \cup {Null}]

CatalogueTypeOK ==
    /\ books \in [BookId -> BookRow \cup {Null}]
    /\ editions \in [EditionId -> EditionRow \cup {Null}]
    /\ edition_files \subseteq FileRow
    /\ stored_files \subseteq StoredId
    /\ preferences \in [Person \X BookId -> PreferenceRow \cup {Null}]
    /\ handler \in [Handler -> Handling]
    /\ issued \subseteq BookId \cup EditionId \cup StoredId
    /\ overtaken \in BOOLEAN

-----------------------------------------------------------------------------
(* Rows.                                                                   *)

BookHere(b) == books[b] # Null
EditionHere(e) == e \in EditionId /\ editions[e] # Null
EditionsOf(b) == {e \in EditionId : EditionHere(e) /\ editions[e].book = b}
FilesOf(E) == {f \in edition_files : f.edition \in E}
FreshId(ids) == ids \ issued

\* The relations an edition row states.
Relations(row) == {row.source, row.supersedes} \ {Null}
Dependents(E) == {d \in EditionId : EditionHere(d) /\ Relations(editions[d]) \cap E # {}}

Names(p, E) == p # Null /\ {p.preferred, p.opened} \cap E # {}

\* Mutant: the text file that was derived from the upload is forgotten.
Objects_Source(F) == {f.source : f \in F}

\* The stored files that revisions name.
Objects(F) == (UNION {{f.source, f.text} : f \in F}) \ {Null}

Covers(B) == {B[b].cover : b \in {x \in BookId : B[x] # Null}} \ {Null}

\* stored_file_is_referenced, once the rows are F and B.
Unreferenced(ids, F, B) == {x \in ids : x \notin Objects(F) \cup Covers(B)}

\* get_readable: an invited reader sees editions that are ready; everybody opens
\* those that have a file only.
Readable(u, e) == EditionHere(e) /\ FilesOf({e}) # {}
                  /\ (u = Administrator \/ editions[e].ready)

\* Mutant: the source is looked up by its id only.
ValidRelations_AnyBook(b, row) ==
    /\ row.role = "source" => row.source = Null
    /\ row.source # Null =>
         EditionHere(row.source) /\ editions[row.source].role = "source"
    /\ row.supersedes # Null => row.supersedes \in EditionsOf(b)

\* validate_edition and _validate_relationships.
ValidRelations(b, row) ==
    /\ row.role = "source" => row.source = Null
    /\ row.source # Null =>
         row.source \in EditionsOf(b) /\ editions[row.source].role = "source"
    /\ row.supersedes # Null => row.supersedes \in EditionsOf(b)

-----------------------------------------------------------------------------
(* Transactions.                                                           *)

Read(h, r) == handler' = [handler EXCEPT ![h] = r]
Close(h) == handler' = [handler EXCEPT ![h] = NoRequest]

\* SELECT ... FOR UPDATE of edition rows, which the foreign keys of others wait for.
Locked(h) == IF handler[h].op \in {"delete edition", "replace file"}
             THEN {handler[h].edition} ELSE {}
Unlocked(h, E) == \A q \in Handler \ {h} : Locked(q) \cap E = {}

Use(ids) == issued' = issued \cup ids

\* History: another request has read the cover of b that is replaced now.
Overtake(h, b) ==
    overtaken' = (overtaken \/ \E q \in Handler \ {h} :
        \/ handler[q].op = "delete book" /\ handler[q].book = b
        \/ handler[q].op = "add edition" /\ handler[q].row.book = b)

\* A new revision of an edition's file, with the text made of it if there is one.
NewFile(e, source, text) ==
    /\ source # text /\ {source, text} \ {Null} \subseteq FreshId(StoredId)
    /\ LET n == Max({f.revision : f \in FilesOf({e})} \cup {0}) + 1
       IN  /\ n <= MaxFileRevision
           /\ edition_files' = edition_files \cup
                {[edition |-> e, revision |-> n, source |-> source, text |-> text]}

-----------------------------------------------------------------------------
(* Books and editions.                                                     *)

NewBook(b) ==
    /\ b \in FreshId(BookId)
    /\ books' = [books EXCEPT ![b] = [cover |-> Null]]
    /\ Use({b})
    /\ UNCHANGED <<editions, edition_files, stored_files, preferences, handler, overtaken>>

\* A new edition, by itself or by an import: the book, its cover and the editions
\* named are read without a lock.
AddRead(h, row) ==
    /\ BookHere(row.book) /\ ValidRelations(row.book, row)
    /\ Read(h, [op |-> "add edition", row |-> row, cover |-> books[row.book].cover])
    /\ UNCHANGED <<books, editions, edition_files, stored_files, preferences, issued,
                   overtaken>>

\* The foreign keys of the new row.
MayAdd(h, e) ==
    LET r == handler[h]
    IN  /\ r.op = "add edition" /\ e \in FreshId(EditionId)
        /\ BookHere(r.row.book) /\ \A x \in Relations(r.row) : EditionHere(x)
        /\ Unlocked(h, Relations(r.row))

NewEdition(h, e) ==
    /\ MayAdd(h, e)
    /\ editions' = [editions EXCEPT ![e] = handler[h].row]
    /\ Use({e}) /\ Close(h)
    /\ UNCHANGED <<books, edition_files, stored_files, preferences, overtaken>>

\* The edition an import brings may become the one the administrator prefers.
ImportPrefers(b, e, preferred) ==
    preferences' =
        IF ~preferred THEN preferences
        ELSE [preferences EXCEPT ![<<Administrator, b>>] =
                [preferred |-> e, opened |-> IF @ = Null THEN Null ELSE @.opened]]

\* The import of a file brings an edition; a cover replaces the one that was read,
\* whose row goes unless it is referenced.
ImportEdition(h, e, source, text, cover, preferred) ==
    LET b == handler[h].row.book
        old == handler[h].cover
    IN  /\ MayAdd(h, e)
        /\ editions' = [editions EXCEPT ![e] = handler[h].row]
        /\ NewFile(e, source, text)
        /\ Use({e, source, text, cover} \ {Null})
        /\ \/ /\ cover = Null
              /\ stored_files' = stored_files \cup ({source, text} \ {Null})
              /\ UNCHANGED <<books, overtaken>>
           \/ /\ cover \in FreshId(StoredId) \ {source, text}
              /\ books' = [books EXCEPT ![b].cover = cover]
              /\ stored_files' = (stored_files \cup ({source, text, cover} \ {Null}))
                                 \ Unreferenced({old}, edition_files', books')
              /\ Overtake(h, b)
        /\ ImportPrefers(b, e, preferred)
        /\ Close(h)

\* The import of a book, with or without a cover.
ImportBook(b, e, role, ready, source, text, cover, preferred) ==
    /\ b \in FreshId(BookId) /\ e \in FreshId(EditionId)
    /\ NewFile(e, source, text)
    /\ cover # Null => cover \in FreshId(StoredId) \ {source, text}
    /\ books' = [books EXCEPT ![b] = [cover |-> cover]]
    /\ editions' = [editions EXCEPT ![e] =
                      [book |-> b, role |-> role, ready |-> ready,
                       source |-> Null, supersedes |-> Null]]
    /\ stored_files' = stored_files \cup ({source, text, cover} \ {Null})
    /\ Use({b, e, source, text, cover} \ {Null})
    /\ ImportPrefers(b, e, preferred)
    /\ UNCHANGED <<handler, overtaken>>

\* The import that replaces the file of an edition locks the edition.
ReplaceLock(h, e) ==
    /\ EditionHere(e) /\ Unlocked(h, {e})
    /\ Read(h, [op |-> "replace file", edition |-> e, files |-> {}])
    /\ UNCHANGED <<books, editions, edition_files, stored_files, preferences, issued,
                   overtaken>>

ReplaceCommit(h, source, text) ==
    /\ handler[h].op = "replace file"
    /\ NewFile(handler[h].edition, source, text)
    /\ stored_files' = stored_files \cup ({source, text} \ {Null})
    /\ Use({source, text} \ {Null}) /\ Close(h)
    /\ UNCHANGED <<books, editions, preferences, overtaken>>

\* Status and relations are changed; the role and the book stay.
UpdateRead(h, e, ready, source, supersedes) ==
    /\ EditionHere(e) /\ e \notin {source, supersedes}
    /\ LET row == [editions[e] EXCEPT !.ready = ready, !.source = source,
                                      !.supersedes = supersedes]
       IN  /\ ValidRelations(row.book, row)
           /\ Read(h, [op |-> "update edition", edition |-> e, from |-> editions[e],
                        to |-> row])
    /\ UNCHANGED <<books, editions, edition_files, stored_files, preferences, issued,
                   overtaken>>

\* The columns that differ from what was read are written.
UpdateCommit(h) ==
    LET r == handler[h]
        changed == {x \in {"ready", "source", "supersedes"} : r.to[x] # r.from[x]}
        named == {r.to[x] : x \in changed \ {"ready"}} \ {Null}
    IN  /\ r.op = "update edition" /\ EditionHere(r.edition)
        /\ \A x \in named : EditionHere(x)
        /\ Unlocked(h, {r.edition} \cup named)
        /\ editions' = [editions EXCEPT ![r.edition] =
                          [x \in DOMAIN @ |-> IF x \in changed THEN r.to[x] ELSE @[x]]]
        /\ Close(h)
        /\ UNCHANGED <<books, edition_files, stored_files, preferences, issued, overtaken>>

-----------------------------------------------------------------------------
(* Preferences.                                                            *)

\* PATCH of the preferences, or the opening of an edition.  Nothing can be preferred,
\* too.
PreferRead(h, u, b, field, e) ==
    /\ BookHere(b) /\ (u # Administrator => \E x \in EditionsOf(b) : Readable(u, x))
    /\ e # Null => e \in EditionsOf(b) /\ (u # Administrator => Readable(u, e))
    /\ Read(h, [op |-> "prefer", person |-> u, book |-> b, field |-> field,
                 edition |-> e])
    /\ UNCHANGED <<books, editions, edition_files, stored_files, preferences, issued,
                   overtaken>>

PreferCommit(h) ==
    LET r == handler[h]
        old == preferences[<<r.person, r.book>>]
        row == IF old = Null THEN [preferred |-> Null, opened |-> Null] ELSE old
    IN  /\ r.op = "prefer" /\ BookHere(r.book)
        /\ r.edition # Null => EditionHere(r.edition) /\ Unlocked(h, {r.edition})
        /\ preferences' = [preferences EXCEPT ![<<r.person, r.book>>] =
                             [row EXCEPT ![r.field] = r.edition]]
        /\ Close(h)
        /\ UNCHANGED <<books, editions, edition_files, stored_files, issued, overtaken>>

-----------------------------------------------------------------------------
(* Deletion.                                                               *)

\* delete_edition: the edition is locked, its dependents and files are read.
DeleteEditionLock(h, e) ==
    /\ EditionHere(e) /\ Unlocked(h, {e}) /\ Dependents({e}) = {}
    /\ Read(h, [op |-> "delete edition", edition |-> e, files |-> FilesOf({e})])
    /\ UNCHANGED <<books, editions, edition_files, stored_files, preferences, issued,
                   overtaken>>

\* The administrator's preference is cleared, those of the others are not.
Cleared(e) ==
    [k \in Person \X BookId |->
        IF k[1] # Administrator \/ ~Names(preferences[k], {e}) THEN preferences[k]
        ELSE [field \in {"preferred", "opened"} |->
                IF preferences[k][field] = e THEN Null ELSE preferences[k][field]]]

DeleteEditionCommit(h) ==
    LET e == handler[h].edition
        files == handler[h].files
    IN  /\ handler[h].op = "delete edition"
        /\ edition_files' = edition_files \ files
        /\ editions' = [editions EXCEPT ![e] = Null]
        /\ preferences' = Cleared(e)
        /\ \A k \in DOMAIN preferences' : ~Names(preferences'[k], {e})
        /\ \A f \in edition_files' : f.edition # e
        /\ Dependents({e}) = {}
        /\ stored_files' = stored_files
                           \ Unreferenced(Objects(files), edition_files', books)
        /\ Close(h)
        /\ UNCHANGED <<books, issued, overtaken>>

\* delete_book locks nothing before its first change.
DeleteBookRead(h, b) ==
    /\ BookHere(b)
    /\ Read(h, [op |-> "delete book", book |-> b, editions |-> EditionsOf(b),
                 files |-> FilesOf(EditionsOf(b)), cover |-> books[b].cover])
    /\ UNCHANGED <<books, editions, edition_files, stored_files, preferences, issued,
                   overtaken>>

DeleteBookCommit(h) ==
    LET r == handler[h]
    IN  /\ r.op = "delete book" /\ BookHere(r.book)
        /\ Unlocked(h, EditionsOf(r.book))
        /\ EditionsOf(r.book) \subseteq r.editions
        /\ FilesOf(EditionsOf(r.book)) \subseteq r.files
        /\ Dependents(r.editions) \subseteq r.editions
        /\ \A u \in Person \ {Administrator} : preferences[<<u, r.book>>] = Null
        /\ preferences' = [preferences EXCEPT ![<<Administrator, r.book>>] = Null]
        /\ edition_files' = edition_files \ r.files
        /\ editions' = [e \in EditionId |->
                          IF e \in r.editions THEN Null ELSE editions[e]]
        /\ books' = [books EXCEPT ![r.book] = Null]
        /\ stored_files' = stored_files \
             Unreferenced(Objects(r.files) \cup {r.cover}, edition_files', books')
        /\ Close(h)
        /\ UNCHANGED <<issued, overtaken>>

\* A request ends without effect: a lost connection, or an IntegrityError.
CatalogueRollback(h) ==
    /\ handler[h] # NoRequest
    /\ Close(h)
    /\ UNCHANGED <<books, editions, edition_files, stored_files, preferences, issued,
                   overtaken>>

-----------------------------------------------------------------------------
CatalogueInit ==
    /\ books = [b \in BookId |-> Null]
    /\ editions = [e \in EditionId |-> Null]
    /\ edition_files = {} /\ stored_files = {}
    /\ preferences = [k \in Person \X BookId |-> Null]
    /\ handler = [h \in Handler |-> NoRequest]
    /\ issued = {} /\ overtaken = FALSE

ImportCommit(source, text, cover) ==
    \/ \E b \in FreshId(BookId), e \in FreshId(EditionId),
         role \in {"source", "translation"}, ready, preferred \in BOOLEAN :
         ImportBook(b, e, role, ready, source, text, cover, preferred)
    \/ \E h \in Handler, e \in FreshId(EditionId), preferred \in BOOLEAN :
         ImportEdition(h, e, source, text, cover, preferred)
    \/ \E h \in Handler : ReplaceCommit(h, source, text)

\* A request begins: it may bring one of the rows, give an edition one of the links.
RequestBegins(h, Rows, Links) ==
    /\ handler[h] = NoRequest
    /\ \/ \E row \in Rows : AddRead(h, row)
       \/ \E e \in EditionId :
            \/ ReplaceLock(h, e)
            \/ DeleteEditionLock(h, e)
            \/ \E ready \in BOOLEAN, source, supersedes \in Links :
                 UpdateRead(h, e, ready, source, supersedes)
       \/ \E u \in Person, b \in BookId, field \in {"preferred", "opened"}, e \in Links :
            PreferRead(h, u, b, field, e)
       \/ \E b \in BookId : DeleteBookRead(h, b)

RequestEnds(h) ==
    \/ \E e \in EditionId : NewEdition(h, e)
    \/ UpdateCommit(h)
    \/ PreferCommit(h)
    \/ DeleteEditionCommit(h)
    \/ DeleteBookCommit(h)
    \/ CatalogueRollback(h)

CatalogueNext ==
    \/ \E b \in BookId : NewBook(b)
    \/ \E source \in FreshId(StoredId), text, cover \in FreshId(StoredId) \cup {Null} :
         ImportCommit(source, text, cover)
    \/ \E h \in Handler :
         RequestBegins(h, EditionRow, EditionId \cup {Null}) \/ RequestEnds(h)

CatalogueSpec == CatalogueInit /\ [][CatalogueNext]_catalogueVars

-----------------------------------------------------------------------------
(* Properties.                                                             *)

\* The relations of an edition stay inside its book, a source has the source role, and
\* what a user prefers or opened last is an edition of that book, although editions are
\* validated without a lock and deleted meanwhile (_validate_relationships,
\* PreferenceService.update, delete_edition).
RelationsHold ==
    /\ \A e \in EditionId : EditionHere(e) =>
         LET row == editions[e]
         IN  /\ BookHere(row.book)
             /\ {row.source, row.supersedes} \ {Null} \subseteq EditionsOf(row.book) \ {e}
             /\ row.source # Null =>
                  row.role = "translation" /\ editions[row.source].role = "source"
    /\ \A k \in Person \X BookId : preferences[k] # Null =>
         {preferences[k].preferred, preferences[k].opened} \ {Null}
            \subseteq EditionsOf(k[2])

\* Every stored file a revision or a cover names has its row, and every row is named by
\* one: "不再被引用的文件会被删除".  (Not when a cover was replaced that another import or
\* a deletion of the book had read: then the row of the newer one stays behind.)
\* (_delete_unreferenced_stored_files, _apply_cover, delete_book)
StoredFilesAreReferenced ==
    LET named == ((UNION {{f.source, f.text} : f \in edition_files})
                  \cup {books[b].cover : b \in {x \in BookId : BookHere(x)}}) \ {Null}
    IN  named \subseteq stored_files /\ (~overtaken => stored_files \subseteq named)

\* The editor says of the deletion of an edition "若它是首选会明确清除首选。存在依赖关系时
\* 服务器会拒绝。": a deletion that was not refused for its dependents is not stopped by
\* somebody's preference (delete_edition clears those of the administrator only).
PreferencesLetGo ==
    \A h \in Handler : handler[h].op = "delete edition" =>
        \A k \in Person \X BookId :
            Names(preferences[k], {handler[h].edition}) => k[1] = Administrator
=============================================================================
