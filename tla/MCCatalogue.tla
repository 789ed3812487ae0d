------------------------------ MODULE MCCatalogue ------------------------------
(* Instance of Catalogue for TLC.                                             *)
EXTENDS Catalogue, TLC

CONSTANTS
    book1, book2, edition1, edition2, edition3, h1, h2,
    MaxServed           \* bound: requests in a behaviour

VARIABLE served         \* requests that began, or were done in one step

\* Stored files are numbered in the order they come.
SixFiles == 1 .. 6

ASSUME MCCatalogueAssumption ==
    /\ {book1, book2} \subseteq BookId /\ book1 # book2
    /\ {edition1, edition2} \subseteq EditionId /\ edition1 # edition2
    /\ SixFiles \subseteq StoredId /\ SixFiles \cap (BookId \cup EditionId) = {}

Used == Cardinality(issued \cap SixFiles)

SourceOf(b) == [book |-> b, role |-> "source", ready |-> TRUE,
                source |-> Null, supersedes |-> Null]
TranslationOf(b, e) == [SourceOf(b) EXCEPT !.role = "translation", !.source = e]

\* A book with a cover and an edition, which the reader has opened or not and the
\* administrator prefers or not; a translation of it, or another book, may be there.
Seconds == {Null, TranslationOf(book1, edition1), SourceOf(book2)}
There(second) == IF second = Null THEN {} ELSE {second.book, edition2, 4}

FirstRows(second, opened, preferred, there) ==
    /\ books = [b \in BookId |->
         CASE b = book1 -> [cover |-> 3]
           [] b = book2 /\ book2 \in there -> [cover |-> Null]
           [] OTHER -> Null]
    /\ editions = [e \in EditionId |->
         CASE e = edition1 -> SourceOf(book1)
           [] e = edition2 -> second
           [] OTHER -> Null]
    /\ edition_files =
         {[edition |-> edition1, revision |-> 1, source |-> 1, text |-> 2]}
         \cup {[edition |-> edition2, revision |-> 1, source |-> x, text |-> Null] :
                  x \in there \cap SixFiles}
    /\ issued = {1, 2, 3, book1, edition1} \cup there
    /\ stored_files = issued \cap SixFiles
    /\ preferences = [k \in Person \X BookId |->
         CASE k = <<Administrator, book1>> /\ preferred # Null ->
                [preferred |-> preferred, opened |-> Null]
           [] k[1] # Administrator /\ k[2] = book1 /\ opened # Null ->
                [preferred |-> Null, opened |-> opened]
           [] OTHER -> Null]

CatalogueStart ==
    /\ \E second \in Seconds, opened, preferred \in {Null, edition1} :
         FirstRows(second, opened, preferred, There(second))
    /\ handler = [h \in Handler |-> NoRequest] /\ overtaken = FALSE
    /\ served = 0

\* Translations are added; the administrator prefers an edition, the reader opens one.
EditionsHere == {e \in EditionId : EditionHere(e)}
NewRows == {TranslationOf(b, e) : b \in BookId, e \in EditionsHere}

Chooses(r) ==
    r.op = "prefer" =>
        /\ r.edition # Null
        /\ r.field = IF r.person = Administrator THEN "preferred" ELSE "opened"

CatalogueStep ==
    /\ \/ \E b \in BookId : NewBook(b)
       \/ Used < 6 /\ \E cover \in {Null, Used + 2} : ImportCommit(Used + 1, Null, cover)
       \/ \E h \in Handler :
            \/ served < MaxServed
               /\ RequestBegins(h, NewRows, EditionsHere \cup {Null})
               /\ Chooses(handler'[h])
            \/ RequestEnds(h)
    /\ served' = served +
         IF \E h \in Handler : handler[h] # NoRequest /\ handler'[h] = NoRequest
         THEN 0 ELSE 1
    /\ served' <= MaxServed

CatalogueInstance == CatalogueStart /\ [][CatalogueStep]_<<catalogueVars, served>>
=============================================================================
