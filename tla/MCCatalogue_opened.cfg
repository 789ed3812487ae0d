SPECIFICATION CatalogueInstance
CONSTANTS
    book1 = book1  book2 = book2
    edition1 = edition1  edition2 = edition2  edition3 = edition3
    h1 = h1  h2 = h2
    BookId = {book1, book2}
    EditionId = {edition1, edition2, edition3}
    StoredId <- SixFiles
    Person = {owner, guest}
    Administrator = owner
    Handler = {h1, h2}
    Null = Null
    MaxFileRevision = 2
    MaxServed = 3
INVARIANTS
    PreferencesLetGo
CHECK_DEADLOCK FALSE
