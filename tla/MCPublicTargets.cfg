SPECIFICATION Spec
CONSTANTS
    uud = uud
    other = other
    pasal = pasal
    page = page
    draft = draft
    context = context
    Corpora = {uud, other}
    Evidence = {pasal, page, draft}
    Contexts = {context}
    PageOf <- MCPageOf
    Final = {pasal, page}
    Documents = {uuddoc}
    Answerable <- MCAnswerable
    Limit = 2
    Threads = {t1, t2}
    None = None
    MaxBookmarks = 2
INVARIANTS
    TypeOK
    LeastRecentlyUsed
    RepliesStayInCorpus
    DeletedStaysDeleted
    ListedHasItsTarget
SYMMETRY MCThreads
