SPECIFICATION FairSpec
CONSTANTS
    e1 = e1
    e2 = e2
    s1 = s1
    s2 = s2
    NoEvent = NoEvent
    Subject = {s1}
    Handler = {h1, h2}
    Event = {e1, e2}
    SubjectOf <- MCOneSubject
    Interval = 1
    Width = 2
INVARIANTS
    SubjectsAccounted
    RequestsAccounted
PROPERTIES
    DigestSpec
    QuietBatchPublished
    PostsReturn
