SPECIFICATION FairSpec
CONSTANTS
    e1 = e1
    e2 = e2
    s1 = s1
    s2 = s2
    NoEvent = NoEvent
    Subject = {s1, s2}
    Handler = {h1}
    Event = {e1, e2}
    SubjectOf <- MCTwoSubjects
    Interval = 2
    Width = 1
PROPERTIES
    BatchPublished
