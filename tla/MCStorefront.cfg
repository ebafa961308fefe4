\* Three purchases, two buyers, seven scenes.
CONSTANTS
    p1 = p1
    p2 = p2
    p3 = p3
    b1 = b1
    b2 = b2
    s1 = s1
    s2 = s2
    h1 = h1
    h2 = h2
    h3 = h3
    h4 = h4
    h5 = h5
    h6 = h6
    t1 = t1
    v1 = v1
    v2 = v2
    v3 = v3
    v4 = v4
    v5 = v5
    None = None
    Absent = Absent
    Purchases = {p1, p2, p3}
    Calls = {s1, s2}
    For <- MCFor
    ReleaseCalls = {s1}
    Scenes <- MCScenes
    MaxFaults = 1
    Buyers = {b1, b2}
    Buyer <- MCBuyer
    Creates = {h1, h5}
    Submits = {h2, h4}
    Of <- MCOf
    Stars <- MCStars
    Removes = {h3, h6}
    By <- MCBy
    Stats = {t1}
    Readers = {v1, v2, v3, v4, v5}
    Page <- MCPage
    MinRating = 3
SPECIFICATION FairSpec
INVARIANT TypeOK
INVARIANT VerdictsAgree
INVARIANT AverageIsCurrent
INVARIANT ShownIsEarned
PROPERTY VerdictsStay
PROPERTY PagesCatchUp
CHECK_DEADLOCK FALSE
