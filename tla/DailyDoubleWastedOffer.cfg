SPECIFICATION Spec
CONSTANTS
    p1 = p1
    p2 = p2
    c1 = c1
    c2 = c2
    s1 = s1
    s2 = s2
    s3 = s3
    OldTrack = OldTrack
    None = None
    Players = {p1, p2}
    Bannable = {p1, p2}
    Cells = {c1, c2}
    RowOf <- MCRowOf
    Tracks = 2
    Songs = {s1, s2, s3}
    HandSize = 2
    Count = 1
    Stars = {5}
    MaxVisits = 2
    MaxGames = 0
    MaxReloads = 0
PROPERTIES
    OfferIsNotWasted
