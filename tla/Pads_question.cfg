CONSTANTS
    Own = {p1, p2, p3, p4}
    Streamed = {v1}
    Keyless = {p4}
    Seats = 3
    None = None
SPECIFICATION Spec
PROPERTY MakesThatPlayer
