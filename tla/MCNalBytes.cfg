CONSTANTS
    Byte = {0, 1, 2, 3, 4}
    MaxBytes = 6
    Rooms = {1, 5, 8, 9, 10}
SPECIFICATION Spec
INVARIANTS
    NoStartCode
    RoundTrip
    RoomSuffices
    Found
CHECK_DEADLOCK FALSE
