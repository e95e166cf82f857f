\* An answer with two entries.
SPECIFICATION BodySpec
CONSTANT Entries = 2
INVARIANT ListFilled
CHECK_DEADLOCK FALSE
