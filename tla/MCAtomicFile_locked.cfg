\* Three goroutines save versions of three lengths under one lock.
CONSTANTS
    Writer = {w1, w2, w3}
    Version = {1, 2, 3}
    Inode = {i1, i2, i3}
    Locked = TRUE
    None = None
SPECIFICATION FileSpec
INVARIANTS FileTypeOK AlwaysWhole
PROPERTIES Atomic
