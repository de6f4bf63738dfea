\* chapter_05/program_07b alone: its assertion does not hold.
SPECIFICATION Spec
CONSTANTS
    Programs = {"store_buffer"}
    NUM_THREADS = 2
    NUM_ITEMS = 1
INVARIANT
    AssertZNotZero
