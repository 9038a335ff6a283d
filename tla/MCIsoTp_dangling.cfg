\* The payload ends exactly at the end of a block.
SPECIFICATION Spec
CONSTANTS
    a = a
    b = b
    Ends = {a, b}
    Settings <- DanglingOnly
INVARIANTS
    NoSendFails
