\* One thread, and a C runtime whose tellp says 0 of a file opened to append.
CONSTANTS
    Writers = {w1}
    Nobody = Nobody
    MaxCalls = 2
    MaxRestarts = 0
    Runtimes = {"start"}
SPECIFICATION Spec
INVARIANT HeaderHeads
