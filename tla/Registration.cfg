\* Requests that share user_data and files, cancelled in every way; a table of
\* files whose slots the kernel and the program fill; the buffer tables of two
\* rings, one request on a buffer, and memory that is freed and used again.
CONSTANTS
    Requests = {r1, r2}
    UserData = {0, 1}
    Numbers = {0, 1}
    FileAt <- MCFileAt
    QueueLen = 1
    Files = {f1, f2, f3}
    MaxU32 = 4
    TableSizes = {1, 3, 4}
    MaxPending = 2
    Rings = {x, y}
    Bufs = {b1, b2}
    BufRequests = {q1}
    MaxTable = 2
    Partial = FALSE
    Discipline = "careful"
SPECIFICATION PartsSpec
SYMMETRY Symmetry
INVARIANTS
    FileTableIsKnown FreedBuffersAreUnused TagMeansUnused
PROPERTIES StopsWhatWasMeant SyncErrorsAreTrue
