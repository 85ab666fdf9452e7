\* Calls of whole blocks only: shorter ones reach the lost blocks++ of
\* sfs_bmap_load_nolock (README, section 3).
CONSTANTS
    NBLOCKS = 3
    NDIRECT = 1
    NENTRY = 2
    BLKSIZE = 2
    MAX_FILE_SIZE = 6
    File = {f, g}
    Proc = {p, q}
    NULL = NULL
    FILES_STRUCT_NENTRY = 2
    Skipped = 1
    OpenFlags = {{"O_RDWR"}, {"O_RDWR", "O_CREAT"}, {"O_RDWR", "O_APPEND"}, {"O_RDWR", "O_CREAT", "O_EXCL"}}
    Data = {1}
    Lengths = {2}
    Seeks <- SomeSeeks
    MaxRefs = 2
SYMMETRY Alike
SPECIFICATION Spec
INVARIANT TypeOK
INVARIANT CountsExact
INVARIANT BlocksExact
 
CHECK_DEADLOCK FALSE
