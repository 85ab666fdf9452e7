-------------------------------- MODULE Files -------------------------------
(***************************************************************************)
(* Open files, from the system calls down to the disk: the descriptor      *)
(* tables of the processes (file.c, fs.c), the inodes in memory and their  *)
(* reference and open counts (vfs/inode.c, vfsfile.c), the inodes on disk, *)
(* and the blocks of Sfs.                                                  *)
(*                                                                         *)
(* A system call runs with interrupts off and the disk answers at once, so *)
(* each call is one step; the processes interleave between calls.  Calls   *)
(* that return an error without changing anything are not steps.  Regular  *)
(* files of the boot file system only: they exist from the start (no call  *)
(* creates or removes one), a directory is referenced by a lookup only     *)
(* while it runs, and reclaim_count is 1 as long as an inode is in memory. *)
(***************************************************************************)
EXTENDS Sfs

CONSTANTS
    File, Proc, NULL,
    FILES_STRUCT_NENTRY,
    Skipped,            \* descriptors that files_closeall leaves open (2: stdin, stdout)
    OpenFlags,          \* the flags that open is called with
    Data,               \* what is written
    Lengths,            \* and how much at once: IOBUF_SIZE is the size of a block
    Seeks,              \* the <<offset, whence>> of seek
    MaxRefs             \* bound: references to inodes at once

ASSUME FilesAssumption ==
    /\ FILES_STRUCT_NENTRY \in Nat \ {0} /\ Skipped \in 0 .. FILES_STRUCT_NENTRY
    /\ IsFiniteSet(File) /\ IsFiniteSet(Proc) /\ MaxRefs \in Nat
    /\ Lengths \subseteq 1 .. BLKSIZE
    /\ Seeks \subseteq Int \X {"LSEEK_SET", "LSEEK_CUR", "LSEEK_END"}
    /\ OpenFlags \subseteq SUBSET {"O_WRONLY", "O_RDWR", "O_CREAT", "O_EXCL", "O_TRUNC", "O_APPEND"}

VARIABLES
    freemap, unused_blocks, disk,   \* as in Sfs
    dinode,             \* the inodes on disk
    node,               \* the inodes in memory, or NULL
    fd_array,           \* the descriptor table of each process, or NULL
    lost,               \* references that failed exclusive opens left behind
    panicked

sfsVars == <<freemap, unused_blocks, disk>>
vars == <<freemap, unused_blocks, disk, dinode, node, fd_array, lost, panicked>>

FD == 0 .. FILES_STRUCT_NENTRY - 1

Closed == [fd \in FD |-> NULL]

\* struct inode with its sfs_inode, and struct file.
Inodes == [din : Dinodes, dirty : BOOLEAN, ref_count : Nat, open_count : Nat]
OpenFiles == [node : File, pos : 0 .. MAX_FILE_SIZE, readable : BOOLEAN, writable : BOOLEAN]

\* A null pointer points to nothing.
ASSUME NullAssumption ==
    NULL \notin Inodes /\ NULL \notin OpenFiles /\ NULL \notin [FD -> {NULL} \cup OpenFiles]

TypeOK ==
    /\ freemap \subseteq Block /\ unused_blocks \in 0 .. NBLOCKS
    /\ disk \in [Block -> [Cell -> Block \cup Data \cup {-1, 0}]]
    /\ dinode \in [File -> Dinodes]
    /\ node \in [File -> {NULL} \cup Inodes]
    /\ fd_array \in [Proc -> {NULL} \cup [FD -> {NULL} \cup OpenFiles]]
    /\ lost \in [File -> 0 .. MaxRefs]
    /\ panicked \in BOOLEAN

Init ==
    /\ freemap = Block /\ unused_blocks = NBLOCKS
    /\ disk = [b \in Block |-> Stale]
    /\ dinode = [f \in File |-> NewFile]
    /\ node = [f \in File |-> NULL]
    /\ \E p \in Proc : fd_array = [q \in Proc |-> IF q = p THEN Closed ELSE NULL]
    /\ lost = [f \in File |-> 0]
    /\ panicked = FALSE

IsOpen(p, fd) == fd_array[p] # NULL /\ fd_array[p][fd] # NULL

\* The descriptors of p, and of everybody, that are open on a file of S.
OpenOn(p, S) == {fd \in FD : IsOpen(p, fd) /\ fd_array[p][fd].node \in S}
Holders(S) == {h \in Proc \X FD : h[2] \in OpenOn(h[1], S)}

-----------------------------------------------------------------------------
(* Inodes in memory *)

\* sfs_load_inode: the inode in memory, read from disk if need be, with one more
\* reference.
sfs_load_inode(f) ==
    IF node[f] # NULL THEN [node[f] EXCEPT !.ref_count = @ + 1]
    ELSE [din |-> dinode[f], dirty |-> FALSE, ref_count |-> 1, open_count |-> 0]

\* The state of a call of Sfs on inode n.
Call(n) ==
    [freemap |-> freemap, unused_blocks |-> unused_blocks, disk |-> disk,
     din |-> n.din, dirty |-> n.dirty, ino |-> 0, alen |-> 0, ret |-> "ok"]

\* What the disk holds of a dirty inode: something older, that nobody may read.
OutOfDate == [NewFile EXCEPT !.size = MAX_FILE_SIZE]

\* Inode n of f after a call that left state s, and the rest of s.
Store(f, n, s) ==
    /\ freemap' = s.freemap /\ unused_blocks' = s.unused_blocks /\ disk' = s.disk
    /\ node' = [node EXCEPT ![f] = [n EXCEPT !.din = s.din, !.dirty = s.dirty]]
    /\ dinode' = [dinode EXCEPT ![f] = IF s.dirty THEN OutOfDate ELSE @]

\* A failed assertion: the machine stops, and what the call did does not matter.
Panic == panicked' = TRUE /\ UNCHANGED <<sfsVars, dinode, node, fd_array, lost>>

\* inode_open_dec and inode_ref_dec for n descriptors: the last close writes the
\* inode (sfs_close), and sfs_reclaim drops it with the last reference.
Put(x, n) == [x EXCEPT !.open_count = @ - n, !.ref_count = @ - n,
                       !.dirty = @ /\ x.open_count # n]

\* Whether closing n descriptors of f writes its inode to disk.
Written(f, n) == n # 0 /\ node[f].open_count = n /\ node[f].dirty

\* Closes the descriptors fds of p: vfs_close for each of them.
CloseAll(p, fds) ==
    LET n == [f \in File |-> Cardinality(fds \cap OpenOn(p, {f}))]
    IN  /\ node' = [f \in File |->
                       IF n[f] = 0 THEN node[f]
                       ELSE IF node[f].ref_count = n[f] THEN NULL ELSE Put(node[f], n[f])]
        /\ dinode' = [f \in File |-> IF Written(f, n[f]) THEN node[f].din ELSE dinode[f]]

-----------------------------------------------------------------------------
(* System calls *)

Writes(flags) == flags \cap {"O_WRONLY", "O_RDWR"} # {}

\* What file_open and vfs_open ask of the flags before they look the file up.
Allowed(flags) ==
    /\ ~({"O_WRONLY", "O_RDWR"} \subseteq flags)
    /\ "O_TRUNC" \in flags => Writes(flags)

\* What vfs_open truncates: also a file that O_CREAT finds.
Truncates(flags) == flags \cap {"O_TRUNC", "O_CREAT"} # {}

\* The descriptor that fd_array_alloc takes.
FreeFd(p) == {fd \in FD : fd_array[p][fd] = NULL /\ \A d \in 0 .. fd - 1 : fd_array[p][d] # NULL}

Room(n) == Cardinality(Holders(File)) + SumFunction(lost) + n <= MaxRefs

\* The end of a call on inode n of f that left state s: descriptor fd of p becomes
\* file(s), unless the machine has stopped.
Finish(p, fd, f, n, s, file(_)) ==
    IF s.ret = "panic" THEN Panic
    ELSE /\ Store(f, n, s)
         /\ fd_array' = [fd_array EXCEPT ![p][fd] = file(s)]
         /\ UNCHANGED <<lost, panicked>>

file_open(p, f, flags) ==
    /\ fd_array[p] # NULL
    /\ Allowed(flags)
    /\ ~({"O_CREAT", "O_EXCL"} \subseteq flags)
    /\ Room(1)
    /\ \E fd \in FreeFd(p) :
          LET n == [sfs_load_inode(f) EXCEPT !.open_count = @ + 1]
              New(s) == [node |-> f,
                         pos |-> IF "O_APPEND" \in flags THEN s.din.size ELSE 0,
                         readable |-> "O_WRONLY" \notin flags,
                         writable |-> Writes(flags)]
          IN  Finish(p, fd, f, n,
                     IF Truncates(flags) THEN sfs_truncfile(Call(n), 0) ELSE Call(n), New)

\* O_CREAT | O_EXCL on a file that exists: the reference of the lookup is kept.
file_open_exists(p, f, flags) ==
    /\ fd_array[p] # NULL /\ FreeFd(p) # {}
    /\ Allowed(flags)
    /\ {"O_CREAT", "O_EXCL"} \subseteq flags
    /\ Room(1)
    /\ node' = [node EXCEPT ![f] = sfs_load_inode(f)]
    /\ lost' = [lost EXCEPT ![f] = @ + 1]
    /\ UNCHANGED <<sfsVars, dinode, fd_array, panicked>>

file_close(p, fd) ==
    /\ IsOpen(p, fd)
    /\ CloseAll(p, {fd})
    /\ fd_array' = [fd_array EXCEPT ![p][fd] = NULL]
    /\ UNCHANGED <<sfsVars, lost, panicked>>

\* sysfile_read and sysfile_write of len cells (a longer call is several of them), and
\* what they leave of the inode.
Io(p, fd, len, data, write) ==
    LET file == fd_array[p][fd]
        n == node[file.node]
    IN  Finish(p, fd, file.node, n, sfs_io_nolock(Call(n), file.pos, len, data, write),
               LAMBDA s : [file EXCEPT !.pos = @ + s.alen])

file_read(p, fd, len) ==
    /\ IsOpen(p, fd) /\ fd_array[p][fd].readable
    /\ Io(p, fd, len, 0, FALSE)

file_write(p, fd, len, data) ==
    /\ IsOpen(p, fd) /\ fd_array[p][fd].writable
    /\ Io(p, fd, len, data, TRUE)

\* A file that is too short is extended, whether the descriptor may write or not, and
\* stays extended by what there was room for when that fails.
file_seek(p, fd, off, whence) ==
    /\ IsOpen(p, fd)
    /\ LET file == fd_array[p][fd]
           n == node[file.node]
           pos == off + CASE whence = "LSEEK_SET" -> 0
                          [] whence = "LSEEK_CUR" -> file.pos
                          [] whence = "LSEEK_END" -> n.din.size
       IN  Finish(p, fd, file.node, n, sfs_tryseek(Call(n), pos),
                  LAMBDA s : IF s.ret = "ok" THEN [file EXCEPT !.pos = pos] ELSE file)

file_fsync(p, fd) ==
    /\ IsOpen(p, fd)
    /\ LET f == fd_array[p][fd].node
       IN  /\ node[f].dirty
           /\ dinode' = [dinode EXCEPT ![f] = node[f].din]
           /\ node' = [node EXCEPT ![f].dirty = FALSE]
    /\ UNCHANGED <<sfsVars, fd_array, lost, panicked>>

\* Mutant: without vop_open_inc.
Shared_RefOnly(f, n) == IF n = 0 THEN node[f] ELSE [node[f] EXCEPT !.ref_count = @ + n]

\* fd_array_dup for n descriptors of f.
Shared(f, n) == IF n = 0 THEN node[f]
                ELSE [node[f] EXCEPT !.ref_count = @ + n, !.open_count = @ + n]

file_dup(p, fd1, fd2) ==
    /\ IsOpen(p, fd1) /\ fd_array[p][fd2] = NULL /\ Room(1)
    /\ node' = [node EXCEPT ![fd_array[p][fd1].node] = Shared(fd_array[p][fd1].node, 1)]
    /\ fd_array' = [fd_array EXCEPT ![p][fd2] = fd_array[p][fd1]]
    /\ UNCHANGED <<sfsVars, dinode, lost, panicked>>

\* copy_files of do_fork.
dup_files(p, q) ==
    /\ fd_array[p] # NULL /\ fd_array[q] = NULL /\ Room(Cardinality(OpenOn(p, File)))
    /\ node' = [f \in File |-> Shared(f, Cardinality(OpenOn(p, {f})))]
    /\ fd_array' = [fd_array EXCEPT ![q] = fd_array[p]]
    /\ UNCHANGED <<sfsVars, dinode, lost, panicked>>

\* do_execve; the program file is opened and closed again within the call.
files_closeall(p) ==
    /\ fd_array[p] # NULL
    /\ CloseAll(p, Skipped .. FILES_STRUCT_NENTRY - 1)
    /\ fd_array' = [fd_array EXCEPT ![p] = [fd \in FD |-> IF fd < Skipped THEN @[fd] ELSE NULL]]
    /\ UNCHANGED <<sfsVars, lost, panicked>>

\* put_files of do_exit.
files_destroy(p) ==
    /\ fd_array[p] # NULL
    /\ CloseAll(p, FD)
    /\ fd_array' = [fd_array EXCEPT ![p] = NULL]
    /\ UNCHANGED <<sfsVars, lost, panicked>>

\* When the last process is gone: fs_cleanup writes the inodes, the superblock and the
\* free map (sfs_sync), and the next boot mounts what is on disk.
Reboot(p) ==
    /\ \A q \in Proc : fd_array[q] = NULL
    /\ IF unused_blocks # Cardinality(freemap) THEN Panic
       ELSE /\ dinode' = [f \in File |->
                             IF node[f] # NULL /\ node[f].dirty THEN node[f].din ELSE dinode[f]]
            /\ node' = [f \in File |-> NULL]
            /\ lost' = [f \in File |-> 0]
            /\ fd_array' = [fd_array EXCEPT ![p] = Closed]
            /\ UNCHANGED <<sfsVars, panicked>>

ProcNext(p) ==
    \/ \E f \in File, flags \in OpenFlags :
          file_open(p, f, flags) \/ file_open_exists(p, f, flags)
    \/ \E fd \in FD :
          \/ file_close(p, fd) \/ file_fsync(p, fd)
          \/ \E len \in Lengths :
                file_read(p, fd, len) \/ \E data \in Data : file_write(p, fd, len, data)
          \/ \E to \in Seeks : file_seek(p, fd, to[1], to[2])
          \/ \E fd2 \in FD : file_dup(p, fd, fd2)
    \/ files_closeall(p) \/ files_destroy(p)
    \/ \E q \in Proc : dup_files(p, q)
    \/ Reboot(p)

Next == ~panicked /\ \E p \in Proc : ProcNext(p)

Spec == Init /\ [][Next]_vars

-----------------------------------------------------------------------------
\* The inode of f as the next lookup finds it.
Current(f) == IF node[f] # NULL THEN node[f].din ELSE dinode[f]

\* The counts of an inode are exactly the descriptors of all processes that are open on
\* it, plus the references lost to failed exclusive opens; it is in memory exactly as long
\* as one of them is left (file_open, file_dup, dup_files, and every way to close).
CountsExact ==
    \A f \in File :
        LET n == Cardinality(Holders({f}))
        IN  IF node[f] = NULL THEN n + lost[f] = 0
            ELSE node[f].open_count = n /\ node[f].ref_count = n + lost[f]
                 /\ node[f].ref_count > 0

\* Every block is free or is used by one file at one place, by the inode the next lookup
\* finds as well as by the one on disk after a shutdown, and unused_blocks counts the free
\* ones: also after a growth that failed half way, and after an inode that was not dirty
\* left the memory.
BlocksExact ==
    /\ unused_blocks = Cardinality(freemap)
    /\ \A b \in Block :
          SumFunction([f \in File |-> Uses(Current(f), disk, b)])
              = IF b \in freemap THEN 0 ELSE 1

\* What a file reads as, and the files with blocks past their end.
contents == [f \in File |-> Contents(Current(f), disk)]
strained == {f \in File : Current(f).blocks > BlocksFor(Current(f).size)}

Flat == INSTANCE FlatFiles WITH
    desc <- fd_array, halted <- panicked, MaxLen <- BLKSIZE, MaxPos <- MAX_FILE_SIZE


=============================================================================
