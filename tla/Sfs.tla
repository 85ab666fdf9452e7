--------------------------------- MODULE Sfs --------------------------------
(***************************************************************************)
(* The block map of the simple file system (sfs_inode.c, bitmap.c): how a  *)
(* file grows over its direct blocks and its indirect block, shrinks, and  *)
(* is read and written.                                                    *)
(*                                                                         *)
(* Every operator is a C function: it takes the state of the call, a       *)
(* record with the free map, the disk and the inode at work, and returns   *)
(* the state after it.  ret is its return code; "panic" is an assertion    *)
(* that fails.  Once ret is not "ok" the code goes to its out label, so a  *)
(* loop changes nothing more.                                              *)
(***************************************************************************)
EXTENDS Integers, FiniteSets, SequencesExt

CONSTANTS
    NBLOCKS,            \* blocks of the disk that files can have
    NDIRECT,            \* SFS_NDIRECT
    NENTRY,             \* SFS_BLK_NENTRY
    BLKSIZE,            \* SFS_BLKSIZE, in data cells
    MAX_FILE_SIZE       \* SFS_MAX_FILE_SIZE

\* A block number and a data cell have the same place in a block here.  The disk
\* image (480 kB) is smaller than what an inode can map, as in the Makefile.
ASSUME SfsAssumption ==
    /\ NBLOCKS \in Nat \ {0} /\ NDIRECT \in Nat \ {0}
    /\ BLKSIZE \in Nat \ {0} /\ NENTRY \in Nat /\ BLKSIZE <= NENTRY
    /\ NBLOCKS <= NDIRECT + NENTRY /\ MAX_FILE_SIZE \in Nat

Block == 1 .. NBLOCKS
Cell == 0 .. NENTRY - 1

\* What sfs_clear_block writes; and what a free block holds: nothing reads it.
Zeroed == [c \in Cell |-> 0]
Stale == [c \in Cell |-> -1]

\* struct sfs_disk_inode: 0 is "no block".
NewFile ==
    [size |-> 0, blocks |-> 0, direct |-> [i \in 0 .. NDIRECT - 1 |-> 0], indirect |-> 0]

Dinodes ==
    [size : 0 .. MAX_FILE_SIZE, blocks : 0 .. NBLOCKS,
     direct : [0 .. NDIRECT - 1 -> 0 .. NBLOCKS], indirect : 0 .. NBLOCKS]

\* The blocks of len cells: ROUNDUP_DIV(len, SFS_BLKSIZE).
BlocksFor(len) == (len + BLKSIZE - 1) \div BLKSIZE

Failed(s, ret) == [s EXCEPT !.ret = ret]

\* op after a call that returned s, unless that failed.
Then(s, op(_)) == IF s.ret = "ok" THEN op(s) ELSE s

\* The state after body for each of from, from + 1, ..., to - 1, up to the first
\* that fails: the loops of this file.
Loop(body(_, _), s, from, to) ==
    FoldLeft(LAMBDA t, i : Then(t, LAMBDA u : body(u, i)),
             s, [i \in 1 .. to - from |-> from + i - 1])

-----------------------------------------------------------------------------

\* Mutant: the block is not counted.
sfs_block_alloc_Uncounted(s) ==
    IF s.freemap = {} THEN Failed(s, "E_NO_MEM")
    ELSE LET ino == Min(s.freemap)
         IN  [s EXCEPT !.freemap = @ \ {ino}, !.disk[ino] = Zeroed, !.ino = ino]

\* bitmap_alloc takes the lowest free bit.
sfs_block_alloc(s) ==
    IF s.freemap = {} THEN Failed(s, "E_NO_MEM")
    ELSE IF s.unused_blocks = 0 THEN Failed(s, "panic")
    ELSE LET ino == Min(s.freemap)
         IN  [s EXCEPT !.freemap = @ \ {ino}, !.unused_blocks = @ - 1,
                       !.disk[ino] = Zeroed, !.ino = ino]

sfs_block_free(s, ino) ==
    IF ino = 0 \/ ino \in s.freemap THEN Failed(s, "panic")
    ELSE [s EXCEPT !.freemap = @ \cup {ino}, !.unused_blocks = @ + 1, !.disk[ino] = Stale]

\* A new entry of the indirect block ent.ino; ino is the call that allocated its block.
AddEntry(ent, ino, index) ==
    LET new == ent.din.indirect = 0
    IN  IF ino.ret # "ok"
        THEN Failed(IF new THEN sfs_block_free(ent, ent.ino) ELSE ent, ino.ret)
        ELSE [ino EXCEPT !.disk[ent.ino][index] = ino.ino,
                         !.din.indirect = ent.ino, !.dirty = @ \/ new]

\* The indirect block: allocated with its first entry, and given back when there is
\* no block left for that entry.
sfs_bmap_get_sub_nolock(s, index, create) ==
    LET entp == s.din.indirect
        ino == IF entp # 0 THEN s.disk[entp][index] ELSE 0
    IN  IF ino # 0 \/ ~create THEN [s EXCEPT !.ino = ino]
        ELSE Then(IF entp # 0 THEN [s EXCEPT !.ino = entp] ELSE sfs_block_alloc(s),
                  LAMBDA ent : AddEntry(ent, sfs_block_alloc(ent), index))

sfs_bmap_get_nolock(s, index, create) ==
    IF index < NDIRECT
    THEN IF s.din.direct[index] # 0 \/ ~create
         THEN [s EXCEPT !.ino = s.din.direct[index]]
         ELSE Then(sfs_block_alloc(s),
                   LAMBDA a : [a EXCEPT !.din.direct[index] = a.ino, !.dirty = TRUE])
    ELSE IF index - NDIRECT < NENTRY
    THEN sfs_bmap_get_sub_nolock(s, index - NDIRECT, create)
    ELSE Failed(s, "panic")

\* The block index of a file, which grows by it when index is just past its end.
sfs_bmap_load_nolock(s, index) ==
    LET create == index = s.din.blocks
        Loaded(got) == IF got.ino = 0 \/ got.ino \in got.freemap THEN Failed(got, "panic")
                       ELSE [got EXCEPT !.din.blocks = IF create THEN @ + 1 ELSE @]
    IN  IF index > s.din.blocks THEN Failed(s, "panic")
        ELSE Then(sfs_bmap_get_nolock(s, index, create), Loaded)

\* Mutant: the entry in the indirect block is not cleared.
sfs_bmap_free_nolock_EntryKept(s, index) ==
    IF index < NDIRECT
    THEN [sfs_block_free(s, s.din.direct[index]) EXCEPT !.din.direct[index] = 0, !.dirty = TRUE]
    ELSE sfs_block_free(s, s.disk[s.din.indirect][index - NDIRECT])

\* The indirect block itself stays with the file.
sfs_bmap_free_nolock(s, index) ==
    LET ent == s.din.indirect
        ino == IF index < NDIRECT THEN s.din.direct[index]
               ELSE IF ent # 0 THEN s.disk[ent][index - NDIRECT] ELSE 0
    IN  IF index >= NDIRECT /\ ent \in s.freemap THEN Failed(s, "panic")
        ELSE IF ino = 0 THEN s
        ELSE IF index < NDIRECT
        THEN [sfs_block_free(s, ino) EXCEPT !.din.direct[index] = 0, !.dirty = TRUE]
        ELSE [sfs_block_free(s, ino) EXCEPT !.disk[ent][index - NDIRECT] = 0]

sfs_bmap_truncate_nolock(s) ==
    IF s.din.blocks = 0 THEN Failed(s, "panic")
    ELSE Then(sfs_bmap_free_nolock(s, s.din.blocks - 1),
              LAMBDA f : [f EXCEPT !.din.blocks = @ - 1, !.dirty = TRUE])

\* Grows the file with blocks of zeros, or shrinks it block by block.
sfs_truncfile(s, len) ==
    LET nblks == s.din.blocks
        tblks == BlocksFor(len)
        Resized(r) == IF r.din.blocks # tblks THEN Failed(r, "panic")
                      ELSE [r EXCEPT !.din.size = len, !.dirty = TRUE]
    IN  IF len > MAX_FILE_SIZE THEN Failed(s, "E_INVAL")
        ELSE IF s.din.size = len
        THEN IF tblks # nblks THEN Failed(s, "panic") ELSE s
        ELSE Then(IF nblks < tblks THEN Loop(sfs_bmap_load_nolock, s, nblks, tblks)
                  ELSE Loop(LAMBDA t, i : sfs_bmap_truncate_nolock(t), s, tblks, nblks),
                  Resized)

sfs_tryseek(s, pos) ==
    IF pos < 0 \/ pos >= MAX_FILE_SIZE THEN Failed(s, "E_INVAL")
    ELSE IF pos > s.din.size THEN sfs_truncfile(s, pos) ELSE s

-----------------------------------------------------------------------------
\* One block of a read or a write of the cells offset .. endpos - 1.
IoBlock(s, blkno, offset, endpos, data, write) ==
    LET wanted == {c \in 0 .. BLKSIZE - 1 : blkno * BLKSIZE + c \in offset .. endpos - 1}
    IN  Then(sfs_bmap_load_nolock(s, blkno),
             LAMBDA b : [b EXCEPT !.alen = @ + Cardinality(wanted),
                                  !.disk[b.ino] = [c \in Cell |-> IF write /\ c \in wanted
                                                                  THEN data ELSE @[c]]])

\* The out label of sfs_io_nolock: alen is how much was read or written, also when the
\* disk got full on the way; a failed assertion does not come here.
Extended(s, offset) ==
    IF s.ret # "panic" /\ offset + s.alen > s.din.size
    THEN [s EXCEPT !.din.size = offset + s.alen, !.dirty = TRUE]
    ELSE s

sfs_io_nolock(s, offset, len, data, write) ==
    LET endpos == Min({offset + len, IF write THEN MAX_FILE_SIZE ELSE s.din.size})
        none == [s EXCEPT !.alen = 0]
    IN  IF offset >= MAX_FILE_SIZE THEN Failed(none, "E_INVAL")
        ELSE IF offset >= endpos THEN none
        ELSE Extended(Loop(LAMBDA t, b : IoBlock(t, b, offset, endpos, data, write),
                           none, offset \div BLKSIZE, BlocksFor(endpos)),
                      offset)

-----------------------------------------------------------------------------
\* The blocks an inode has, on a given disk: how often each one.
Uses(din, disk, b) ==
    Cardinality({i \in DOMAIN din.direct : din.direct[i] = b})
    + (IF din.indirect = b THEN 1 ELSE 0)
    + (IF din.indirect = 0 THEN 0 ELSE Cardinality({e \in Cell : disk[din.indirect][e] = b}))

\* The block a cell of a file is in.
BlockOf(din, disk, pos) ==
    LET index == pos \div BLKSIZE
    IN  IF index < NDIRECT THEN din.direct[index]
        ELSE IF din.indirect = 0 THEN 0 ELSE disk[din.indirect][index - NDIRECT]

\* What a file reads as: a block it does not have yet is allocated, with zeros, by
\* the read.
Contents(din, disk) ==
    [i \in 1 .. din.size |->
        LET b == BlockOf(din, disk, i - 1)
        IN  IF b = 0 THEN 0 ELSE disk[b][(i - 1) % BLKSIZE]]

=============================================================================
