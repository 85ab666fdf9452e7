----------------------------- MODULE FilesProofs ----------------------------
(***************************************************************************)
(* Proofs about Files and Sfs.  A block of the disk is free, or has one    *)
(* place in one file: the places of an inode are its direct entries, its   *)
(* indirect block, and the entries of that block.                          *)
(***************************************************************************)
EXTENDS Files, SeqLemmas, FiniteSetTheorems, TLAPS

\* The places for block numbers: -1 is the indirect block, the others are the indices
\* of the blocks of the file.
Place == -1 .. NDIRECT + NENTRY - 1

At(din, dsk, x) ==
    IF x = -1 THEN din.indirect
    ELSE IF x < NDIRECT THEN din.direct[x]
    ELSE IF din.indirect = 0 THEN 0 ELSE dsk[din.indirect][x - NDIRECT]

Has(din, dsk, b) == \E x \in Place : At(din, dsk, x) = b

\* No block has two places in the inode.
Apart(din, dsk) ==
    /\ \A x \in Place : At(din, dsk, x) \in 0 .. NBLOCKS
    /\ \A x, y \in Place : At(din, dsk, x) # 0 /\ At(din, dsk, x) = At(din, dsk, y) => x = y

\* The blocks that the inode says it has are there.
Filled(din, dsk) == \A i \in 0 .. din.blocks - 1 : i \in Place /\ At(din, dsk, i) # 0

Rets == {"ok", "E_NO_MEM", "E_INVAL", "panic"}
Disks == [Block -> [Cell -> Block \cup Data \cup {-1, 0}]]

\* The states of a call of Sfs.
States ==
    [freemap : SUBSET Block, unused_blocks : Nat, disk : Disks, din : Dinodes,
     dirty : BOOLEAN, ino : 0 .. NBLOCKS, alen : Nat, ret : Rets]

\* A state of a call in which every block is free, or has one place in the inode, or is
\* in use elsewhere (others).
Sound(s, others) ==
    /\ s \in States /\ others \subseteq Block
    /\ s.unused_blocks = Cardinality(s.freemap)
    /\ Apart(s.din, s.disk)
    /\ s.freemap \cap others = {}
    /\ \A b \in Block : Has(s.din, s.disk, b) <=> b \notin others /\ b \notin s.freemap

-----------------------------------------------------------------------------
(* The places of an inode.                                                 *)

LEMMA Constants ==
    /\ NBLOCKS \in Nat /\ NDIRECT \in Nat /\ NENTRY \in Nat /\ BLKSIZE \in Nat
    /\ NDIRECT > 0 /\ BLKSIZE > 0 /\ NBLOCKS > 0 /\ BLKSIZE <= NENTRY /\ MAX_FILE_SIZE \in Nat
  BY SfsAssumption

\* A place holds the same when the indirect block is the same.
LEMMA SamePlaces ==
    ASSUME NEW din, NEW dsk, NEW new,
           din.indirect # 0 => new[din.indirect] = dsk[din.indirect]
    PROVE  /\ \A x : At(din, new, x) = At(din, dsk, x)
           /\ \A b : Has(din, new, b) <=> Has(din, dsk, b)
           /\ Apart(din, new) <=> Apart(din, dsk)
           /\ Filled(din, new) <=> Filled(din, dsk)
  <1>1. \A x : At(din, new, x) = At(din, dsk, x)
    BY DEF At
  <1> QED  BY <1>1 DEF Has, Apart, Filled

\* A file has no more blocks than there are.
LEMMA BlocksBound ==
    ASSUME NEW din, NEW dsk, Apart(din, dsk), NEW n \in Nat,
           \A i \in 0 .. n - 1 : i \in Place /\ At(din, dsk, i) # 0
    PROVE  n <= NBLOCKS
  <1> DEFINE f == [i \in 0 .. n - 1 |-> At(din, dsk, i)]
  <1>1. f \in Injection(0 .. n - 1, Block)
    <2>1. \A i \in 0 .. n - 1 : At(din, dsk, i) \in Block
      BY Constants DEF Apart, Block
    <2>2. f \in [0 .. n - 1 -> Block]
      BY <2>1
    <2>3. \A i, j \in 0 .. n - 1 : f[i] = f[j] => i = j
      BY DEF Apart
    <2> QED  BY <2>2, <2>3 DEF Injection, IsInjective
  <1>2. /\ IsFiniteSet(0 .. n - 1) /\ Cardinality(0 .. n - 1) = n
        /\ IsFiniteSet(Block) /\ Cardinality(Block) = NBLOCKS
    BY Constants, FS_Interval DEF Block
  <1> HIDE DEF f
  <1>3. Cardinality(0 .. n - 1) <= Cardinality(Block)
    BY <1>1, <1>2, FS_Injection
  <1> QED  BY <1>2, <1>3

-----------------------------------------------------------------------------
(* Blocks.                                                                 *)

\* sfs_block_alloc takes a free block, and clears it; it is then in use elsewhere.
LEMMA AllocSound ==
    ASSUME NEW s, NEW others, Sound(s, others), s.ret = "ok",
           NEW t, t = sfs_block_alloc(s)
    PROVE  \/ /\ t.ret = "ok" /\ t.ino \in s.freemap /\ Sound(t, others \cup {t.ino})
              /\ t = [s EXCEPT !.freemap = @ \ {t.ino}, !.unused_blocks = @ - 1,
                               !.disk[t.ino] = Zeroed, !.ino = t.ino]
           \/ t.ret \in {"panic", "E_NO_MEM"} /\ t = Failed(s, t.ret)
  <1>1. s \in States
    BY DEF Sound
  <1>2. CASE s.freemap = {}
    BY <1>1, <1>2 DEF sfs_block_alloc, Failed, States
  <1>3. CASE s.freemap # {} /\ s.unused_blocks = 0
    BY <1>1, <1>3 DEF sfs_block_alloc, Failed, States
  <1>4. CASE s.freemap # {} /\ s.unused_blocks # 0
    <2> DEFINE ino == Min(s.freemap)
    <2>1. ino \in s.freemap
      BY <1>1, <1>4, MinOfSet DEF States, Block
    <2> HIDE DEF ino
    <2>2. t = [s EXCEPT !.freemap = @ \ {ino}, !.unused_blocks = @ - 1,
                        !.disk[ino] = Zeroed, !.ino = ino]
      BY <1>4 DEF sfs_block_alloc, ino
    <2>3. /\ t.freemap = s.freemap \ {ino} /\ t.unused_blocks = s.unused_blocks - 1
          /\ t.disk = [s.disk EXCEPT ![ino] = Zeroed] /\ t.ino = ino
          /\ t.din = s.din /\ t.dirty = s.dirty /\ t.alen = s.alen /\ t.ret = s.ret
          /\ t = [freemap |-> t.freemap, unused_blocks |-> t.unused_blocks, disk |-> t.disk,
                  din |-> t.din, dirty |-> t.dirty, ino |-> t.ino, alen |-> t.alen, ret |-> t.ret]
      BY <1>1, <2>2 DEF States
    <2>4. ino \in Block /\ ino \in 0 .. NBLOCKS
      BY <1>1, <2>1 DEF States, Block
    <2>5. t.disk \in Disks
      BY <1>1, <2>3, <2>4 DEF States, Disks, Zeroed
    <2>6. t.unused_blocks = Cardinality(t.freemap) /\ t.unused_blocks \in Nat
      <3>1. IsFiniteSet(s.freemap)
        <4>1. IsFiniteSet(Block)
          BY Constants, FS_Interval DEF Block
        <4> QED  BY <1>1, <4>1, FS_Subset DEF States
      <3>2. Cardinality(s.freemap \ {ino}) = Cardinality(s.freemap) - 1
        BY <2>1, <3>1, FS_RemoveElement
      <3>3. s.unused_blocks = Cardinality(s.freemap) /\ s.unused_blocks \in Nat
        BY <1>1 DEF Sound, States
      <3> QED  BY <1>4, <2>3, <3>2, <3>3
    <2>7. t \in States
      BY <1>1, <2>3, <2>4, <2>5, <2>6 DEF States
    <2>8. ~Has(s.din, s.disk, ino)
      BY <2>1, <2>4 DEF Sound
    <2>9. s.din.indirect # 0 => t.disk[s.din.indirect] = s.disk[s.din.indirect]
      <3>1. s.din.indirect # ino
        BY <2>8, Constants DEF Has, At, Place
      <3>2. s.din.indirect \in 0 .. NBLOCKS
        BY <1>1 DEF States, Dinodes
      <3> QED  BY <1>1, <2>3, <3>1, <3>2 DEF States, Disks, Block
    <2>10. /\ \A b : Has(t.din, t.disk, b) <=> Has(s.din, s.disk, b)
           /\ Apart(t.din, t.disk)
      BY <2>3, <2>9, SamePlaces DEF Sound
    <2>11. Sound(t, others \cup {ino})
      <3>1. \A b \in Block : Has(t.din, t.disk, b) <=>
                             b \notin others \cup {ino} /\ b \notin t.freemap
        BY <2>1, <2>3, <2>8, <2>10 DEF Sound
      <3>2. t.freemap \cap (others \cup {ino}) = {} /\ others \cup {ino} \subseteq Block
        BY <2>3, <2>4 DEF Sound
      <3> QED  BY <2>6, <2>7, <2>10, <3>1, <3>2 DEF Sound
    <2> QED  BY <2>1, <2>2, <2>3, <2>11
  <1> QED  BY <1>2, <1>3, <1>4

\* A record of States is given by its fields.
LEMMA StateFields ==
    ASSUME NEW t \in States
    PROVE  t = [freemap |-> t.freemap, unused_blocks |-> t.unused_blocks, disk |-> t.disk,
                din |-> t.din, dirty |-> t.dirty, ino |-> t.ino, alen |-> t.alen, ret |-> t.ret]
  BY DEF States

\* A block in use elsewhere is given a place that was empty.
LEMMA Attached ==
    ASSUME NEW s, NEW b \in Block, NEW others, b \notin others, Sound(s, others \cup {b}),
           NEW t \in States, NEW z \in Place,
           \A x \in Place \ {z} : At(t.din, t.disk, x) = At(s.din, s.disk, x),
           At(s.din, s.disk, z) = 0, At(t.din, t.disk, z) = b,
           t.freemap = s.freemap, t.unused_blocks = s.unused_blocks
    PROVE  Sound(t, others)
  <1>1. ~Has(s.din, s.disk, b)
    BY DEF Sound
  <1>2. \A x \in Place : At(s.din, s.disk, x) # b
    BY <1>1 DEF Has
  <1>3. b \in 0 .. NBLOCKS /\ b # 0
    BY Constants DEF Block
  <1>4. Apart(t.din, t.disk)
    BY <1>2, <1>3 DEF Sound, Apart
  <1>5. ASSUME NEW c \in Block
        PROVE  Has(t.din, t.disk, c) <=> Has(s.din, s.disk, c) \/ c = b
    <2>1. c # 0
      BY Constants DEF Block
    <2> QED  BY <2>1 DEF Has
  <1> QED  BY <1>1, <1>4, <1>5 DEF Sound

\* A block loses its place and is free.
LEMMA Detached ==
    ASSUME NEW s, NEW b \in Block, NEW others, Sound(s, others),
           NEW t \in States, NEW z \in Place,
           \A x \in Place \ {z} : At(t.din, t.disk, x) = At(s.din, s.disk, x),
           At(s.din, s.disk, z) = b, At(t.din, t.disk, z) = 0,
           t.freemap = s.freemap \cup {b}, t.unused_blocks = Cardinality(t.freemap)
    PROVE  Sound(t, others)
  <1>1. b # 0
    BY Constants DEF Block
  <1>2. \A x \in Place : At(s.din, s.disk, x) = b => x = z
    BY <1>1 DEF Sound, Apart
  <1>3. Has(s.din, s.disk, b)
    BY DEF Has
  <1>4. Apart(t.din, t.disk)
    BY Constants DEF Sound, Apart
  <1>5. ASSUME NEW c \in Block
        PROVE  Has(t.din, t.disk, c) <=> Has(s.din, s.disk, c) /\ c # b
    <2>1. c # 0
      BY Constants DEF Block
    <2> QED  BY <1>2, <2>1 DEF Has
  <1> QED  BY <1>3, <1>4, <1>5 DEF Sound

-----------------------------------------------------------------------------
(* Growth.                                                                 *)

\* What is in use elsewhere is not touched, and an inode that is not dirty still says what
\* it said, but for the number of blocks.
Follows(s, t, others) ==
    /\ \A b \in others : t.disk[b] = s.disk[b]
    /\ ~t.dirty => /\ ~s.dirty /\ t.din.size = s.din.size /\ t.din.direct = s.din.direct
                   /\ t.din.indirect = s.din.indirect /\ s.din.blocks <= t.din.blocks

\* Places that are taken stay.
Grown(s, t) ==
    \A x \in Place : At(s.din, s.disk, x) # 0 => At(t.din, t.disk, x) = At(s.din, s.disk, x)

LEMMA FollowsTransitive ==
    ASSUME NEW s, NEW t, NEW u, NEW others, Follows(s, t, others), Follows(t, u, others),
           s.din.blocks \in Int, t.din.blocks \in Int, u.din.blocks \in Int
    PROVE  Follows(s, u, others)
  BY DEF Follows

LEMMA GrownTransitive ==
    ASSUME NEW s, NEW t, NEW u, Grown(s, t), Grown(t, u)
    PROVE  Grown(s, u)
  BY DEF Grown

\* The places of an inode before and after its first allocation.
LEMMA DirectPlaces ==
    ASSUME NEW din \in Dinodes, NEW dsk, NEW i \in 0 .. NDIRECT - 1, NEW b \in 0 .. NBLOCKS,
           NEW new, new = [din EXCEPT !.direct[i] = b]
    PROVE  /\ new \in Dinodes /\ new.blocks = din.blocks /\ new.size = din.size
           /\ new.indirect = din.indirect
           /\ i \in Place /\ i # -1 /\ At(din, dsk, i) = din.direct[i] /\ At(new, dsk, i) = b
           /\ \A x \in Place \ {i} : At(new, dsk, x) = At(din, dsk, x)
  <1>1. /\ new \in Dinodes /\ new.blocks = din.blocks /\ new.size = din.size
        /\ new.indirect = din.indirect /\ new.direct = [din.direct EXCEPT ![i] = b]
    BY DEF Dinodes
  <1>2. i \in Place /\ i # -1
    BY Constants DEF Place
  <1>3. At(din, dsk, i) = din.direct[i] /\ At(new, dsk, i) = b
    BY <1>1, Constants, SMTT(30) DEF At, Dinodes
  <1>4. ASSUME NEW x \in Place \ {i}  PROVE At(new, dsk, x) = At(din, dsk, x)
    <2>1. CASE x = -1
      BY <1>1, <2>1 DEF At
    <2>2. CASE x # -1 /\ x < NDIRECT
      <3>1. x \in 0 .. NDIRECT - 1
        BY <2>2, Constants DEF Place
      <3>2. new.direct[x] = din.direct[x]
        BY <1>1, <3>1 DEF Dinodes
      <3> QED  BY <2>2, <3>2 DEF At
    <2>3. CASE x # -1 /\ ~(x < NDIRECT)
      BY <1>1, <2>3 DEF At
    <2> QED  BY <2>1, <2>2, <2>3
  <1> QED  BY <1>1, <1>2, <1>3, <1>4

\* What sfs_block_free does to a block that is in use.
LEMMA FreeFields ==
    ASSUME NEW s \in States, s.unused_blocks = Cardinality(s.freemap),
           NEW b \in Block, b \notin s.freemap, NEW t, t = sfs_block_free(s, b)
    PROVE  /\ t \in States
           /\ t.freemap = s.freemap \cup {b} /\ t.unused_blocks = Cardinality(t.freemap)
           /\ t.disk = [s.disk EXCEPT ![b] = Stale]
           /\ t.din = s.din /\ t.dirty = s.dirty /\ t.ino = s.ino /\ t.alen = s.alen
           /\ t.ret = s.ret
  <1>1. b # 0
    BY Constants DEF Block
  <1>2. t = [s EXCEPT !.freemap = @ \cup {b}, !.unused_blocks = @ + 1, !.disk[b] = Stale]
    BY <1>1 DEF sfs_block_free
  <1>3. /\ t.freemap = s.freemap \cup {b} /\ t.unused_blocks = s.unused_blocks + 1
        /\ t.disk = [s.disk EXCEPT ![b] = Stale]
        /\ t.din = s.din /\ t.dirty = s.dirty /\ t.ino = s.ino /\ t.alen = s.alen
        /\ t.ret = s.ret
        /\ t = [freemap |-> t.freemap, unused_blocks |-> t.unused_blocks, disk |-> t.disk,
                din |-> t.din, dirty |-> t.dirty, ino |-> t.ino, alen |-> t.alen, ret |-> t.ret]
    BY <1>2 DEF States
  <1>4. t.disk \in Disks
    BY <1>3 DEF States, Disks, Stale
  <1>5. t.unused_blocks = Cardinality(t.freemap) /\ t.unused_blocks \in Nat
    <2>1. IsFiniteSet(s.freemap)
      <3>1. IsFiniteSet(Block)
        BY Constants, FS_Interval DEF Block
      <3> QED  BY <3>1, FS_Subset DEF States
    <2>2. Cardinality(s.freemap \cup {b}) = Cardinality(s.freemap) + 1
      BY <2>1, FS_AddElement
    <2> QED  BY <1>3, <2>2 DEF States
  <1>6. t \in States
    BY <1>3, <1>4, <1>5 DEF States
  <1> QED  BY <1>3, <1>5, <1>6

\* A block in use elsewhere is given back.
LEMMA FreeSound ==
    ASSUME NEW s, NEW others, NEW b \in Block, b \notin others, Sound(s, others \cup {b}),
           NEW t, t = sfs_block_free(s, b)
    PROVE  Sound(t, others)
  <1>1. s \in States /\ b \notin s.freemap /\ s.unused_blocks = Cardinality(s.freemap)
    BY DEF Sound
  <1>2. /\ t \in States
        /\ t.freemap = s.freemap \cup {b} /\ t.unused_blocks = Cardinality(t.freemap)
        /\ t.disk = [s.disk EXCEPT ![b] = Stale] /\ t.din = s.din
    BY <1>1, FreeFields
  <1>3. ~Has(s.din, s.disk, b)
    BY DEF Sound
  <1>4. s.din.indirect # 0 => t.disk[s.din.indirect] = s.disk[s.din.indirect]
    <2>1. s.din.indirect # b
      BY <1>3, Constants DEF Has, At, Place
    <2>2. s.din.indirect \in 0 .. NBLOCKS
      BY <1>1 DEF States, Dinodes
    <2> QED  BY <1>1, <1>2, <2>1, <2>2 DEF States, Disks, Block
  <1>5. /\ \A c : Has(t.din, t.disk, c) <=> Has(s.din, s.disk, c)
        /\ Apart(t.din, t.disk)
    BY <1>2, <1>4, SamePlaces DEF Sound
  <1> QED  BY <1>2, <1>3, <1>5 DEF Sound

\* Only the return code, or the block number returned, is different.
LEMMA SameSound ==
    ASSUME NEW s, NEW others, Sound(s, others), NEW t \in States,
           t.freemap = s.freemap, t.unused_blocks = s.unused_blocks, t.disk = s.disk,
           t.din = s.din, t.dirty = s.dirty
    PROVE  /\ Sound(t, others) /\ Follows(s, t, others) /\ Grown(s, t)
           /\ Follows(t, s, others) /\ Grown(t, s)
  BY DEF Sound, Follows, Grown, States, Dinodes

\* The disk after sfs_clear_block.
Cleared(dsk, b) == [dsk EXCEPT ![b] = Zeroed]

\* Taking a free block does not disturb the file nor the others.
LEMMA AllocGrown ==
    ASSUME NEW s, NEW others, Sound(s, others), NEW b \in s.freemap,
           NEW t \in States, t.disk = Cleared(s.disk, b), t.din = s.din,
           t.dirty = s.dirty
    PROVE  /\ \A x \in Place : At(t.din, t.disk, x) = At(s.din, s.disk, x)
           /\ \A x \in Place : At(s.din, s.disk, x) # b
           /\ \A c \in Block \ {b} : t.disk[c] = s.disk[c]
           /\ t.disk[b] = Zeroed /\ b \in Block /\ b \notin others
           /\ Follows(s, t, others) /\ Grown(s, t)
  <1>1. s \in States /\ b \in Block /\ b \notin others /\ ~Has(s.din, s.disk, b)
    BY DEF Sound, States
  <1>2. \A c \in Block \ {b} : t.disk[c] = s.disk[c]
    BY <1>1 DEF States, Disks, Cleared
  <1>3. t.disk[b] = Zeroed
    BY <1>1 DEF States, Disks, Cleared
  <1>4. \A x \in Place : At(s.din, s.disk, x) # b
    BY <1>1 DEF Has
  <1>5. s.din.indirect # 0 => t.disk[s.din.indirect] = s.disk[s.din.indirect]
    <2>1. s.din.indirect # b
      BY <1>1, Constants DEF Has, At, Place
    <2>2. s.din.indirect \in 0 .. NBLOCKS
      BY <1>1 DEF States, Dinodes
    <2> QED  BY <1>2, <2>1, <2>2 DEF Block
  <1>6. \A x \in Place : At(t.din, t.disk, x) = At(s.din, s.disk, x)
    BY <1>5 DEF At
  <1>7. \A x \in Place : At(s.din, s.disk, x) # 0 => At(s.din, s.disk, x) \in Block \ {b}
    BY <1>4, Constants DEF Sound, Apart, Block
  <1>8. Grown(s, t)
    BY <1>2, <1>6, <1>7 DEF Grown
  <1>9. Follows(s, t, others)
    BY <1>1, <1>2 DEF Follows, Sound, States, Dinodes
  <1> QED  BY <1>1, <1>2, <1>3, <1>4, <1>6, <1>8, <1>9

-----------------------------------------------------------------------------
(* The blocks of a file.                                                   *)

\* What a call returns that may only let the file grow.
Growing(s, t, others) ==
    \/ t.ret = "panic"
    \/ /\ Sound(t, others) /\ Follows(s, t, others) /\ Grown(s, t)
       /\ t.alen = s.alen /\ t.din.size = s.din.size

\* sfs_bmap_get_nolock among the direct blocks.
LEMMA GetDirect ==
    ASSUME NEW s, NEW others, Sound(s, others), s.ret = "ok",
           NEW i \in 0 .. NDIRECT - 1, NEW create \in BOOLEAN,
           NEW t, t = sfs_bmap_get_nolock(s, i, create)
    PROVE  /\ Growing(s, t, others)
           /\ t.ret # "panic" => t.din.blocks = s.din.blocks
           /\ t.ret = "ok" => i \in Place /\ t.ino = At(t.din, t.disk, i)
  <1>1. s \in States /\ s.din \in Dinodes
    BY DEF Sound, States
  <1>2. i < NDIRECT /\ i \in Place /\ At(s.din, s.disk, i) = s.din.direct[i]
    BY Constants DEF Place, At
  <1>3. CASE s.din.direct[i] # 0 \/ ~create
    <2>1. t = [s EXCEPT !.ino = s.din.direct[i]]
      BY <1>2, <1>3 DEF sfs_bmap_get_nolock
    <2>2. s.din.direct[i] \in 0 .. NBLOCKS
      BY <1>1 DEF Dinodes
    <2>3. /\ t \in States /\ t.freemap = s.freemap /\ t.unused_blocks = s.unused_blocks
          /\ t.disk = s.disk /\ t.din = s.din /\ t.dirty = s.dirty
          /\ t.ino = s.din.direct[i] /\ t.alen = s.alen /\ t.ret = s.ret
      BY <1>1, <2>1, <2>2 DEF States
    <2> QED  BY <1>2, <2>3, SameSound DEF Growing
  <1>4. CASE s.din.direct[i] = 0 /\ create
    <2> DEFINE a == sfs_block_alloc(s)
    <2>1. t = Then(a, LAMBDA u : [u EXCEPT !.din.direct[i] = u.ino, !.dirty = TRUE])
      BY <1>2, <1>4 DEF sfs_bmap_get_nolock
    <2>2. \/ /\ a.ret = "ok" /\ a.ino \in s.freemap /\ Sound(a, others \cup {a.ino})
             /\ a = [s EXCEPT !.freemap = @ \ {a.ino}, !.unused_blocks = @ - 1,
                              !.disk[a.ino] = Zeroed, !.ino = a.ino]
          \/ a.ret \in {"panic", "E_NO_MEM"} /\ a = Failed(s, a.ret)
      BY AllocSound
    <2> HIDE DEF a
    <2>3. CASE a.ret \in {"panic", "E_NO_MEM"} /\ a = Failed(s, a.ret)
      <3>1. t = a
        BY <2>1, <2>3 DEF Then
      <3>2. /\ t \in States /\ t.freemap = s.freemap /\ t.unused_blocks = s.unused_blocks
            /\ t.disk = s.disk /\ t.din = s.din /\ t.dirty = s.dirty /\ t.alen = s.alen
        BY <1>1, <2>3, <3>1 DEF States, Failed, Rets
      <3>3. t.ret # "ok"
        BY <2>3, <3>1
      <3> QED  BY <3>2, <3>3, SameSound DEF Growing
    <2>4. CASE /\ a.ret = "ok" /\ a.ino \in s.freemap /\ Sound(a, others \cup {a.ino})
               /\ a = [s EXCEPT !.freemap = @ \ {a.ino}, !.unused_blocks = @ - 1,
                                !.disk[a.ino] = Zeroed, !.ino = a.ino]
      <3>1. t = [a EXCEPT !.din.direct[i] = a.ino, !.dirty = TRUE]
        BY <2>1, <2>4 DEF Then
      <3>2. /\ a \in States /\ a.disk = Cleared(s.disk, a.ino)
            /\ a.din = s.din /\ a.dirty = s.dirty /\ a.alen = s.alen
        <4>1. a \in States
          BY <2>4 DEF Sound
        <4>2. /\ a.disk = Cleared(s.disk, a.ino)
              /\ a.din = s.din /\ a.dirty = s.dirty /\ a.alen = s.alen
          BY <1>1, <2>4 DEF States, Cleared
        <4> QED  BY <4>1, <4>2
      <3>3. /\ \A x \in Place : At(a.din, a.disk, x) = At(s.din, s.disk, x)
            /\ \A x \in Place : At(s.din, s.disk, x) # a.ino
            /\ \A c \in Block \ {a.ino} : a.disk[c] = s.disk[c]
            /\ a.disk[a.ino] = Zeroed /\ a.ino \in Block /\ a.ino \notin others
            /\ Follows(s, a, others) /\ Grown(s, a)
        BY <2>4, <3>2, AllocGrown
      <3> DEFINE new == [a.din EXCEPT !.direct[i] = a.ino]
      <3>4. a.ino \in 0 .. NBLOCKS /\ a.ino # 0
        BY <3>3, Constants DEF Block
      <3>5. /\ new \in Dinodes /\ new.blocks = a.din.blocks /\ new.size = a.din.size
            /\ new.indirect = a.din.indirect
            /\ i \in Place /\ i # -1 /\ At(a.din, a.disk, i) = a.din.direct[i]
            /\ At(new, a.disk, i) = a.ino
            /\ \A x \in Place \ {i} : At(new, a.disk, x) = At(a.din, a.disk, x)
        <4>1. a.din \in Dinodes
          BY <1>1, <3>2
        <4> QED  BY <3>4, <4>1, DirectPlaces
      <3>6. /\ t.freemap = a.freemap /\ t.unused_blocks = a.unused_blocks /\ t.disk = a.disk
            /\ t.din = new /\ t.dirty = TRUE /\ t.ino = a.ino /\ t.alen = a.alen
            /\ t.ret = a.ret
            /\ t = [freemap |-> t.freemap, unused_blocks |-> t.unused_blocks, disk |-> t.disk,
                    din |-> t.din, dirty |-> t.dirty, ino |-> t.ino, alen |-> t.alen,
                    ret |-> t.ret]
        BY <3>1, <3>2 DEF States
      <3> HIDE DEF new
      <3>7. t \in States
        BY <3>2, <3>5, <3>6 DEF States
      <3>8. Sound(t, others)
        <4>1. At(a.din, a.disk, i) = 0
          BY <1>2, <1>4, <3>3
        <4> QED  BY <2>4, <3>3, <3>5, <3>6, <3>7, <4>1, Attached
      <3>9. Follows(s, t, others)
        BY <3>3, <3>6 DEF Follows
      <3>10. Grown(s, t)
        <4>1. \A x \in Place : At(t.din, t.disk, x) =
                  IF x = i THEN a.ino ELSE At(s.din, s.disk, x)
          BY <3>3, <3>5, <3>6
        <4>2. At(s.din, s.disk, i) = 0
          BY <1>2, <1>4
        <4> QED  BY <3>3, <3>6, <4>1, <4>2 DEF Grown
      <3> QED  BY <1>2, <2>4, <3>2, <3>5, <3>6, <3>8, <3>9, <3>10 DEF Growing
    <2> QED  BY <2>2, <2>3, <2>4
  <1> QED  BY <1>3, <1>4

\* The place of entry i of the indirect block.
Nth(i) == NDIRECT + i

\* The disk after b is written to entry i of block e.
Entered(dsk, e, i, b) == [dsk EXCEPT ![e][i] = b]

LEMMA OneEntry ==
    ASSUME NEW dsk \in Disks, NEW e \in Block, NEW i \in Cell, NEW b,
           NEW new, new = Entered(dsk, e, i, b)
    PROVE  /\ \A c \in Block \ {e} : new[c] = dsk[c]
           /\ new[e][i] = b /\ \A j \in Cell \ {i} : new[e][j] = dsk[e][j]
           /\ b \in Block \cup Data \cup {-1, 0} => new \in Disks
  BY DEF Disks, Entered

\* One entry of the indirect block is another place of the file.
LEMMA EntryPlaces ==
    ASSUME NEW u, u.din \in Dinodes, u.disk \in Disks, NEW e, u.din.indirect = e, e # 0,
           NEW i \in Cell, NEW b,
           NEW t, t.din = u.din, t.disk = Entered(u.disk, e, i, b),
           NEW z, z = Nth(i)
    PROVE  /\ z \in Place /\ z # -1
           /\ At(u.din, u.disk, z) = u.disk[e][i] /\ At(t.din, t.disk, z) = b
           /\ \A x \in Place \ {z} : At(t.din, t.disk, x) = At(u.din, u.disk, x)
           /\ \A c \in Block \ {e} : t.disk[c] = u.disk[c]
           /\ e \in Block
  <1>1. e \in Block
    BY Constants DEF Dinodes, Block
  <1>2. /\ \A c \in Block \ {e} : t.disk[c] = u.disk[c]
        /\ t.disk[e][i] = b /\ \A j \in Cell \ {i} : t.disk[e][j] = u.disk[e][j]
    BY <1>1, OneEntry
  <1>3. i \in Nat /\ i < NENTRY
    BY Constants DEF Cell
  <1>4. z \in Place /\ z # -1 /\ ~(z < NDIRECT) /\ z - NDIRECT = i
    BY <1>3, Constants DEF Place, Nth
  <1>5. At(u.din, u.disk, z) = u.disk[e][i] /\ At(t.din, t.disk, z) = b
    BY <1>2, <1>4 DEF At
  <1>6. ASSUME NEW x \in Place \ {z}  PROVE At(t.din, t.disk, x) = At(u.din, u.disk, x)
    <2>1. CASE x = -1 \/ x < NDIRECT
      BY <2>1 DEF At
    <2>2. CASE x # -1 /\ ~(x < NDIRECT)
      <3>1. x - NDIRECT \in Cell /\ x - NDIRECT # i
        BY <1>3, <2>2, Constants DEF Place, Cell, Nth
      <3> QED  BY <1>2, <2>2, <3>1 DEF At
    <2> QED  BY <2>1, <2>2
  <1> QED  BY <1>1, <1>2, <1>4, <1>5, <1>6

\* A block in use elsewhere becomes an entry of the indirect block.
LEMMA EntryAttached ==
    ASSUME NEW u, NEW b \in Block, NEW others, b \notin others, Sound(u, others \cup {b}),
           NEW e, u.din.indirect = e, e # 0, NEW i \in Cell, u.disk[e][i] = 0,
           NEW t \in States, t.din = u.din, t.disk = Entered(u.disk, e, i, b),
           t.freemap = u.freemap, t.unused_blocks = u.unused_blocks, NEW z, z = Nth(i)
    PROVE  /\ Sound(t, others) /\ z \in Place /\ z # -1
           /\ \A x \in Place : At(t.din, t.disk, x) = IF x = z THEN b ELSE At(u.din, u.disk, x)
           /\ \A c \in Block \ {e} : t.disk[c] = u.disk[c]
           /\ At(u.din, u.disk, z) = 0 /\ e \in Block
  <1>1. u \in States /\ u.din \in Dinodes /\ u.disk \in Disks
    BY DEF Sound, States
  <1>2. /\ z \in Place /\ z # -1
        /\ At(u.din, u.disk, z) = u.disk[e][i] /\ At(t.din, t.disk, z) = b
        /\ \A x \in Place \ {z} : At(t.din, t.disk, x) = At(u.din, u.disk, x)
        /\ \A c \in Block \ {e} : t.disk[c] = u.disk[c]
        /\ e \in Block
    BY <1>1, EntryPlaces
  <1>3. Sound(t, others)
    BY <1>2, Attached
  <1> QED  BY <1>2, <1>3

\* What sfs_block_alloc leaves after it took a block, and after it failed.
Took(s, t, others) ==
    /\ t \in States /\ t.ret = "ok" /\ Sound(t, others \cup {t.ino})
    /\ t.ino \in s.freemap /\ t.ino \in Block /\ t.ino \notin others
    /\ t.din = s.din /\ t.dirty = s.dirty /\ t.alen = s.alen
    /\ \A x \in Place : At(t.din, t.disk, x) = At(s.din, s.disk, x)
    /\ \A c \in Block \ {t.ino} : t.disk[c] = s.disk[c]
    /\ t.disk[t.ino] = Zeroed

Same(s, t) ==
    /\ t \in States /\ t.freemap = s.freemap /\ t.unused_blocks = s.unused_blocks
    /\ t.disk = s.disk /\ t.din = s.din /\ t.dirty = s.dirty /\ t.alen = s.alen

LEMMA Alloc ==
    ASSUME NEW s, NEW others, Sound(s, others), s.ret = "ok",
           NEW t, t = sfs_block_alloc(s)
    PROVE  Took(s, t, others) \/ (t.ret \in {"panic", "E_NO_MEM"} /\ Same(s, t))
  <1>1. s \in States
    BY DEF Sound
  <1>2. CASE /\ t.ret = "ok" /\ t.ino \in s.freemap /\ Sound(t, others \cup {t.ino})
             /\ t = [s EXCEPT !.freemap = @ \ {t.ino}, !.unused_blocks = @ - 1,
                              !.disk[t.ino] = Zeroed, !.ino = t.ino]
    <2>1. t \in States
      BY <1>2 DEF Sound
    <2>2. /\ t.disk = Cleared(s.disk, t.ino)
          /\ t.din = s.din /\ t.dirty = s.dirty /\ t.alen = s.alen
      BY <1>1, <1>2 DEF States, Cleared
    <2>3. /\ \A x \in Place : At(t.din, t.disk, x) = At(s.din, s.disk, x)
          /\ \A c \in Block \ {t.ino} : t.disk[c] = s.disk[c]
          /\ t.disk[t.ino] = Zeroed /\ t.ino \in Block /\ t.ino \notin others
      BY <1>2, <2>1, <2>2, AllocGrown
    <2> QED  BY <1>2, <2>1, <2>2, <2>3 DEF Took
  <1>3. CASE t.ret \in {"panic", "E_NO_MEM"} /\ t = Failed(s, t.ret)
    BY <1>1, <1>3 DEF Same, Failed, States, Rets
  <1> QED  BY <1>2, <1>3, AllocSound

LEMMA SameGrowing ==
    ASSUME NEW s, NEW others, Sound(s, others), NEW t, Same(s, t)
    PROVE  Sound(t, others) /\ Follows(s, t, others) /\ Grown(s, t) /\ Growing(s, t, others)
  <1>1. Sound(t, others) /\ Follows(s, t, others) /\ Grown(s, t)
    BY SameSound DEF Same
  <1> QED  BY <1>1 DEF Same, Growing

\* What AddEntry returns, and its fields.
WithEntry(a, e, i, drt) ==
    [a EXCEPT !.disk[e][i] = a.ino, !.din.indirect = e, !.dirty = drt]

LEMMA AddEntryFields ==
    ASSUME NEW a \in States, NEW e \in Block, NEW i \in Cell, a.ino \in Block, NEW drt \in BOOLEAN,
           NEW t, t = WithEntry(a, e, i, drt)
    PROVE  /\ t \in States /\ t.freemap = a.freemap /\ t.unused_blocks = a.unused_blocks
           /\ t.disk = Entered(a.disk, e, i, a.ino)
           /\ t.din \in Dinodes /\ t.din.size = a.din.size /\ t.din.blocks = a.din.blocks
           /\ t.din.direct = a.din.direct /\ t.din.indirect = e
           /\ a.din.indirect = e => t.din = a.din
           /\ t.dirty = drt /\ t.ino = a.ino /\ t.alen = a.alen /\ t.ret = a.ret
  <1> DEFINE din == [a.din EXCEPT !.indirect = e]
             dsk == [a.disk EXCEPT ![e][i] = a.ino]
  <1>1. /\ t.freemap = a.freemap /\ t.unused_blocks = a.unused_blocks /\ t.disk = dsk
        /\ t.din = din /\ t.dirty = drt
        /\ t.ino = a.ino /\ t.alen = a.alen /\ t.ret = a.ret
        /\ t = [freemap |-> t.freemap, unused_blocks |-> t.unused_blocks, disk |-> t.disk,
                din |-> t.din, dirty |-> t.dirty, ino |-> t.ino, alen |-> t.alen, ret |-> t.ret]
    BY DEF States, WithEntry
  <1>2. e \in 0 .. NBLOCKS
    BY DEF Block
  <1>3. /\ din \in Dinodes /\ din.size = a.din.size /\ din.blocks = a.din.blocks
        /\ din.direct = a.din.direct /\ din.indirect = e
        /\ a.din.indirect = e => din = a.din
    BY <1>2 DEF States, Dinodes
  <1>4. dsk = Entered(a.disk, e, i, a.ino)
    BY DEF Entered
  <1> HIDE DEF din, dsk
  <1>5. dsk \in Disks
    <2>1. a.disk \in Disks
      BY DEF States
    <2> QED  BY <1>4, <2>1, OneEntry
  <1>6. t \in States
    BY <1>1, <1>3, <1>5 DEF States
  <1> QED  BY <1>1, <1>3, <1>4, <1>6

\* What looking a place up returns, growing the file or not.
Got(s, t, others, z) ==
    /\ Growing(s, t, others)
    /\ t.ret # "panic" => t.din.blocks = s.din.blocks
    /\ t.ret = "ok" => z \in Place /\ z # -1 /\ t.ino = At(t.din, t.disk, z)

LEMMA NthPlace ==
    ASSUME NEW i \in Cell
    PROVE  /\ Nth(i) \in Place /\ Nth(i) # -1
           /\ \A din, dsk : At(din, dsk, Nth(i)) =
                 IF din.indirect = 0 THEN 0 ELSE dsk[din.indirect][i]
  <1>1. i \in Nat /\ i < NENTRY
    BY Constants DEF Cell
  <1>2. Nth(i) \in Place /\ Nth(i) # -1 /\ ~(Nth(i) < NDIRECT) /\ Nth(i) - NDIRECT = i
    BY <1>1, Constants DEF Place, Nth
  <1> QED  BY <1>2 DEF At

\* A call that returned the block number b, and did nothing else.
LEMMA FoundBlock ==
    ASSUME NEW s, NEW others, Sound(s, others), NEW z \in Place, z # -1,
           NEW b, At(s.din, s.disk, z) = b, NEW t, t = [s EXCEPT !.ino = b]
    PROVE  Got(s, t, others, z)
  <1>1. s \in States
    BY DEF Sound
  <1>2. b \in 0 .. NBLOCKS
    BY DEF Sound, Apart
  <1>3. Same(s, t) /\ t.ino = b
    BY <1>1, <1>2 DEF Same, States
  <1> QED  BY <1>3, SameGrowing DEF Got, Same

\* A new entry of the indirect block that the file has.
LEMMA EntryAdded ==
    ASSUME NEW s, NEW others, Sound(s, others), NEW i \in Cell, NEW e,
           s.din.indirect = e, e # 0, s.disk[e][i] = 0, NEW a, Took(s, a, others),
           NEW drt \in BOOLEAN, drt = s.dirty, NEW t, t = WithEntry(a, e, i, drt)
    PROVE  Got(s, t, others, Nth(i))
  <1>1. /\ a \in States /\ a.ret = "ok" /\ Sound(a, others \cup {a.ino})
        /\ a.ino \in Block /\ a.ino \notin others /\ a.ino \in s.freemap
        /\ a.din = s.din /\ a.dirty = s.dirty /\ a.alen = s.alen
        /\ \A x \in Place : At(a.din, a.disk, x) = At(s.din, s.disk, x)
        /\ \A c \in Block \ {a.ino} : a.disk[c] = s.disk[c]
    BY DEF Took
  <1>2. e \in Block /\ e \notin s.freemap /\ e \notin others
    <2>1. s \in States /\ e \in Block
      BY Constants DEF Sound, States, Dinodes, Block
    <2>2. Has(s.din, s.disk, e)
      BY Constants DEF Has, At, Place
    <2> QED  BY <2>1, <2>2 DEF Sound
  <1>3. /\ t \in States /\ t.freemap = a.freemap /\ t.unused_blocks = a.unused_blocks
        /\ t.disk = Entered(a.disk, e, i, a.ino) /\ (a.din.indirect = e => t.din = a.din)
        /\ t.dirty = drt /\ t.ino = a.ino /\ t.alen = a.alen /\ t.ret = a.ret
    BY <1>1, <1>2, AddEntryFields
  <1>4. a.din.indirect = e /\ a.disk[e][i] = 0 /\ t.din = a.din
    BY <1>1, <1>2, <1>3
  <1> DEFINE z == Nth(i)
             b == a.ino
  <1> HIDE DEF z, b
  <1>5. /\ Sound(t, others) /\ z \in Place /\ z # -1
        /\ \A x \in Place : At(t.din, t.disk, x) = IF x = z THEN b ELSE At(a.din, a.disk, x)
        /\ \A c \in Block \ {e} : t.disk[c] = a.disk[c]
        /\ At(a.din, a.disk, z) = 0
    BY <1>1, <1>3, <1>4, EntryAttached DEF z, b
  <1>6. Follows(s, t, others)
    <2>1. \A c \in others : t.disk[c] = s.disk[c]
      BY <1>1, <1>2, <1>5 DEF Sound
    <2>2. s.din.blocks \in Int
      BY DEF Sound, States, Dinodes
    <2>3. t.dirty = s.dirty
      BY <1>1, <1>3 DEF States
    <2>4. s.din = t.din
      BY <1>1, <1>4
    <2> QED  BY <2>1, <2>2, <2>3, <2>4 DEF Follows
  <1>7. Grown(s, t)
    BY <1>1, <1>5 DEF Grown
  <1> QED  BY <1>1, <1>3, <1>5, <1>6, <1>7 DEF Got, Growing, z, b

\* An indirect block of zeros is given to a file that had none.
LEMMA IndirectPlaces ==
    ASSUME NEW din \in Dinodes, din.indirect = 0, NEW e \in Block, NEW dsk, dsk[e] = Zeroed,
           NEW new, new.indirect = e, new.direct = din.direct, NEW m, m = -1
    PROVE  /\ m \in Place /\ At(din, dsk, m) = 0 /\ At(new, dsk, m) = e
           /\ \A x \in Place \ {m} : At(new, dsk, x) = At(din, dsk, x)
  <1>1. m \in Place /\ e # 0
    BY Constants DEF Place, Block
  <1>2. At(din, dsk, m) = 0 /\ At(new, dsk, m) = e
    BY DEF At
  <1>3. ASSUME NEW x \in Place \ {m}  PROVE At(new, dsk, x) = At(din, dsk, x)
    <2>1. CASE x < NDIRECT
      BY <2>1 DEF At
    <2>2. CASE ~(x < NDIRECT)
      <3>1. x - NDIRECT \in Cell
        BY <2>2, Constants DEF Place, Cell
      <3>2. dsk[e][x - NDIRECT] = 0
        BY <3>1 DEF Zeroed
      <3> QED  BY <1>1, <2>2, <3>2 DEF At
    <2> QED  BY <2>1, <2>2
  <1> QED  BY <1>1, <1>2, <1>3

\* The first entry of a new indirect block.
LEMMA IndirectAdded ==
    ASSUME NEW s, NEW others, Sound(s, others), NEW i \in Cell, s.din.indirect = 0,
           NEW ent, Took(s, ent, others), NEW e, e = ent.ino,
           NEW a, Took(ent, a, others \cup {e}), NEW d, d = a.ino,
           NEW drt \in BOOLEAN, NEW t, t = WithEntry(a, e, i, drt)
    PROVE  drt => Got(s, t, others, Nth(i))
  <1>1. /\ Sound(ent, others \cup {e}) /\ e \in Block /\ e \notin others
        /\ ent.din = s.din /\ ent.alen = s.alen
        /\ \A x \in Place : At(ent.din, ent.disk, x) = At(s.din, s.disk, x)
        /\ \A c \in Block \ {e} : ent.disk[c] = s.disk[c]
        /\ ent.disk[e] = Zeroed
    BY DEF Took
  <1>2. /\ a \in States /\ a.ret = "ok" /\ Sound(a, (others \cup {e}) \cup {d})
        /\ d \in Block /\ d \notin others /\ d # e
        /\ a.din = ent.din /\ a.alen = ent.alen
        /\ \A x \in Place : At(a.din, a.disk, x) = At(ent.din, ent.disk, x)
        /\ \A c \in Block \ {d} : a.disk[c] = ent.disk[c]
    BY DEF Took
  <1>3. /\ t \in States /\ t.freemap = a.freemap /\ t.unused_blocks = a.unused_blocks
        /\ t.disk = Entered(a.disk, e, i, a.ino)
        /\ t.din \in Dinodes /\ t.din.size = a.din.size /\ t.din.blocks = a.din.blocks
        /\ t.din.direct = a.din.direct /\ t.din.indirect = e
        /\ t.dirty = drt /\ t.ino = a.ino /\ t.alen = a.alen /\ t.ret = a.ret
    <2>1. a \in States /\ e \in Block /\ a.ino \in Block
      BY <1>1, <1>2
    <2> QED  BY ONLY <2>1, i \in Cell, drt \in BOOLEAN, t = WithEntry(a, e, i, drt),
                     AddEntryFields
  <1>4. a.disk[e] = Zeroed /\ a.disk[e][i] = 0 /\ e # 0
    BY <1>1, <1>2, Constants DEF Zeroed, Block
  <1>5. a.din \in Dinodes /\ a.din.indirect = 0
    BY <1>1, <1>2 DEF States
  <1> DEFINE u == [a EXCEPT !.din = t.din]
  <1>6. /\ u \in States /\ u.freemap = a.freemap /\ u.unused_blocks = a.unused_blocks
        /\ u.disk = a.disk /\ u.din = t.din
    BY <1>2, <1>3 DEF States
  <1> HIDE DEF u
  <1> DEFINE m == -1
  <1>7. /\ m \in Place /\ At(a.din, a.disk, m) = 0 /\ At(u.din, u.disk, m) = e
        /\ \A x \in Place \ {m} : At(u.din, u.disk, x) = At(a.din, a.disk, x)
    <2>1. m = -1
      OBVIOUS
    <2> HIDE DEF m
    <2>2. /\ m \in Place /\ At(a.din, a.disk, m) = 0 /\ At(t.din, a.disk, m) = e
          /\ \A x \in Place \ {m} : At(t.din, a.disk, x) = At(a.din, a.disk, x)
      <3>1. e \in Block /\ t.din.indirect = e /\ t.din.direct = a.din.direct
        BY <1>1, <1>3
      <3> QED  BY <1>4, <1>5, <2>1, <3>1, IndirectPlaces
    <2> QED  BY <1>6, <2>2
  <1> HIDE DEF m
  <1>8. Sound(u, others \cup {d})
    <2>1. (others \cup {e}) \cup {d} = (others \cup {d}) \cup {e} /\ e \notin others \cup {d}
      BY <1>1, <1>2
    <2>2. Sound(a, (others \cup {d}) \cup {e})
      BY <1>2, <2>1
    <2> QED  BY <1>1, <1>6, <1>7, <2>1, <2>2, Attached
  <1> DEFINE z == Nth(i)
  <1>9. /\ Sound(t, others) /\ z \in Place /\ z # -1
        /\ \A x \in Place : At(t.din, t.disk, x) = IF x = z THEN d ELSE At(u.din, u.disk, x)
        /\ \A c \in Block \ {e} : t.disk[c] = u.disk[c]
        /\ At(u.din, u.disk, z) = 0
    <2>1. u.din.indirect = e /\ u.disk[e][i] = 0 /\ t.din = u.din
          /\ t.disk = Entered(u.disk, e, i, d)
          /\ t.freemap = u.freemap /\ t.unused_blocks = u.unused_blocks
      BY <1>3, <1>4, <1>6
    <2>2. t \in States /\ e # 0 /\ d \in Block /\ d \notin others
      BY <1>2, <1>3, <1>4
    <2>3. z = Nth(i)
      OBVIOUS
    <2> HIDE DEF z
    <2> QED  BY <1>8, <2>1, <2>2, <2>3, EntryAttached
  <1> HIDE DEF z
  <1>10. drt => Follows(s, t, others)
    <2>1. \A c \in others : t.disk[c] = s.disk[c]
      <3>1. others \subseteq Block
        BY DEF Sound
      <3> QED  BY <1>1, <1>2, <1>6, <1>9, <3>1
    <2>2. drt => t.dirty
      BY <1>3
    <2> QED  BY <2>1, <2>2 DEF Follows
  <1>11. Grown(s, t)
    <2>1. At(s.din, s.disk, m) = 0 /\ (z = m \/ At(s.din, s.disk, z) = 0)
      BY <1>1, <1>2, <1>7, <1>9
    <2>2. \A x \in Place \ {m, z} : At(t.din, t.disk, x) = At(s.din, s.disk, x)
      BY <1>1, <1>2, <1>7, <1>9
    <2>3. z # m
      BY <1>9 DEF m
    <2> QED  BY <2>1, <2>2, <2>3 DEF Grown
  <1>12. t.ino = At(t.din, t.disk, z)
    BY <1>3, <1>9
  <1>13. t.alen = s.alen /\ t.din.size = s.din.size /\ t.din.blocks = s.din.blocks
    BY <1>1, <1>2, <1>3
  <1>14. Follows(s, t, others) => Got(s, t, others, z)
    BY <1>9, <1>11, <1>12, <1>13 DEF Got, Growing
  <1> QED  BY <1>10, <1>14 DEF z

\* The two outcomes of AddEntry.
LEMMA AddEntryCases ==
    ASSUME NEW ent, NEW a, NEW i
    PROVE  /\ a.ret = "ok" => \E drt \in BOOLEAN :
                /\ AddEntry(ent, a, i) = WithEntry(a, ent.ino, i, drt)
                /\ drt <=> a.dirty \/ ent.din.indirect = 0
           /\ a.ret # "ok" => AddEntry(ent, a, i) =
                 Failed(IF ent.din.indirect = 0 THEN sfs_block_free(ent, ent.ino) ELSE ent, a.ret)
  <1>1. ASSUME a.ret = "ok"
        PROVE  \E drt \in BOOLEAN : /\ AddEntry(ent, a, i) = WithEntry(a, ent.ino, i, drt)
                                    /\ drt <=> a.dirty \/ ent.din.indirect = 0
    <2> DEFINE drt == a.dirty \/ ent.din.indirect = 0
    <2>1. AddEntry(ent, a, i) = WithEntry(a, ent.ino, i, drt)
      BY <1>1 DEF AddEntry, WithEntry
    <2>2. drt \in BOOLEAN
      OBVIOUS
    <2>3. drt <=> a.dirty \/ ent.din.indirect = 0
      OBVIOUS
    <2> HIDE DEF drt
    <2> QED  BY <2>1, <2>2, <2>3
  <1>2. ASSUME a.ret # "ok"
        PROVE  AddEntry(ent, a, i) =
                 Failed(IF ent.din.indirect = 0 THEN sfs_block_free(ent, ent.ino) ELSE ent, a.ret)
    BY <1>2 DEF AddEntry
  <1> QED  BY <1>1, <1>2

\* sfs_bmap_get_sub_nolock when the file has an indirect block.
LEMMA SubExisting ==
    ASSUME NEW s, NEW others, Sound(s, others), s.ret = "ok", NEW i \in Cell,
           NEW e, s.din.indirect = e, e # 0, s.disk[e][i] = 0,
           NEW ent, ent = [s EXCEPT !.ino = e], NEW t, t = AddEntry(ent, sfs_block_alloc(ent), i)
    PROVE  Got(s, t, others, Nth(i))
  <1>1. s \in States /\ e \in 0 .. NBLOCKS
    BY DEF Sound, States, Dinodes
  <1>2. Same(s, ent) /\ ent.ino = e /\ ent.ret = "ok"
    BY <1>1 DEF Same, States
  <1>3. Sound(ent, others)
    BY <1>2, SameGrowing
  <1>4. ent.din.indirect = e /\ ent.disk[e][i] = 0 /\ ent.dirty = s.dirty /\ ent.dirty \in BOOLEAN
    BY <1>2 DEF Same, States
  <1> DEFINE a == sfs_block_alloc(ent)
  <1>5. Took(ent, a, others) \/ (a.ret \in {"panic", "E_NO_MEM"} /\ Same(ent, a))
    BY <1>2, <1>3, Alloc
  <1> HIDE DEF a
  <1>6. CASE Took(ent, a, others)
    <2>1. a.ret = "ok" /\ a.dirty = ent.dirty
      BY <1>6 DEF Took
    <2>2. PICK drt \in BOOLEAN : /\ t = WithEntry(a, ent.ino, i, drt)
                                 /\ drt <=> a.dirty \/ ent.din.indirect = 0
      BY <2>1, AddEntryCases DEF a
    <2>3. drt = ent.dirty
      BY <1>4, <2>1, <2>2
    <2>4. t = WithEntry(a, e, i, drt)
      BY <1>2, <2>2
    <2>5. Got(ent, t, others, Nth(i))
      BY <1>3, <1>4, <1>6, <2>3, <2>4, EntryAdded
    <2> QED  BY <1>2, <2>5 DEF Got, Growing, Same, Follows, Grown
  <1>7. CASE a.ret \in {"panic", "E_NO_MEM"} /\ Same(ent, a)
    <2>1. t = Failed(ent, a.ret)
      BY <1>4, <1>7, AddEntryCases DEF a
    <2>2. Same(s, t) /\ t.ret # "ok"
      BY <1>2, <1>7, <2>1 DEF Same, Failed, States, Rets
    <2> QED  BY <2>2, SameGrowing DEF Got, Same
  <1> QED  BY <1>5, <1>6, <1>7

\* The same when the indirect block has to be allocated as well: it is given back when
\* there is no block for its first entry.
LEMMA SubNew ==
    ASSUME NEW s, NEW others, Sound(s, others), s.ret = "ok", NEW i \in Cell,
           s.din.indirect = 0, NEW ent, ent = sfs_block_alloc(s),
           NEW t, t = IF ent.ret = "ok" THEN AddEntry(ent, sfs_block_alloc(ent), i) ELSE ent
    PROVE  Got(s, t, others, Nth(i))
  <1>1. Took(s, ent, others) \/ (ent.ret \in {"panic", "E_NO_MEM"} /\ Same(s, ent))
    BY Alloc
  <1>2. CASE ent.ret \in {"panic", "E_NO_MEM"} /\ Same(s, ent)
    <2>1. t = ent /\ t.ret # "ok"
      BY <1>2
    <2> QED  BY <1>2, <2>1, SameGrowing DEF Got, Same
  <1>3. CASE Took(s, ent, others)
    <2> DEFINE a == sfs_block_alloc(ent)
               e == ent.ino
    <2>1. /\ Sound(ent, others \cup {e}) /\ ent.ret = "ok" /\ e \in Block /\ e \notin others
          /\ ent.din = s.din /\ ent.dirty = s.dirty /\ ent.alen = s.alen /\ ent.din.indirect = 0
          /\ \A x \in Place : At(ent.din, ent.disk, x) = At(s.din, s.disk, x)
          /\ \A c \in Block \ {e} : ent.disk[c] = s.disk[c]
      BY <1>3 DEF Took
    <2>2. t = AddEntry(ent, a, i)
      BY <2>1
    <2>3. Took(ent, a, others \cup {e}) \/ (a.ret \in {"panic", "E_NO_MEM"} /\ Same(ent, a))
      BY <2>1, Alloc
    <2> HIDE DEF a, e
    <2>4. CASE Took(ent, a, others \cup {e})
      <3>1. a.ret = "ok"
        BY <2>4 DEF Took
      <3>2. PICK drt \in BOOLEAN : /\ t = WithEntry(a, ent.ino, i, drt)
                                   /\ drt <=> a.dirty \/ ent.din.indirect = 0
        BY <2>2, <3>1, AddEntryCases
      <3>3. drt
        BY <2>1, <3>2
      <3>4. t = WithEntry(a, e, i, drt) /\ e = ent.ino
        BY <3>2 DEF e
      <3>5. drt => Got(s, t, others, Nth(i))
        BY <1>3, <2>4, <3>4, IndirectAdded
      <3> QED  BY <3>3, <3>5
    <2>5. CASE a.ret \in {"panic", "E_NO_MEM"} /\ Same(ent, a)
      <3> DEFINE f == sfs_block_free(ent, e)
      <3>1. t = Failed(f, a.ret)
        BY <2>1, <2>2, <2>5, AddEntryCases DEF e
      <3>2. Sound(f, others)
        BY <2>1, FreeSound
      <3>3. /\ f.disk = [ent.disk EXCEPT ![e] = Stale] /\ f.din = ent.din
            /\ f.dirty = ent.dirty /\ f.alen = ent.alen
        BY <2>1, FreeFields DEF Sound
      <3> HIDE DEF f
      <3>4. Same(f, t) /\ t.ret # "ok"
        BY <2>5, <3>1, <3>2 DEF Same, Sound, Failed, States, Rets
      <3>5. Sound(t, others)
        BY <3>2, <3>4, SameGrowing
      <3>6. \A c \in Block \ {e} : t.disk[c] = s.disk[c]
        BY <2>1, <3>3, <3>4 DEF Same, Sound, States, Disks
      <3>7. t.din = s.din /\ t.dirty = s.dirty /\ t.alen = s.alen
        BY <2>1, <3>3, <3>4 DEF Same
      <3>8. Follows(s, t, others)
        <4>1. others \subseteq Block /\ s.din.blocks \in Int
          BY DEF Sound, States, Dinodes
        <4> QED  BY <2>1, <3>6, <3>7, <4>1 DEF Follows
      <3>9. Grown(s, t)
        <4>1. \A x : At(t.din, t.disk, x) = At(s.din, s.disk, x)
          BY <2>1, <3>7 DEF At
        <4> QED  BY <4>1 DEF Grown
      <3> QED  BY <3>4, <3>5, <3>7, <3>8, <3>9 DEF Got, Growing
    <2> QED  BY <2>3, <2>4, <2>5
  <1> QED  BY <1>1, <1>2, <1>3

LEMMA GetSub ==
    ASSUME NEW s, NEW others, Sound(s, others), s.ret = "ok", NEW i \in Cell,
           NEW create \in BOOLEAN, NEW t, t = sfs_bmap_get_sub_nolock(s, i, create)
    PROVE  Got(s, t, others, Nth(i))
  <1> DEFINE e == s.din.indirect
             b == IF e # 0 THEN s.disk[e][i] ELSE 0
             ent == [s EXCEPT !.ino = e]
  <1>1. /\ b # 0 \/ ~create => t = [s EXCEPT !.ino = b]
        /\ b = 0 /\ create /\ e # 0 => t = AddEntry(ent, sfs_block_alloc(ent), i)
        /\ b = 0 /\ create /\ e = 0 =>
              t = IF sfs_block_alloc(s).ret = "ok"
                  THEN AddEntry(sfs_block_alloc(s), sfs_block_alloc(sfs_block_alloc(s)), i)
                  ELSE sfs_block_alloc(s)
    <2>1. ent.ret = "ok"
      BY DEF Sound, States
    <2> QED  BY <2>1 DEF sfs_bmap_get_sub_nolock, Then
  <1>2. ent = [s EXCEPT !.ino = e] /\ e = s.din.indirect /\ (e # 0 => b = s.disk[e][i])
    OBVIOUS
  <1>3. At(s.din, s.disk, Nth(i)) = b /\ Nth(i) \in Place /\ Nth(i) # -1
    BY NthPlace
  <1> HIDE DEF e, b, ent
  <1>4. CASE b # 0 \/ ~create
    BY <1>1, <1>3, <1>4, FoundBlock
  <1>5. CASE b = 0 /\ create /\ e # 0
    BY <1>1, <1>2, <1>5, SubExisting
  <1>6. CASE b = 0 /\ create /\ e = 0
    BY <1>1, <1>2, <1>6, SubNew
  <1> QED  BY <1>4, <1>5, <1>6

\* sfs_bmap_get_nolock.
LEMMA GetBlock ==
    ASSUME NEW s, NEW others, Sound(s, others), s.ret = "ok", NEW i \in Nat,
           NEW create \in BOOLEAN, NEW t, t = sfs_bmap_get_nolock(s, i, create)
    PROVE  Got(s, t, others, i)
  <1>1. CASE i < NDIRECT
    BY <1>1, Constants, GetDirect DEF Got
  <1>2. CASE ~(i < NDIRECT) /\ i - NDIRECT < NENTRY
    <2> DEFINE j == i - NDIRECT
    <2>1. t = sfs_bmap_get_sub_nolock(s, j, create)
      BY <1>2 DEF sfs_bmap_get_nolock
    <2>2. j \in Cell /\ Nth(j) = i
      BY <1>2, Constants DEF Cell, Nth
    <2> HIDE DEF j
    <2> QED  BY <2>1, <2>2, GetSub
  <1>3. CASE ~(i < NDIRECT) /\ ~(i - NDIRECT < NENTRY)
    <2>1. t = Failed(s, "panic")
      BY <1>3 DEF sfs_bmap_get_nolock
    <2>2. t.ret = "panic"
      BY <2>1 DEF Failed, Sound, States
    <2> QED  BY <2>2 DEF Got, Growing
  <1> QED  BY <1>1, <1>2, <1>3

\* What the calls below keep, unless the machine stops: the blocks, those that the inode
\* says it has among them.
Kept(s, t, others) ==
    Sound(t, others) /\ Filled(t.din, t.disk) /\ Follows(s, t, others)

\* What sfs_bmap_load_nolock returns for block i.
Loaded(s, t, others, i) ==
    /\ Kept(s, t, others) /\ t.alen = s.alen /\ t.din.size = s.din.size
    /\ t.ret # "ok" => t.din.blocks = s.din.blocks
    /\ t.ret = "ok" => /\ i \in Place /\ i # -1 /\ t.ino = At(t.din, t.disk, i) /\ t.ino # 0
                       /\ t.din.blocks = IF i = s.din.blocks THEN s.din.blocks + 1
                                                             ELSE s.din.blocks

\* The number of blocks has no part in the places.
LEMMA CountIsNoPlace ==
    ASSUME NEW din \in Dinodes, NEW n, NEW new, new = [din EXCEPT !.blocks = n]
    PROVE  /\ \A dsk, x : At(new, dsk, x) = At(din, dsk, x)
           /\ \A dsk, b : Has(new, dsk, b) <=> Has(din, dsk, b)
           /\ \A dsk : Apart(new, dsk) <=> Apart(din, dsk)
           /\ new.direct = din.direct /\ new.indirect = din.indirect /\ new.size = din.size
           /\ new.blocks = n /\ (n \in 0 .. NBLOCKS => new \in Dinodes)
  <1>1. /\ new.direct = din.direct /\ new.indirect = din.indirect /\ new.size = din.size
        /\ new.blocks = n /\ (n \in 0 .. NBLOCKS => new \in Dinodes)
    BY DEF Dinodes
  <1>2. \A dsk, x : At(new, dsk, x) = At(din, dsk, x)
    BY <1>1 DEF At
  <1> QED  BY <1>1, <1>2 DEF Has, Apart

\* sfs_bmap_load_nolock.
LEMMA LoadBlock ==
    ASSUME NEW s, NEW others, Sound(s, others), s.ret = "ok", Filled(s.din, s.disk),
           NEW i \in Nat, NEW t, t = sfs_bmap_load_nolock(s, i)
    PROVE  t.ret = "panic" \/ Loaded(s, t, others, i)
  <1>1. s \in States /\ s.din.blocks \in 0 .. NBLOCKS
    BY DEF Sound, States, Dinodes
  <1>2. CASE i > s.din.blocks
    BY <1>1, <1>2 DEF sfs_bmap_load_nolock, Failed, States
  <1>3. CASE ~(i > s.din.blocks)
    <2> DEFINE create == i = s.din.blocks
               g == sfs_bmap_get_nolock(s, i, create)
    <2>1. t = IF g.ret = "ok"
              THEN IF g.ino = 0 \/ g.ino \in g.freemap THEN Failed(g, "panic")
                   ELSE [g EXCEPT !.din.blocks = IF create THEN @ + 1 ELSE @]
              ELSE g
      BY <1>3 DEF sfs_bmap_load_nolock, Then
    <2>2. create \in BOOLEAN
      OBVIOUS
    <2>3. create <=> i = s.din.blocks
      OBVIOUS
    <2> HIDE DEF create
    <2>4. Got(s, g, others, i)
      BY <2>2, GetBlock
    <2> HIDE DEF g
    <2>5. CASE g.ret = "panic"
      BY <2>1, <2>5
    <2>6. CASE g.ret # "panic"
      <3>1. /\ Sound(g, others) /\ Follows(s, g, others) /\ Grown(s, g)
            /\ g.alen = s.alen /\ g.din.size = s.din.size /\ g.din.blocks = s.din.blocks
            /\ g.ret = "ok" => i \in Place /\ i # -1 /\ g.ino = At(g.din, g.disk, i)
        BY <2>4, <2>6 DEF Got, Growing
      <3>2. g \in States /\ g.din \in Dinodes
        BY <3>1 DEF Sound, States
      <3>3. Filled(g.din, g.disk)
        BY <1>1, <3>1 DEF Filled, Grown
      <3>4. CASE g.ret # "ok"
        <4>1. t = g
          BY <2>1, <3>4
        <4> QED  BY <3>1, <3>3, <3>4, <4>1 DEF Loaded, Kept
      <3>5. CASE g.ret = "ok" /\ (g.ino = 0 \/ g.ino \in g.freemap)
        BY <2>1, <3>2, <3>5 DEF Failed, States
      <3>6. CASE g.ret = "ok" /\ g.ino # 0 /\ g.ino \notin g.freemap
        <4> DEFINE n == IF create THEN g.din.blocks + 1 ELSE g.din.blocks
                   din == [g.din EXCEPT !.blocks = n]
        <4>1. n = (IF i = s.din.blocks THEN s.din.blocks + 1 ELSE s.din.blocks) /\ n \in Nat
          BY <1>1, <2>3, <3>1
        <4>2. \A j \in 0 .. n - 1 : j \in Place /\ At(g.din, g.disk, j) # 0
          <5> SUFFICES ASSUME NEW j \in 0 .. n - 1  PROVE j \in Place /\ At(g.din, g.disk, j) # 0
            OBVIOUS
          <5>1. CASE j = i
            BY <3>1, <3>6, <5>1
          <5>2. CASE j # i
            <6>1. j \in 0 .. g.din.blocks - 1
              BY <1>1, <3>1, <4>1, <5>2
            <6> QED  BY <3>3, <6>1 DEF Filled
          <5> QED  BY <5>1, <5>2
        <4>3. t = [g EXCEPT !.din.blocks = n]
          BY <2>1, <3>6
        <4>4. din = [g.din EXCEPT !.blocks = n]
          OBVIOUS
        <4>5. /\ t.freemap = g.freemap /\ t.unused_blocks = g.unused_blocks /\ t.disk = g.disk
              /\ t.din = din /\ t.dirty = g.dirty /\ t.ino = g.ino /\ t.alen = g.alen
              /\ t.ret = g.ret
              /\ t = [freemap |-> t.freemap, unused_blocks |-> t.unused_blocks, disk |-> t.disk,
                      din |-> t.din, dirty |-> t.dirty, ino |-> t.ino, alen |-> t.alen,
                      ret |-> t.ret]
          BY <3>2, <4>3 DEF States
        <4> HIDE DEF n, din
        <4>6. n \in 0 .. NBLOCKS
          <5>1. n <= NBLOCKS
            BY <3>1, <4>1, <4>2, BlocksBound DEF Sound
          <5> QED  BY <4>1, <5>1, Constants
        <4>7. /\ \A dsk, x : At(din, dsk, x) = At(g.din, dsk, x)
              /\ \A dsk, b : Has(din, dsk, b) <=> Has(g.din, dsk, b)
              /\ \A dsk : Apart(din, dsk) <=> Apart(g.din, dsk)
              /\ din.direct = g.din.direct /\ din.indirect = g.din.indirect
              /\ din.size = g.din.size /\ din.blocks = n /\ (n \in 0 .. NBLOCKS => din \in Dinodes)
          BY <3>2, <4>4, CountIsNoPlace
        <4>8. t \in States
          BY <3>2, <4>5, <4>6, <4>7 DEF States
        <4>9. Sound(t, others)
          BY <3>1, <4>5, <4>7, <4>8 DEF Sound
        <4>10. Filled(t.din, t.disk)
          BY <4>2, <4>5, <4>7 DEF Filled
        <4>11. Follows(s, t, others)
          BY <1>1, <3>1, <4>1, <4>5, <4>7 DEF Follows
        <4> QED  BY <3>1, <3>6, <4>1, <4>5, <4>7, <4>9, <4>10, <4>11 DEF Loaded, Kept
      <3> QED  BY <3>4, <3>5, <3>6
    <2> QED  BY <2>5, <2>6
  <1> QED  BY <1>1, <1>2, <1>3

-----------------------------------------------------------------------------
(* A file that shrinks.                                                    *)

\* sfs_bmap_free_nolock gives the block of one place back.
LEMMA FreeBlock ==
    ASSUME NEW s, NEW others, Sound(s, others), s.ret = "ok", NEW z \in Place, z # -1,
           NEW b, At(s.din, s.disk, z) = b, b # 0, NEW t, t = sfs_bmap_free_nolock(s, z)
    PROVE  /\ Sound(t, others) /\ t.ret = "ok" /\ t.alen = s.alen
           /\ t.din.size = s.din.size /\ t.din.blocks = s.din.blocks
           /\ \A x \in Place \ {z} : At(t.din, t.disk, x) = At(s.din, s.disk, x)
           /\ \A c \in others : t.disk[c] = s.disk[c]
  <1>1. s \in States /\ s.din \in Dinodes /\ s.disk \in Disks
        /\ s.unused_blocks = Cardinality(s.freemap) /\ others \subseteq Block
    BY DEF Sound, States
  <1>2. b \in Block /\ b \notin s.freemap /\ b \notin others
    <2>1. b \in Block
      BY Constants DEF Sound, Apart, Block
    <2>2. Has(s.din, s.disk, b)
      BY DEF Has
    <2> QED  BY <2>1, <2>2 DEF Sound
  <1> DEFINE e == s.din.indirect
             f == sfs_block_free(s, b)
  <1>3. e # b
    BY Constants DEF Sound, Apart, At, Place
  <1>4. /\ f \in States
        /\ f.freemap = s.freemap \cup {b} /\ f.unused_blocks = Cardinality(f.freemap)
        /\ f.disk = [s.disk EXCEPT ![b] = Stale]
        /\ f.din = s.din /\ f.dirty = s.dirty /\ f.ino = s.ino /\ f.alen = s.alen
        /\ f.ret = s.ret
    BY <1>1, <1>2, FreeFields
  <1>9. e \notin s.freemap
    <2>1. e # 0 => Has(s.din, s.disk, e)
      BY Constants DEF Has, At, Place
    <2> QED  BY <1>1, <2>1, Constants DEF Sound, States, Block, Dinodes
  <1> HIDE DEF f
  <1>5. \A c \in Block \ {b} : f.disk[c] = s.disk[c]
    BY <1>1, <1>4 DEF Disks
  <1>6. \A x : At(f.din, f.disk, x) = At(s.din, s.disk, x)
    <2>1. e # 0 => f.disk[e] = s.disk[e]
      BY <1>1, <1>3, <1>5, Constants DEF Dinodes, Block
    <2> QED  BY <1>4, <2>1 DEF At
  <1>7. CASE z < NDIRECT
    <2>1. z \in 0 .. NDIRECT - 1 /\ s.din.direct[z] = b
      BY <1>7, Constants DEF Place, At
    <2>2. t = [f EXCEPT !.din.direct[z] = 0, !.dirty = TRUE]
      BY <1>7, <2>1, Constants DEF sfs_bmap_free_nolock, f
    <2> DEFINE new == [f.din EXCEPT !.direct[z] = 0]
    <2>3. /\ t.freemap = f.freemap /\ t.unused_blocks = f.unused_blocks /\ t.disk = f.disk
          /\ t.din = new /\ t.dirty = TRUE /\ t.ino = f.ino /\ t.alen = f.alen
          /\ t.ret = f.ret
          /\ t = [freemap |-> t.freemap, unused_blocks |-> t.unused_blocks, disk |-> t.disk,
                  din |-> t.din, dirty |-> t.dirty, ino |-> t.ino, alen |-> t.alen,
                  ret |-> t.ret]
      BY <1>4, <2>2 DEF States
    <2>4. /\ new \in Dinodes /\ new.blocks = f.din.blocks /\ new.size = f.din.size
          /\ At(new, f.disk, z) = 0
          /\ \A x \in Place \ {z} : At(new, f.disk, x) = At(f.din, f.disk, x)
      <3>1. f.din \in Dinodes /\ 0 \in 0 .. NBLOCKS
        BY <1>1, <1>4, Constants
      <3> QED  BY <2>1, <3>1, DirectPlaces
    <2> HIDE DEF new
    <2>5. t \in States
      BY <1>4, <2>3, <2>4 DEF States
    <2>6. \A x \in Place \ {z} : At(t.din, t.disk, x) = At(s.din, s.disk, x)
      BY <1>6, <2>3, <2>4
    <2>7. At(t.din, t.disk, z) = 0
      BY <2>3, <2>4
    <2>8. t.freemap = s.freemap \cup {b} /\ t.unused_blocks = Cardinality(t.freemap)
      BY <1>4, <2>3
    <2>9. Sound(t, others)
      BY <1>2, <2>5, <2>6, <2>7, <2>8, Detached, SMTT(30)
    <2>10. \A c \in others : t.disk[c] = s.disk[c]
      BY <1>1, <1>2, <1>5, <2>3
    <2> QED  BY <1>4, <2>3, <2>4, <2>6, <2>9, <2>10
  <1>8. CASE ~(z < NDIRECT)
    <2> DEFINE i == z - NDIRECT
    <2>1. i \in Cell /\ z = Nth(i)
      BY <1>8, Constants DEF Place, Cell, Nth
    <2>2. e # 0 /\ s.disk[e][i] = b
      BY <1>8 DEF At
    <2>3. t = [f EXCEPT !.disk[e][i] = 0]
      BY <1>8, <1>9, <2>2, Constants DEF sfs_bmap_free_nolock, f
    <2> HIDE DEF i
    <2> DEFINE dsk == Entered(f.disk, e, i, 0)
    <2>4. /\ t.freemap = f.freemap /\ t.unused_blocks = f.unused_blocks /\ t.disk = dsk
          /\ t.din = f.din /\ t.dirty = f.dirty /\ t.ino = f.ino /\ t.alen = f.alen
          /\ t.ret = f.ret
          /\ t = [freemap |-> t.freemap, unused_blocks |-> t.unused_blocks, disk |-> t.disk,
                  din |-> t.din, dirty |-> t.dirty, ino |-> t.ino, alen |-> t.alen,
                  ret |-> t.ret]
      BY <1>4, <2>3 DEF States, Entered
    <2>5. e \in Block /\ f.disk \in Disks /\ f.din \in Dinodes
      <3>1. e \in Block
        BY <1>1, <2>2, Constants DEF Dinodes, Block
      <3>2. f.disk \in Disks /\ f.din \in Dinodes
        BY <1>4 DEF States
      <3> QED  BY <3>1, <3>2
    <2>6. dsk \in Disks
      BY <2>1, <2>5, OneEntry
    <2> HIDE DEF dsk
    <2>7. t \in States
      BY <1>4, <2>4, <2>6 DEF States
    <2>8. f.din.indirect = e
      BY <1>4
    <2> HIDE DEF e
    <2>9. /\ At(t.din, t.disk, z) = 0
          /\ \A x \in Place \ {z} : At(t.din, t.disk, x) = At(f.din, f.disk, x)
          /\ \A c \in Block \ {e} : t.disk[c] = f.disk[c]
      <3> DEFINE o == 0
      <3>1. t.disk = Entered(f.disk, e, i, o) /\ t.din = f.din
        BY <2>4 DEF dsk
      <3>2. o = 0
        OBVIOUS
      <3> HIDE DEF o
      <3>3. /\ At(t.din, t.disk, z) = o
            /\ \A x \in Place \ {z} : At(t.din, t.disk, x) = At(f.din, f.disk, x)
            /\ \A c \in Block \ {e} : t.disk[c] = f.disk[c]
        BY <2>1, <2>2, <2>5, <2>8, <3>1, EntryPlaces, SMTT(30)
      <3> QED  BY <3>2, <3>3
    <2>10. \A x \in Place \ {z} : At(t.din, t.disk, x) = At(s.din, s.disk, x)
      BY <1>6, <2>9
    <2>11. t.freemap = s.freemap \cup {b} /\ t.unused_blocks = Cardinality(t.freemap)
      BY <1>4, <2>4
    <2>12. Sound(t, others)
      <3>1. At(t.din, t.disk, z) = 0
        BY <2>9
      <3> QED  BY <1>2, <2>7, <2>10, <2>11, <3>1, Detached, SMTT(60)
    <2>13. \A c \in others : t.disk[c] = s.disk[c]
      <3>1. e \notin others
        <4>1. Has(s.din, s.disk, e)
          BY Constants DEF Has, At, Place, e
        <4> QED  BY <2>5, <4>1 DEF Sound
      <3> QED  BY <1>1, <1>2, <1>5, <2>9, <3>1
    <2> QED  BY <1>4, <2>4, <2>10, <2>12, <2>13
  <1> QED  BY <1>7, <1>8 DEF Place

LEMMA KeptReflexive ==
    ASSUME NEW s, NEW others, Sound(s, others), Filled(s.din, s.disk)
    PROVE  Kept(s, s, others)
  BY DEF Kept, Follows, Sound, States, Dinodes

LEMMA KeptTransitive ==
    ASSUME NEW s, NEW t, NEW u, NEW others, Sound(s, others),
           Kept(s, t, others), Kept(t, u, others)
    PROVE  Kept(s, u, others)
  <1>1. s.din.blocks \in Int /\ t.din.blocks \in Int /\ u.din.blocks \in Int
    BY SMTT(30) DEF Kept, Sound, States, Dinodes
  <1> QED  BY <1>1, FollowsTransitive DEF Kept

\* sfs_bmap_truncate_nolock.
LEMMA TruncateBlock ==
    ASSUME NEW s, NEW others, Sound(s, others), s.ret = "ok", Filled(s.din, s.disk),
           NEW t, t = sfs_bmap_truncate_nolock(s)
    PROVE  \/ t.ret = "panic"
           \/ /\ Kept(s, t, others) /\ t.alen = s.alen /\ t.din.size = s.din.size
              /\ t.ret = "ok" /\ t.din.blocks = s.din.blocks - 1
  <1>1. s \in States /\ s.din.blocks \in 0 .. NBLOCKS
    BY DEF Sound, States, Dinodes
  <1>2. CASE s.din.blocks = 0
    BY <1>1, <1>2 DEF sfs_bmap_truncate_nolock, Failed, States
  <1>3. CASE s.din.blocks # 0
    <2> DEFINE z == s.din.blocks - 1
               f == sfs_bmap_free_nolock(s, z)
               b == At(s.din, s.disk, z)
    <2>1. z \in 0 .. s.din.blocks - 1 /\ z # -1
      BY <1>1, <1>3
    <2>2. z \in Place /\ b # 0
      BY <2>1 DEF Filled
    <2>3. t = IF f.ret = "ok" THEN [f EXCEPT !.din.blocks = @ - 1, !.dirty = TRUE] ELSE f
      BY <1>3 DEF sfs_bmap_truncate_nolock, Then
    <2>4. b = At(s.din, s.disk, z)
      OBVIOUS
    <2> HIDE DEF b
    <2>5. /\ Sound(f, others) /\ f.ret = "ok" /\ f.alen = s.alen
          /\ f.din.size = s.din.size /\ f.din.blocks = s.din.blocks
          /\ \A x \in Place \ {z} : At(f.din, f.disk, x) = At(s.din, s.disk, x)
          /\ \A c \in others : f.disk[c] = s.disk[c]
      <3>1. z = s.din.blocks - 1
        OBVIOUS
      <3> HIDE DEF z
      <3> QED  BY <2>1, <2>2, <2>4, FreeBlock
    <2>6. f \in States /\ f.din \in Dinodes
      BY <2>5 DEF Sound, States
    <2> HIDE DEF f
    <2> DEFINE n == f.din.blocks - 1
               din == [f.din EXCEPT !.blocks = n]
    <2>7. din = [f.din EXCEPT !.blocks = n]
      OBVIOUS
    <2>8. /\ t.freemap = f.freemap /\ t.unused_blocks = f.unused_blocks /\ t.disk = f.disk
          /\ t.din = din /\ t.dirty = TRUE /\ t.ino = f.ino /\ t.alen = f.alen
          /\ t.ret = f.ret
          /\ t = [freemap |-> t.freemap, unused_blocks |-> t.unused_blocks, disk |-> t.disk,
                  din |-> t.din, dirty |-> t.dirty, ino |-> t.ino, alen |-> t.alen,
                  ret |-> t.ret]
      BY <2>3, <2>5, <2>6 DEF States
    <2>9. n = s.din.blocks - 1 /\ n \in 0 .. NBLOCKS
      <3>1. f.din.blocks = s.din.blocks
        BY <2>5
      <3> QED  BY <1>1, <1>3, <3>1, Constants
    <2> HIDE DEF n, din
    <2>10. /\ \A dsk, x : At(din, dsk, x) = At(f.din, dsk, x)
           /\ \A dsk, c : Has(din, dsk, c) <=> Has(f.din, dsk, c)
           /\ \A dsk : Apart(din, dsk) <=> Apart(f.din, dsk)
           /\ din.size = f.din.size /\ din.blocks = n /\ (n \in 0 .. NBLOCKS => din \in Dinodes)
      BY <2>6, <2>7, CountIsNoPlace
    <2>11. t \in States
      BY <2>6, <2>8, <2>9, <2>10 DEF States
    <2>12. Sound(t, others)
      BY <2>5, <2>8, <2>10, <2>11 DEF Sound
    <2>13. Filled(t.din, t.disk)
      <3> SUFFICES ASSUME NEW j \in 0 .. n - 1  PROVE j \in Place /\ At(t.din, t.disk, j) # 0
        BY <2>8, <2>10 DEF Filled
      <3>1. j \in 0 .. s.din.blocks - 1 /\ j # z
        BY <1>1, <2>9
      <3>2. j \in Place /\ At(s.din, s.disk, j) # 0
        BY <3>1 DEF Filled
      <3> HIDE DEF z
      <3> QED  BY <2>5, <2>8, <2>10, <3>1, <3>2
    <2>14. Follows(s, t, others)
      BY <2>5, <2>8 DEF Follows
    <2> QED  BY <2>5, <2>8, <2>9, <2>10, <2>12, <2>13, <2>14 DEF Kept
  <1> QED  BY <1>2, <1>3

-----------------------------------------------------------------------------
(* The loops of sfs_truncfile.                                             *)

\* What surrounds the loops: the state before, the blocks of other files, and a number of
\* blocks.
LoadStep(e, v, i) == IF v.ret = "ok" THEN sfs_bmap_load_nolock(v, i) ELSE v

LoadInv(e, k, v) ==
    \/ v.ret = "panic"
    \/ /\ Kept(e.s, v, e.others) /\ v.alen = e.s.alen /\ v.din.size = e.s.din.size
       /\ v.ret = "ok" => v.din.blocks = e.s.din.blocks + k

LoadAll(s, from, to) == Loop(sfs_bmap_load_nolock, s, from, to)

Loading == INSTANCE SeqLemmas WITH LoopBody <- LoadStep, LoopInv <- LoadInv

\* Blocks are added up to block number to.
LEMMA LoadLoop ==
    ASSUME NEW s, NEW others, Sound(s, others), s.ret = "ok", Filled(s.din, s.disk),
           NEW n \in Nat, NEW to, to = s.din.blocks + n,
           NEW t, t = LoadAll(s, s.din.blocks, to)
    PROVE  LoadInv([s |-> s, others |-> others], n, t)
  <1> DEFINE e == [s |-> s, others |-> others]
             seq == [i \in 1 .. to - s.din.blocks |-> s.din.blocks + i - 1]
  <1>1. s.din.blocks \in Nat
    BY DEF Sound, States, Dinodes
  <1>2. e.s = s /\ e.others = others
    OBVIOUS
  <1>3. to - s.din.blocks = n
    BY <1>1
  <1>4. DOMAIN seq = 1 .. n /\ \A k \in 1 .. n : seq[k] = s.din.blocks + k - 1
    BY <1>3
  <1>5. Loading!LoopFold(e, s, seq) = t
    BY DEF Loading!LoopFold, Loading!FoldLeft, Loading!MapThenFoldSet, Loading!Max, Max,
           LoadAll, Loop, Then, FoldLeft, MapThenFoldSet, LoadStep
  <1> HIDE DEF e, seq
  <1>6. LoadInv(e, 0, s)
    BY <1>1, <1>2, KeptReflexive DEF LoadInv
  <1>7. ASSUME NEW k \in 1 .. n, NEW v, LoadInv(e, k - 1, v)
        PROVE  LoadInv(e, k, LoadStep(e, v, seq[k]))
    <2>1. CASE v.ret # "ok"
      BY <1>7, <2>1 DEF LoadInv, LoadStep
    <2>2. CASE v.ret = "ok"
      <3> DEFINE i == seq[k]
                 u == sfs_bmap_load_nolock(v, i)
      <3>1. /\ Kept(s, v, others) /\ v.alen = s.alen /\ v.din.size = s.din.size
            /\ v.din.blocks = s.din.blocks + (k - 1)
        BY <1>2, <1>7, <2>2 DEF LoadInv
      <3>2. i \in Nat /\ i = v.din.blocks
        <4>1. i = s.din.blocks + k - 1 /\ v.din.blocks = s.din.blocks + (k - 1)
          BY <1>4, <3>1
        <4> HIDE DEF i
        <4> QED  BY <1>1, <4>1
      <3>3. u.ret = "panic" \/ Loaded(v, u, others, i)
        <4> HIDE DEF i
        <4> QED  BY <2>2, <3>1, <3>2, LoadBlock DEF Kept
      <3>4. LoadStep(e, v, i) = u
        BY <2>2 DEF LoadStep
      <3> HIDE DEF u
      <3>5. CASE u.ret = "panic"
        BY <3>4, <3>5 DEF LoadInv
      <3>6. CASE Loaded(v, u, others, i)
        <4>1. Kept(s, u, others)
          BY <3>1, <3>6, KeptTransitive DEF Loaded
        <4>2. u.ret = "ok" => u.din.blocks = s.din.blocks + k
          BY <1>1, <3>1, <3>2, <3>6 DEF Loaded
        <4> QED  BY <1>2, <3>1, <3>4, <3>6, <4>1, <4>2 DEF LoadInv, Loaded
      <3> QED  BY <3>3, <3>5, <3>6
    <2> QED  BY <2>1, <2>2
  <1>8. LoadInv(e, n, Loading!LoopFold(e, s, seq))
    BY <1>4, <1>6, <1>7, Loading!FoldInvariant
  <1> QED  BY <1>5, <1>8 DEF e

TruncateStep(e, v, i) == IF v.ret = "ok" THEN sfs_bmap_truncate_nolock(v) ELSE v

TruncateInv(e, k, v) ==
    \/ v.ret = "panic"
    \/ /\ Kept(e.s, v, e.others) /\ v.alen = e.s.alen /\ v.din.size = e.s.din.size
       /\ v.ret = "ok" => v.din.blocks = e.s.din.blocks - k

TruncateAll(s, from, to) == Loop(LAMBDA u, i : sfs_bmap_truncate_nolock(u), s, from, to)

Truncating == INSTANCE SeqLemmas WITH LoopBody <- TruncateStep, LoopInv <- TruncateInv

\* Blocks are removed down to the first from.
LEMMA TruncateLoop ==
    ASSUME NEW s, NEW others, Sound(s, others), s.ret = "ok", Filled(s.din, s.disk),
           NEW n \in Nat, NEW from \in Nat, from = s.din.blocks - n,
           NEW t, t = TruncateAll(s, from, s.din.blocks)
    PROVE  TruncateInv([s |-> s, others |-> others], n, t)
  <1> DEFINE e == [s |-> s, others |-> others]
             seq == [i \in 1 .. s.din.blocks - from |-> from + i - 1]
  <1>1. s.din.blocks \in Nat
    BY DEF Sound, States, Dinodes
  <1>2. e.s = s /\ e.others = others
    OBVIOUS
  <1>3. DOMAIN seq = 1 .. n
    BY <1>1
  <1>4. Truncating!LoopFold(e, s, seq) = t
    BY DEF Truncating!LoopFold, Truncating!FoldLeft, Truncating!MapThenFoldSet, Truncating!Max, Max,
           TruncateAll, Loop, Then, FoldLeft, MapThenFoldSet, TruncateStep
  <1> HIDE DEF e, seq
  <1>5. TruncateInv(e, 0, s)
    BY <1>1, <1>2, KeptReflexive DEF TruncateInv
  <1>6. ASSUME NEW k \in 1 .. n, NEW v, TruncateInv(e, k - 1, v)
        PROVE  TruncateInv(e, k, TruncateStep(e, v, seq[k]))
    <2>1. CASE v.ret # "ok"
      BY <1>6, <2>1 DEF TruncateInv, TruncateStep
    <2>2. CASE v.ret = "ok"
      <3> DEFINE u == sfs_bmap_truncate_nolock(v)
      <3>1. /\ Kept(s, v, others) /\ v.alen = s.alen /\ v.din.size = s.din.size
            /\ v.din.blocks = s.din.blocks - (k - 1)
        BY <1>2, <1>6, <2>2 DEF TruncateInv
      <3>2. \/ u.ret = "panic"
            \/ /\ Kept(v, u, others) /\ u.alen = v.alen /\ u.din.size = v.din.size
               /\ u.ret = "ok" /\ u.din.blocks = v.din.blocks - 1
        BY <2>2, <3>1, TruncateBlock DEF Kept
      <3>3. TruncateStep(e, v, seq[k]) = u
        BY <2>2 DEF TruncateStep
      <3> HIDE DEF u
      <3>4. CASE u.ret = "panic"
        BY <3>3, <3>4 DEF TruncateInv
      <3>5. CASE /\ Kept(v, u, others) /\ u.alen = v.alen /\ u.din.size = v.din.size
                 /\ u.ret = "ok" /\ u.din.blocks = v.din.blocks - 1
        <4>1. Kept(s, u, others)
          BY <3>1, <3>5, KeptTransitive
        <4>2. u.din.blocks = s.din.blocks - k
          BY <1>1, <3>1, <3>5
        <4> QED  BY <1>2, <3>1, <3>3, <3>5, <4>1, <4>2 DEF TruncateInv
      <3> QED  BY <3>2, <3>4, <3>5
    <2> QED  BY <2>1, <2>2
  <1>7. TruncateInv(e, n, Truncating!LoopFold(e, s, seq))
    BY <1>3, <1>5, <1>6, Truncating!FoldInvariant
  <1> QED  BY <1>4, <1>7 DEF e

-----------------------------------------------------------------------------
(* The calls of a file system.                                             *)

\* A call on a sound state s with its inode filled keeps both, and returns "panic" or a
\* state that continues s.
Serves(s, t, others) == t.ret = "panic" \/ Kept(s, t, others)

\* The inode gets another size, and is dirty.
Sized(r, len) == [r EXCEPT !.din.size = len, !.dirty = TRUE]

LEMMA Resize ==
    ASSUME NEW s, NEW others, NEW r, Kept(s, r, others), NEW len \in 0 .. MAX_FILE_SIZE,
           NEW t, t = Sized(r, len)
    PROVE  Kept(s, t, others) /\ t.alen = r.alen /\ t.ret = r.ret /\ t.din.size = len
  <1>1. /\ r \in States /\ r.din \in Dinodes /\ Sound(r, others) /\ Filled(r.din, r.disk)
        /\ Follows(s, r, others)
    BY DEF Kept, Sound, States
  <1> DEFINE din == [r.din EXCEPT !.size = len]
  <1>2. /\ din \in Dinodes /\ din.blocks = r.din.blocks /\ din.size = len
        /\ din.direct = r.din.direct /\ din.indirect = r.din.indirect
    BY <1>1 DEF Dinodes
  <1>3. /\ t.freemap = r.freemap /\ t.unused_blocks = r.unused_blocks /\ t.disk = r.disk
        /\ t.din = din /\ t.dirty = TRUE /\ t.ino = r.ino /\ t.alen = r.alen
        /\ t.ret = r.ret
        /\ t = [freemap |-> t.freemap, unused_blocks |-> t.unused_blocks, disk |-> t.disk,
                din |-> t.din, dirty |-> t.dirty, ino |-> t.ino, alen |-> t.alen,
                ret |-> t.ret]
    BY <1>1 DEF States, Sized
  <1> HIDE DEF din
  <1>4. t \in States
    BY <1>1, <1>2, <1>3 DEF States
  <1>5. \A x : At(t.din, t.disk, x) = At(r.din, r.disk, x)
    BY <1>2, <1>3 DEF At
  <1>6. Sound(t, others)
    BY <1>1, <1>3, <1>4, <1>5 DEF Sound, Apart, Has
  <1>7. Filled(t.din, t.disk)
    BY <1>1, <1>2, <1>3, <1>5 DEF Filled
  <1>8. Follows(s, t, others)
    BY <1>1, <1>3 DEF Follows
  <1> QED  BY <1>2, <1>3, <1>6, <1>7, <1>8 DEF Kept

LEMMA BlocksForNat ==
    ASSUME NEW len \in Nat
    PROVE  BlocksFor(len) \in Nat
  <1>1. len + BLKSIZE - 1 \in Nat
    BY Constants
  <1> QED  BY <1>1, Constants DEF BlocksFor

\* An error that changes nothing.
LEMMA FailedServes ==
    ASSUME NEW s, NEW others, Sound(s, others), Filled(s.din, s.disk), NEW ret \in Rets,
           NEW t, t = Failed(s, ret)
    PROVE  Serves(s, t, others) /\ t.alen = s.alen /\ t.ret = ret /\ t.din = s.din
  <1>1. Same(s, t) /\ t.ret = ret
    BY DEF Same, Failed, Sound, States
  <1>2. Sound(t, others) /\ Follows(s, t, others)
    BY <1>1, SameGrowing
  <1> QED  BY <1>1, <1>2 DEF Serves, Kept, Same

\* sfs_truncfile.
LEMMA Truncfile ==
    ASSUME NEW s, NEW others, Sound(s, others), s.ret = "ok", Filled(s.din, s.disk),
           NEW len \in Nat, NEW t, t = sfs_truncfile(s, len)
    PROVE  Serves(s, t, others) /\ (t.ret # "panic" => t.alen = s.alen)
           /\ (t.ret = "ok" => t.din.size = len)
  <1> DEFINE nblks == s.din.blocks
             tblks == BlocksFor(len)
             r == IF nblks < tblks THEN LoadAll(s, nblks, tblks)
                  ELSE TruncateAll(s, tblks, nblks)
  <1>1. nblks \in Nat /\ tblks \in Nat
    BY BlocksForNat DEF Sound, States, Dinodes
  <1>2. CASE len > MAX_FILE_SIZE
    <2>1. t = Failed(s, "E_INVAL")
      BY <1>2 DEF sfs_truncfile
    <2>2. "E_INVAL" \in Rets
      BY DEF Rets
    <2> QED  BY <2>1, <2>2, FailedServes
  <1>3. CASE ~(len > MAX_FILE_SIZE) /\ s.din.size = len
    <2>1. t = IF tblks # nblks THEN Failed(s, "panic") ELSE s
      BY <1>3 DEF sfs_truncfile
    <2>2. "panic" \in Rets
      BY DEF Rets
    <2>3. CASE tblks # nblks
      <3>1. t = Failed(s, "panic")
        BY <2>1, <2>3
      <3> QED  BY <2>2, <3>1, FailedServes
    <2>4. CASE tblks = nblks
      BY <1>3, <2>1, <2>4, KeptReflexive DEF Serves
    <2> QED  BY <2>3, <2>4
  <1>4. CASE ~(len > MAX_FILE_SIZE) /\ s.din.size # len
    <2>1. t = IF r.ret = "ok"
              THEN IF r.din.blocks # tblks THEN Failed(r, "panic")
                   ELSE [r EXCEPT !.din.size = len, !.dirty = TRUE]
              ELSE r
      BY <1>4 DEF sfs_truncfile, Then, LoadAll, TruncateAll
    <2>2. r.ret = "panic" \/ (Kept(s, r, others) /\ r.alen = s.alen)
      <3> DEFINE e == [s |-> s, others |-> others]
      <3>1. e.s = s /\ e.others = others
        OBVIOUS
      <3>2. CASE nblks < tblks
        <4> DEFINE n == tblks - nblks
        <4>1. n \in Nat /\ tblks = nblks + n
          BY <1>1, <3>2
        <4>2. r = LoadAll(s, nblks, tblks)
          BY <3>2
        <4> HIDE DEF n, tblks, r
        <4>3. LoadInv([s |-> s, others |-> others], n, r)
          BY <4>1, <4>2, LoadLoop
        <4> QED  BY <3>1, <4>3 DEF LoadInv
      <3>3. CASE ~(nblks < tblks)
        <4> DEFINE n == nblks - tblks
        <4>1. n \in Nat /\ tblks = nblks - n
          BY <1>1, <3>3
        <4>2. r = TruncateAll(s, tblks, nblks)
          BY <3>3
        <4> HIDE DEF n, tblks, r
        <4>3. TruncateInv([s |-> s, others |-> others], n, r)
          BY <1>1, <4>1, <4>2, TruncateLoop
        <4> QED  BY <3>1, <4>3 DEF TruncateInv
      <3> QED  BY <3>2, <3>3
    <2> HIDE DEF r
    <2>3. CASE r.ret # "ok"
      <3>1. t = r
        BY <2>1, <2>3
      <3> QED  BY <2>2, <2>3, <3>1 DEF Serves
    <2>4. CASE r.ret = "ok" /\ r.din.blocks # tblks
      <3>1. t = Failed(r, "panic")
        BY <2>1, <2>4
      <3>2. r \in States
        BY <2>2, <2>4 DEF Kept, Sound
      <3>3. t.ret = "panic"
        BY <3>1, <3>2 DEF Failed, States
      <3> QED  BY <3>3 DEF Serves
    <2>5. CASE r.ret = "ok" /\ r.din.blocks = tblks
      <3>1. t = Sized(r, len)
        BY <2>1, <2>5 DEF Sized
      <3>2. len \in 0 .. MAX_FILE_SIZE
        BY <1>4, Constants
      <3>3. Kept(s, t, others) /\ t.alen = r.alen /\ t.ret = r.ret /\ t.din.size = len
        BY <2>2, <2>5, <3>1, <3>2, Resize
      <3> QED  BY <2>2, <2>5, <3>3 DEF Serves
    <2> QED  BY <2>3, <2>4, <2>5
  <1> QED  BY <1>2, <1>3, <1>4

\* sfs_tryseek.
LEMMA Tryseek ==
    ASSUME NEW s, NEW others, Sound(s, others), s.ret = "ok", Filled(s.din, s.disk),
           NEW pos \in Int, NEW t, t = sfs_tryseek(s, pos)
    PROVE  Serves(s, t, others) /\ (t.ret = "ok" => pos \in 0 .. MAX_FILE_SIZE)
  <1>1. CASE pos < 0 \/ pos >= MAX_FILE_SIZE
    <2>1. t = Failed(s, "E_INVAL")
      BY <1>1 DEF sfs_tryseek
    <2>2. "E_INVAL" \in Rets
      BY DEF Rets
    <2>3. Serves(s, t, others) /\ t.ret = "E_INVAL"
      BY <2>1, <2>2, FailedServes
    <2> QED  BY <2>3
  <1>2. CASE ~(pos < 0 \/ pos >= MAX_FILE_SIZE)
    <2>1. pos \in 0 .. MAX_FILE_SIZE /\ pos \in Nat
      BY <1>2, Constants
    <2>2. t = IF pos > s.din.size THEN sfs_truncfile(s, pos) ELSE s
      BY <1>2 DEF sfs_tryseek
    <2>3. CASE pos > s.din.size
      BY <2>1, <2>2, <2>3, Truncfile
    <2>4. CASE ~(pos > s.din.size)
      BY <2>1, <2>2, <2>4, KeptReflexive DEF Serves
    <2> QED  BY <2>3, <2>4
  <1> QED  BY <1>1, <1>2

-----------------------------------------------------------------------------
(* Reads and writes.                                                       *)

\* The cells of the block at position p of the file, and of block number blkno, that are
\* in the range.
CellsAt(p, offset, endpos) == {c \in 0 .. BLKSIZE - 1 : p + c \in offset .. endpos - 1}
Wanted(blkno, offset, endpos) == CellsAt(blkno * BLKSIZE, offset, endpos)

\* A set of numbers below a bound has no more members than the bound allows.
LEMMA IntervalBound ==
    ASSUME NEW a \in Int, NEW b \in Int, NEW S \in SUBSET (a .. b - 1)
    PROVE  /\ Cardinality(S) \in Nat
           /\ a <= b => Cardinality(S) <= b - a
           /\ ~(a < b) => Cardinality(S) = 0
  <1>1. /\ IsFiniteSet(a .. b - 1)
        /\ Cardinality(a .. b - 1) = IF a > b - 1 THEN 0 ELSE (b - 1) - a + 1
    <2>1. b - 1 \in Int
      OBVIOUS
    <2> QED  BY <2>1, FS_Interval
  <1>2. IsFiniteSet(S) /\ Cardinality(S) <= Cardinality(a .. b - 1)
    BY <1>1, FS_Subset
  <1>3. Cardinality(S) \in Nat
    BY <1>2, FS_CardinalityType
  <1> QED  BY <1>1, <1>2, <1>3

\* How far the cells of a block reach, at position p of the file: no further than the
\* range, and no further than the block.
LEMMA WantedBound ==
    ASSUME NEW p \in Nat, NEW offset \in Nat, NEW endpos \in Nat, offset < endpos,
           NEW alen \in Nat, offset + alen <= endpos, alen = 0 \/ offset + alen <= p,
           NEW W, W = CellsAt(p, offset, endpos)
    PROVE  /\ Cardinality(W) \in Nat /\ offset + (alen + Cardinality(W)) <= endpos
           /\ alen + Cardinality(W) = 0 \/ offset + (alen + Cardinality(W)) <= p + BLKSIZE
  <1>1. BLKSIZE \in Nat /\ BLKSIZE \in Int
    BY Constants
  <1>2. /\ W \subseteq 0 .. BLKSIZE - 1 /\ W \subseteq (offset - p) .. (endpos - p) - 1
        /\ W \subseteq 0 .. (endpos - p) - 1 /\ W \subseteq (offset - p) .. BLKSIZE - 1
    BY <1>1 DEF CellsAt
  <1> DEFINE n == Cardinality(W)
  <1>3. /\ n \in Nat /\ n <= BLKSIZE
        /\ n <= endpos - offset
        /\ IF p < endpos THEN n <= endpos - p ELSE n = 0
        /\ IF offset - p <= BLKSIZE THEN n <= BLKSIZE - (offset - p) ELSE n = 0
    <2>1. n \in Nat /\ n <= BLKSIZE
      <3> DEFINE b == BLKSIZE
      <3>1. b \in Int /\ 0 \in Int /\ 0 <= b
        BY <1>1
      <3>2. W \subseteq 0 .. b - 1
        BY <1>2
      <3> HIDE DEF b
      <3>3. n \in Nat /\ (0 <= b => n <= b - 0)
        BY <3>1, <3>2, IntervalBound
      <3> QED  BY <1>1, <3>1, <3>3 DEF b
    <2>2. n <= (endpos - p) - (offset - p)
      <3>1. offset - p \in Int /\ endpos - p \in Int /\ offset - p <= endpos - p
        OBVIOUS
      <3> QED  BY <1>2, <3>1, IntervalBound
    <2>3. IF p < endpos THEN n <= endpos - p ELSE n = 0
      <3> DEFINE b == endpos - p
      <3>1. b \in Int /\ (p < endpos => 0 <= b) /\ (~(p < endpos) => ~(0 < b)) /\ 0 \in Int
        OBVIOUS
      <3>2. W \subseteq 0 .. b - 1
        BY <1>2
      <3> HIDE DEF b
      <3>3. (0 <= b => n <= b - 0) /\ (~(0 < b) => n = 0)
        BY <3>1, <3>2, IntervalBound
      <3> QED  BY <2>1, <3>1, <3>3 DEF b
    <2>4. IF offset - p <= BLKSIZE THEN n <= BLKSIZE - (offset - p) ELSE n = 0
      <3> DEFINE a == offset - p
                 b == BLKSIZE
      <3>1. a \in Int /\ b \in Int
        BY <1>1
      <3>2. W \subseteq a .. b - 1
        BY <1>2
      <3> HIDE DEF a, b
      <3>3. (a <= b => n <= b - a) /\ (~(a < b) => n = 0)
        BY <3>1, <3>2, IntervalBound
      <3> QED  BY <1>1, <3>1, <3>3 DEF a, b
    <2> HIDE DEF n
    <2>5. n <= endpos - offset
      BY <2>1, <2>2
    <2> QED  BY <2>1, <2>3, <2>4, <2>5
  <1> HIDE DEF n
  <1>4. offset + (alen + n) <= endpos
    BY <1>3
  <1>5. alen + n = 0 \/ offset + (alen + n) <= p + BLKSIZE
    BY <1>1, <1>3
  <1> QED  BY <1>3, <1>4, <1>5 DEF n

\* What IoBlock makes of the state b after the load.
Transferred(b, W, data, write) ==
    [b EXCEPT !.alen = @ + Cardinality(W),
              !.disk[b.ino] = [c \in Cell |-> IF write /\ c \in W THEN data ELSE @[c]]]

LEMMA Transfer ==
    ASSUME NEW s, NEW others, NEW b, Kept(s, b, others), NEW i \in Place, i # -1,
           b.ino = At(b.din, b.disk, i), b.ino # 0,
           NEW W, Cardinality(W) \in Nat, NEW write \in BOOLEAN, NEW data, write => data \in Data,
           NEW t, t = Transferred(b, W, data, write)
    PROVE  /\ Kept(s, t, others) /\ t.din = b.din /\ t.ret = b.ret
           /\ t.alen = b.alen + Cardinality(W)
  <1>1. /\ b \in States /\ b.din \in Dinodes /\ b.disk \in Disks /\ others \subseteq Block
        /\ Sound(b, others) /\ Filled(b.din, b.disk) /\ Follows(s, b, others)
    BY DEF Kept, Sound, States
  <1> DEFINE o == b.ino
  <1>2. o \in Block /\ o \notin others /\ o # b.din.indirect
    <2>1. o \in Block
      BY <1>1, Constants DEF Sound, Apart, Block
    <2>2. Has(b.din, b.disk, o)
      BY DEF Has
    <2>3. o \notin others
      BY <1>1, <2>1, <2>2 DEF Sound
    <2>4. -1 \in Place /\ At(b.din, b.disk, -1) = b.din.indirect
      BY Constants DEF Place, At
    <2>5. o # b.din.indirect
      BY <1>1, <2>4 DEF Sound, Apart
    <2> QED  BY <2>1, <2>3, <2>5
  <1> DEFINE cells == [c \in Cell |-> IF write /\ c \in W THEN data ELSE b.disk[o][c]]
             dsk == [b.disk EXCEPT ![o] = cells]
  <1>3. cells \in [Cell -> Block \cup Data \cup {-1, 0}]
    BY <1>1, <1>2 DEF Disks
  <1>4. /\ t.freemap = b.freemap /\ t.unused_blocks = b.unused_blocks /\ t.disk = dsk
        /\ t.din = b.din /\ t.dirty = b.dirty /\ t.ino = b.ino
        /\ t.alen = b.alen + Cardinality(W) /\ t.ret = b.ret
        /\ t = [freemap |-> t.freemap, unused_blocks |-> t.unused_blocks, disk |-> t.disk,
                din |-> t.din, dirty |-> t.dirty, ino |-> t.ino, alen |-> t.alen,
                ret |-> t.ret]
    BY <1>1 DEF States, Transferred
  <1> HIDE DEF cells
  <1>5. dsk \in Disks /\ \A c \in Block \ {o} : dsk[c] = b.disk[c]
    BY <1>1, <1>2, <1>3 DEF Disks
  <1> HIDE DEF dsk
  <1>6. t \in States
    BY <1>1, <1>4, <1>5 DEF States
  <1>7. b.din.indirect # 0 => t.disk[b.din.indirect] = b.disk[b.din.indirect]
    BY <1>1, <1>2, <1>4, <1>5, Constants DEF Dinodes, Block
  <1>8. /\ \A c : Has(b.din, t.disk, c) <=> Has(b.din, b.disk, c)
        /\ Apart(b.din, t.disk) <=> Apart(b.din, b.disk)
        /\ Filled(b.din, t.disk) <=> Filled(b.din, b.disk)
    BY <1>7, SamePlaces
  <1>9. Sound(t, others) /\ Filled(t.din, t.disk)
    BY <1>1, <1>4, <1>6, <1>8 DEF Sound
  <1>10. Follows(s, t, others)
    <2>1. \A c \in others : t.disk[c] = b.disk[c]
      BY <1>1, <1>2, <1>4, <1>5
    <2> QED  BY <1>1, <1>4, <2>1 DEF Follows
  <1> QED  BY <1>4, <1>9, <1>10 DEF Kept

LEMMA IoOneBlock ==
    ASSUME NEW s, NEW others, Sound(s, others), s.ret = "ok", Filled(s.din, s.disk),
           NEW blkno \in Nat, NEW offset, NEW endpos,
           NEW W, W = Wanted(blkno, offset, endpos), Cardinality(W) \in Nat,
           NEW write \in BOOLEAN, NEW data, write => data \in Data,
           NEW t, t = IoBlock(s, blkno, offset, endpos, data, write)
    PROVE  \/ t.ret = "panic"
           \/ /\ Kept(s, t, others) /\ t.din.size = s.din.size
              /\ t.alen = IF t.ret = "ok" THEN s.alen + Cardinality(W) ELSE s.alen
  <1> DEFINE b == sfs_bmap_load_nolock(s, blkno)
  <1>1. b.ret = "panic" \/ Loaded(s, b, others, blkno)
    BY LoadBlock
  <1>2. t = IF b.ret = "ok" THEN Transferred(b, W, data, write) ELSE b
    BY DEF IoBlock, Then, Transferred, Wanted, CellsAt
  <1> HIDE DEF b
  <1>3. CASE b.ret = "panic"
    BY <1>2, <1>3
  <1>4. CASE b.ret # "ok" /\ Loaded(s, b, others, blkno)
    BY <1>2, <1>4 DEF Loaded
  <1>5. CASE b.ret = "ok" /\ Loaded(s, b, others, blkno)
    <2>1. /\ Kept(s, b, others) /\ b.alen = s.alen /\ b.din.size = s.din.size
          /\ blkno \in Place /\ blkno # -1 /\ b.ino = At(b.din, b.disk, blkno) /\ b.ino # 0
      BY <1>5 DEF Loaded
    <2>2. t = Transferred(b, W, data, write)
      BY <1>2, <1>5
    <2>3. /\ Kept(s, t, others) /\ t.din = b.din /\ t.ret = b.ret
          /\ t.alen = b.alen + Cardinality(W)
      BY <2>1, <2>2, Transfer
    <2> QED  BY <1>5, <2>1, <2>3
  <1> QED  BY <1>1, <1>3, <1>4, <1>5

\* What surrounds the loop of sfs_io_nolock, its body and its invariant: alen never goes
\* past the end of the range, nor past the block that comes next.
IoStep(e, v, i) ==
    IF v.ret = "ok" THEN IoBlock(v, i, e.offset, e.endpos, e.data, e.write) ELSE v

IoInv(e, k, v) ==
    \/ v.ret = "panic"
    \/ /\ Kept(e.s, v, e.others) /\ v.din.size = e.s.din.size
       /\ e.offset + v.alen <= e.endpos
       /\ v.ret = "ok" => v.alen = 0 \/ e.offset + v.alen <= (e.from + k) * BLKSIZE

IoAll(s, offset, endpos, data, write, from, to) ==
    Loop(LAMBDA t, b : IoBlock(t, b, offset, endpos, data, write), s, from, to)

Transferring == INSTANCE SeqLemmas WITH LoopBody <- IoStep, LoopInv <- IoInv

LEMMA IoLoop ==
    ASSUME NEW s, NEW others, Sound(s, others), s.ret = "ok", Filled(s.din, s.disk), s.alen = 0,
           NEW offset \in Nat, NEW endpos \in Nat, offset < endpos,
           NEW write \in BOOLEAN, NEW data, write => data \in Data,
           NEW from \in Nat, NEW to \in Nat,
           NEW t, t = IoAll(s, offset, endpos, data, write, from, to)
    PROVE  \/ t.ret = "panic"
           \/ Kept(s, t, others) /\ t.din.size = s.din.size /\ offset + t.alen <= endpos
  <1> DEFINE e == [s |-> s, others |-> others, offset |-> offset, endpos |-> endpos,
                   data |-> data, write |-> write, from |-> from]
             seq == [i \in 1 .. to - from |-> from + i - 1]
             n == IF from <= to THEN to - from ELSE 0
  <1>1. /\ e.s = s /\ e.others = others /\ e.offset = offset /\ e.endpos = endpos
        /\ e.data = data /\ e.write = write /\ e.from = from
    OBVIOUS
  <1>2. n \in Nat /\ DOMAIN seq = 1 .. n /\ \A k \in 1 .. n : seq[k] = from + k - 1
    OBVIOUS
  <1>3. Transferring!LoopFold(e, s, seq) = t
    BY DEF Transferring!LoopFold, Transferring!FoldLeft, Transferring!MapThenFoldSet,
           Transferring!Max, Max, IoAll, Loop, Then, FoldLeft, MapThenFoldSet, IoStep
  <1> HIDE DEF e, seq, n
  <1>4. IoInv(e, 0, s)
    BY <1>1, KeptReflexive DEF IoInv
  <1>5. ASSUME NEW k \in 1 .. n, NEW v, IoInv(e, k - 1, v)
        PROVE  IoInv(e, k, IoStep(e, v, seq[k]))
    <2>1. CASE v.ret # "ok"
      BY <1>5, <2>1 DEF IoInv, IoStep
    <2>2. CASE v.ret = "ok"
      <3> DEFINE i == from + (k - 1)
                 p == i * BLKSIZE
                 W == Wanted(i, offset, endpos)
                 u == IoBlock(v, i, offset, endpos, data, write)
      <3>1. k \in Nat /\ k - 1 \in Nat
        BY <1>2
      <3>2. i \in Nat /\ seq[k] = i /\ p \in Nat /\ (from + k) * BLKSIZE = p + BLKSIZE
        <4>1. i \in Nat /\ seq[k] = i /\ from + k = i + 1
          BY <1>2, <3>1
        <4> HIDE DEF i
        <4> QED  BY <4>1, Constants
      <3>3. /\ Kept(s, v, others) /\ v.din.size = s.din.size /\ offset + v.alen <= endpos
            /\ v.alen = 0 \/ offset + v.alen <= p
        BY <1>1, <1>5, <2>2 DEF IoInv
      <3>4. IoStep(e, v, seq[k]) = u
        BY <1>1, <2>2, <3>2 DEF IoStep
      <3>5. v.alen \in Nat
        BY <3>3 DEF Kept, Sound, States
      <3>6. W = CellsAt(p, offset, endpos)
        BY DEF Wanted
      <3>7. W = Wanted(i, offset, endpos)
        OBVIOUS
      <3> HIDE DEF p, W, i
      <3>8. /\ Cardinality(W) \in Nat /\ offset + (v.alen + Cardinality(W)) <= endpos
            /\ v.alen + Cardinality(W) = 0 \/ offset + (v.alen + Cardinality(W)) <= p + BLKSIZE
        BY <3>2, <3>3, <3>5, <3>6, WantedBound
      <3>9. \/ u.ret = "panic"
            \/ /\ Kept(v, u, others) /\ u.din.size = v.din.size
               /\ u.alen = IF u.ret = "ok" THEN v.alen + Cardinality(W) ELSE v.alen
        <4>1. Sound(v, others) /\ Filled(v.din, v.disk)
          BY <3>3 DEF Kept
        <4> QED  BY <2>2, <3>2, <3>7, <3>8, <4>1, IoOneBlock
      <3> HIDE DEF u
      <3>10. CASE u.ret = "panic"
        BY <3>4, <3>10 DEF IoInv
      <3>11. CASE /\ Kept(v, u, others) /\ u.din.size = v.din.size
                  /\ u.alen = IF u.ret = "ok" THEN v.alen + Cardinality(W) ELSE v.alen
        <4>1. Kept(s, u, others)
          BY <3>3, <3>11, KeptTransitive
        <4>2. offset + u.alen <= endpos
          BY <3>3, <3>8, <3>11
        <4>3. u.ret = "ok" => u.alen = 0 \/ offset + u.alen <= (from + k) * BLKSIZE
          BY <3>2, <3>8, <3>11
        <4> QED  BY <1>1, <3>3, <3>4, <3>11, <4>1, <4>2, <4>3 DEF IoInv
      <3> QED  BY <3>9, <3>10, <3>11
    <2> QED  BY <2>1, <2>2
  <1>6. IoInv(e, n, Transferring!LoopFold(e, s, seq))
    BY <1>2, <1>4, <1>5, Transferring!FoldInvariant
  <1> QED  BY <1>1, <1>3, <1>6 DEF IoInv

\* sfs_io_nolock.
LEMMA Io_nolock ==
    ASSUME NEW s, NEW others, Sound(s, others), s.ret = "ok", Filled(s.din, s.disk),
           NEW offset \in 0 .. MAX_FILE_SIZE, NEW len \in Nat,
           NEW write \in BOOLEAN, NEW data, write => data \in Data,
           NEW t, t = sfs_io_nolock(s, offset, len, data, write)
    PROVE  \/ t.ret = "panic"
           \/ Kept(s, t, others) /\ offset + t.alen \in 0 .. MAX_FILE_SIZE
  <1> DEFINE limit == IF write THEN MAX_FILE_SIZE ELSE s.din.size
             endpos == Min({offset + len, limit})
             none == [s EXCEPT !.alen = 0]
             from == offset \div BLKSIZE
             to == BlocksFor(endpos)
             v == IoAll(none, offset, endpos, data, write, from, to)
  <1>1. s \in States /\ s.din \in Dinodes /\ s.din.size \in 0 .. MAX_FILE_SIZE
    BY DEF Sound, States, Dinodes
  <1>2. limit \in 0 .. MAX_FILE_SIZE
    BY <1>1, Constants
  <1>3. endpos \in 0 .. MAX_FILE_SIZE
    <2> HIDE DEF limit
    <2> DEFINE q == {offset + len, limit}
    <2>1. q # {} /\ q \subseteq Nat /\ limit \in q
      BY <1>2, Constants
    <2> HIDE DEF q
    <2>2. Min(q) \in q /\ \A x \in q : Min(q) <= x
      BY <2>1, MinOfSet
    <2>3. Min(q) \in Nat /\ Min(q) <= limit
      BY <2>1, <2>2
    <2> QED  BY <1>2, <2>3, Constants DEF q
  <1>4. /\ none.freemap = s.freemap /\ none.unused_blocks = s.unused_blocks
        /\ none.disk = s.disk /\ none.din = s.din /\ none.dirty = s.dirty /\ none.alen = 0
        /\ none.ret = s.ret /\ none \in States
    BY <1>1 DEF States
  <1>5. /\ t = IF offset >= MAX_FILE_SIZE THEN Failed(none, "E_INVAL")
               ELSE IF offset >= endpos THEN none ELSE Extended(v, offset)
    BY DEF sfs_io_nolock, IoAll
  <1> HIDE DEF none, limit, endpos
  <1>6. Kept(s, none, others) /\ Sound(none, others) /\ Filled(none.din, none.disk)
    <2>1. Sound(none, others) /\ Follows(s, none, others)
      BY <1>4, SameSound
    <2> QED  BY <1>4, <2>1 DEF Kept
  <1>7. CASE offset >= MAX_FILE_SIZE
    <2>1. t = Failed(none, "E_INVAL") /\ "E_INVAL" \in Rets
      BY <1>5, <1>7 DEF Rets
    <2>2. Serves(none, t, others) /\ t.alen = none.alen
      BY <1>6, <2>1, FailedServes
    <2>3. t.ret = "panic" \/ Kept(s, t, others)
      BY <1>6, <2>2, KeptTransitive DEF Serves
    <2> QED  BY <1>4, <2>2, <2>3
  <1>8. CASE ~(offset >= MAX_FILE_SIZE) /\ offset >= endpos
    <2>1. t = none
      BY <1>5, <1>8
    <2> QED  BY <1>4, <1>6, <2>1
  <1>9. CASE ~(offset >= MAX_FILE_SIZE) /\ ~(offset >= endpos)
    <2>1. from \in Nat /\ to \in Nat /\ offset \in Nat /\ endpos \in Nat /\ offset < endpos
      <3>1. offset \in Nat /\ endpos \in Nat /\ offset < endpos
        BY <1>3, <1>9, Constants
      <3>2. from \in Nat
        BY <3>1, Constants
      <3>3. to \in Nat
        BY <3>1, BlocksForNat
      <3> QED  BY <3>1, <3>2, <3>3
    <2> HIDE DEF from, to
    <2>2. \/ v.ret = "panic"
          \/ Kept(none, v, others) /\ v.din.size = none.din.size /\ offset + v.alen <= endpos
      <3>1. Sound(none, others) /\ none.ret = "ok" /\ Filled(none.din, none.disk) /\ none.alen = 0
        BY <1>4, <1>6
      <3> QED  BY <2>1, <3>1, IoLoop, ZenonT(60)
    <2>3. t = Extended(v, offset)
      BY <1>5, <1>9
    <2> HIDE DEF v
    <2>4. CASE v.ret = "panic"
      BY <2>3, <2>4 DEF Extended
    <2>5. CASE v.ret # "panic"
      <3>1. Kept(s, v, others)
        BY <1>6, <2>2, <2>5, KeptTransitive
      <3>2. v.alen \in Nat /\ offset + v.alen <= endpos
        BY <2>2, <2>5 DEF Kept, Sound, States
      <3>3. offset + v.alen \in 0 .. MAX_FILE_SIZE
        BY <1>3, <2>1, <3>2, Constants
      <3>4. CASE offset + v.alen > v.din.size
        <4> DEFINE size == offset + v.alen
        <4>1. t = Sized(v, size)
          BY <2>3, <2>5, <3>4 DEF Extended, Sized
        <4>2. size \in 0 .. MAX_FILE_SIZE
          BY <3>3
        <4> HIDE DEF size
        <4>3. Kept(s, t, others) /\ t.alen = v.alen
          BY <3>1, <4>1, <4>2, Resize
        <4> QED  BY <3>3, <4>3
      <3>5. CASE ~(offset + v.alen > v.din.size)
        <4>1. t = v
          BY <2>3, <3>5 DEF Extended
        <4> QED  BY <3>1, <3>3, <4>1
      <3> QED  BY <3>4, <3>5
    <2> QED  BY <2>4, <2>5
  <1> QED  BY <1>7, <1>8, <1>9

-----------------------------------------------------------------------------
(* The invariant of Files.                                                 *)

\* d is what din was when it was clean: the places are the same, some blocks may have been
\* counted since.
Older(d, din) ==
    /\ d.size = din.size /\ d.direct = din.direct /\ d.indirect = din.indirect
    /\ d.blocks <= din.blocks

\* A block is free or has one place in one file.
Owned ==
    /\ unused_blocks = Cardinality(freemap)
    /\ \A f \in File : Apart(Current(f), disk) /\ Filled(Current(f), disk)
    /\ \A f \in File : \A b \in Block : Has(Current(f), disk, b) => b \notin freemap
    /\ \A b \in Block \ freemap : \E f \in File : Has(Current(f), disk, b)
    /\ \A f, g \in File : \A b \in Block :
          Has(Current(f), disk, b) /\ Has(Current(g), disk, b) => f = g

\* A clean inode in memory and the one on disk have the same places, and a dirty one is
\* open: the last close writes it.
Written_back ==
    \A f \in File : node[f] # NULL =>
        /\ ~node[f].dirty => Older(dinode[f], node[f].din)
        /\ node[f].dirty => node[f].open_count > 0

\* The blocks that other files than f have.
Others(f) == {b \in Block : \E g \in File \ {f} : Has(Current(g), disk, b)}

LEMMA CurrentType ==
    ASSUME TypeOK
    PROVE  /\ \A f \in File : Current(f) \in Dinodes
           /\ \A f \in File : node[f] # NULL => node[f] \in Inodes /\ node[f].din \in Dinodes
  BY DEF TypeOK, Current, Inodes

\* The state that a call of Sfs starts with.
LEMMA CallSound ==
    ASSUME TypeOK, Owned, NEW f \in File, NEW n \in Inodes, n.din = Current(f),
           NEW s, s = Call(n)
    PROVE  /\ Sound(s, Others(f)) /\ Filled(s.din, s.disk) /\ s.ret = "ok" /\ s.alen = 0
           /\ s.din = n.din /\ s.dirty = n.dirty /\ s.disk = disk
  <1>1. /\ s.freemap = freemap /\ s.unused_blocks = unused_blocks /\ s.disk = disk
        /\ s.din = n.din /\ s.dirty = n.dirty /\ s.ino = 0 /\ s.alen = 0 /\ s.ret = "ok"
    BY DEF Call
  <1>2. n.din \in Dinodes /\ n.dirty \in BOOLEAN
    BY DEF Inodes
  <1>3. s \in States
    BY <1>2, Constants DEF Call, States, TypeOK, Disks, Rets
  <1>4. Others(f) \subseteq Block /\ freemap \cap Others(f) = {}
    BY DEF Others, Owned
  <1>5. ASSUME NEW b \in Block
        PROVE  Has(s.din, s.disk, b) <=> b \notin Others(f) /\ b \notin s.freemap
    <2>1. Has(s.din, s.disk, b) <=> Has(Current(f), disk, b)
      BY <1>1
    <2>2. Has(Current(f), disk, b) => b \notin Others(f) /\ b \notin freemap
      BY DEF Owned, Others
    <2>3. b \notin Others(f) /\ b \notin freemap => Has(Current(f), disk, b)
      BY DEF Owned, Others
    <2> QED  BY <1>1, <2>1, <2>2, <2>3
  <1>6. s.unused_blocks = Cardinality(s.freemap) /\ Apart(s.din, s.disk)
        /\ Filled(s.din, s.disk)
    BY <1>1 DEF Owned
  <1> QED  BY <1>1, <1>3, <1>4, <1>5, <1>6 DEF Sound

\* What a call of Sfs leaves when it is stored.
LEMMA StoreOwned ==
    ASSUME TypeOK, Owned, Written_back, NEW f \in File, NEW n \in Inodes, n.din = Current(f),
           n.open_count > 0, ~n.dirty => Older(dinode[f], n.din),
           NEW s, Kept(Call(n), s, Others(f)), Store(f, n, s)
    PROVE  /\ Owned' /\ Written_back'
           /\ freemap' \subseteq Block /\ unused_blocks' \in 0 .. NBLOCKS /\ disk' \in Disks
           /\ dinode' \in [File -> Dinodes] /\ node' \in [File -> {NULL} \cup Inodes]
           /\ node'[f] \in Inodes
           /\ node'[f].open_count = n.open_count /\ node'[f].ref_count = n.ref_count
           /\ \A g \in File \ {f} : node'[g] = node[g]
  <1> DEFINE c == Call(n)
             x == [n EXCEPT !.din = s.din, !.dirty = s.dirty]
  <1>1. c.din = n.din /\ c.dirty = n.dirty /\ c.disk = disk
    BY DEF Call
  <1>2. /\ Sound(s, Others(f)) /\ Filled(s.din, s.disk) /\ s \in States
        /\ \A b \in Others(f) : s.disk[b] = disk[b]
        /\ ~s.dirty => /\ ~n.dirty /\ s.din.size = n.din.size /\ s.din.direct = n.din.direct
                       /\ s.din.indirect = n.din.indirect /\ n.din.blocks <= s.din.blocks
    BY <1>1 DEF Kept, Follows, Sound
  <1>3. /\ s.freemap \subseteq Block /\ s.disk \in Disks /\ s.din \in Dinodes
        /\ s.dirty \in BOOLEAN /\ s.unused_blocks = Cardinality(s.freemap)
    BY <1>2 DEF States, Sound
  <1>4. /\ x \in Inodes /\ x.din = s.din /\ x.dirty = s.dirty
        /\ x.open_count = n.open_count /\ x.ref_count = n.ref_count
    BY <1>3 DEF Inodes
  <1>5. /\ freemap' = s.freemap /\ unused_blocks' = s.unused_blocks /\ disk' = s.disk
        /\ node' = [node EXCEPT ![f] = x]
        /\ dinode' = [dinode EXCEPT ![f] = IF s.dirty THEN OutOfDate ELSE @]
    BY DEF Store
  <1> HIDE DEF x
  <1>6. /\ node'[f] = x /\ \A g \in File \ {f} : node'[g] = node[g]
        /\ node' \in [File -> {NULL} \cup Inodes]
    BY <1>4, <1>5 DEF TypeOK
  <1>7. /\ dinode'[f] = (IF s.dirty THEN OutOfDate ELSE dinode[f])
        /\ \A g \in File \ {f} : dinode'[g] = dinode[g]
        /\ dinode' \in [File -> Dinodes]
    <2>1. OutOfDate \in Dinodes
      BY Constants DEF OutOfDate, NewFile, Dinodes
    <2> QED  BY <1>5, <2>1 DEF TypeOK
  <1>8. x # NULL
    BY <1>4, NullAssumption
  <1>9. Current(f)' = s.din /\ \A g \in File \ {f} : Current(g)' = Current(g)
    BY <1>4, <1>6, <1>7, <1>8 DEF Current
  <1>10. unused_blocks' \in 0 .. NBLOCKS
    <2>1. IsFiniteSet(Block) /\ Cardinality(Block) = NBLOCKS
      BY Constants, FS_Interval DEF Block
    <2>2. Cardinality(s.freemap) <= NBLOCKS
      BY <1>3, <2>1, FS_Subset
    <2>3. s.unused_blocks \in Nat
      BY <1>2 DEF States
    <2> QED  BY <1>3, <1>5, <2>2, <2>3, Constants
  <1>11. ASSUME NEW g \in File \ {f}
         PROVE  /\ \A b : Has(Current(g), s.disk, b) <=> Has(Current(g), disk, b)
                /\ Apart(Current(g), s.disk) /\ Filled(Current(g), s.disk)
    <2> DEFINE din == Current(g)
    <2>1. din \in Dinodes
      BY CurrentType
    <2>2. din.indirect # 0 => s.disk[din.indirect] = disk[din.indirect]
      <3> SUFFICES ASSUME din.indirect # 0  PROVE s.disk[din.indirect] = disk[din.indirect]
        OBVIOUS
      <3>1. din.indirect \in Block
        BY <2>1, Constants DEF Dinodes, Block
      <3>2. Has(din, disk, din.indirect)
        BY Constants DEF Has, At, Place
      <3>3. din.indirect \in Others(f)
        BY <3>1, <3>2 DEF Others
      <3> QED  BY <1>2, <3>3
    <2> HIDE DEF din
    <2>3. /\ \A b : Has(din, s.disk, b) <=> Has(din, disk, b)
          /\ Apart(din, s.disk) <=> Apart(din, disk)
          /\ Filled(din, s.disk) <=> Filled(din, disk)
      BY <2>2, SamePlaces
    <2> QED  BY <2>3 DEF Owned, din
  <1>12. Owned'
    <2>1. unused_blocks' = Cardinality(freemap')
      BY <1>3, <1>5
    <2>2. ASSUME NEW g \in File
          PROVE  Apart(Current(g)', disk') /\ Filled(Current(g)', disk')
      <3>1. CASE g = f
        BY <1>2, <1>5, <1>9, <3>1 DEF Sound
      <3>2. CASE g # f
        BY <1>5, <1>9, <1>11, <3>2
      <3> QED  BY <3>1, <3>2
    <2>3. ASSUME NEW b \in Block
          PROVE  /\ Has(Current(f)', disk', b) <=> b \notin Others(f) /\ b \notin freemap'
                 /\ \A g \in File \ {f} : Has(Current(g)', disk', b) <=> Has(Current(g), disk, b)
                 /\ b \in Others(f) => b \notin freemap'
      BY <1>2, <1>5, <1>9, <1>11 DEF Sound
    <2>4. ASSUME NEW g \in File, NEW b \in Block, Has(Current(g)', disk', b)
          PROVE  b \notin freemap'
      <3>1. CASE g = f
        BY <2>3, <2>4, <3>1
      <3>2. CASE g # f
        BY <2>3, <2>4, <3>2 DEF Others
      <3> QED  BY <3>1, <3>2
    <2>5. ASSUME NEW b \in Block \ freemap'
          PROVE  \E g \in File : Has(Current(g)', disk', b)
      BY <2>3, <2>5 DEF Others
    <2>6. ASSUME NEW g \in File, NEW h \in File, NEW b \in Block,
                 Has(Current(g)', disk', b), Has(Current(h)', disk', b)
          PROVE  g = h
      <3>1. CASE g = f /\ h # f
        BY <2>3, <2>6, <3>1 DEF Others
      <3>2. CASE g # f /\ h = f
        BY <2>3, <2>6, <3>2 DEF Others
      <3>3. CASE g # f /\ h # f
        BY <2>3, <2>6, <3>3 DEF Owned
      <3> QED  BY <3>1, <3>2, <3>3
    <2> QED  BY <2>1, <2>2, <2>4, <2>5, <2>6 DEF Owned
  <1>13. Written_back'
    <2> SUFFICES ASSUME NEW g \in File, node'[g] # NULL
                 PROVE  /\ ~node'[g].dirty => Older(dinode'[g], node'[g].din)
                        /\ node'[g].dirty => node'[g].open_count > 0
      BY DEF Written_back
    <2>1. CASE g = f
      <3>1. ASSUME ~s.dirty  PROVE Older(dinode'[f], s.din)
        <4>1. Older(dinode[f], n.din) /\ dinode'[f] = dinode[f]
          BY <1>2, <1>7, <3>1
        <4>2. dinode[f].blocks \in Int /\ n.din.blocks \in Int /\ s.din.blocks \in Int
          BY <1>3, SMTT(30) DEF TypeOK, Inodes, Dinodes
        <4> QED  BY <1>2, <3>1, <4>1, <4>2 DEF Older
      <3> QED  BY <1>4, <1>6, <2>1, <3>1
    <2>2. CASE g # f
      BY <1>6, <1>7, <2>2 DEF Written_back
    <2> QED  BY <2>1, <2>2
  <1> QED  BY <1>3, <1>4, <1>5, <1>6, <1>7, <1>10, <1>12, <1>13

\* Older inodes on the same disk own the same blocks.
LEMMA OwnedOlder ==
    ASSUME TypeOK, Owned, UNCHANGED sfsVars,
           \A f \in File : Current(f)' \in Dinodes /\ Older(Current(f)', Current(f))
    PROVE  Owned'
  <1>1. freemap' = freemap /\ unused_blocks' = unused_blocks /\ disk' = disk
    BY DEF sfsVars
  <1>2. ASSUME NEW f \in File
        PROVE  /\ \A x : At(Current(f)', disk, x) = At(Current(f), disk, x)
               /\ Current(f)'.blocks \in Nat /\ Current(f).blocks \in Nat
               /\ Current(f)'.blocks <= Current(f).blocks
    <2>1. Current(f)' \in Dinodes /\ Current(f) \in Dinodes
      BY CurrentType
    <2> QED  BY <2>1 DEF Older, At, Dinodes
  <1>3. ASSUME NEW f \in File
        PROVE  /\ \A b : Has(Current(f)', disk, b) <=> Has(Current(f), disk, b)
               /\ Apart(Current(f)', disk) /\ Filled(Current(f)', disk)
    <2>1. Apart(Current(f), disk) /\ Filled(Current(f), disk)
      BY DEF Owned
    <2> QED  BY <1>2, <2>1 DEF Has, Apart, Filled
  <1>4. /\ \A f \in File : \A b \in Block : Has(Current(f)', disk, b) => b \notin freemap
        /\ \A b \in Block \ freemap : \E f \in File : Has(Current(f)', disk, b)
        /\ \A f, g \in File : \A b \in Block :
              Has(Current(f)', disk, b) /\ Has(Current(g)', disk, b) => f = g
        /\ unused_blocks = Cardinality(freemap)
    BY <1>3 DEF Owned
  <1> QED  BY <1>1, <1>3, <1>4 DEF Owned

-----------------------------------------------------------------------------
(* Descriptors.                                                            *)

Tables == [Proc -> {NULL} \cup [FD -> {NULL} \cup OpenFiles]]

\* The descriptors of all processes that a table says are open on f.
HoldersIn(fa, f) ==
    {h \in Proc \X FD : fa[h[1]] # NULL /\ fa[h[1]][h[2]] # NULL /\ fa[h[1]][h[2]].node = f}

Count(fa, f) == Cardinality(HoldersIn(fa, f))

\* Those of p.
OpenIn(fa, p, f) == {d \in FD : fa[p] # NULL /\ fa[p][d] # NULL /\ fa[p][d].node = f}

LEMMA HoldersCount ==
    /\ \A f : Holders({f}) = HoldersIn(fd_array, f)
    /\ \A f : Holders({f})' = HoldersIn(fd_array', f)
  <1>1. \A f : Holders({f}) = HoldersIn(fd_array, f)
    BY DEF Holders, OpenOn, IsOpen, HoldersIn
  <1>2. \A f : Holders({f})' = HoldersIn(fd_array', f)
    BY DEF Holders, OpenOn, IsOpen, HoldersIn
  <1> QED  BY <1>1, <1>2

LEMMA CountNat ==
    ASSUME NEW fa, NEW f
    PROVE  IsFiniteSet(HoldersIn(fa, f)) /\ Count(fa, f) \in Nat
  <1>1. IsFiniteSet(FD)
    BY FilesAssumption, FS_Interval DEF FD
  <1>2. IsFiniteSet(Proc \X FD)
    BY <1>1, FilesAssumption, FS_Product
  <1>3. IsFiniteSet(HoldersIn(fa, f))
    BY <1>2, FS_Subset DEF HoldersIn
  <1> QED  BY <1>3, FS_CardinalityType DEF Count

\* The descriptors T of q.
Pairs(q, T) == {q} \X T

LEMMA PairsCount ==
    ASSUME NEW q, NEW T, T \subseteq FD
    PROVE  /\ IsFiniteSet(Pairs(q, T)) /\ Cardinality(Pairs(q, T)) = Cardinality(T)
           /\ IsFiniteSet(T) /\ Cardinality(T) \in Nat
  <1>1. IsFiniteSet(FD)
    BY FilesAssumption, FS_Interval DEF FD
  <1>2. IsFiniteSet(T) /\ Cardinality(T) \in Nat
    BY <1>1, FS_Subset, FS_CardinalityType
  <1>3. IsFiniteSet({q}) /\ Cardinality({q}) = 1
    BY FS_Singleton
  <1>4. /\ IsFiniteSet(Pairs(q, T))
        /\ Cardinality(Pairs(q, T)) = Cardinality({q}) * Cardinality(T)
    BY <1>2, <1>3, FS_Product DEF Pairs
  <1> QED  BY <1>2, <1>3, <1>4

LEMMA Disjoint ==
    ASSUME NEW H, IsFiniteSet(H), NEW Q, IsFiniteSet(Q), \A h \in Q : h \notin H
    PROVE  Cardinality(H \cup Q) = Cardinality(H) + Cardinality(Q)
  <1>1. H \cap Q = {}
    OBVIOUS
  <1>2. Cardinality(H \cup Q) = Cardinality(H) + Cardinality(Q) - Cardinality(H \cap Q)
    BY FS_Union
  <1>3. Cardinality(H \cap Q) = 0 /\ Cardinality(H) \in Nat /\ Cardinality(Q) \in Nat
    BY <1>1, FS_EmptySet, FS_CardinalityType
  <1> QED  BY <1>2, <1>3

\* Table fa has, on f, the descriptors that new has and those of p in T.
More(fa, new, p, T, f) ==
    \A h \in Proc \X FD :
       /\ h \in HoldersIn(fa, f) <=> h \in HoldersIn(new, f) \/ (h[1] = p /\ h[2] \in T)
       /\ h \in HoldersIn(new, f) => ~(h[1] = p /\ h[2] \in T)

LEMMA CountMore ==
    ASSUME NEW fa, NEW new, NEW p \in Proc, NEW T, T \subseteq FD, NEW f, More(fa, new, p, T, f)
    PROVE  Count(fa, f) = Count(new, f) + Cardinality(T) /\ Cardinality(T) \in Nat
  <1> DEFINE H == HoldersIn(new, f)
             Q == Pairs(p, T)
  <1>1. IsFiniteSet(H) /\ IsFiniteSet(Q) /\ Cardinality(Q) = Cardinality(T) /\ Cardinality(T) \in Nat
    BY CountNat, PairsCount
  <1>2. \A h \in Proc \X FD : h \in Q <=> h[1] = p /\ h[2] \in T
    BY DEF Pairs
  <1>3. Q \subseteq Proc \X FD /\ H \subseteq Proc \X FD /\ HoldersIn(fa, f) \subseteq Proc \X FD
    BY DEF Pairs, HoldersIn
  <1> HIDE DEF Q
  <1>4. \A h \in Q : h \notin H
    BY <1>2, <1>3 DEF More
  <1>5. HoldersIn(fa, f) = H \cup Q
    BY <1>2, <1>3 DEF More
  <1> HIDE DEF H
  <1>6. Cardinality(H \cup Q) = Cardinality(H) + Cardinality(Q)
    BY <1>1, <1>4, Disjoint
  <1> QED  BY <1>1, <1>5, <1>6 DEF Count, H

\* The descriptors D of p are closed.
Closes(fa, new, p, D) ==
    /\ fa[p] # NULL
    /\ \A q \in Proc \ {p} : new[q] = fa[q]
    /\ \A d \in D : new[p] = NULL \/ new[p][d] = NULL
    /\ \A d \in FD \ D : new[p] # NULL /\ new[p][d] = fa[p][d]

LEMMA CountCloses ==
    ASSUME NEW fa, NEW new, NEW p \in Proc, NEW D, D \subseteq FD, Closes(fa, new, p, D),
           NEW f, NEW T, T = D \cap OpenIn(fa, p, f)
    PROVE  Count(fa, f) = Count(new, f) + Cardinality(T) /\ Cardinality(T) \in Nat
  <1>1. T \subseteq FD
    OBVIOUS
  <1>2. ASSUME NEW h \in Proc \X FD
        PROVE  /\ h \in HoldersIn(fa, f) <=> h \in HoldersIn(new, f) \/ (h[1] = p /\ h[2] \in T)
               /\ h \in HoldersIn(new, f) => ~(h[1] = p /\ h[2] \in T)
    <2>0. h[1] \in Proc /\ h[2] \in FD
      OBVIOUS
    <2>1. CASE h[1] # p
      BY <2>0, <2>1 DEF HoldersIn, OpenIn, Closes
    <2>2. CASE h[1] = p /\ h[2] \in D
      BY <2>0, <2>2 DEF HoldersIn, OpenIn, Closes
    <2>3. CASE h[1] = p /\ h[2] \notin D
      BY <2>0, <2>3 DEF HoldersIn, OpenIn, Closes
    <2> QED  BY <2>1, <2>2, <2>3
  <1>3. More(fa, new, p, T, f)
    BY <1>2 DEF More
  <1> QED  BY <1>1, <1>3, CountMore

\* Descriptor d of p is opened.
Opens(fa, new, p, d, v) ==
    /\ fa[p] # NULL /\ fa[p][d] = NULL
    /\ \A q \in Proc \ {p} : new[q] = fa[q]
    /\ new[p] # NULL /\ new[p][d] = v /\ v # NULL
    /\ \A e \in FD \ {d} : new[p][e] = fa[p][e]

LEMMA CountOpens ==
    ASSUME NEW fa, NEW new, NEW p \in Proc, NEW d \in FD, NEW v, Opens(fa, new, p, d, v),
           NEW f
    PROVE  /\ v.node = f => Count(new, f) = Count(fa, f) + 1
           /\ v.node # f => Count(new, f) = Count(fa, f)
  <1>0. /\ fa[p] # NULL /\ fa[p][d] = NULL
        /\ \A q \in Proc \ {p} : new[q] = fa[q]
        /\ new[p] # NULL /\ new[p][d] = v /\ v # NULL
        /\ \A e \in FD \ {d} : new[p][e] = fa[p][e]
    BY DEF Opens
  <1>1. CASE v.node = f
    <2>1. {d} \subseteq FD
      OBVIOUS
    <2>2. ASSUME NEW h \in Proc \X FD
          PROVE  /\ h \in HoldersIn(new, f) <=> h \in HoldersIn(fa, f) \/ (h[1] = p /\ h[2] \in {d})
                 /\ h \in HoldersIn(fa, f) => ~(h[1] = p /\ h[2] \in {d})
      <3>0. h[1] \in Proc /\ h[2] \in FD
        OBVIOUS
      <3>1. CASE h[1] # p
        BY <1>0, <3>0, <3>1 DEF HoldersIn
      <3>2. CASE h[1] = p /\ h[2] = d
        BY <1>0, <1>1, <3>0, <3>2 DEF HoldersIn
      <3>3. CASE h[1] = p /\ h[2] # d
        BY <1>0, <3>0, <3>3 DEF HoldersIn
      <3> QED  BY <3>1, <3>2, <3>3
    <2>3. Count(new, f) = Count(fa, f) + Cardinality({d})
      <3>1. More(new, fa, p, {d}, f)
        BY <2>2 DEF More
      <3> QED  BY <2>1, <3>1, CountMore
    <2>4. Cardinality({d}) = 1
      BY FS_Singleton
    <2> QED  BY <1>1, <2>3, <2>4
  <1>2. CASE v.node # f
    <2>2. ASSUME NEW h \in Proc \X FD
          PROVE  h \in HoldersIn(new, f) <=> h \in HoldersIn(fa, f)
      <3>0. h[1] \in Proc /\ h[2] \in FD
        OBVIOUS
      <3>1. CASE h[1] # p
        BY <1>0, <3>0, <3>1 DEF HoldersIn
      <3>2. CASE h[1] = p /\ h[2] = d
        BY <1>0, <1>2, <3>0, <3>2 DEF HoldersIn
      <3>3. CASE h[1] = p /\ h[2] # d
        BY <1>0, <3>0, <3>3 DEF HoldersIn
      <3> QED  BY <3>1, <3>2, <3>3
    <2>3. HoldersIn(new, f) = HoldersIn(fa, f)
      BY <2>2 DEF HoldersIn
    <2> QED  BY <1>2, <2>3, CountNat DEF Count
  <1> QED  BY <1>1, <1>2

\* The descriptors change, but not what they are open on.
SameNodes(fa, new) ==
    /\ \A q \in Proc : new[q] = NULL <=> fa[q] = NULL
    /\ \A q \in Proc, d \in FD : fa[q] # NULL =>
          (new[q][d] = NULL <=> fa[q][d] = NULL)
          /\ (fa[q][d] # NULL => new[q][d].node = fa[q][d].node)

LEMMA CountSame ==
    ASSUME NEW fa, NEW new, SameNodes(fa, new), NEW f
    PROVE  Count(new, f) = Count(fa, f)
  <1>1. ASSUME NEW h \in Proc \X FD
        PROVE  h \in HoldersIn(new, f) <=> h \in HoldersIn(fa, f)
    <2>0. h[1] \in Proc /\ h[2] \in FD
      OBVIOUS
    <2> QED  BY <2>0 DEF HoldersIn, SameNodes
  <1>2. HoldersIn(new, f) = HoldersIn(fa, f)
    BY <1>1 DEF HoldersIn
  <1> QED  BY <1>2 DEF Count

\* q gets the descriptors of p.
Copies(fa, new, p, q) ==
    /\ fa[p] # NULL /\ fa[q] = NULL
    /\ \A r \in Proc \ {q} : new[r] = fa[r]
    /\ new[q] = fa[p]

LEMMA CountCopies ==
    ASSUME NEW fa, NEW new, NEW p \in Proc, NEW q \in Proc, Copies(fa, new, p, q),
           NEW f, NEW T, T = OpenIn(fa, p, f)
    PROVE  Count(new, f) = Count(fa, f) + Cardinality(T) /\ Cardinality(T) \in Nat
  <1>1. T \subseteq FD
    BY DEF OpenIn
  <1>2. ASSUME NEW h \in Proc \X FD
        PROVE  /\ h \in HoldersIn(new, f) <=> h \in HoldersIn(fa, f) \/ (h[1] = q /\ h[2] \in T)
               /\ h \in HoldersIn(fa, f) => ~(h[1] = q /\ h[2] \in T)
    <2>0. h[1] \in Proc /\ h[2] \in FD
      OBVIOUS
    <2>1. CASE h[1] # q
      BY <2>0, <2>1 DEF HoldersIn, OpenIn, Copies
    <2>2. CASE h[1] = q
      BY <2>0, <2>2 DEF HoldersIn, OpenIn, Copies
    <2> QED  BY <2>1, <2>2
  <1>3. More(new, fa, q, T, f)
    BY <1>2 DEF More
  <1> QED  BY <1>1, <1>3, CountMore

\* What CountsExact says of one inode.
CountOK(x, n, l) ==
    IF x = NULL THEN n + l = 0
    ELSE x.open_count = n /\ x.ref_count = n + l /\ x.ref_count > 0

LEMMA CountsExactIs ==
    /\ CountsExact <=> \A f \in File : CountOK(node[f], Count(fd_array, f), lost[f])
    /\ CountsExact' <=> \A f \in File : CountOK(node'[f], Count(fd_array', f), lost'[f])
  <1>1. CountsExact <=> \A f \in File : CountOK(node[f], Count(fd_array, f), lost[f])
    BY HoldersCount DEF CountsExact, CountOK, Count
  <1>2. CountsExact' <=> \A f \in File : CountOK(node'[f], Count(fd_array', f), lost'[f])
    BY HoldersCount DEF CountsExact, CountOK, Count
  <1> QED  BY <1>1, <1>2

-----------------------------------------------------------------------------
(* The steps of Files.                                                     *)

Inv == TypeOK /\ CountsExact /\ Owned /\ Written_back

LEMMA InvInit == Init => Inv
  <1> SUFFICES ASSUME Init  PROVE Inv
    OBVIOUS
  <1>1. PICK p \in Proc : fd_array = [q \in Proc |-> IF q = p THEN Closed ELSE NULL]
    BY DEF Init
  <1>2. NewFile \in Dinodes
    BY Constants DEF NewFile, Dinodes
  <1>3. TypeOK
    <2>1. disk \in [Block -> [Cell -> Block \cup Data \cup {-1, 0}]]
      BY DEF Init, Stale
    <2>2. fd_array \in [Proc -> {NULL} \cup [FD -> {NULL} \cup OpenFiles]]
      BY <1>1 DEF Closed
    <2>3. freemap \subseteq Block /\ unused_blocks \in 0 .. NBLOCKS
      BY Constants DEF Init
    <2>5. panicked \in BOOLEAN
      BY DEF Init
    <2>4. dinode \in [File -> Dinodes] /\ node \in [File -> {NULL} \cup Inodes]
          /\ lost \in [File -> 0 .. MaxRefs]
      BY <1>2, FilesAssumption DEF Init
    <2> QED  BY <2>1, <2>2, <2>3, <2>4, <2>5 DEF TypeOK
  <1>4. CountsExact
    <2>1. ASSUME NEW f \in File  PROVE Count(fd_array, f) = 0
      <3>1. HoldersIn(fd_array, f) = {}
        BY <1>1 DEF HoldersIn, Closed
      <3> QED  BY <3>1, FS_EmptySet DEF Count
    <2> QED  BY <2>1, CountsExactIs DEF Init, CountOK
  <1>5. ASSUME NEW f \in File
        PROVE  Current(f) = NewFile /\ \A x \in Place : At(Current(f), disk, x) = 0
    <2>1. Current(f) = NewFile
      BY DEF Current, Init
    <2>2. NewFile.indirect = 0 /\ \A i \in 0 .. NDIRECT - 1 : NewFile.direct[i] = 0
      BY DEF NewFile
    <2>3. \A x \in Place : x # -1 /\ x < NDIRECT => x \in 0 .. NDIRECT - 1
      BY Constants DEF Place
    <2> QED  BY <2>1, <2>2, <2>3 DEF At
  <1>6. Owned
    <2>1. unused_blocks = Cardinality(freemap)
      BY Constants, FS_Interval DEF Init, Block
    <2>2. \A f \in File : Apart(Current(f), disk) /\ Filled(Current(f), disk)
      BY <1>5, Constants DEF Apart, Filled, NewFile
    <2>3. \A f \in File : \A b \in Block : ~Has(Current(f), disk, b)
      BY <1>5, Constants DEF Has, Block
    <2> QED  BY <2>1, <2>2, <2>3 DEF Owned, Init
  <1>7. Written_back
    BY DEF Written_back, Init
  <1> QED  BY <1>3, <1>4, <1>6, <1>7 DEF Inv

LEMMA SameCounts ==
    ASSUME CountsExact, node' = node, fd_array' = fd_array, lost' = lost
    PROVE  CountsExact'
  BY CountsExactIs

\* A step that changes nothing, or stops the machine.
LEMMA PanicStep ==
    ASSUME Inv, UNCHANGED <<sfsVars, dinode, node, fd_array, lost>>, panicked' \in BOOLEAN
    PROVE  Inv'
  <1>1. /\ freemap' = freemap /\ unused_blocks' = unused_blocks /\ disk' = disk
        /\ dinode' = dinode /\ node' = node /\ fd_array' = fd_array /\ lost' = lost
    BY DEF sfsVars
  <1>2. TypeOK'
    BY <1>1 DEF Inv, TypeOK
  <1>3. CountsExact'
    BY <1>1, SameCounts DEF Inv
  <1>4. Owned'
    BY <1>1 DEF Inv, Owned, Current
  <1>5. Written_back'
    BY <1>1 DEF Inv, Written_back
  <1> QED  BY <1>2, <1>3, <1>4, <1>5 DEF Inv

\* A descriptor fd of p becomes v: the tables stay tables.
LEMMA NewEntry ==
    ASSUME TypeOK, NEW p \in Proc, NEW fd \in FD, fd_array[p] # NULL,
           NEW v \in {NULL} \cup OpenFiles, fd_array' = [fd_array EXCEPT ![p][fd] = v]
    PROVE  /\ fd_array' \in Tables /\ fd_array'[p] # NULL /\ fd_array'[p][fd] = v
           /\ \A q \in Proc \ {p} : fd_array'[q] = fd_array[q]
           /\ \A e \in FD \ {fd} : fd_array'[p][e] = fd_array[p][e]
  <1>1. fd_array \in Tables /\ fd_array[p] \in [FD -> {NULL} \cup OpenFiles]
    BY DEF TypeOK, Tables
  <1>2. [fd_array[p] EXCEPT ![fd] = v] \in [FD -> {NULL} \cup OpenFiles]
    BY <1>1
  <1>3. fd_array' = [fd_array EXCEPT ![p] = [fd_array[p] EXCEPT ![fd] = v]]
    OBVIOUS
  <1>4. fd_array' \in Tables /\ fd_array'[p] = [fd_array[p] EXCEPT ![fd] = v]
        /\ \A q \in Proc \ {p} : fd_array'[q] = fd_array[q]
    BY <1>1, <1>2, <1>3 DEF Tables
  <1>5. fd_array'[p] # NULL
    BY <1>2, <1>4, NullAssumption
  <1> QED  BY <1>1, <1>4, <1>5

\* A call of Sfs through a descriptor that it opens, or that was open on f.
LEMMA CallStep ==
    ASSUME Inv, NEW p \in Proc, NEW fd \in FD, fd_array[p] # NULL,
           NEW f \in File, NEW n \in Inodes, n.din = Current(f), n.open_count > 0,
           ~n.dirty => Older(dinode[f], n.din),
           fd_array[p][fd] # NULL => fd_array[p][fd].node = f,
           fd_array[p][fd] = NULL => n.open_count = Count(fd_array, f) + 1,
           fd_array[p][fd] # NULL => n.open_count = Count(fd_array, f),
           n.ref_count = n.open_count + lost[f],
           NEW s, Kept(Call(n), s, Others(f)), Store(f, n, s),
           NEW v \in OpenFiles, v.node = f, fd_array' = [fd_array EXCEPT ![p][fd] = v],
           lost' = lost, panicked' = panicked
    PROVE  Inv'
  <1>1. TypeOK /\ CountsExact /\ Owned /\ Written_back
    BY DEF Inv
  <1>2. /\ Owned' /\ Written_back'
        /\ freemap' \subseteq Block /\ unused_blocks' \in 0 .. NBLOCKS /\ disk' \in Disks
        /\ dinode' \in [File -> Dinodes] /\ node' \in [File -> {NULL} \cup Inodes]
        /\ node'[f] \in Inodes
        /\ node'[f].open_count = n.open_count /\ node'[f].ref_count = n.ref_count
        /\ \A g \in File \ {f} : node'[g] = node[g]
    BY <1>1, StoreOwned
  <1>3. /\ fd_array' \in Tables /\ fd_array'[p] # NULL /\ fd_array'[p][fd] = v
        /\ \A q \in Proc \ {p} : fd_array'[q] = fd_array[q]
        /\ \A e \in FD \ {fd} : fd_array'[p][e] = fd_array[p][e]
    BY <1>1, NewEntry
  <1>4. TypeOK'
    BY <1>1, <1>2, <1>3 DEF TypeOK, Tables, Disks
  <1>5. v # NULL /\ node'[f] # NULL
    BY <1>2, NullAssumption
  <1>6. ASSUME NEW g \in File
        PROVE  /\ fd_array[p][fd] = NULL /\ g = f => Count(fd_array', g) = Count(fd_array, g) + 1
               /\ fd_array[p][fd] # NULL \/ g # f => Count(fd_array', g) = Count(fd_array, g)
    <2>1. CASE fd_array[p][fd] = NULL
      <3>1. Opens(fd_array, fd_array', p, fd, v)
        BY <1>3, <1>5, <2>1 DEF Opens
      <3>2. /\ v.node = g => Count(fd_array', g) = Count(fd_array, g) + 1
            /\ v.node # g => Count(fd_array', g) = Count(fd_array, g)
        BY <3>1, CountOpens
      <3> QED  BY <2>1, <3>2
    <2>2. CASE fd_array[p][fd] # NULL
      <3>1. SameNodes(fd_array, fd_array')
        BY <1>3, <1>5, <2>2 DEF SameNodes
      <3>2. Count(fd_array', g) = Count(fd_array, g)
        BY <3>1, CountSame
      <3> QED  BY <2>2, <3>2
    <2> QED  BY <2>1, <2>2
  <1>7. ASSUME NEW g \in File
        PROVE  CountOK(node'[g], Count(fd_array', g), lost'[g])
    <2>1. CASE g = f
      <3>1. Count(fd_array, f) \in Nat /\ lost[f] \in Nat /\ n.open_count \in Nat
        BY <1>1, CountNat, FilesAssumption DEF TypeOK, Inodes
      <3>2. Count(fd_array', f) = n.open_count
        <4>1. CASE fd_array[p][fd] = NULL
          <5>1. Count(fd_array', f) = Count(fd_array, f) + 1
            BY <1>6, <4>1
          <5> QED  BY <4>1, <5>1
        <4>2. CASE fd_array[p][fd] # NULL
          BY <1>6, <3>1, <4>2
        <4> QED  BY <4>1, <4>2
      <3>3. /\ node'[f] # NULL /\ node'[f].open_count = Count(fd_array', f)
            /\ node'[f].ref_count = Count(fd_array', f) + lost'[f] /\ node'[f].ref_count > 0
        BY <1>2, <1>5, <3>1, <3>2
      <3> QED  BY <2>1, <3>3 DEF CountOK
    <2>2. CASE g # f
      <3>1. Count(fd_array', g) = Count(fd_array, g)
        BY <1>6, <2>2
      <3>2. CountOK(node[g], Count(fd_array, g), lost[g])
        BY <1>1, CountsExactIs
      <3> QED  BY <1>2, <2>2, <3>1, <3>2
    <2> QED  BY <2>1, <2>2
  <1>8. CountsExact'
    BY <1>7, CountsExactIs
  <1> QED  BY <1>2, <1>4, <1>8 DEF Inv

\* sfs_load_inode.
LEMMA LoadInode ==
    ASSUME Inv, NEW f \in File, NEW n, n = sfs_load_inode(f)
    PROVE  /\ n \in Inodes /\ n.din = Current(f)
           /\ ~n.dirty => Older(dinode[f], n.din)
           /\ n.dirty => n.open_count > 0
           /\ n.open_count = Count(fd_array, f) /\ n.ref_count = Count(fd_array, f) + lost[f] + 1
           /\ Count(fd_array, f) \in Nat /\ lost[f] \in Nat
  <1>1. TypeOK /\ Written_back /\ CountOK(node[f], Count(fd_array, f), lost[f])
    BY CountsExactIs DEF Inv
  <1>2. Count(fd_array, f) \in Nat /\ lost[f] \in Nat /\ dinode[f] \in Dinodes
    BY <1>1, CountNat, FilesAssumption DEF TypeOK
  <1>3. CASE node[f] # NULL
    <2>1. node[f] \in Inodes /\ Current(f) = node[f].din
      BY <1>1, <1>3 DEF TypeOK, Current
    <2>2. n = [node[f] EXCEPT !.ref_count = @ + 1]
      BY <1>3 DEF sfs_load_inode
    <2>3. /\ n \in Inodes /\ n.din = node[f].din /\ n.dirty = node[f].dirty
          /\ n.open_count = node[f].open_count /\ n.ref_count = node[f].ref_count + 1
      BY <2>1, <2>2 DEF Inodes
    <2>4. node[f].open_count = Count(fd_array, f)
          /\ node[f].ref_count = Count(fd_array, f) + lost[f]
      BY <1>1, <1>3 DEF CountOK
    <2>5. /\ ~node[f].dirty => Older(dinode[f], node[f].din)
          /\ node[f].dirty => node[f].open_count > 0
      BY <1>1, <1>3 DEF Written_back
    <2> QED  BY <1>2, <2>1, <2>3, <2>4, <2>5
  <1>4. CASE node[f] = NULL
    <2>1. n = [din |-> dinode[f], dirty |-> FALSE, ref_count |-> 1, open_count |-> 0]
      BY <1>4 DEF sfs_load_inode
    <2>2. Current(f) = dinode[f]
      BY <1>4 DEF Current
    <2>3. Count(fd_array, f) = 0 /\ lost[f] = 0
      BY <1>1, <1>2, <1>4 DEF CountOK
    <2>4. n \in Inodes /\ n.din = dinode[f] /\ ~n.dirty /\ n.open_count = 0 /\ n.ref_count = 1
      BY <1>2, <2>1 DEF Inodes
    <2>5. Older(dinode[f], dinode[f])
      BY <1>2 DEF Older, Dinodes
    <2> QED  BY <1>2, <2>2, <2>3, <2>4, <2>5
  <1> QED  BY <1>3, <1>4

\* An open descriptor holds its inode.
LEMMA Held ==
    ASSUME Inv, NEW p \in Proc, NEW fd \in FD, IsOpen(p, fd),
           NEW f, f = fd_array[p][fd].node
    PROVE  /\ fd_array[p] # NULL /\ fd_array[p][fd] \in OpenFiles /\ f \in File
           /\ node[f] # NULL /\ node[f] \in Inodes /\ Current(f) = node[f].din
           /\ ~node[f].dirty => Older(dinode[f], node[f].din)
           /\ node[f].open_count = Count(fd_array, f) /\ node[f].open_count > 0
           /\ node[f].ref_count = node[f].open_count + lost[f]
           /\ Count(fd_array, f) \in Nat /\ lost[f] \in Nat
  <1>1. TypeOK /\ Written_back
    BY DEF Inv
  <1>2. fd_array[p] # NULL /\ fd_array[p][fd] # NULL
    BY DEF IsOpen
  <1>3. fd_array[p][fd] \in OpenFiles
    BY <1>1, <1>2 DEF TypeOK
  <1>4. f \in File
    BY <1>3 DEF OpenFiles
  <1>5. CountOK(node[f], Count(fd_array, f), lost[f])
    BY <1>4, CountsExactIs DEF Inv
  <1>6. Count(fd_array, f) \in Nat /\ lost[f] \in Nat
    BY <1>1, <1>4, CountNat, FilesAssumption DEF TypeOK
  <1>7. Count(fd_array, f) # 0
    <2>1. <<p, fd>> \in HoldersIn(fd_array, f)
      BY <1>2 DEF HoldersIn
    <2> QED  BY <2>1, CountNat, FS_EmptySet DEF Count
  <1>8. /\ node[f] # NULL /\ node[f].open_count = Count(fd_array, f)
        /\ node[f].ref_count = Count(fd_array, f) + lost[f]
    BY <1>5, <1>6, <1>7 DEF CountOK
  <1>9. node[f] \in Inodes /\ Current(f) = node[f].din
    BY <1>1, <1>4, <1>8 DEF TypeOK, Current
  <1>10. ~node[f].dirty => Older(dinode[f], node[f].din)
    BY <1>1, <1>4, <1>8 DEF Written_back
  <1> QED  BY <1>2, <1>3, <1>4, <1>6, <1>7, <1>8, <1>9, <1>10

\* A step that ends a call of Sfs with a failed assertion.
LEMMA FinishPanic ==
    ASSUME Inv, Panic  PROVE Inv'
  BY PanicStep DEF Panic

LEMMA OpenStep ==
    ASSUME Inv, NEW p \in Proc, NEW f \in File, NEW flags, file_open(p, f, flags)
    PROVE  Inv'
  <1> DEFINE m == sfs_load_inode(f)
             n == [m EXCEPT !.open_count = @ + 1]
             New(s) == [node |-> f,
                        pos |-> IF "O_APPEND" \in flags THEN s.din.size ELSE 0,
                        readable |-> "O_WRONLY" \notin flags,
                        writable |-> Writes(flags)]
             c == Call(n)
             s == IF Truncates(flags) THEN sfs_truncfile(c, 0) ELSE c
             v == New(s)
  <1>1. TypeOK /\ Owned
    BY DEF Inv
  <1>2. PICK fd \in FreeFd(p) : Finish(p, fd, f, n, s, New)
    BY DEF file_open
  <1>3. fd_array[p] # NULL /\ fd \in FD /\ fd_array[p][fd] = NULL
    BY DEF file_open, FreeFd
  <1>4. /\ m \in Inodes /\ m.din = Current(f)
        /\ ~m.dirty => Older(dinode[f], m.din)
        /\ m.open_count = Count(fd_array, f) /\ m.ref_count = Count(fd_array, f) + lost[f] + 1
        /\ Count(fd_array, f) \in Nat /\ lost[f] \in Nat
    BY LoadInode
  <1>5. CASE s.ret = "panic"
    BY <1>2, <1>5, FinishPanic DEF Finish
  <1>6. CASE s.ret # "panic"
    <2>1. /\ Store(f, n, s) /\ fd_array' = [fd_array EXCEPT ![p][fd] = v]
          /\ lost' = lost /\ panicked' = panicked
      BY <1>2, <1>6 DEF Finish
    <2> HIDE DEF m
    <2>2. /\ n \in Inodes /\ n.din = Current(f) /\ n.dirty = m.dirty
          /\ n.open_count = Count(fd_array, f) + 1 /\ n.ref_count = n.open_count + lost[f]
          /\ n.open_count > 0
      BY <1>4 DEF Inodes
    <2> HIDE DEF n
    <2>3. Sound(c, Others(f)) /\ Filled(c.din, c.disk) /\ c.ret = "ok"
      BY <1>1, <2>2, CallSound
    <2>4. Kept(c, s, Others(f))
      <3>1. CASE Truncates(flags)
        <4>1. s = sfs_truncfile(c, 0)
          BY <3>1
        <4>2. Serves(c, s, Others(f))
          BY <2>3, <4>1, Truncfile
        <4> QED  BY <1>6, <4>2 DEF Serves
      <3>2. CASE ~Truncates(flags)
        BY <2>3, <3>2, KeptReflexive
      <3> QED  BY <3>1, <3>2
    <2> HIDE DEF s
    <2>5. s.din.size \in 0 .. MAX_FILE_SIZE
      BY <2>4 DEF Kept, Sound, States, Dinodes
    <2>6. v \in OpenFiles /\ v.node = f
      BY <2>5, Constants DEF OpenFiles, Writes
    <2> HIDE DEF v
    <2> QED  BY <1>3, <1>4, <2>1, <2>2, <2>4, <2>6, CallStep
  <1> QED  BY <1>5, <1>6

\* What is counted as lost leaves room for one more.
LEMMA RoomForOne ==
    ASSUME TypeOK, Room(1), NEW f \in File
    PROVE  lost[f] + 1 \in 0 .. MaxRefs
  <1>1. lost \in [File -> 0 .. MaxRefs] /\ MaxRefs \in Nat /\ IsFiniteSet(File)
    BY FilesAssumption DEF TypeOK
  <1>2. \A g \in File : lost[g] \in Nat
    BY <1>1
  <1>3. SumFunctionOnSet(lost, File) \in Nat /\ lost[f] <= SumFunctionOnSet(lost, File)
    BY <1>1, <1>2, SumOfNats
  <1>4. SumFunction(lost) = SumFunctionOnSet(lost, File)
    BY <1>1 DEF SumFunction
  <1>5. Cardinality(Holders(File)) \in Nat
    <2>0. IsFiniteSet(FD)
      BY FilesAssumption, FS_Interval DEF FD
    <2>1. IsFiniteSet(Proc \X FD)
      BY <2>0, FilesAssumption, FS_Product
    <2>2. IsFiniteSet(Holders(File))
      BY <2>1, FS_Subset DEF Holders
    <2> QED  BY <2>2, FS_CardinalityType
  <1> QED  BY <1>1, <1>2, <1>3, <1>4, <1>5 DEF Room

LEMMA OpenExistsStep ==
    ASSUME Inv, NEW p \in Proc, NEW f \in File, NEW flags, file_open_exists(p, f, flags)
    PROVE  Inv'
  <1> DEFINE n == sfs_load_inode(f)
  <1>1. TypeOK /\ CountsExact /\ Owned /\ Written_back
    BY DEF Inv
  <1>2. /\ Room(1) /\ node' = [node EXCEPT ![f] = n] /\ lost' = [lost EXCEPT ![f] = @ + 1]
        /\ freemap' = freemap /\ unused_blocks' = unused_blocks /\ disk' = disk
        /\ dinode' = dinode /\ fd_array' = fd_array /\ panicked' = panicked
    BY DEF file_open_exists, sfsVars
  <1>3. /\ n \in Inodes /\ n.din = Current(f)
        /\ ~n.dirty => Older(dinode[f], n.din)
        /\ n.dirty => n.open_count > 0
        /\ n.open_count = Count(fd_array, f) /\ n.ref_count = Count(fd_array, f) + lost[f] + 1
        /\ Count(fd_array, f) \in Nat /\ lost[f] \in Nat
    BY LoadInode
  <1> HIDE DEF n
  <1>4. lost[f] + 1 \in 0 .. MaxRefs
    BY <1>1, <1>2, RoomForOne
  <1>5. /\ node' \in [File -> {NULL} \cup Inodes] /\ node'[f] = n
        /\ \A g \in File \ {f} : node'[g] = node[g]
        /\ lost' \in [File -> 0 .. MaxRefs] /\ lost'[f] = lost[f] + 1
        /\ \A g \in File \ {f} : lost'[g] = lost[g]
    BY <1>1, <1>2, <1>3, <1>4 DEF TypeOK
  <1>6. TypeOK'
    BY <1>1, <1>2, <1>5 DEF TypeOK
  <1>7. CountsExact'
    <2>1. ASSUME NEW g \in File  PROVE CountOK(node'[g], Count(fd_array', g), lost'[g])
      <3>1. CASE g = f
        <4>1. n # NULL
          BY <1>3, NullAssumption
        <4> QED  BY <1>2, <1>3, <1>5, <3>1, <4>1 DEF CountOK
      <3>2. CASE g # f
        <4>1. CountOK(node[g], Count(fd_array, g), lost[g])
          BY <1>1, CountsExactIs
        <4> QED  BY <1>2, <1>5, <3>2, <4>1
      <3> QED  BY <3>1, <3>2
    <2> QED  BY <2>1, CountsExactIs
  <1>8. \A g \in File : Current(g)' = Current(g)
    <2>1. n # NULL
      BY <1>3, NullAssumption
    <2> QED  BY <1>2, <1>3, <1>5, <2>1 DEF Current
  <1>9. Owned'
    BY <1>1, <1>2, <1>8 DEF Owned
  <1>10. Written_back'
    BY <1>1, <1>2, <1>3, <1>5 DEF Written_back
  <1> QED  BY <1>6, <1>7, <1>9, <1>10 DEF Inv

\* sysfile_read and sysfile_write.
LEMMA ReadWriteStep ==
    ASSUME Inv, NEW p \in Proc, NEW fd \in FD, IsOpen(p, fd), NEW len \in Lengths,
           NEW write \in BOOLEAN, NEW data, write => data \in Data,
           Io(p, fd, len, data, write)
    PROVE  Inv'
  <1> DEFINE file == fd_array[p][fd]
             f == file.node
             n == node[f]
             c == Call(n)
             s == sfs_io_nolock(c, file.pos, len, data, write)
             v == [file EXCEPT !.pos = @ + s.alen]
  <1>1. TypeOK /\ Owned
    BY DEF Inv
  <1>2. /\ fd_array[p] # NULL /\ fd_array[p][fd] \in OpenFiles /\ f \in File
        /\ node[f] # NULL /\ node[f] \in Inodes /\ Current(f) = node[f].din
        /\ ~node[f].dirty => Older(dinode[f], node[f].din)
        /\ node[f].open_count = Count(fd_array, f) /\ node[f].open_count > 0
        /\ node[f].ref_count = node[f].open_count + lost[f]
    BY Held
  <1>3. fd_array[p][fd] # NULL
    BY DEF IsOpen
  <1>4. CASE s.ret = "panic"
    BY <1>4, FinishPanic DEF Io, Finish
  <1>5. CASE s.ret # "panic"
    <2>1. /\ Store(f, n, s) /\ fd_array' = [fd_array EXCEPT ![p][fd] = v]
          /\ lost' = lost /\ panicked' = panicked
      BY <1>5 DEF Io, Finish
    <2>2. Sound(c, Others(f)) /\ Filled(c.din, c.disk) /\ c.ret = "ok"
      BY <1>1, <1>2, CallSound
    <2>3. file.pos \in 0 .. MAX_FILE_SIZE /\ len \in Nat
      BY <1>2, FilesAssumption, Constants DEF OpenFiles
    <2>4. s = sfs_io_nolock(c, file.pos, len, data, write)
      OBVIOUS
    <2> HIDE DEF s, c
    <2>5. Kept(c, s, Others(f)) /\ file.pos + s.alen \in 0 .. MAX_FILE_SIZE
      BY <1>5, <2>2, <2>3, <2>4, Io_nolock
    <2>6. v \in OpenFiles /\ v.node = f
      BY <1>2, <2>5 DEF OpenFiles
    <2> HIDE DEF v
    <2>7. Kept(Call(n), s, Others(f))
      BY <2>5 DEF c
    <2> HIDE DEF f
    <2> QED  BY <1>2, <1>3, <2>1, <2>6, <2>7, CallStep DEF f
  <1> QED  BY <1>4, <1>5

LEMMA SeekStep ==
    ASSUME Inv, NEW p \in Proc, NEW fd \in FD, NEW to \in Seeks,
           file_seek(p, fd, to[1], to[2])
    PROVE  Inv'
  <1> DEFINE file == fd_array[p][fd]
             f == file.node
             n == node[f]
             base == CASE to[2] = "LSEEK_SET" -> 0
                       [] to[2] = "LSEEK_CUR" -> file.pos
                       [] to[2] = "LSEEK_END" -> n.din.size
             pos == to[1] + base
             c == Call(n)
             s == sfs_tryseek(c, pos)
             v == IF s.ret = "ok" THEN [file EXCEPT !.pos = pos] ELSE file
  <1>1. TypeOK /\ Owned /\ IsOpen(p, fd)
    BY DEF Inv, file_seek
  <1>2. /\ fd_array[p] # NULL /\ fd_array[p][fd] \in OpenFiles /\ f \in File
        /\ node[f] # NULL /\ node[f] \in Inodes /\ Current(f) = node[f].din
        /\ ~node[f].dirty => Older(dinode[f], node[f].din)
        /\ node[f].open_count = Count(fd_array, f) /\ node[f].open_count > 0
        /\ node[f].ref_count = node[f].open_count + lost[f]
    BY <1>1, Held
  <1>3. fd_array[p][fd] # NULL
    BY <1>1 DEF IsOpen
  <1>4. CASE s.ret = "panic"
    BY <1>4, FinishPanic DEF file_seek, Finish
  <1>5. CASE s.ret # "panic"
    <2>1. /\ Store(f, n, s) /\ fd_array' = [fd_array EXCEPT ![p][fd] = v]
          /\ lost' = lost /\ panicked' = panicked
      BY <1>5 DEF file_seek, Finish
    <2>2. Sound(c, Others(f)) /\ Filled(c.din, c.disk) /\ c.ret = "ok"
      BY <1>1, <1>2, CallSound
    <2>3. pos \in Int
      <3>1. /\ to[1] \in Int
            /\ to[2] = "LSEEK_SET" \/ to[2] = "LSEEK_CUR" \/ to[2] = "LSEEK_END"
        BY FilesAssumption
      <3>2. file.pos \in Int /\ n.din.size \in Int
        BY <1>2 DEF OpenFiles, Inodes, Dinodes
      <3> HIDE DEF n, file
      <3>3. base \in Int
        <4>1. CASE to[2] = "LSEEK_SET"
          BY <4>1
        <4>2. CASE to[2] = "LSEEK_CUR"
          BY <3>2, <4>2
        <4>3. CASE to[2] = "LSEEK_END"
          BY <3>2, <4>3
        <4> QED  BY <3>1, <4>1, <4>2, <4>3
      <3> QED  BY <3>1, <3>3
    <2> HIDE DEF pos
    <2>4. s = sfs_tryseek(c, pos)
      OBVIOUS
    <2> HIDE DEF s, c
    <2>5. Serves(c, s, Others(f)) /\ (s.ret = "ok" => pos \in 0 .. MAX_FILE_SIZE)
      BY <2>2, <2>3, <2>4, Tryseek
    <2>6. v \in OpenFiles /\ v.node = f
      BY <1>2, <2>5 DEF OpenFiles
    <2> HIDE DEF v
    <2>7. Kept(Call(n), s, Others(f))
      BY <1>5, <2>5 DEF c, Serves
    <2> HIDE DEF f
    <2> QED  BY <1>2, <1>3, <2>1, <2>6, <2>7, CallStep DEF f
  <1> QED  BY <1>4, <1>5

\* What a step that leaves the disk blocks and the free map alone has to show.
LEMMA InodeStep ==
    ASSUME Inv, UNCHANGED sfsVars, dinode' \in [File -> Dinodes],
           node' \in [File -> {NULL} \cup Inodes], fd_array' \in Tables,
           lost' \in [File -> 0 .. MaxRefs], panicked' = panicked,
           \A f \in File : CountOK(node'[f], Count(fd_array', f), lost'[f]),
           \A f \in File : Older(Current(f)', Current(f)),
           Written_back'
    PROVE  Inv'
  <1>1. freemap' = freemap /\ unused_blocks' = unused_blocks /\ disk' = disk
    BY DEF sfsVars
  <1>2. TypeOK'
    BY <1>1 DEF Inv, TypeOK, Tables
  <1>3. CountsExact'
    BY CountsExactIs
  <1>4. \A f \in File : Current(f)' \in Dinodes
    BY <1>2 DEF TypeOK, Current, Inodes
  <1>5. Owned'
    BY <1>4, OwnedOlder DEF Inv
  <1> QED  BY <1>2, <1>3, <1>5 DEF Inv

LEMMA OlderReflexive ==
    ASSUME NEW d \in Dinodes  PROVE Older(d, d)
  BY DEF Older, Dinodes

LEMMA FsyncStep ==
    ASSUME Inv, NEW p \in Proc, NEW fd \in FD, file_fsync(p, fd)
    PROVE  Inv'
  <1> DEFINE f == fd_array[p][fd].node
             x == [node[f] EXCEPT !.dirty = FALSE]
  <1>1. TypeOK /\ Written_back /\ IsOpen(p, fd)
    BY DEF Inv, file_fsync
  <1>2. f \in File /\ node[f] # NULL /\ node[f] \in Inodes
    BY <1>1, Held
  <1>3. /\ UNCHANGED sfsVars /\ fd_array' = fd_array /\ lost' = lost /\ panicked' = panicked
        /\ dinode' = [dinode EXCEPT ![f] = node[f].din]
        /\ node' = [node EXCEPT ![f] = x]
    BY DEF file_fsync
  <1> HIDE DEF f
  <1>4. /\ x \in Inodes /\ x.din = node[f].din /\ ~x.dirty /\ node[f].din \in Dinodes
        /\ x.open_count = node[f].open_count /\ x.ref_count = node[f].ref_count
    BY <1>2 DEF Inodes
  <1> HIDE DEF x
  <1>5. x # NULL
    BY <1>4, NullAssumption
  <1>6. /\ dinode' \in [File -> Dinodes] /\ node' \in [File -> {NULL} \cup Inodes]
        /\ fd_array' \in Tables /\ lost' \in [File -> 0 .. MaxRefs]
        /\ node'[f] = x /\ dinode'[f] = x.din
        /\ \A g \in File \ {f} : node'[g] = node[g] /\ dinode'[g] = dinode[g]
    BY <1>1, <1>2, <1>3, <1>4 DEF TypeOK, Tables
  <1>7. ASSUME NEW g \in File  PROVE CountOK(node'[g], Count(fd_array', g), lost'[g])
    <2>1. CountOK(node[g], Count(fd_array, g), lost[g])
      BY CountsExactIs DEF Inv
    <2> QED  BY <1>2, <1>3, <1>4, <1>5, <1>6, <2>1 DEF CountOK
  <1>8. ASSUME NEW g \in File  PROVE Older(Current(g)', Current(g))
    <2>1. Current(g)' = Current(g)
      BY <1>2, <1>4, <1>5, <1>6 DEF Current
    <2> QED  BY <1>1, <2>1, OlderReflexive, CurrentType
  <1>9. Written_back'
    BY <1>1, <1>4, <1>6, OlderReflexive DEF Written_back
  <1> QED  BY <1>3, <1>6, <1>7, <1>8, <1>9, InodeStep

\* fd_array_dup for m descriptors more.
LEMMA SharedNode ==
    ASSUME Inv, NEW f \in File, NEW m \in Nat, m # 0 => node[f] # NULL, NEW x, x = Shared(f, m)
    PROVE  /\ CountOK(x, Count(fd_array, f) + m, lost[f])
           /\ x \in {NULL} \cup Inodes
           /\ x = NULL <=> node[f] = NULL
           /\ x # NULL => /\ x.din = node[f].din /\ x.dirty = node[f].dirty
                          /\ x.open_count \in Nat /\ node[f].open_count \in Nat
                          /\ x.open_count >= node[f].open_count
  <1>1. TypeOK /\ CountOK(node[f], Count(fd_array, f), lost[f])
    BY CountsExactIs DEF Inv
  <1>2. Count(fd_array, f) \in Nat /\ lost[f] \in Nat /\ node[f] \in {NULL} \cup Inodes
    BY <1>1, CountNat, FilesAssumption DEF TypeOK
  <1>3. CASE m = 0
    <2>1. x = node[f] /\ Count(fd_array, f) + m = Count(fd_array, f)
      BY <1>2, <1>3 DEF Shared
    <2> QED  BY <1>1, <1>2, <2>1 DEF Inodes
  <1>4. CASE m # 0
    <2>1. node[f] \in Inodes /\ node[f] # NULL
      BY <1>2, <1>4
    <2>2. x = [node[f] EXCEPT !.ref_count = @ + m, !.open_count = @ + m]
      BY <1>4 DEF Shared
    <2>3. /\ x \in Inodes /\ x.din = node[f].din /\ x.dirty = node[f].dirty
          /\ x.open_count = node[f].open_count + m /\ x.ref_count = node[f].ref_count + m
          /\ node[f].open_count \in Nat /\ node[f].ref_count \in Nat
      <3>1. node[f].open_count + m \in Nat /\ node[f].ref_count + m \in Nat
            /\ node[f].open_count \in Nat /\ node[f].ref_count \in Nat
        BY <2>1 DEF Inodes
      <3>2. /\ x.din = node[f].din /\ x.dirty = node[f].dirty
            /\ x.open_count = node[f].open_count + m /\ x.ref_count = node[f].ref_count + m
        BY <2>1, <2>2 DEF Inodes
      <3>3. x \in Inodes
        BY <2>1, <2>2, <3>1 DEF Inodes
      <3> QED  BY <3>1, <3>2, <3>3
    <2>4. x # NULL
      BY <2>3, NullAssumption
    <2> HIDE <2>2
    <2> QED  BY <1>1, <1>2, <2>1, <2>3, <2>4 DEF CountOK
  <1> QED  BY <1>3, <1>4

LEMMA OpenInIs ==
    ASSUME NEW p, NEW f  PROVE OpenOn(p, {f}) = OpenIn(fd_array, p, f)
  BY DEF OpenOn, IsOpen, OpenIn

LEMMA DupStep ==
    ASSUME Inv, NEW p \in Proc, NEW fd1 \in FD, NEW fd2 \in FD, file_dup(p, fd1, fd2)
    PROVE  Inv'
  <1> DEFINE v == fd_array[p][fd1]
             f == v.node
             x == Shared(f, 1)
  <1>1. TypeOK /\ Written_back /\ IsOpen(p, fd1)
    BY DEF Inv, file_dup
  <1>2. fd_array[p] # NULL /\ v \in OpenFiles /\ f \in File /\ node[f] # NULL
    BY <1>1, Held
  <1>3. /\ UNCHANGED sfsVars /\ dinode' = dinode /\ lost' = lost /\ panicked' = panicked
        /\ node' = [node EXCEPT ![f] = x] /\ fd_array' = [fd_array EXCEPT ![p][fd2] = v]
        /\ fd_array[p][fd2] = NULL
    BY DEF file_dup
  <1> HIDE DEF f, v
  <1>4. /\ CountOK(x, Count(fd_array, f) + 1, lost[f]) /\ x \in {NULL} \cup Inodes /\ x # NULL
        /\ x.din = node[f].din /\ x.dirty = node[f].dirty
        /\ x.open_count \in Nat /\ node[f].open_count \in Nat
        /\ x.open_count >= node[f].open_count
    BY <1>2, SharedNode
  <1> HIDE DEF x
  <1>5. /\ node' \in [File -> {NULL} \cup Inodes] /\ node'[f] = x
        /\ \A g \in File \ {f} : node'[g] = node[g]
        /\ dinode' \in [File -> Dinodes] /\ lost' \in [File -> 0 .. MaxRefs]
    BY <1>1, <1>2, <1>3, <1>4 DEF TypeOK
  <1>6. /\ fd_array' \in Tables /\ fd_array'[p] # NULL /\ fd_array'[p][fd2] = v
        /\ \A q \in Proc \ {p} : fd_array'[q] = fd_array[q]
        /\ \A e \in FD \ {fd2} : fd_array'[p][e] = fd_array[p][e]
    BY <1>1, <1>2, <1>3, NewEntry
  <1>7. Opens(fd_array, fd_array', p, fd2, v)
    BY <1>2, <1>3, <1>6, NullAssumption DEF Opens
  <1>8. ASSUME NEW g \in File
        PROVE  /\ g = f => Count(fd_array', g) = Count(fd_array, g) + 1
               /\ g # f => Count(fd_array', g) = Count(fd_array, g)
    <2>1. /\ v.node = g => Count(fd_array', g) = Count(fd_array, g) + 1
          /\ v.node # g => Count(fd_array', g) = Count(fd_array, g)
      BY <1>7, CountOpens
    <2> QED  BY <2>1 DEF f
  <1>9. ASSUME NEW g \in File  PROVE CountOK(node'[g], Count(fd_array', g), lost'[g])
    <2>1. CountOK(node[g], Count(fd_array, g), lost[g])
      BY CountsExactIs DEF Inv
    <2>2. CASE g = f
      BY <1>3, <1>4, <1>5, <1>8, <2>2
    <2>3. CASE g # f
      BY <1>3, <1>5, <1>8, <2>1, <2>3
    <2> QED  BY <2>2, <2>3
  <1>10. ASSUME NEW g \in File  PROVE Older(Current(g)', Current(g))
    <2>1. Current(g)' = Current(g)
      BY <1>2, <1>3, <1>4, <1>5 DEF Current
    <2> QED  BY <1>1, <2>1, OlderReflexive, CurrentType
  <1>11. Written_back'
    <2>1. /\ ~node[f].dirty => Older(dinode[f], node[f].din)
          /\ node[f].dirty => node[f].open_count > 0
      BY <1>1, <1>2 DEF Written_back
    <2>2. x.dirty => x.open_count > 0
      BY <1>4, <2>1
    <2> QED  BY <1>1, <1>3, <1>4, <1>5, <2>1, <2>2 DEF Written_back
  <1> QED  BY <1>3, <1>5, <1>6, <1>9, <1>10, <1>11, InodeStep

\* dup_files, from copy_files of do_fork.
LEMMA DupFilesStep ==
    ASSUME Inv, NEW p \in Proc, NEW q \in Proc, dup_files(p, q)
    PROVE  Inv'
  <1>1. TypeOK /\ Written_back
    BY DEF Inv
  <1>2. /\ UNCHANGED sfsVars /\ dinode' = dinode /\ lost' = lost /\ panicked' = panicked
        /\ node' = [f \in File |-> Shared(f, Cardinality(OpenOn(p, {f})))]
        /\ fd_array' = [fd_array EXCEPT ![q] = fd_array[p]]
        /\ fd_array[p] # NULL /\ fd_array[q] = NULL
    BY DEF dup_files
  <1>3. /\ fd_array' \in Tables /\ fd_array'[q] = fd_array[p]
        /\ \A r \in Proc \ {q} : fd_array'[r] = fd_array[r]
        /\ dinode' \in [File -> Dinodes] /\ lost' \in [File -> 0 .. MaxRefs]
    BY <1>1, <1>2 DEF TypeOK, Tables
  <1>4. ASSUME NEW f \in File
        PROVE  /\ CountOK(node'[f], Count(fd_array', f), lost'[f])
               /\ node'[f] \in {NULL} \cup Inodes
               /\ node'[f] = NULL <=> node[f] = NULL
               /\ node'[f] # NULL => /\ node'[f].din = node[f].din
                                     /\ node'[f].dirty = node[f].dirty
                                     /\ node[f].dirty => node'[f].open_count > 0
    <2> DEFINE T == OpenIn(fd_array, p, f)
               m == Cardinality(T)
    <2>1. node'[f] = Shared(f, m)
      BY <1>2, OpenInIs
    <2>2. T = OpenIn(fd_array, p, f)
      OBVIOUS
    <2> HIDE DEF T
    <2>3. Count(fd_array', f) = Count(fd_array, f) + m /\ m \in Nat
      <3>1. Copies(fd_array, fd_array', p, q)
        BY <1>2, <1>3 DEF Copies
      <3> QED  BY <2>2, <3>1, CountCopies
    <2>4. ASSUME m # 0  PROVE node[f] # NULL
      <3>1. T # {}
        BY <2>4, FS_EmptySet
      <3>2. PICK fd \in FD : fd_array[p] # NULL /\ fd_array[p][fd] # NULL
                             /\ fd_array[p][fd].node = f
        BY <3>1 DEF T, OpenIn
      <3> QED  BY <3>2, Held DEF IsOpen
    <2> HIDE DEF m
    <2>5. /\ CountOK(node'[f], Count(fd_array, f) + m, lost[f])
          /\ node'[f] \in {NULL} \cup Inodes
          /\ node'[f] = NULL <=> node[f] = NULL
          /\ node'[f] # NULL => /\ node'[f].din = node[f].din /\ node'[f].dirty = node[f].dirty
                                /\ node'[f].open_count \in Nat /\ node[f].open_count \in Nat
                                /\ node'[f].open_count >= node[f].open_count
      BY <2>1, <2>3, <2>4, SharedNode
    <2>6. node[f] # NULL /\ node[f].dirty => node[f].open_count > 0
      BY <1>1 DEF Written_back
    <2> QED  BY <1>2, <2>3, <2>5, <2>6
  <1>5. node' \in [File -> {NULL} \cup Inodes]
    <2>1. DOMAIN node' = File /\ node' = [f \in File |-> node'[f]]
      BY <1>2
    <2> QED  BY <1>4, <2>1
  <1>6. ASSUME NEW g \in File  PROVE Older(Current(g)', Current(g))
    <2>1. Current(g)' = Current(g)
      BY <1>2, <1>4 DEF Current
    <2> QED  BY <1>1, <2>1, OlderReflexive, CurrentType
  <1>7. Written_back'
    BY <1>1, <1>2, <1>4 DEF Written_back
  <1> QED  BY <1>2, <1>3, <1>4, <1>5, <1>6, <1>7, InodeStep

-----------------------------------------------------------------------------
(* Closing.                                                                *)

\* vfs_close for m descriptors of f.
LEMMA PutNode ==
    ASSUME Inv, NEW f \in File, NEW m \in Nat, NEW k \in Nat, Count(fd_array, f) = k + m,
           NEW x, x = IF m = 0 THEN node[f]
                      ELSE IF node[f].ref_count = m THEN NULL ELSE Put(node[f], m),
           NEW d, d = IF Written(f, m) THEN node[f].din ELSE dinode[f]
    PROVE  /\ x \in {NULL} \cup Inodes /\ d \in Dinodes
           /\ CountOK(x, k, lost[f])
           /\ x # NULL => /\ ~x.dirty => Older(d, x.din)
                          /\ x.dirty => x.open_count > 0
           /\ Older(IF x # NULL THEN x.din ELSE d, Current(f))
  <1>1. TypeOK /\ CountOK(node[f], Count(fd_array, f), lost[f]) /\ Written_back
    BY CountsExactIs DEF Inv
  <1>2. /\ lost[f] \in Nat /\ node[f] \in {NULL} \cup Inodes /\ dinode[f] \in Dinodes
        /\ Current(f) \in Dinodes
    BY <1>1, FilesAssumption, CurrentType DEF TypeOK
  <1>3. CASE m = 0
    <2>1. x = node[f] /\ d = dinode[f] /\ Count(fd_array, f) = k
      BY <1>3 DEF Written
    <2>2. Current(f) = IF x # NULL THEN x.din ELSE d
      BY <2>1 DEF Current
    <2> QED  BY <1>1, <1>2, <2>1, <2>2, OlderReflexive DEF Written_back
  <1>4. CASE m # 0
    <2>1. node[f] # NULL
      <3>1. Count(fd_array, f) + lost[f] # 0
        BY <1>2, <1>4
      <3> QED  BY <1>1, <3>1 DEF CountOK
    <2>2. node[f] \in Inodes /\ Current(f) = node[f].din
      BY <1>2, <2>1 DEF Current
    <2>3. node[f].open_count = k + m /\ node[f].ref_count = k + m + lost[f]
      BY <1>1, <2>1 DEF CountOK
    <2>4. /\ ~node[f].dirty => Older(dinode[f], node[f].din)
          /\ node[f].dirty \in BOOLEAN /\ node[f].din \in Dinodes
      BY <1>1, <2>1, <2>2 DEF Written_back, Inodes
    <2>5. Written(f, m) <=> k = 0 /\ node[f].dirty
      BY <1>4, <2>3 DEF Written
    <2>6. /\ k = 0 /\ node[f].dirty => d = node[f].din
          /\ k # 0 \/ ~node[f].dirty => d = dinode[f]
      BY <2>5
    <2>7. d \in Dinodes
      BY <1>2, <2>4, <2>6
    <2>8. k = 0 => Older(d, node[f].din)
      BY <2>4, <2>6, OlderReflexive
    <2>9. CASE k + lost[f] = 0
      <3>1. x = NULL /\ k = 0
        BY <1>2, <1>4, <2>3, <2>9
      <3> QED  BY <2>2, <2>7, <2>8, <2>9, <3>1 DEF CountOK
    <2>10. CASE k + lost[f] # 0
      <3>1. x = Put(node[f], m)
        BY <1>2, <1>4, <2>3, <2>10
      <3>2. /\ x = [node[f] EXCEPT !.open_count = node[f].open_count - m,
                                   !.ref_count = node[f].ref_count - m,
                                   !.dirty = node[f].dirty /\ node[f].open_count # m]
        BY <3>1 DEF Put
      <3>3. /\ x.open_count = node[f].open_count - m /\ x.ref_count = node[f].ref_count - m
            /\ x.dirty = (node[f].dirty /\ node[f].open_count # m) /\ x.din = node[f].din
        BY <2>2, <3>2 DEF Inodes
      <3>4. x \in Inodes
        <4>1. node[f].open_count - m \in Nat /\ node[f].ref_count - m \in Nat
          BY <1>2, <2>3
        <4> QED  BY <2>2, <3>2, <4>1 DEF Inodes
      <3>5. x # NULL
        BY <3>4, NullAssumption
      <3>6. x.open_count = k /\ x.ref_count = k + lost[f]
        BY <1>2, <2>3, <3>3
      <3>7. CountOK(x, k, lost[f])
        BY <1>2, <2>10, <3>5, <3>6 DEF CountOK
      <3>8. x.dirty <=> node[f].dirty /\ k # 0
        <4>1. node[f].open_count # m <=> k # 0
          BY <2>3
        <4>2. x.dirty = (node[f].dirty /\ node[f].open_count # m)
          BY <3>3
        <4> QED  BY <4>1, <4>2, Zenon
      <3>9. /\ ~x.dirty => Older(d, x.din)
            /\ x.dirty => x.open_count > 0
        BY <2>4, <2>6, <2>8, <3>3, <3>6, <3>8
      <3>10. Older(x.din, Current(f))
        BY <2>2, <2>4, <3>3, OlderReflexive
      <3> QED  BY <2>7, <3>4, <3>5, <3>7, <3>9, <3>10
    <2> QED  BY <2>9, <2>10
  <1> QED  BY <1>3, <1>4

\* The descriptors D of p are closed.
LEMMA CloseStep ==
    ASSUME Inv, NEW p \in Proc, NEW D, D \subseteq FD, CloseAll(p, D),
           fd_array' \in Tables, Closes(fd_array, fd_array', p, D),
           UNCHANGED sfsVars, lost' = lost, panicked' = panicked
    PROVE  Inv'
  <1> DEFINE T(f) == D \cap OpenIn(fd_array, p, f)
             n(f) == Cardinality(T(f))
  <1>1. /\ node' = [f \in File |->
                       IF n(f) = 0 THEN node[f]
                       ELSE IF node[f].ref_count = n(f) THEN NULL ELSE Put(node[f], n(f))]
        /\ dinode' = [f \in File |-> IF Written(f, n(f)) THEN node[f].din ELSE dinode[f]]
    BY OpenInIs DEF CloseAll
  <1>2. ASSUME NEW f \in File
        PROVE  Count(fd_array, f) = Count(fd_array', f) + n(f) /\ n(f) \in Nat
    BY CountCloses
  <1> HIDE DEF n
  <1>3. ASSUME NEW f \in File
        PROVE  /\ node'[f] \in {NULL} \cup Inodes /\ dinode'[f] \in Dinodes
               /\ CountOK(node'[f], Count(fd_array', f), lost'[f])
               /\ node'[f] # NULL => /\ ~node'[f].dirty => Older(dinode'[f], node'[f].din)
                                     /\ node'[f].dirty => node'[f].open_count > 0
               /\ Older(Current(f)', Current(f))
    <2> DEFINE x == node'[f]
               d == dinode'[f]
               m == n(f)
               k == Count(fd_array', f)
    <2>1. x = IF m = 0 THEN node[f]
              ELSE IF node[f].ref_count = m THEN NULL ELSE Put(node[f], m)
      BY <1>1
    <2>2. d = IF Written(f, m) THEN node[f].din ELSE dinode[f]
      BY <1>1
    <2>3. m \in Nat /\ k \in Nat /\ Count(fd_array, f) = k + m
      BY <1>2, CountNat
    <2>4. Current(f)' = IF x # NULL THEN x.din ELSE d
      BY DEF Current
    <2> HIDE DEF x, d, m, k
    <2>5. /\ x \in {NULL} \cup Inodes /\ d \in Dinodes
          /\ CountOK(x, k, lost[f])
          /\ x # NULL => /\ ~x.dirty => Older(d, x.din)
                         /\ x.dirty => x.open_count > 0
          /\ Older(IF x # NULL THEN x.din ELSE d, Current(f))
      BY <2>1, <2>2, <2>3, PutNode
    <2> QED  BY <2>4, <2>5 DEF x, d, k
  <1>4. node' \in [File -> {NULL} \cup Inodes] /\ dinode' \in [File -> Dinodes]
    <2>1. node' = [f \in File |-> node'[f]] /\ dinode' = [f \in File |-> dinode'[f]]
      BY <1>1
    <2> QED  BY <1>3, <2>1
  <1>5. lost' \in [File -> 0 .. MaxRefs]
    BY DEF Inv, TypeOK
  <1>6. Written_back'
    BY <1>3 DEF Written_back
  <1> QED  BY <1>3, <1>4, <1>5, <1>6, InodeStep

LEMMA FileCloseStep ==
    ASSUME Inv, NEW p \in Proc, NEW fd \in FD, file_close(p, fd)
    PROVE  Inv'
  <1>1. TypeOK /\ fd_array[p] # NULL
    BY DEF Inv, file_close, IsOpen
  <1>2. /\ CloseAll(p, {fd}) /\ fd_array' = [fd_array EXCEPT ![p][fd] = NULL]
        /\ UNCHANGED sfsVars /\ lost' = lost /\ panicked' = panicked
    BY DEF file_close
  <1>3. /\ fd_array' \in Tables /\ fd_array'[p] # NULL /\ fd_array'[p][fd] = NULL
        /\ \A q \in Proc \ {p} : fd_array'[q] = fd_array[q]
        /\ \A e \in FD \ {fd} : fd_array'[p][e] = fd_array[p][e]
    BY <1>1, <1>2, NewEntry
  <1>4. Closes(fd_array, fd_array', p, {fd}) /\ {fd} \subseteq FD
    BY <1>1, <1>3 DEF Closes
  <1> QED  BY <1>2, <1>3, <1>4, CloseStep

\* files_closeall, from do_execve.
LEMMA CloseallStep ==
    ASSUME Inv, NEW p \in Proc, files_closeall(p)
    PROVE  Inv'
  <1> DEFINE D == Skipped .. FILES_STRUCT_NENTRY - 1
             v == [fd \in FD |-> IF fd < Skipped THEN fd_array[p][fd] ELSE NULL]
  <1>1. TypeOK /\ fd_array[p] # NULL
    BY DEF Inv, files_closeall
  <1>2. /\ CloseAll(p, D) /\ fd_array' = [fd_array EXCEPT ![p] = v]
        /\ UNCHANGED sfsVars /\ lost' = lost /\ panicked' = panicked
    BY DEF files_closeall
  <1>3. D \subseteq FD /\ \A d \in FD : d \in D <=> ~(d < Skipped)
    BY FilesAssumption DEF FD
  <1>4. v \in [FD -> {NULL} \cup OpenFiles]
    BY <1>1 DEF TypeOK
  <1>5. /\ fd_array' \in Tables /\ fd_array'[p] = v
        /\ \A q \in Proc \ {p} : fd_array'[q] = fd_array[q]
    BY <1>1, <1>2, <1>4 DEF TypeOK, Tables
  <1>6. v # NULL
    BY <1>4, NullAssumption
  <1>7. Closes(fd_array, fd_array', p, D)
    BY <1>1, <1>3, <1>5, <1>6 DEF Closes
  <1> HIDE DEF D
  <1> QED  BY <1>2, <1>3, <1>5, <1>7, CloseStep

\* files_destroy, from put_files of do_exit.
LEMMA DestroyStep ==
    ASSUME Inv, NEW p \in Proc, files_destroy(p)
    PROVE  Inv'
  <1>1. TypeOK /\ fd_array[p] # NULL
    BY DEF Inv, files_destroy
  <1>2. /\ CloseAll(p, FD) /\ fd_array' = [fd_array EXCEPT ![p] = NULL]
        /\ UNCHANGED sfsVars /\ lost' = lost /\ panicked' = panicked
    BY DEF files_destroy
  <1>3. /\ fd_array' \in Tables /\ fd_array'[p] = NULL
        /\ \A q \in Proc \ {p} : fd_array'[q] = fd_array[q]
    BY <1>1, <1>2 DEF TypeOK, Tables
  <1>4. Closes(fd_array, fd_array', p, FD) /\ FD \subseteq FD
    BY <1>1, <1>3 DEF Closes
  <1> QED  BY <1>2, <1>3, <1>4, CloseStep

\* fs_cleanup, and the next boot.
LEMMA RebootStep ==
    ASSUME Inv, NEW p \in Proc, Reboot(p)
    PROVE  Inv'
  <1>1. TypeOK /\ Written_back /\ unused_blocks = Cardinality(freemap)
    BY DEF Inv, Owned
  <1>2. /\ dinode' = [f \in File |->
                         IF node[f] # NULL /\ node[f].dirty THEN node[f].din ELSE dinode[f]]
        /\ node' = [f \in File |-> NULL] /\ lost' = [f \in File |-> 0]
        /\ fd_array' = [fd_array EXCEPT ![p] = Closed]
        /\ UNCHANGED sfsVars /\ panicked' = panicked
        /\ \A q \in Proc : fd_array[q] = NULL
    BY <1>1 DEF Reboot
  <1>3. Closed \in [FD -> {NULL} \cup OpenFiles] /\ \A fd \in FD : Closed[fd] = NULL
    BY DEF Closed
  <1>4. /\ fd_array' \in Tables /\ fd_array'[p] = Closed
        /\ \A q \in Proc \ {p} : fd_array'[q] = NULL
    BY <1>1, <1>2, <1>3 DEF TypeOK, Tables
  <1>5. lost' \in [File -> 0 .. MaxRefs] /\ node' \in [File -> {NULL} \cup Inodes]
    BY <1>2, FilesAssumption
  <1>6. ASSUME NEW f \in File
        PROVE  /\ node'[f] = NULL /\ lost'[f] = 0
               /\ Count(fd_array', f) = 0 /\ Count(fd_array, f) = 0
    <2>1. HoldersIn(fd_array', f) = {}
      BY <1>3, <1>4 DEF HoldersIn
    <2>2. HoldersIn(fd_array, f) = {}
      BY <1>2 DEF HoldersIn
    <2> QED  BY <1>2, <2>1, <2>2, FS_EmptySet DEF Count
  <1>7. ASSUME NEW f \in File  PROVE CountOK(node'[f], Count(fd_array', f), lost'[f])
    BY <1>6 DEF CountOK
  <1>8. ASSUME NEW f \in File
        PROVE  Older(Current(f)', Current(f)) /\ dinode'[f] = dinode[f]
    <2>1. node[f] # NULL => node[f].open_count = 0
      BY <1>6, CountsExactIs DEF Inv, CountOK
    <2>2. node[f] # NULL => ~node[f].dirty /\ Older(dinode[f], node[f].din)
      BY <1>1, <2>1 DEF Written_back
    <2>3. dinode'[f] = dinode[f]
      BY <1>2, <2>2
    <2>4. dinode[f] \in Dinodes /\ Current(f)' = dinode[f]
      BY <1>1, <1>6, <2>3 DEF TypeOK, Current
    <2>5. CASE node[f] = NULL
      BY <2>4, <2>5, OlderReflexive, <2>3 DEF Current
    <2>6. CASE node[f] # NULL
      BY <2>2, <2>3, <2>4, <2>6 DEF Current
    <2> QED  BY <2>3, <2>5, <2>6
  <1>9. dinode' \in [File -> Dinodes]
    <2>1. dinode' = [f \in File |-> dinode'[f]]
      BY <1>2
    <2> QED  BY <1>1, <1>8, <2>1 DEF TypeOK
  <1>10. Written_back'
    BY <1>6 DEF Written_back
  <1> QED  BY <1>2, <1>4, <1>5, <1>7, <1>8, <1>9, <1>10, InodeStep

LEMMA ProcNextKeepsInv ==
    ASSUME Inv, NEW p \in Proc, ProcNext(p)
    PROVE  Inv'
  <1>1. CASE \E f \in File, flags \in OpenFlags :
                file_open(p, f, flags) \/ file_open_exists(p, f, flags)
    BY <1>1, OpenStep, OpenExistsStep
  <1>2. ASSUME NEW fd \in FD,
               \/ file_close(p, fd) \/ file_fsync(p, fd)
               \/ \E len \in Lengths :
                     file_read(p, fd, len) \/ \E data \in Data : file_write(p, fd, len, data)
               \/ \E to \in Seeks : file_seek(p, fd, to[1], to[2])
               \/ \E fd2 \in FD : file_dup(p, fd, fd2)
        PROVE  Inv'
    <2>1. CASE file_close(p, fd)
      BY <2>1, FileCloseStep
    <2>2. CASE file_fsync(p, fd)
      BY <2>2, FsyncStep
    <2>3. ASSUME NEW len \in Lengths, file_read(p, fd, len)  PROVE Inv'
      <3>1. IsOpen(p, fd) /\ Io(p, fd, len, 0, FALSE)
        BY <2>3 DEF file_read
      <3> QED  BY <3>1, ReadWriteStep
    <2>4. ASSUME NEW len \in Lengths, NEW data \in Data, file_write(p, fd, len, data)
          PROVE  Inv'
      <3>1. IsOpen(p, fd) /\ Io(p, fd, len, data, TRUE)
        BY <2>4 DEF file_write
      <3> QED  BY <3>1, ReadWriteStep
    <2>5. ASSUME NEW to \in Seeks, file_seek(p, fd, to[1], to[2])  PROVE Inv'
      BY <2>5, SeekStep
    <2>6. ASSUME NEW fd2 \in FD, file_dup(p, fd, fd2)  PROVE Inv'
      BY <2>6, DupStep
    <2> QED  BY <1>2, <2>1, <2>2, <2>3, <2>4, <2>5, <2>6
  <1>3. CASE files_closeall(p) \/ files_destroy(p)
    BY <1>3, CloseallStep, DestroyStep
  <1>4. CASE \E q \in Proc : dup_files(p, q)
    BY <1>4, DupFilesStep
  <1>5. CASE Reboot(p)
    BY <1>5, RebootStep
  <1> QED  BY <1>1, <1>2, <1>3, <1>4, <1>5 DEF ProcNext

\* The invariant holds in every reachable state.
THEOREM FilesInvariant == Spec => []Inv
  <1>1. Init => Inv
    BY InvInit
  <1>2. Inv /\ [Next]_vars => Inv'
    <2> SUFFICES ASSUME Inv, [Next]_vars  PROVE Inv'
      OBVIOUS
    <2>1. CASE Next
      BY <2>1, ProcNextKeepsInv DEF Next
    <2>2. CASE UNCHANGED vars
      <3>1. UNCHANGED <<sfsVars, dinode, node, fd_array, lost>> /\ panicked' \in BOOLEAN
        BY <2>2 DEF vars, sfsVars, Inv, TypeOK
      <3> QED  BY <3>1, PanicStep
    <2> QED  BY <2>1, <2>2
  <1> QED  BY <1>1, <1>2, PTL DEF Spec

\* The state of the file system stays within its types.
THEOREM FilesTypeOK == Spec => []TypeOK
  <1>1. Inv => TypeOK
    BY DEF Inv
  <1> QED  BY <1>1, FilesInvariant, PTL

\* The counts of an inode are those of the descriptors, whatever the processes do.
THEOREM FilesCountsExact == Spec => []CountsExact
  <1>1. Inv => CountsExact
    BY DEF Inv
  <1> QED  BY <1>1, FilesInvariant, PTL

-----------------------------------------------------------------------------
(* BlocksExact.                                                            *)

\* A block without a place is not used; one with a place is used once.
LEMMA UsesPlaces ==
    ASSUME NEW din \in Dinodes, NEW dsk, Apart(din, dsk), NEW b \in Block
    PROVE  /\ ~Has(din, dsk, b) => Uses(din, dsk, b) = 0
           /\ Has(din, dsk, b) => Uses(din, dsk, b) = 1
  <1> DEFINE A == {i \in DOMAIN din.direct : din.direct[i] = b}
             B == {e \in Cell : dsk[din.indirect][e] = b}
             k == IF din.indirect = b THEN 1 ELSE 0
             l == IF din.indirect = 0 THEN 0 ELSE Cardinality(B)
  <1>1. Uses(din, dsk, b) = Cardinality(A) + k + l
    BY DEF Uses
  <1>2. DOMAIN din.direct = 0 .. NDIRECT - 1 /\ din.indirect \in 0 .. NBLOCKS /\ b # 0
    BY DEF Dinodes, Block
  <1>3. \A i \in 0 .. NDIRECT - 1 : i \in Place /\ At(din, dsk, i) = din.direct[i] /\ i # -1
    BY Constants DEF Place, At
  <1>4. -1 \in Place /\ At(din, dsk, -1) = din.indirect
    BY Constants DEF Place, At
  <1>5. ASSUME din.indirect # 0, NEW e \in Cell
        PROVE  /\ Nth(e) \in Place /\ At(din, dsk, Nth(e)) = dsk[din.indirect][e]
               /\ Nth(e) # -1 /\ Nth(e) \notin 0 .. NDIRECT - 1
               /\ \A g \in Cell : Nth(g) = Nth(e) => g = e
    BY <1>5, Constants DEF Place, At, Nth, Cell
  <1>6. \A x, y \in Place : At(din, dsk, x) = b /\ At(din, dsk, y) = b => x = y
    BY <1>2 DEF Apart
  <1> HIDE DEF A
  <1>7. Cardinality({}) = 0 /\ \A x : Cardinality({x}) = 1
    BY FS_EmptySet, FS_Singleton
  <1>8. ASSUME ~Has(din, dsk, b)  PROVE Uses(din, dsk, b) = 0
    <2>1. A = {}
      BY <1>2, <1>3, <1>8 DEF Has, A
    <2>2. k = 0
      BY <1>4, <1>8 DEF Has
    <2>3. din.indirect # 0 => B = {}
      BY <1>5, <1>8 DEF Has
    <2> QED  BY <1>1, <1>7, <2>1, <2>2, <2>3
  <1>9. ASSUME Has(din, dsk, b)  PROVE Uses(din, dsk, b) = 1
    <2>1. PICK x \in Place : At(din, dsk, x) = b
      BY <1>9 DEF Has
    <2>2. CASE x = -1
      <3>1. A = {}
        BY <1>2, <1>3, <1>6, <2>1, <2>2 DEF A
      <3>2. din.indirect = b
        BY <1>4, <2>1, <2>2
      <3>3. B = {}
        BY <1>2, <1>5, <1>6, <2>1, <2>2, <3>2
      <3>4. Cardinality(A) = 0 /\ k = 1 /\ l = 0
        BY <1>2, <1>7, <3>1, <3>2, <3>3
      <3> QED  BY <1>1, <3>4
    <2>3. CASE x \in 0 .. NDIRECT - 1
      <3>1. A = {x}
        BY <1>2, <1>3, <1>6, <2>1, <2>3 DEF A
      <3>2. din.indirect # b
        BY <1>3, <1>4, <1>6, <2>1, <2>3
      <3>3. din.indirect # 0 => B = {}
        BY <1>5, <1>6, <2>1, <2>3
      <3>4. Cardinality(A) = 1
        BY <1>7, <3>1
      <3>5. k = 0 /\ l = 0
        BY <1>7, <3>2, <3>3
      <3> QED  BY <1>1, <3>4, <3>5
    <2>4. CASE x # -1 /\ x \notin 0 .. NDIRECT - 1
      <3>1. x - NDIRECT \in Cell /\ x = Nth(x - NDIRECT) /\ ~(x < NDIRECT)
        BY <2>4, Constants DEF Place, Cell, Nth
      <3> DEFINE e == x - NDIRECT
      <3> HIDE DEF e
      <3>2. e \in Cell /\ x = Nth(e)
        BY <3>1 DEF e
      <3>3. din.indirect # 0
        BY <1>2, <2>1, <2>4, <3>1 DEF At
      <3>4. A = {}
        BY <1>2, <1>3, <1>6, <2>1, <2>4 DEF A
      <3>5. din.indirect # b
        BY <1>4, <1>6, <2>1, <2>4
      <3>6. B = {e}
        <4>1. dsk[din.indirect][e] = b
          BY <1>5, <2>1, <3>2, <3>3
        <4>2. ASSUME NEW g \in Cell, dsk[din.indirect][g] = b  PROVE g = e
          <5>1. Nth(g) \in Place /\ At(din, dsk, Nth(g)) = b
            BY <1>5, <3>3, <4>2
          <5>2. Nth(g) = Nth(e)
            BY <1>6, <2>1, <3>2, <5>1
          <5> QED  BY <1>5, <3>2, <3>3, <5>2
        <4> QED  BY <3>2, <4>1, <4>2
      <3>7. Cardinality(B) = 1
        BY <1>7, <3>6
      <3>8. Cardinality(A) = 0 /\ k = 0 /\ l = 1
        BY <1>7, <3>3, <3>4, <3>5, <3>7
      <3> QED  BY <1>1, <3>8
    <2> QED  BY <2>2, <2>3, <2>4
  <1> QED  BY <1>8, <1>9

\* The uses of a block by the files together.
LEMMA BlockUses ==
    ASSUME Inv, NEW b \in Block
    PROVE  SumFunction([f \in File |-> Uses(Current(f), disk, b)])
               = IF b \in freemap THEN 0 ELSE 1
  <1> DEFINE u == [f \in File |-> Uses(Current(f), disk, b)]
             o == [f \in File |-> 0]
  <1>1. IsFiniteSet(File) /\ TypeOK /\ Owned
    BY FilesAssumption DEF Inv
  <1>2. ASSUME NEW f \in File
        PROVE  /\ ~Has(Current(f), disk, b) => u[f] = 0
               /\ Has(Current(f), disk, b) => u[f] = 1
    <2>1. Current(f) \in Dinodes /\ Apart(Current(f), disk)
      BY <1>1, CurrentType DEF Owned
    <2> QED  BY <2>1, UsesPlaces
  <1>3. SumFunction(u) = SumFunctionOnSet(u, File)
    BY DEF SumFunction
  <1> HIDE DEF u
  <1>4. CASE b \in freemap
    <2>1. \A f \in File : u[f] = 0
      BY <1>1, <1>2, <1>4 DEF Owned
    <2>2. SumFunctionOnSet(u, File) = 0
      BY <1>1, <2>1, SumOfZeros
    <2> QED  BY <1>3, <1>4, <2>2 DEF u
  <1>5. CASE b \notin freemap
    <2>1. PICK f \in File : Has(Current(f), disk, b)
      BY <1>1, <1>5 DEF Owned
    <2>2. u[f] = 1 /\ \A g \in File : g # f => u[g] = 0
      BY <1>1, <1>2, <2>1 DEF Owned
    <2>3. \A g \in File : o[g] = 0
      OBVIOUS
    <2> HIDE DEF o
    <2>4. SumFunctionOnSet(o, File) = 0
      BY <1>1, <2>3, SumOfZeros
    <2>5. (\A g \in File : u[g] \in Int) /\ (\A g \in File : o[g] \in Int)
          /\ \A g \in File : g # f => u[g] = o[g]
      BY <2>2, <2>3
    <2>6. SumFunctionOnSet(u, File) = SumFunctionOnSet(o, File) - o[f] + u[f]
      BY <1>1, <2>5, SumChange
    <2> QED  BY <1>3, <1>5, <2>2, <2>3, <2>4, <2>6 DEF u
  <1> QED  BY <1>4, <1>5

\* No call leaks a block, frees one in use or gives one to two places: also not one that
\* ran out of blocks half way.
THEOREM FilesBlocksExact == Spec => []BlocksExact
  <1>1. Inv => BlocksExact
    <2> SUFFICES ASSUME Inv  PROVE BlocksExact
      OBVIOUS
    <2>1. unused_blocks = Cardinality(freemap)
      BY DEF Inv, Owned
    <2> QED  BY <2>1, BlockUses DEF BlocksExact
  <1> QED  BY <1>1, FilesInvariant, PTL

=============================================================================
