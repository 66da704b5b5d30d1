----------------------------- MODULE BlockTree -----------------------------
(***************************************************************************)
(* scsync's frontend: a folder as a tree of blocks, a directory block      *)
(* naming the blocks of its entries, and the traversal with which the      *)
(* receiver of a tree looks up and verifies what it has of it.             *)
(*                                                                         *)
(* Block ids are hashes of data encrypted under a random key, so a block   *)
(* is a value of its own and every folder has its own tree.  A block's     *)
(* data is the sequence of its chunks, and the chunk i of block b is the   *)
(* pair <<b, i>>.  blockdb_from_folder makes directories and leaves only,  *)
(* never file meta blocks; a leaf is a block without children.             *)
(***************************************************************************)
EXTENDS Integers

CONSTANTS
    Blocks,
    Children,       \* the entries of a directory block
    BlockLen,       \* octets of a block's data
    ChunkSize       \* CHUNK_SIZE

ASSUME ChildrenAssumption == Children \in [Blocks -> SUBSET Blocks]
ASSUME BlockLenAssumption == BlockLen \in [Blocks -> Nat \ {0}]
ASSUME ChunkSizeAssumption == ChunkSize \in Nat \ {0}

\* (len + CHUNK_SIZE - 1) / CHUNK_SIZE
NumChunks(b) == (BlockLen[b] + ChunkSize - 1) \div ChunkSize

\* A chunk id is allocated for every octet of a block: more than it has
\* chunks, never less.
ASSUME NumChunksAssumption ==
    \A b \in Blocks : NumChunks(b) \in Nat /\ 0 < NumChunks(b) /\ NumChunks(b) <= BlockLen[b]

ChunksOf(b) == {b} \X (0 .. NumChunks(b) - 1)
Chunks == UNION {ChunksOf(b) : b \in Blocks}

\* S holds with every directory that can be read its entries.
Closed(S, readable) == \A x \in S \cap readable : Children[x] \subseteq S

\* What traverse and traverse_rec visit from the root r, given the blocks
\* that are full: the entries of a directory that is full; blocks that are
\* partial or missing are visited, but nothing below them.
Visited(r, full) ==
    {b \in Blocks : \A S \in SUBSET Blocks : r \in S /\ Closed(S, full) => b \in S}

\* All blocks of the folder with root r.
Tree == [r \in Blocks |-> Visited(r, Blocks)]

\* Mutant of verify: blocks that are partial or missing are passed over, as
\* ResolveBlockVisitor does.
verifyRoot(r, full) == r \in full

\* verify: VerifyVisitor finds no block that is partial or missing.
verify(r, full) == Visited(r, full) \subseteq full

\* resolve: traverse needs the root, and ResolveBlockVisitor the block.
CanResolve(b, r, full) == r \in full /\ b \in Visited(r, full)
=============================================================================
