----------------------------- MODULE Attachment -----------------------------
(***************************************************************************)
(* The splitting and joining of files in web/src/lib/crypto/content.ts.  A *)
(* file is a sequence of bytes; base64 is undone by the receiver, so a     *)
(* chunk carries its slice.  Name and MIME type travel like the size.      *)
(***************************************************************************)
EXTENDS Naturals, Sequences, FiniteSets

CONSTANT MaxChunkBytes  \* content.ts: MAX_CHUNK_BYTES

ASSUME AttachmentAssumption == MaxChunkBytes \in Nat \ {0}

CeilDiv(a, b) == (a + b - 1) \div b

ChunkCount(bytes) ==
  IF bytes = <<>> THEN 1 ELSE CeilDiv(Len(bytes), MaxChunkBytes)

Slice(bytes, i) ==
  LET end == (i + 1) * MaxChunkBytes
  IN  SubSeq(bytes, i * MaxChunkBytes + 1, IF end < Len(bytes) THEN end ELSE Len(bytes))

(* chunkAttachment.  The caption rides on the last chunk. *)
ChunkAttachment(id, bytes) ==
  [i \in 1 .. ChunkCount(bytes) |->
     [type |-> "attachment", id |-> id, size |-> Len(bytes), index |-> i - 1,
      count |-> ChunkCount(bytes), data |-> Slice(bytes, i - 1),
      caption |-> i = ChunkCount(bytes)]]

(* An AttachmentAssembler: the parts by index, and the first chunk's count *)
(* and size, a set of at most one.                                         *)
NewAssembler == [parts |-> {}, meta |-> {}, caption |-> FALSE]

(* add, as the assembler leaves it.  A chunk that comes again replaces the *)
(* part it has.                                                            *)
Added(a, chunk) ==
  [parts |-> {p \in a.parts : p.index # chunk.index}
               \cup {[index |-> chunk.index, data |-> chunk.data]},
   meta |-> IF a.meta = {} THEN {[count |-> chunk.count, size |-> chunk.size]} ELSE a.meta,
   caption |-> a.caption \/ chunk.caption]

(* add throws on a chunk of another transfer. *)
Confused(a, chunk) == \E m \in a.meta : m.count # chunk.count

IsWhole(a) == \E m \in a.meta : Cardinality(a.parts) = m.count

Part(a, i) == (CHOOSE p \in a.parts : p.index = i).data

(* Mutant: the parts are joined in the reverse order. *)
AssembledReversed(a) ==
  LET joined[n \in 0 .. Cardinality(a.parts)] == IF n = 0 THEN <<>> ELSE Part(a, n - 1) \o joined[n - 1]
  IN  joined[Cardinality(a.parts)]

(* The bytes of a whole file: the parts in the order of their index. *)
Assembled(a) ==
  LET joined[n \in 0 .. Cardinality(a.parts)] == IF n = 0 THEN <<>> ELSE joined[n - 1] \o Part(a, n - 1)
  IN  joined[Cardinality(a.parts)]

(* add throws when the length is not the announced one. *)
WrongSize(a) == \E m \in a.meta : Len(Assembled(a)) # m.size
=============================================================================
