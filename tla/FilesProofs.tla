----------------------------- MODULE FilesProofs -----------------------------
(***************************************************************************)
(* A file arrives as it was sent, for any size of the file and of the      *)
(* chunks, any number of files and any order the chunks come in.           *)
(***************************************************************************)
EXTENDS MessagesProofs, FiniteSetTheorems

(* Every step is tried with Zenon, except those that name another prover. *)
USE Zenon

-----------------------------------------------------------------------------
(* Splitting a file and joining its chunks gives the file, for any size of *)
(* the file and of the chunks.                                             *)
Chunks == IF FileSize = 0 THEN 1 ELSE CeilDiv(FileSize, MaxChunkBytes)

Chunk(id, i) == ChunkAttachment(id, File(id))[i]

PartOf(id, i) == [index |-> i - 1, data |-> Slice(File(id), i - 1)]

Parts(id) == {PartOf(id, i) : i \in 1 .. Chunks}

LEMMA Sizes == FileSize \in Nat /\ MaxChunkBytes \in Nat /\ MaxChunkBytes > 0
BY MessagesAssumption, AttachmentAssumption, SMT

LEMMA DivBounds ==
  ASSUME NEW a \in Nat, NEW b \in Nat, b > 0
  PROVE  /\ a \div b \in Nat
         /\ (a \div b) * b <= a
         /\ a < (a \div b) * b + b
BY SMT

LEMMA SubSeqAll ==
  ASSUME NEW S, NEW s \in Seq(S)
  PROVE  SubSeq(s, 1, Len(s)) = s
BY SMT

LEMMA SeqRange ==
  ASSUME NEW S, NEW s \in Seq(S)
  PROVE  s \in Seq(Range(s))
BY SMT DEF Range

LEMMA ChunkBounds ==
  /\ Chunks \in Nat /\ Chunks > 0
  /\ (Chunks - 1) * MaxChunkBytes <= FileSize
  /\ FileSize <= Chunks * MaxChunkBytes
<1>1. CASE FileSize = 0
  BY <1>1, Sizes, SMT DEF Chunks
<1>2. CASE FileSize # 0
  <2>1. PICK q : q = (FileSize + MaxChunkBytes - 1) \div MaxChunkBytes
    OBVIOUS
  <2>2. q \in Nat /\ q * MaxChunkBytes <= FileSize + MaxChunkBytes - 1 /\ FileSize + MaxChunkBytes - 1 < q * MaxChunkBytes + MaxChunkBytes
    BY <2>1, Sizes, DivBounds, SMT
  <2>3. Chunks = q
    BY <1>2, <2>1 DEF Chunks, CeilDiv
  <2>4. PICK p \in Nat : p = q * MaxChunkBytes
    BY <2>2, Sizes, SMT
  <2>5. FileSize <= p /\ p - MaxChunkBytes < FileSize
    BY <2>2, <2>4, Sizes, SMT
  <2>6. q # 0
    BY <1>2, <2>4, <2>5, Sizes, SMT
  <2>7. (q - 1) * MaxChunkBytes = p - MaxChunkBytes
    BY <2>2, <2>4, Sizes, SMT
  <2> QED
    BY <2>2, <2>3, <2>4, <2>5, <2>6, <2>7, Sizes, SMT
<1> QED
  BY <1>1, <1>2

LEMMA FileSeq ==
  ASSUME NEW id
  PROVE  /\ File(id) \in Seq({<<id, i>> : i \in 1 .. FileSize})
         /\ Len(File(id)) = FileSize
         /\ File(id) = <<>> <=> FileSize = 0
<1>1. File(id) \in Seq({<<id, i>> : i \in 1 .. FileSize}) /\ Len(File(id)) = FileSize
  BY Sizes, SMT DEF File
<1> QED
  BY <1>1, SMT

LEMMA CountOfFile ==
  ASSUME NEW id
  PROVE  ChunkCount(File(id)) = Chunks
BY FileSeq DEF ChunkCount, Chunks

LEMMA ChunkFields ==
  ASSUME NEW id, NEW i \in 1 .. Chunks
  PROVE  Chunk(id, i) = [type |-> "attachment", id |-> id, size |-> FileSize, index |-> i - 1,
                         count |-> Chunks, data |-> Slice(File(id), i - 1), caption |-> i = Chunks]
BY CountOfFile, FileSeq DEF Chunk, ChunkAttachment

LEMMA PartsCount ==
  ASSUME NEW id
  PROVE  IsFiniteSet(Parts(id)) /\ Cardinality(Parts(id)) = Chunks
<1>1. \A i, j \in 1 .. Chunks : PartOf(id, i) = PartOf(id, j) => i = j
  <2> SUFFICES ASSUME NEW i \in 1 .. Chunks, NEW j \in 1 .. Chunks, PartOf(id, i) = PartOf(id, j) PROVE i = j
    OBVIOUS
  <2>1. PartOf(id, i).index = i - 1 /\ PartOf(id, j).index = j - 1
    BY DEF PartOf
  <2>2. i - 1 = j - 1
    BY <2>1
  <2> QED
    BY <2>2, ChunkBounds, SMT
<1> DEFINE f == [i \in 1 .. Chunks |-> PartOf(id, i)]
<1>2. f \in Bijection(1 .. Chunks, Parts(id))
  BY <1>1 DEF Parts, Bijection, Injection, Surjection, IsInjective
<1>3. IsFiniteSet(1 .. Chunks) /\ Cardinality(1 .. Chunks) = Chunks
  BY ChunkBounds, FS_Interval, SMT
<1> HIDE DEF f
<1>4. ExistsBijection(1 .. Chunks, Parts(id))
  BY <1>2 DEF ExistsBijection
<1> QED
  BY <1>3, <1>4, FS_Bijection

(* The first n chunks' worth of a file. *)
Upto(n) == IF n * MaxChunkBytes < FileSize THEN n * MaxChunkBytes ELSE FileSize

LEMMA UptoBounds ==
  ASSUME NEW n \in 1 .. Chunks
  PROVE  /\ Upto(n - 1) = (n - 1) * MaxChunkBytes
         /\ Upto(n - 1) \in 0 .. FileSize /\ Upto(n) \in Upto(n - 1) .. FileSize
<1>1. PICK p \in Nat : p = (n - 1) * MaxChunkBytes
  BY Sizes, ChunkBounds, SMT
<1>2. p <= (Chunks - 1) * MaxChunkBytes
  BY <1>1, Sizes, ChunkBounds, SMT
<1>3. p <= FileSize
  <2>1. (Chunks - 1) * MaxChunkBytes \in Int
    BY Sizes, ChunkBounds, SMT
  <2> QED
    BY <1>1, <1>2, <2>1, Sizes, ChunkBounds, SMT
<1>4. n * MaxChunkBytes = p + MaxChunkBytes
  BY <1>1, Sizes, ChunkBounds, SMT
<1> QED
  BY <1>1, <1>3, <1>4, Sizes, SMT DEF Upto

LEMMA UptoEnds == Upto(0) = 0 /\ Upto(Chunks) = FileSize
<1>1. Chunks * MaxChunkBytes \in Nat /\ 0 * MaxChunkBytes = 0
  BY Sizes, ChunkBounds, SMT
<1> QED
  BY <1>1, Sizes, ChunkBounds, SMT DEF Upto

LEMMA SliceJoins ==
  ASSUME NEW id, NEW n \in 1 .. Chunks
  PROVE  SubSeq(File(id), 1, Upto(n - 1)) \o Slice(File(id), n - 1) = SubSeq(File(id), 1, Upto(n))
<1>1. PICK s, S : s = File(id) /\ s \in Seq(S) /\ Len(s) = FileSize
  BY FileSeq
<1>2. PICK p, q : p = Upto(n - 1) /\ q = Upto(n)
  OBVIOUS
<1>3. Slice(s, n - 1) = SubSeq(s, p + 1, q)
  <2>1. (n - 1) + 1 = n
    BY ChunkBounds, SMT
  <2>2. (n - 1) * MaxChunkBytes = p
    BY <1>2, UptoBounds
  <2>3. (IF n * MaxChunkBytes < Len(s) THEN n * MaxChunkBytes ELSE Len(s)) = q
    BY <1>1, <1>2 DEF Upto
  <2> QED
    BY <2>1, <2>2, <2>3 DEF Slice
<1>4. p \in 0 .. Len(s) /\ q \in p .. Len(s) /\ 1 \in 1 .. Len(s) + 1 /\ p \in (1 - 1) .. Len(s)
  BY <1>1, <1>2, UptoBounds, Sizes, SMT
<1>5. SubSeq(s, 1, p) \o SubSeq(s, p + 1, q) = SubSeq(s, 1, q)
  BY <1>1, <1>4, SMT
<1> QED
  BY <1>1, <1>2, <1>3, <1>5

LEMMA PartIs ==
  ASSUME NEW a, NEW id, a.parts = Parts(id), NEW n \in 1 .. Chunks
  PROVE  Part(a, n - 1) = Slice(File(id), n - 1)
<1>1. \A p \in Parts(id) : p.index = n - 1 => p = PartOf(id, n)
  <2> SUFFICES ASSUME NEW i \in 1 .. Chunks, PartOf(id, i).index = n - 1 PROVE PartOf(id, i) = PartOf(id, n)
    BY DEF Parts
  <2>1. i - 1 = n - 1
    BY DEF PartOf
  <2>2. i = n
    BY <2>1, ChunkBounds, SMT
  <2> QED
    BY <2>2
<1>2. PartOf(id, n) \in Parts(id) /\ PartOf(id, n).index = n - 1 /\ PartOf(id, n).data = Slice(File(id), n - 1)
  BY DEF Parts, PartOf
<1>3. (CHOOSE p \in a.parts : p.index = n - 1) = PartOf(id, n)
  BY <1>1, <1>2
<1> QED
  BY <1>2, <1>3 DEF Part

Joins(a, n, f) == f = [k \in 0 .. n |-> IF k = 0 THEN <<>> ELSE f[k - 1] \o Part(a, k - 1)]

NatLess == {p \in Nat \X Nat : p[1] < p[2]}

LEMMA NatLessWellFounded == IsWellFoundedOn(NatLess, Nat)
<1>1. NatLess = OpToRel(<, Nat)
  BY DEF NatLess, OpToRel
<1> QED
  BY <1>1, NatLessThanWellFounded

LEMMA LeastOf ==
  ASSUME NEW S, S \subseteq Nat, S # {}
  PROVE  \E m \in S : \A x \in S : m <= x
<1>1. PICK m \in S : \A x \in S : <<x, m>> \notin NatLess
  BY WFMin, NatLessWellFounded
<1>2. \A x \in S : ~(x < m)
  BY <1>1 DEF NatLess
<1> QED
  BY <1>1, <1>2, SMT

(* Joining is the one function that gives a file's beginnings. *)
LEMMA JoinedIs ==
  ASSUME NEW a, NEW id, a.parts = Parts(id)
  PROVE  Assembled(a) = File(id)
<1> DEFINE g == [k \in 0 .. Chunks |-> SubSeq(File(id), 1, Upto(k))]
           f == CHOOSE h : Joins(a, Chunks, h)
<1>1. SubSeq(File(id), 1, Upto(0)) = <<>>
  BY UptoEnds, FileSeq, SMT
<1>2. \A n \in 1 .. Chunks : SubSeq(File(id), 1, Upto(n)) = SubSeq(File(id), 1, Upto(n - 1)) \o Part(a, n - 1)
  BY SliceJoins, PartIs
<1>3. \A k \in 0 .. Chunks : g[k] = IF k = 0 THEN <<>> ELSE g[k - 1] \o Part(a, k - 1)
  <2> SUFFICES ASSUME NEW k \in 0 .. Chunks PROVE g[k] = IF k = 0 THEN <<>> ELSE g[k - 1] \o Part(a, k - 1)
    OBVIOUS
  <2>1. CASE k = 0
    BY <1>1, <2>1
  <2>2. CASE k # 0
    <3>1. k \in 1 .. Chunks /\ k - 1 \in 0 .. Chunks
      BY <2>2, ChunkBounds, SMT
    <3>2. g[k] = SubSeq(File(id), 1, Upto(k)) /\ g[k - 1] = SubSeq(File(id), 1, Upto(k - 1))
      BY <3>1
    <3> HIDE DEF g
    <3> QED
      BY <1>2, <2>2, <3>1, <3>2
  <2> QED
    BY <2>1, <2>2
<1>4. Joins(a, Chunks, g)
  <2>1. g = [k \in 0 .. Chunks |-> g[k]]
    OBVIOUS
  <2> HIDE DEF g
  <2>2. [k \in 0 .. Chunks |-> g[k]] = [k \in 0 .. Chunks |-> IF k = 0 THEN <<>> ELSE g[k - 1] \o Part(a, k - 1)]
    BY <1>3
  <2> QED
    BY <2>1, <2>2 DEF Joins
<1> HIDE DEF g
<1>5. Joins(a, Chunks, f)
  BY <1>4
<1> HIDE DEF f
<1>6. \A k \in 0 .. Chunks : f[k] = IF k = 0 THEN <<>> ELSE f[k - 1] \o Part(a, k - 1)
  BY <1>5 DEF Joins
<1>7. \A k \in 0 .. Chunks : f[k] = g[k]
  <2> DEFINE S == {k \in 0 .. Chunks : f[k] # g[k]}
  <2> SUFFICES ASSUME S # {} PROVE FALSE
    OBVIOUS
  <2>1. PICK m \in S : \A k \in S : m <= k
    <3>1. S \subseteq Nat
      BY SMT
    <3> HIDE DEF S
    <3> QED
      BY <3>1, LeastOf
  <2>2. m \in 0 .. Chunks /\ f[m] # g[m]
    BY <2>1
  <2>3. m # 0
    BY <1>3, <1>6, <2>2
  <2>4. m - 1 \in 0 .. Chunks /\ m - 1 \notin S
    BY <2>1, <2>2, <2>3, ChunkBounds, SMT
  <2>5. f[m - 1] = g[m - 1]
    BY <2>4
  <2> HIDE DEF S
  <2> QED
    BY <1>3, <1>6, <2>2, <2>3, <2>5
<1>8. Assembled(a) = f[Chunks]
  <2>1. Cardinality(a.parts) = Chunks
    BY PartsCount
  <2> QED
    BY <2>1 DEF Assembled, Joins, f
<1>9. g[Chunks] = File(id)
  <2>1. Chunks \in 0 .. Chunks
    BY ChunkBounds, SMT
  <2>2. g[Chunks] = SubSeq(File(id), 1, FileSize)
    BY <2>1, UptoEnds DEF g
  <2> QED
    BY <2>2, FileSeq, SubSeqAll
<1>10. f[Chunks] = g[Chunks]
  BY <1>7, ChunkBounds, SMT
<1> QED
  BY <1>8, <1>9, <1>10

-----------------------------------------------------------------------------
(* Files on their way.  A chunk of a file the author has stored is in a    *)
(* call that posts it, in flight, or in the reader's assembler, until the  *)
(* file is there.                                                          *)
IsSeq(s) == s \in Seq(Range(s))

IsChunk(x) == x.type = "attachment" => \E i \in 1 .. Chunks : x = Chunk(x.id, i)

(* What a call of the author has yet to post. *)
AuthorSends(t) ==
  t.client = Author =>
    /\ IsSeq(t.send)
    /\ t.step = "posting" => t.send # <<>>
    /\ t.step # "confirming" => \A x \in Range(t.send) : IsChunk(x)

IsPosting(t, x) == t.client = Author /\ t.step = "posting" /\ x \in Range(t.send)

Counted(B) == \A x \in DOMAIN B : B[x] \in Nat /\ B[x] > 0

PartialFile(id, a) ==
  /\ a.parts \subseteq Parts(id) /\ a.parts # Parts(id)
  /\ a.meta = {[count |-> Chunks, size |-> FileSize]}

Posted(x) == x \in DOMAIN wire[Reader] \/ \E t \in tasks : IsPosting(t, x)
Held(id, i) == id \in DOMAIN assemblers /\ PartOf(id, i) \in assemblers[id].parts

UnderWay(id, i) == Posted(Chunk(id, i)) \/ Held(id, i)

Unharmed == causes \cap {"failed", "lost", "crash"} = {}

StoredInv ==
  /\ DOMAIN blobs = Client
  /\ \A id \in DOMAIN assemblers : PartialFile(id, assemblers[id])
  /\ \A id \in DOMAIN blobs[Reader] : blobs[Reader][id] = File(id)

SentInv ==
  /\ Counted(wire[Reader])
  /\ \A x \in DOMAIN wire[Reader] : IsChunk(x)
  /\ \A t \in tasks : AuthorSends(t)

ArrivesInv ==
  Unharmed =>
    \A id \in DOMAIN blobs[Author] :
      id \in DOMAIN blobs[Reader] \/ \A i \in 1 .. Chunks : UnderWay(id, i)

FilesInv == StoredInv /\ SentInv /\ ArrivesInv

(* A step that touches neither files nor assemblers, and drops no chunk. *)
LEMMA FilesSame ==
  ASSUME FilesInv, UNCHANGED <<blobs, assemblers>>, causes \subseteq causes', SentInv',
         Unharmed' => \A x : x.type = "attachment" /\ Posted(x) => Posted(x)'
  PROVE  FilesInv'
<1>1. StoredInv'
  BY DEF FilesInv, StoredInv
<1>2. \A id : \A i \in 1 .. Chunks : Chunk(id, i).type = "attachment"
  BY ChunkFields, SMT
<1>3. Unharmed' => \A id : \A i \in 1 .. Chunks : UnderWay(id, i) => UnderWay(id, i)'
  BY <1>2 DEF UnderWay, Held
<1>4. ArrivesInv'
  BY <1>3 DEF FilesInv, ArrivesInv, Unharmed
<1> QED
  BY <1>1, <1>4 DEF FilesInv

(* ... because no call of the author that posts has ended, and nothing was *)
(* taken from the wire.                                                    *)
LEMMA FilesCalls ==
  ASSUME FilesInv, UNCHANGED <<blobs, assemblers>>, causes \subseteq causes', wire'[Reader] = wire[Reader],
         NEW t, t \notin tasks' => t.client # Author \/ t.step # "posting", tasks \ {t} \subseteq tasks',
         NEW u, tasks' \subseteq tasks \cup {u}, AuthorSends(u)
  PROVE  FilesInv'
<1>1. SentInv'
  BY DEF FilesInv, SentInv
<1>2. \A x : Posted(x) => Posted(x)'
  BY DEF Posted, IsPosting
<1> QED
  BY <1>1, <1>2, FilesSame

LEMMA OneSeq ==
  ASSUME NEW x
  PROVE  IsSeq(<<x>>) /\ Range(<<x>>) = {x} /\ <<x>> # <<>>
BY SMT DEF IsSeq, Range

LEMMA NoSeq == IsSeq(<<>>) /\ Range(<<>>) = {}
BY SMT DEF IsSeq, Range

LEMMA TailSeq ==
  ASSUME NEW s, IsSeq(s), s # <<>>
  PROVE  /\ Head(s) \in Range(s)
         /\ Len(s) > 1 => IsSeq(Tail(s)) /\ Tail(s) # <<>> /\ Range(s) = Range(Tail(s)) \cup {Head(s)}
         /\ ~(Len(s) > 1) => Range(s) = {Head(s)}
<1>1. PICK S : s \in Seq(S) /\ S = Range(s)
  BY DEF IsSeq
<1>2. Len(s) \in Nat /\ Len(s) >= 1 /\ DOMAIN s = 1 .. Len(s)
  BY <1>1, SMT
<1>3. Head(s) = s[1]
  BY <1>1, SMT
<1>4. Head(s) \in Range(s)
  BY <1>2, <1>3, SMT DEF Range
<1>5. ASSUME Len(s) > 1
      PROVE  IsSeq(Tail(s)) /\ Tail(s) # <<>> /\ Range(s) = Range(Tail(s)) \cup {Head(s)}
  <2>1. /\ Tail(s) \in Seq(S) /\ Len(Tail(s)) = Len(s) - 1
        /\ \A i \in 1 .. Len(s) - 1 : Tail(s)[i] = s[i + 1]
        /\ DOMAIN Tail(s) = 1 .. Len(s) - 1
    BY <1>1, <1>2, SMT
  <2>2. PICK r, n : r = Tail(s) /\ n = Len(s)
    OBVIOUS
  <2>3. /\ r \in Seq(S) /\ Len(r) = n - 1 /\ n \in Nat /\ n > 1
        /\ \A i \in 1 .. n - 1 : r[i] = s[i + 1]
        /\ DOMAIN r = 1 .. n - 1 /\ DOMAIN s = 1 .. n
    BY <1>2, <1>5, <2>1, <2>2
  <2>4. Range(s) \subseteq Range(r) \cup {s[1]}
    <3> SUFFICES ASSUME NEW k \in 1 .. n, k # 1 PROVE s[k] \in Range(r)
      BY <2>3 DEF Range
    <3>1. k - 1 \in 1 .. n - 1 /\ r[k - 1] = s[k]
      BY <2>3, SMT
    <3> QED
      BY <2>3, <3>1 DEF Range
  <2>5. Range(r) \cup {s[1]} \subseteq Range(s)
    <3>1. \A k \in 1 .. n - 1 : r[k] = s[k + 1] /\ k + 1 \in 1 .. n
      BY <2>3, SMT
    <3> QED
      BY <2>3, <3>1, SMT DEF Range
  <2>6. IsSeq(r)
    BY <2>3, SeqRange DEF IsSeq
  <2>7. r # <<>>
    BY <2>3, SMT
  <2> QED
    BY <1>3, <2>2, <2>4, <2>5, <2>6, <2>7
<1>6. ASSUME ~(Len(s) > 1)
      PROVE  Range(s) = {Head(s)}
  <2>1. DOMAIN s = {1}
    BY <1>2, <1>6, SMT
  <2> QED
    BY <1>3, <2>1 DEF Range
<1> QED
  BY <1>4, <1>5, <1>6

(* A call whose one content is not a chunk, and a call of the reader. *)
LEMMA OneSends ==
  ASSUME NEW t, NEW op, NEW id, NEW step, NEW x, NEW copy,
         HasFields(t, Author, op, id, step, <<x>>, copy), x.type # "attachment" \/ step = "confirming"
  PROVE  AuthorSends(t)
BY OneSeq DEF HasFields, AuthorSends, IsChunk

LEMMA ReaderSends ==
  ASSUME NEW t, t.client = Reader
  PROVE  AuthorSends(t)
BY TwoClients DEF AuthorSends

LEMMA CopiesKept ==
  ASSUME NEW B, Counted(B), NEW x
  PROVE  /\ Counted(WithCopy(B, x))
         /\ Counted(LessCopy(B, x))
         /\ DOMAIN B \ {x} \subseteq DOMAIN LessCopy(B, x)
BY SMT DEF Counted, WithCopy, LessCopy, Copies, Put, Without

(* The handlers take what they apply from the wire. *)
LEMMA TakenKeeps ==
  ASSUME MessagesInv, FilesInv, NEW c \in Client, NEW x, wire' = [wire EXCEPT ![c] = LessCopy(@, x)]
  PROVE  /\ Counted(wire'[Reader])
         /\ DOMAIN wire'[Reader] \subseteq DOMAIN wire[Reader]
         /\ DOMAIN wire[Reader] \ {x} \subseteq DOMAIN wire'[Reader]
<1>1. PICK B, C : B = wire[Reader] /\ C = LessCopy(B, x)
  OBVIOUS
<1>2. Counted(B)
  BY <1>1 DEF FilesInv, SentInv
<1>3. Counted(C) /\ DOMAIN C \subseteq DOMAIN B /\ DOMAIN B \ {x} \subseteq DOMAIN C
  BY <1>1, <1>2, CopyFacts, CopiesKept
<1>4. wire'[Reader] = B \/ wire'[Reader] = C
  BY <1>1, TwoClients DEF MessagesInv
<1> QED
  BY <1>1, <1>2, <1>3, <1>4

(* A chunk is kept, and the last one to come makes the file whole. *)
LEMMA AddedParts ==
  ASSUME NEW id, NEW i \in 1 .. Chunks, NEW a, a = NewAssembler \/ PartialFile(id, a)
  PROVE  LET b == Added(a, Chunk(id, i))
         IN  /\ ~Confused(a, Chunk(id, i))
             /\ b.parts = a.parts \cup {PartOf(id, i)}
             /\ b.parts \subseteq Parts(id)
             /\ b.meta = {[count |-> Chunks, size |-> FileSize]}
             /\ IsWhole(b) <=> b.parts = Parts(id)
             /\ IsWhole(b) => ~WrongSize(b) /\ Assembled(b) = File(id)
<1> DEFINE x == Chunk(id, i)
           b == Added(a, x)
<1>1. /\ x.index = i - 1 /\ x.data = Slice(File(id), i - 1) /\ x.count = Chunks /\ x.size = FileSize
  BY ChunkFields, SMT
<1> HIDE DEF x
<1>2. a.parts \subseteq Parts(id) /\ (a.meta = {} \/ a.meta = {[count |-> Chunks, size |-> FileSize]})
  BY SMT DEF NewAssembler, PartialFile
<1>3. [index |-> x.index, data |-> x.data] = PartOf(id, i)
  BY <1>1 DEF PartOf
<1>4. \A p \in Parts(id) : p.index = i - 1 => p = PartOf(id, i)
  <2> SUFFICES ASSUME NEW j \in 1 .. Chunks, PartOf(id, j).index = i - 1 PROVE PartOf(id, j) = PartOf(id, i)
    BY DEF Parts
  <2>1. j - 1 = i - 1
    BY DEF PartOf
  <2>2. j = i
    BY <2>1, ChunkBounds, SMT
  <2> QED
    BY <2>2
<1>5. b.parts = a.parts \cup {PartOf(id, i)}
  BY <1>1, <1>2, <1>3, <1>4 DEF Added
<1>6. b.meta = {[count |-> Chunks, size |-> FileSize]}
  BY <1>1, <1>2 DEF Added
<1>7. ~Confused(a, x)
  BY <1>1, <1>2, SMT DEF Confused
<1> HIDE DEF b
<1>8. PartOf(id, i) \in Parts(id)
  BY DEF Parts
<1>9. b.parts \subseteq Parts(id)
  BY <1>2, <1>5, <1>8
<1>10. IsWhole(b) <=> Cardinality(b.parts) = Chunks
  BY <1>6, SMT DEF IsWhole
<1>11. Cardinality(b.parts) = Chunks <=> b.parts = Parts(id)
  <2>1. IsFiniteSet(Parts(id)) /\ Cardinality(Parts(id)) = Chunks /\ b.parts \in SUBSET Parts(id)
    BY <1>9, PartsCount
  <2> QED
    BY <2>1, FS_Subset
<1>12. b.parts = Parts(id) => Assembled(b) = File(id)
  BY JoinedIs
<1>13. Assembled(b) = File(id) => ~WrongSize(b)
  <2>1. Assembled(b) = File(id) => Len(Assembled(b)) = FileSize
    BY FileSeq
  <2> QED
    BY <1>6, <2>1, SMT DEF WrongSize
<1> QED
  BY <1>5, <1>6, <1>7, <1>9, <1>10, <1>11, <1>12, <1>13 DEF b, x

LEMMA FilesStep ==
  ASSUME MessagesInv, FilesInv, [Next]_vars
  PROVE  FilesInv'
<1>FilesCall. ASSUME NEW c \in Client, NEW id,
                     SendText \/ MarkRead \/ Retry(id) \/ Edit(id) \/ (c = Author /\ Delete(id)) \/ React(c, id)
              PROVE  FilesInv'
  <2> USE <1>FilesCall
  <2>1. UNCHANGED <<blobs, assemblers, wire>> /\ causes \subseteq causes'
    BY DEF SendText, MarkRead, Retry, Edit, Delete, React, stores
  <2>2. PICK u : tasks' = tasks \cup {u} /\ AuthorSends(u)
    <3>1. CASE SendText
      <4>1. PICK x, i : x.type = "text" /\ tasks' = tasks \cup {Task(Author, "send", i, "posting", <<x>>)}
        BY <3>1 DEF SendText, Begin, Text
      <4> QED
        BY <4>1, TaskFields, OneSends
    <3>2. CASE MarkRead
      <4>1. PICK send : tasks' = tasks \cup {Task(Reader, "signal", 0, "clearing", send)}
        BY <3>2 DEF MarkRead, Begin
      <4>2. PICK u : tasks' = tasks \cup {u} /\ HasFields(u, Reader, "signal", 0, "clearing", send, {})
        BY <4>1, TaskFields
      <4> QED
        BY <4>2, ReaderSends DEF HasFields
    <3>3. CASE Retry(id)
      <4>1. PICK copy : tasks' = tasks \cup {[Task(Author, "send", id, "retrying", <<>>) EXCEPT !.copy = copy]}
        BY <3>3 DEF Retry, Begin
      <4>2. PICK u : tasks' = tasks \cup {u} /\ HasFields(u, Author, "send", id, "retrying", <<>>, copy)
        BY <4>1, TaskFields
      <4> QED
        BY <4>2, NoSeq DEF HasFields, AuthorSends
    <3>4. CASE Edit(id)
      <4>1. PICK x, copy : /\ x.type = "edit"
                           /\ tasks' = tasks \cup {[Task(Author, "signal", id, "storing", <<x>>) EXCEPT !.copy = copy]}
        BY <3>4 DEF Edit, Begin
      <4> QED
        BY <4>1, TaskFields, OneSends
    <3>5. CASE (c = Author /\ Delete(id)) \/ React(c, id)
      <4>1. PICK x : x.type # "attachment" /\ tasks' = tasks \cup {Task(c, "signal", id, "posting", <<x>>)}
        BY <3>5 DEF Delete, React, Begin
      <4>2. PICK u : tasks' = tasks \cup {u} /\ HasFields(u, c, "signal", id, "posting", <<x>>, {})
        BY <4>1, TaskFields
      <4>3. CASE c = Author
        BY <4>1, <4>2, <4>3, OneSends
      <4>4. CASE c = Reader
        BY <4>2, <4>4, ReaderSends DEF HasFields
      <4> QED
        BY <4>3, <4>4, TwoClients
    <3> QED
      BY <3>1, <3>2, <3>3, <3>4, <3>5
  <2> QED
    BY <2>1, <2>2, FilesCalls
(* A file is stored, and all of its chunks are to be posted. *)
<1>FilesAttachment. ASSUME SendAttachment
                    PROVE  FilesInv'
  <2> USE <1>FilesAttachment
  <2>1. PICK id : id = written + 1
    OBVIOUS
  <2>2. PICK send : send = ChunkAttachment(id, File(id))
    OBVIOUS
  <2>3. /\ tasks' = tasks \cup {Task(Author, "send", id, "posting", send)}
        /\ blobs' = [blobs EXCEPT ![Author] = Put(@, id, File(id))]
        /\ UNCHANGED <<assemblers, wire, causes>>
    BY <2>1, <2>2 DEF SendAttachment, Begin
  <2>4. PICK u : tasks' = tasks \cup {u} /\ HasFields(u, Author, "send", id, "posting", send, {})
    BY <2>3, TaskFields
  <2>5. DOMAIN send = 1 .. Chunks /\ \A i \in 1 .. Chunks : send[i] = Chunk(id, i)
    BY <2>2, CountOfFile DEF ChunkAttachment, Chunk
  <2>6. Range(send) = {Chunk(id, i) : i \in 1 .. Chunks}
    BY <2>5 DEF Range
  <2>7. IsSeq(send) /\ send # <<>>
    <3>1. send = [i \in 1 .. Chunks |-> send[i]]
      BY <2>2, CountOfFile, SMT DEF ChunkAttachment
    <3>2. \A i \in 1 .. Chunks : send[i] \in Range(send)
      BY <2>5 DEF Range
    <3>3. send \in Seq(Range(send))
      BY <3>1, <3>2, ChunkBounds, SMT
    <3>4. send # <<>>
      BY <2>5, ChunkBounds, SMT
    <3> QED
      BY <3>3, <3>4 DEF IsSeq
  <2>8. \A x \in Range(send) : IsChunk(x)
    <3>1. \A i \in 1 .. Chunks : Chunk(id, i).id = id
      BY ChunkFields, SMT
    <3> QED
      BY <2>6, <3>1 DEF IsChunk
  <2>9. AuthorSends(u)
    BY <2>4, <2>7, <2>8 DEF HasFields, AuthorSends
  <2>10. SentInv'
    BY <2>3, <2>4, <2>9 DEF FilesInv, SentInv
  <2>11. DOMAIN blobs' = Client /\ blobs'[Reader] = blobs[Reader] /\ DOMAIN blobs'[Author] = DOMAIN blobs[Author] \cup {id}
    BY <2>3, TwoClients DEF FilesInv, StoredInv, Put
  <2>12. StoredInv'
    BY <2>3, <2>11 DEF FilesInv, StoredInv
  <2>13. \A j, i : UnderWay(j, i) => UnderWay(j, i)'
    BY <2>3, <2>4 DEF UnderWay, Held, Posted
  <2>14. \A i \in 1 .. Chunks : UnderWay(id, i)'
    BY <2>4, <2>6 DEF UnderWay, Posted, IsPosting, HasFields
  <2>15. ArrivesInv'
    BY <2>3, <2>11, <2>13, <2>14 DEF FilesInv, ArrivesInv, Unharmed
  <2> QED
    BY <2>10, <2>12, <2>15 DEF FilesInv
(* The steps of a call that post nothing. *)
<1>FilesTask. ASSUME NEW t \in tasks,
                     \/ RetryPending(t) \/ PatchStatus(t) \/ ClearUnread(t) \/ ReadUnread(t) \/ IncrementUnread(t)
                     \/ Confirm(t) \/ StoreCopy(t)
              PROVE  FilesInv'
  <2> USE <1>FilesTask
  <2>1. TaskOK(t) /\ AuthorSends(t)
    BY DEF MessagesInv, FilesInv, SentInv
  <2>2. t.step # "posting"
    BY DEF RetryPending, PatchStatus, ClearUnread, ReadUnread, IncrementUnread, Confirm, StoreCopy
  <2>3. UNCHANGED <<blobs, assemblers, wire>> /\ causes \subseteq causes'
    <3>1. CASE RetryPending(t) \/ PatchStatus(t) \/ ClearUnread(t) \/ ReadUnread(t)
      BY <3>1 DEF RetryPending, PatchStatus, ClearUnread, ReadUnread, stores
    <3>2. CASE IncrementUnread(t) \/ Confirm(t) \/ StoreCopy(t)
      BY <3>2 DEF IncrementUnread, Confirm, StoreCopy
    <3> QED
      BY <3>1, <3>2
  <2>4. PICK u : tasks \ {t} \subseteq tasks' /\ tasks' \subseteq tasks \cup {u} /\ AuthorSends(u)
    <3>1. CASE Ends(t)
      BY <2>1, <3>1 DEF Ends
    <3>2. CASE RetryPending(t)
      <4>1. t.client = Author
        BY <2>1, <3>2, TwoClients DEF RetryPending, TaskOK, ReaderTask
      <4>2. PICK x, u : /\ x.type = "text"
                        /\ tasks' = (tasks \ {t}) \cup {u}
                        /\ HasFields(u, t.client, t.op, t.id, "posting", <<x>>, {})
        BY <2>1, <3>2, ChangedTask DEF RetryPending, Becomes, TaskOK, Text
      <4> QED
        BY <4>1, <4>2, OneSends
    <3>3. CASE ClearUnread(t) \/ ReadUnread(t) \/ IncrementUnread(t)
      <4>1. t.client = Reader
        BY <2>1, <3>3, TwoClients DEF ClearUnread, ReadUnread, IncrementUnread, TaskOK, Shape
      <4>2. Ends(t) \/ \E u, step : /\ tasks' = (tasks \ {t}) \cup {u}
                                   /\ HasFields(u, t.client, t.op, t.id, step, t.send, t.copy)
        <5>1. CASE ClearUnread(t) \/ IncrementUnread(t)
          BY <2>1, <5>1, ChangedTask DEF ClearUnread, IncrementUnread, Goes, Becomes, TaskOK
        <5>2. CASE ReadUnread(t)
          <6>1. HasFields([t EXCEPT !.step = "counted", !.count = unread], t.client, t.op, t.id, "counted", t.send, t.copy)
            BY <2>1, ChangedTask DEF TaskOK
          <6> QED
            BY <5>2, <6>1 DEF ReadUnread, Becomes
        <5> QED
          BY <3>3, <5>1, <5>2
      <4> QED
        BY <3>1, <4>1, <4>2, ReaderSends DEF HasFields
    <3>4. CASE Confirm(t)
      <4>1. PICK y : Ends(t) \/ Becomes(t, [t EXCEPT !.send = <<y>>])
        BY <3>4 DEF Confirm
      <4>2. Ends(t) \/ \E u : /\ tasks' = (tasks \ {t}) \cup {u}
                             /\ HasFields(u, t.client, t.op, t.id, t.step, <<y>>, t.copy)
        BY <2>1, <4>1, ChangedTask DEF Becomes, TaskOK
      <4>3. t.step = "confirming" /\ t.client \in Client
        BY <2>1, <3>4 DEF Confirm, TaskOK
      <4>4. ASSUME NEW u, HasFields(u, t.client, t.op, t.id, t.step, <<y>>, t.copy)
            PROVE  AuthorSends(u)
        <5>1. CASE t.client = Author
          BY <4>3, <4>4, <5>1, OneSends
        <5>2. CASE t.client = Reader
          BY <4>4, <5>2, ReaderSends DEF HasFields
        <5> QED
          BY <4>3, <5>1, <5>2, TwoClients
      <4> QED
        BY <3>1, <4>2, <4>4
    <3>5. CASE StoreCopy(t)
      <4>1. \/ Ends(t)
            \/ \E u, step, copy : /\ tasks' = (tasks \ {t}) \cup {u}
                                  /\ step = "counting" \/ t.send # <<>>
                                  /\ step # "confirming"
                                  /\ HasFields(u, t.client, t.op, t.id, step, t.send, copy)
        <5>1. CASE t.op = "file"
          <6>1. HasFields([t EXCEPT !.step = "counting"], t.client, t.op, t.id, "counting", t.send, t.copy)
            BY <2>1, ChangedTask DEF TaskOK
          <6> QED
            BY <3>5, <5>1, <6>1 DEF StoreCopy, Goes, Becomes
        <5>2. CASE t.op # "file" /\ t.send # <<>>
          <6>1. HasFields([t EXCEPT !.step = "posting", !.copy = {}], t.client, t.op, t.id, "posting", t.send, {})
            BY <2>1, ChangedTask DEF TaskOK
          <6> QED
            BY <3>5, <5>2, <6>1 DEF StoreCopy, Becomes
        <5> QED
          BY <3>5, <5>1, <5>2 DEF StoreCopy
      <4>2. t.step # "confirming"
        BY <3>5 DEF StoreCopy
      <4>3. ASSUME NEW u, NEW step, NEW copy, step = "counting" \/ t.send # <<>>, step # "confirming",
                   HasFields(u, t.client, t.op, t.id, step, t.send, copy)
            PROVE  AuthorSends(u)
        BY <2>1, <4>2, <4>3 DEF HasFields, AuthorSends
      <4> QED
        BY <3>1, <4>1, <4>3
    <3> QED
      BY <3>1, <3>2, <3>3, <3>4, <3>5 DEF PatchStatus
  <2> QED
    BY <2>2, <2>3, <2>4, FilesCalls
(* Posting moves the first of the contents to the wire. *)
<1>FilesPost. ASSUME NEW t \in tasks, Post(t) \/ PostFails(t)
              PROVE  FilesInv'
  <2> USE <1>FilesPost
  <2>1. TaskOK(t) /\ AuthorSends(t) /\ t.step = "posting" /\ t.client \in Client
    BY DEF MessagesInv, FilesInv, SentInv, Post, PostFails, TaskOK
  <2>2. UNCHANGED <<blobs, assemblers>> /\ causes \subseteq causes' /\ DOMAIN wire = Client
    BY DEF Post, PostFails, stores, MessagesInv
  <2>3. Arrives(Peer(t.client), Head(t.send)) \/ (wire' = wire /\ ~Post(t) /\ PostFails(t))
    BY DEF Post, PostFails
  <2>4. \/ Ends(t) /\ (PostFails(t) \/ ~(Len(t.send) > 1))
        \/ \E step \in {"sent", "failed"} : \E u :
             /\ PostFails(t) \/ ~(Len(t.send) > 1)
             /\ tasks' = (tasks \ {t}) \cup {u}
             /\ HasFields(u, t.client, t.op, t.id, step, t.send, t.copy)
        \/ \E u : /\ Len(t.send) > 1
                  /\ tasks' = (tasks \ {t}) \cup {u}
                  /\ HasFields(u, t.client, t.op, t.id, t.step, Tail(t.send), t.copy)
    <3>1. ASSUME NEW step \in {"sent", "failed"}, Goes(t, step)
          PROVE  \E u : tasks' = (tasks \ {t}) \cup {u} /\ HasFields(u, t.client, t.op, t.id, step, t.send, t.copy)
      BY <2>1, <3>1, ChangedTask DEF Goes, Becomes, TaskOK
    <3>2. ASSUME Becomes(t, [t EXCEPT !.send = Tail(@)])
          PROVE  \E u : tasks' = (tasks \ {t}) \cup {u} /\ HasFields(u, t.client, t.op, t.id, t.step, Tail(t.send), t.copy)
      <4>1. tasks' = (tasks \ {t}) \cup {[t EXCEPT !.send = Tail(t.send)]}
        BY <3>2 DEF Becomes
      <4>2. HasFields([t EXCEPT !.send = Tail(t.send)], t.client, t.op, t.id, t.step, Tail(t.send), t.copy)
        BY <2>1, ChangedTask DEF TaskOK
      <4> QED
        BY <4>1, <4>2
    <3>3. CASE Post(t)
      BY <3>1, <3>2, <3>3 DEF Post
    <3>4. CASE PostFails(t)
      BY <3>1, <3>4 DEF PostFails
    <3> QED
      BY <3>3, <3>4
  <2>5. CASE t.client = Reader
    <3>1. wire'[Reader] = wire[Reader]
      BY <2>2, <2>3, <2>5, TwoClients DEF Arrives, Peer
    <3>2. PICK u : tasks \ {t} \subseteq tasks' /\ tasks' \subseteq tasks \cup {u} /\ AuthorSends(u)
      BY <2>1, <2>4, <2>5, ReaderSends DEF Ends, HasFields
    <3> QED
      BY <2>2, <2>5, <3>1, <3>2, TwoClients, FilesCalls
  <2>6. CASE t.client = Author
    <3>1. PICK s : s = t.send /\ IsSeq(s) /\ s # <<>> /\ \A x \in Range(s) : IsChunk(x)
      BY <2>1, <2>6 DEF AuthorSends
    <3>2. IsChunk(Head(s))
      BY <3>1, TailSeq
    <3>3. PICK B : B = wire[Reader] /\ Counted(B)
      BY DEF FilesInv, SentInv
    <3>4. \/ wire'[Reader] = WithCopy(B, Head(s))
          \/ wire'[Reader] = B /\ ~Post(t) /\ PostFails(t)
      BY <2>2, <2>3, <2>6, <3>1, <3>3, TwoClients DEF Arrives, Peer
    <3>5. Counted(wire'[Reader]) /\ DOMAIN B \subseteq DOMAIN wire'[Reader]
          /\ DOMAIN wire'[Reader] \subseteq DOMAIN B \cup {Head(s)}
          /\ (~PostFails(t) => Head(s) \in DOMAIN wire'[Reader])
      <4>1. CASE wire'[Reader] = WithCopy(B, Head(s))
        <5>1. PICK h, C : h = Head(s) /\ C = WithCopy(B, h)
          OBVIOUS
        <5>2. Counted(C) /\ DOMAIN C = DOMAIN B \cup {h}
          BY <3>3, <5>1, CopyFacts, CopiesKept
        <5>3. wire'[Reader] = C
          BY <4>1, <5>1
        <5> QED
          BY <5>1, <5>2, <5>3
      <4>2. CASE wire'[Reader] = B /\ PostFails(t)
        BY <3>3, <4>2
      <4> QED
        BY <3>4, <4>1, <4>2
    <3>6. PICK u : /\ tasks \ {t} \subseteq tasks' /\ tasks' \subseteq tasks \cup {u} /\ AuthorSends(u)
                   /\ PostFails(t) \/ \A x \in Range(s) : x = Head(s) \/ (u \in tasks' /\ IsPosting(u, x))
      <4>1. CASE Ends(t) /\ (PostFails(t) \/ ~(Len(t.send) > 1))
        BY <2>1, <3>1, <4>1, TailSeq, SMT DEF Ends
      <4>2. ASSUME NEW step \in {"sent", "failed"}, NEW u,
                   PostFails(t) \/ ~(Len(t.send) > 1),
                   tasks' = (tasks \ {t}) \cup {u},
                   HasFields(u, t.client, t.op, t.id, step, t.send, t.copy)
            PROVE  AuthorSends(u) /\ (PostFails(t) \/ \A x \in Range(s) : x = Head(s))
        BY <3>1, <4>2, TailSeq DEF HasFields, AuthorSends
      <4>3. ASSUME NEW u,
                   Len(t.send) > 1,
                   HasFields(u, t.client, t.op, t.id, t.step, Tail(t.send), t.copy)
            PROVE  AuthorSends(u) /\ \A x \in Range(s) : x = Head(s) \/ IsPosting(u, x)
        BY <2>1, <2>6, <3>1, <4>3, TailSeq DEF HasFields, AuthorSends, IsPosting
      <4> QED
        BY <2>4, <4>1, <4>2, <4>3
    <3>7. SentInv'
      BY <3>2, <3>3, <3>5, <3>6 DEF FilesInv, SentInv
    <3>8. ~PostFails(t) => \A x : Posted(x) => Posted(x)'
      BY <3>1, <3>3, <3>5, <3>6 DEF Posted, IsPosting
    <3>9. Unharmed' => ~PostFails(t)
      BY DEF PostFails, Unharmed
    <3> QED
      BY <2>2, <3>7, <3>8, <3>9, FilesSame
  <2> QED
    BY <2>1, <2>5, <2>6, TwoClients
<1>FilesHandle. ASSUME NEW c \in Client, NEW x \in DOMAIN wire[c],
                       ApplyText(c, x) \/ ApplyReceipt(c, x) \/ ApplyPatch(c, x) \/ ApplyEdit(c, x)
                PROVE  FilesInv'
  <2> USE <1>FilesHandle
  <2>1. UNCHANGED <<blobs, assemblers>> /\ causes \subseteq causes' /\ x.type # "attachment"
        /\ wire' = [wire EXCEPT ![c] = LessCopy(@, x)]
    BY DEF ApplyText, ApplyReceipt, ApplyPatch, ApplyEdit, Takes, stores
  <2>2. /\ Counted(wire'[Reader])
        /\ DOMAIN wire'[Reader] \subseteq DOMAIN wire[Reader]
        /\ DOMAIN wire[Reader] \ {x} \subseteq DOMAIN wire'[Reader]
    BY <2>1, TakenKeeps
  <2>3. PICK u : tasks \subseteq tasks' /\ tasks' \subseteq tasks \cup {u} /\ (u \in tasks' \ tasks => AuthorSends(u))
    <3>1. CASE ApplyText(c, x)
      <4>1. c = Reader
        BY <3>1, TwoClients DEF ApplyText, MessagesInv, ContentOK
      <4>2. PICK send : tasks' = tasks \cup {Task(c, "handle", x.id, "counting", send)}
        BY <3>1 DEF ApplyText
      <4>3. PICK u : tasks' = tasks \cup {u} /\ HasFields(u, c, "handle", x.id, "counting", send, {})
        BY <4>2, TaskFields
      <4> QED
        BY <4>1, <4>3, ReaderSends DEF HasFields
    <3>2. CASE ApplyReceipt(c, x)
      <4>1. PICK u : tasks' = tasks \cup {u} /\ HasFields(u, c, "handle", 0, "confirming", <<x>>, {})
        BY <3>2, TaskFields DEF ApplyReceipt
      <4>2. CASE c = Author
        BY <4>1, <4>2, OneSends
      <4>3. CASE c = Reader
        BY <4>1, <4>3, ReaderSends DEF HasFields
      <4> QED
        BY <4>1, <4>2, <4>3, TwoClients
    <3>3. CASE ApplyPatch(c, x)
      BY <3>3 DEF ApplyPatch
    <3>4. CASE ApplyEdit(c, x)
      <4>1. c = Reader
        BY <3>4, TwoClients DEF ApplyEdit, MessagesInv, ContentOK
      <4>2. tasks' = tasks \/ \E copy : tasks' = tasks \cup {[Task(c, "handle", x.id, "storing", <<>>) EXCEPT !.copy = copy]}
        BY <3>4 DEF ApplyEdit
      <4>3. tasks' = tasks \/ \E u, copy : tasks' = tasks \cup {u} /\ HasFields(u, c, "handle", x.id, "storing", <<>>, copy)
        BY <4>2, TaskFields
      <4> QED
        BY <4>1, <4>3, ReaderSends DEF HasFields
    <3> QED
      BY <3>1, <3>2, <3>3, <3>4
  <2>4. SentInv'
    BY <2>2, <2>3 DEF FilesInv, SentInv
  <2>5. \A y : y.type = "attachment" /\ Posted(y) => Posted(y)'
    BY <2>1, <2>2, <2>3 DEF Posted
  <2> QED
    BY <2>1, <2>4, <2>5, FilesSame
<1>FilesChunk. ASSUME NEW c \in Client, NEW x \in DOMAIN wire[c], ApplyChunk(c, x)
               PROVE  FilesInv'
  <2> USE <1>FilesChunk
  <2>1. c = Reader /\ x.type = "attachment" /\ causes' = causes
        /\ wire' = [wire EXCEPT ![c] = LessCopy(@, x)]
    BY TwoClients DEF ApplyChunk, Takes, MessagesInv, ContentOK
  <2>2. PICK id : id = x.id
    OBVIOUS
  <2>3. PICK i \in 1 .. Chunks : x = Chunk(id, i)
    BY <2>1, <2>2 DEF FilesInv, SentInv, IsChunk
  <2>4. PICK a : a = (IF id \in DOMAIN assemblers THEN assemblers[id] ELSE NewAssembler)
    OBVIOUS
  <2>5. a = NewAssembler \/ PartialFile(id, a)
    BY <2>4 DEF FilesInv, StoredInv
  <2>6. PICK b : b = Added(a, x)
    OBVIOUS
  <2>7. /\ ~Confused(a, x)
        /\ b.parts = a.parts \cup {PartOf(id, i)}
        /\ b.parts \subseteq Parts(id)
        /\ b.meta = {[count |-> Chunks, size |-> FileSize]}
        /\ IsWhole(b) <=> b.parts = Parts(id)
        /\ IsWhole(b) => ~WrongSize(b) /\ Assembled(b) = File(id)
    BY <2>3, <2>5, <2>6, AddedParts
  <2>8. /\ Counted(wire'[Reader])
        /\ DOMAIN wire'[Reader] \subseteq DOMAIN wire[Reader]
        /\ DOMAIN wire[Reader] \ {x} \subseteq DOMAIN wire'[Reader]
    BY <2>1, TakenKeeps
  <2>9. \A j : \A k \in 1 .. Chunks : Chunk(j, k) = x => j = id /\ k = i
    <3> SUFFICES ASSUME NEW j, NEW k \in 1 .. Chunks, Chunk(j, k) = x PROVE j = id /\ k = i
      OBVIOUS
    <3>1. x.id = j /\ x.index = k - 1
      BY ChunkFields, SMT
    <3>2. x.id = id /\ x.index = i - 1
      BY <2>3, ChunkFields, SMT
    <3> QED
      BY <3>1, <3>2, ChunkBounds, SMT
  <2>10. \A j : \A k \in 1 .. Chunks : Posted(Chunk(j, k)) /\ tasks \subseteq tasks' => Posted(Chunk(j, k))' \/ (j = id /\ k = i)
    BY <2>8, <2>9 DEF Posted
  <2>11. CASE ~IsWhole(b)
    <3>1. assemblers' = Put(assemblers, id, b) /\ UNCHANGED <<blobs, tasks>>
      BY <2>2, <2>4, <2>6, <2>7, <2>11 DEF ApplyChunk
    <3>2. /\ DOMAIN assemblers' = DOMAIN assemblers \cup {id} /\ assemblers'[id] = b
          /\ \A j \in DOMAIN assemblers \ {id} : assemblers'[j] = assemblers[j]
      BY <3>1 DEF Put
    <3>3. PartialFile(id, b)
      BY <2>7, <2>11 DEF PartialFile
    <3>4. StoredInv'
      BY <3>1, <3>2, <3>3 DEF FilesInv, StoredInv
    <3>5. SentInv'
      BY <2>8, <3>1 DEF FilesInv, SentInv
    <3>6. \A j : \A k \in 1 .. Chunks : Held(j, k) => Held(j, k)'
      BY <2>4, <2>7, <3>2 DEF Held
    <3>7. Held(id, i)'
      BY <2>7, <3>2 DEF Held
    <3>8. \A j : \A k \in 1 .. Chunks : UnderWay(j, k) => UnderWay(j, k)'
      BY <2>10, <3>1, <3>6, <3>7 DEF UnderWay
    <3>9. ArrivesInv'
      BY <2>1, <3>1, <3>8 DEF FilesInv, ArrivesInv, Unharmed
    <3> QED
      BY <3>4, <3>5, <3>9 DEF FilesInv
  <2>12. CASE IsWhole(b)
    <3>1. /\ assemblers' = [j \in DOMAIN assemblers \ {id} |-> assemblers[j]]
          /\ blobs' = [blobs EXCEPT ![c] = Put(@, id, File(id))]
          /\ \E copy : tasks' = tasks \cup {[Task(c, "file", id, "storing", <<Receipt({id}, "delivered")>>) EXCEPT !.copy = copy]}
      <4>1. ~Confused(a, x) /\ ~(~IsWhole(b) \/ WrongSize(b)) /\ Assembled(b) = File(id)
        BY <2>7, <2>12
      <4>2. /\ assemblers' = [j \in DOMAIN assemblers \ {id} |-> assemblers[j]]
            /\ blobs' = [blobs EXCEPT ![c] = Put(@, id, File(id))]
        BY <2>2, <2>4, <2>6, <4>1 DEF ApplyChunk
      <4>3. \E copy : tasks' = tasks \cup {[Task(c, "file", id, "storing", <<Receipt({id}, "delivered")>>) EXCEPT !.copy = copy]}
        BY <2>2, <2>4, <2>6, <4>1 DEF ApplyChunk
      <4> QED
        BY <4>2, <4>3
    <3>2. /\ DOMAIN blobs' = Client /\ blobs'[Author] = blobs[Author]
          /\ DOMAIN blobs'[Reader] = DOMAIN blobs[Reader] \cup {id}
          /\ blobs'[Reader][id] = File(id)
          /\ \A j \in DOMAIN blobs[Reader] \ {id} : blobs'[Reader][j] = blobs[Reader][j]
      BY <2>1, <3>1, TwoClients DEF FilesInv, StoredInv, Put
    <3>3. StoredInv'
      BY <3>1, <3>2 DEF FilesInv, StoredInv
    <3>4. PICK u, send, copy : tasks' = tasks \cup {u} /\ HasFields(u, c, "file", id, "storing", send, copy)
      BY <3>1, TaskFields
    <3>5. AuthorSends(u)
      BY <2>1, <3>4, ReaderSends DEF HasFields
    <3>6. SentInv'
      BY <2>8, <3>4, <3>5 DEF FilesInv, SentInv
    <3>7. \A j : j # id => \A k \in 1 .. Chunks : UnderWay(j, k) => UnderWay(j, k)'
      BY <2>10, <3>1, <3>4 DEF UnderWay, Held
    <3>8. ArrivesInv'
      BY <2>1, <3>2, <3>7 DEF FilesInv, ArrivesInv, Unharmed
    <3> QED
      BY <3>3, <3>6, <3>8 DEF FilesInv
  <2> QED
    BY <2>11, <2>12
<1>FilesFault. ASSUME NEW c \in Client, Lose(c) \/ Crash(c) \/ UNCHANGED vars
               PROVE  FilesInv'
  <2> USE <1>FilesFault
  <2>1. CASE Lose(c)
    <3>1. PICK x : wire' = [wire EXCEPT ![c] = LessCopy(@, x)]
      BY <2>1 DEF Lose
    <3>2. UNCHANGED <<blobs, assemblers, tasks>> /\ causes \subseteq causes' /\ ~Unharmed'
      BY <2>1 DEF Lose, stores, Unharmed
    <3>3. SentInv'
      BY <3>1, <3>2, TakenKeeps DEF FilesInv, SentInv
    <3> QED
      BY <3>2, <3>3, FilesSame
  <2>2. CASE Crash(c)
    BY <2>2, SMT DEF Crash, FilesInv, StoredInv, SentInv, ArrivesInv, Unharmed, EmptyHistory
  <2>3. CASE UNCHANGED vars
    <3>1. UNCHANGED <<blobs, assemblers, tasks, wire, causes>>
      BY <2>3 DEF vars
    <3>2. SentInv' /\ \A x : Posted(x) => Posted(x)'
      BY <3>1 DEF FilesInv, SentInv, Posted
    <3> QED
      BY <3>1, <3>2, FilesSame
  <2> QED
    BY <2>1, <2>2, <2>3
<1>1. ASSUME NEW t \in tasks, TaskStep(t) \/ PostFails(t)
      PROVE  FilesInv'
  BY <1>1, <1>FilesTask, <1>FilesPost DEF TaskStep
<1>2. ASSUME NEW id, Retry(id) \/ Delete(id) \/ Edit(id) \/ \E c \in Client : React(c, id)
      PROVE  FilesInv'
  BY <1>2, <1>FilesCall, TwoClients
<1>3. ASSUME NEW c \in Client, NEW x \in DOMAIN wire[c], Handle(c, x)
      PROVE  FilesInv'
  BY <1>3, <1>FilesHandle, <1>FilesChunk DEF Handle
<1> QED
  BY <1>1, <1>2, <1>3, <1>FilesCall, <1>FilesAttachment, <1>FilesFault, TwoClients DEF Next

(* A file the reader has is the author's byte for byte, in whatever order  *)
(* its chunks came and whatever its size and theirs; and once nothing is   *)
(* under way every file is there, unless a chunk was lost, a request       *)
(* failed or a page closed.                                                *)
THEOREM FilesAreWhole == Spec => []FilesArriveWhole
<1>1. Init => FilesInv
  BY TwoClients, SMT DEF Init, FilesInv, StoredInv, SentInv, ArrivesInv, EmptyHistory, Counted
<1>2. FilesInv => FilesArriveWhole
  <2> SUFFICES ASSUME FilesInv PROVE FilesArriveWhole
    OBVIOUS
  <2>1. ASSUME Resting, Unharmed, NEW id \in DOMAIN blobs[Author]
        PROVE  id \in DOMAIN blobs[Reader]
    <3> SUFFICES ASSUME \A i \in 1 .. Chunks : UnderWay(id, i) PROVE FALSE
      BY <2>1 DEF FilesInv, ArrivesInv
    <3>1. tasks = {} /\ DOMAIN wire[Reader] = {}
      BY <2>1, TwoClients, SMT DEF Resting, EmptyHistory
    <3>2. \A i \in 1 .. Chunks : Held(id, i)
      BY <3>1 DEF UnderWay, Posted
    <3>3. id \in DOMAIN assemblers /\ Parts(id) \subseteq assemblers[id].parts
      BY <3>2, ChunkBounds, SMT DEF Held, Parts
    <3> QED
      BY <3>3 DEF FilesInv, StoredInv, PartialFile
  <2> QED
    BY <2>1 DEF FilesInv, StoredInv, FilesArriveWhole, Unharmed
<1> QED
  BY <1>1, <1>2, MessagesInit, MessagesStep, FilesStep, PTL DEF Spec
=============================================================================
