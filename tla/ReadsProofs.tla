------------------------------ MODULE ReadsProofs -----------------------------
(***************************************************************************)
(* What is loaded from a file that was saved, whole or damaged, and what   *)
(* a page of a scan gives of a tree, whole or in part.                     *)
(***************************************************************************)
EXTENDS Reads, Paging, WalkProofs

(***************************************************************************)
(* Sequences of cells.                                                     *)
(***************************************************************************)
\* A sequence, of whatever it consists of.
CellSeq(s) == s \in Seq(ToSet(s))

\* Any sequence is one of cells.
LEMMA SeqIs ==
  ASSUME NEW A, NEW s \in Seq(A)
  PROVE  CellSeq(s)
<1>1. Len(s) \in Nat /\ DOMAIN s = 1..Len(s) /\ s = [i \in 1..Len(s) |-> s[i]]
  BY DEF Seq
<1>2. \A i \in 1..Len(s) : s[i] \in ToSet(s)
  BY <1>1 DEF ToSet
<1>. QED
  BY <1>1, <1>2 DEF CellSeq

\* So is a function on the positions up to n.
LEMMA CellsIn ==
  ASSUME NEW n \in Nat, NEW s, s = [i \in 1..n |-> s[i]]
  PROVE  CellSeq(s) /\ Len(s) = n
<1>1. DOMAIN s = 1..n
  OBVIOUS
<1>2. \A i \in 1..n : s[i] \in ToSet(s)
  BY <1>1 DEF ToSet
<1>3. s \in Seq(ToSet(s))
  <2>. DEFINE all == ToSet(s)
  <2>1. s \in [1..n -> all]
    BY <1>2
  <2>. HIDE DEF all
  <2>2. s \in Seq(all)
    BY <2>1
  <2>. QED
    BY <2>2 DEF all
<1>4. Len(s) = n
  BY <1>1, <1>3
<1>. QED
  BY <1>3, <1>4 DEF CellSeq

\* all consists of s and what follows it, t.
Joins(s, t, all) ==
  /\ CellSeq(all)
  /\ Len(s) \in Nat /\ Len(t) \in Nat
  /\ Len(all) = Len(s) + Len(t)
  /\ \A i \in 1..Len(s) : all[i] = s[i]
  /\ \A i \in 1..Len(t) : all[Len(s) + i] = t[i]

\* Sections that follow each other in a file.
LEMMA Joined ==
  ASSUME NEW s, NEW t, CellSeq(s), CellSeq(t)
  PROVE  Joins(s, t, s \o t)
<1>. DEFINE A == ToSet(s) \cup ToSet(t)
<1>1. s \in Seq(A) /\ t \in Seq(A)
  BY DEF CellSeq
<1>2. Len(s) \in Nat /\ Len(t) \in Nat
  BY <1>1
<1>. HIDE DEF A
<1>3. /\ s \o t \in Seq(A)
      /\ Len(s \o t) = Len(s) + Len(t)
      /\ \A i \in 1 .. Len(s) + Len(t) : (s \o t)[i] = IF i <= Len(s) THEN s[i] ELSE t[i - Len(s)]
  BY <1>1, ConcatProperties
<1>4. \A i \in 1..Len(s) : (s \o t)[i] = s[i]
  BY <1>2, <1>3
<1>5. ASSUME NEW i \in 1..Len(t)
      PROVE  (s \o t)[Len(s) + i] = t[i]
  BY <1>2, <1>3, Len(s) + i \in 1..(Len(s) + Len(t)), ~(Len(s) + i <= Len(s)), (Len(s) + i) - Len(s) = i
<1>. QED
  BY <1>2, <1>3, <1>4, <1>5, SeqIs DEF Joins

\* Two sequences of the same length are the same if their elements are.
LEMMA SameSeq ==
  ASSUME NEW s, NEW t, CellSeq(s), CellSeq(t), Len(s) = Len(t),
         \A i \in 1..Len(s) : s[i] = t[i]
  PROVE  s = t
<1>1. /\ s \in Seq(ToSet(s)) /\ DOMAIN s = 1..Len(s) /\ s = [i \in 1..Len(s) |-> s[i]]
      /\ t \in Seq(ToSet(t)) /\ DOMAIN t = 1..Len(t) /\ t = [i \in 1..Len(t) |-> t[i]]
  BY DEF CellSeq, Seq
<1>. QED
  BY <1>1

\* Cells of a file between two offsets.
LEMMA SliceIs ==
  ASSUME NEW f, CellSeq(f), NEW offset \in Nat, NEW length \in Nat, offset + length <= Len(f)
  PROVE  /\ CellSeq(Slice(f, offset, length))
         /\ Len(Slice(f, offset, length)) = length
         /\ \A i \in 1..length : Slice(f, offset, length)[i] = f[offset + i]
<1>1. /\ f \in Seq(ToSet(f)) /\ Len(f) \in Nat /\ \A i \in 1..Len(f) : f[i] \in ToSet(f)
  BY DEF CellSeq
<1>2. \A i \in (offset + 1)..(offset + length) : f[i] \in ToSet(f)
  BY <1>1
<1>3. /\ Slice(f, offset, length) \in Seq(ToSet(f))
      /\ Len(Slice(f, offset, length)) =
           IF offset + 1 <= offset + length THEN offset + length - (offset + 1) + 1 ELSE 0
      /\ \A i \in 1..(offset + length - (offset + 1) + 1) :
           Slice(f, offset, length)[i] = f[offset + 1 + i - 1]
  BY <1>2, SubSeqProperties DEF Slice
<1>4. \A i \in 1..length : /\ offset + 1 + i - 1 = offset + i
                           /\ i \in 1..(offset + length - (offset + 1) + 1)
  OBVIOUS
<1>. QED
  BY <1>3, <1>4, SeqIs
-----------------------------------------------------------------------------
(***************************************************************************)
(* What a saved file consists of.                                          *)
(***************************************************************************)
\* Where sections begin in a file of n chunks.
IndexAt(n) == HeaderSize + n

MetadataAt(n) == IndexAt(n) + EnvelopeSize + 1 + EntrySize * n

EofAt(n) == MetadataAt(n) + EnvelopeSize + 1

\* The cells of f before the EOF block are those of a saved file.
SavedCells(f, order, by_hash, metadata) ==
  LET n == Len(order)
  IN  /\ f[1] = Signature /\ f[2] = FormatVersion /\ f[3] = Flags
      /\ f[4] = Number(MetadataAt(n)) /\ f[5] = Number(IndexAt(n)) /\ f[6] = Number(EofAt(n))
      /\ f[7] = <<"reserved", 0>>
      /\ \A i \in 1..n : f[HeaderSize + i] = <<"chunk", order[i]>>
      /\ f[IndexAt(n) + 1] = <<"tag", "chunk_index">>
      /\ f[IndexAt(n) + 2] = Number(1 + EntrySize * n)
      /\ f[IndexAt(n) + 3] = <<"crc32", ChunkIndex(order, by_hash)>>
      /\ \A j \in 1..(1 + EntrySize * n) :
           f[IndexAt(n) + EnvelopeSize + j] = ChunkIndex(order, by_hash)[j]
      /\ f[MetadataAt(n) + 1] = <<"tag", "metadata">>
      /\ f[MetadataAt(n) + 2] = Number(1)
      /\ f[MetadataAt(n) + 3] = <<"crc32", <<metadata>>>>
      /\ f[MetadataAt(n) + 4] = metadata

\* idx is the count of the chunks and an entry for each.
Indexes(idx, order, by_hash) ==
  /\ CellSeq(idx) /\ Len(idx) = 1 + EntrySize * Len(order)
  /\ idx[1] = Number(Len(order))
  /\ \A i \in 1..Len(order), m \in 1..EntrySize :
       idx[1 + EntrySize * (i - 1) + m] =
         ChunkIndexEntry(by_hash[i], ChunkOffset(order, by_hash[i]), 1)[m]

\* The content of the chunk index block, cell by cell.
LEMMA ChunkIndexIs ==
  ASSUME NEW order, NEW by_hash, Len(order) \in Nat
  PROVE  Indexes(ChunkIndex(order, by_hash), order, by_hash)
<1>. DEFINE n == Len(order)
            entry(i) == ChunkIndexEntry(by_hash[i], ChunkOffset(order, by_hash[i]), 1)
            cell(j) == entry((j - 1) \div EntrySize + 1)[((j - 1) % EntrySize) + 1]
            count == <<Number(n)>>
            cells == [j \in 1..(EntrySize * n) |-> cell(j)]
<1>1. ChunkIndex(order, by_hash) = count \o cells
  BY DEF ChunkIndex
<1>2. CellSeq(count) /\ Len(count) = 1 /\ count[1] = Number(n)
  <2>1. count \in Seq({Number(n)})
    OBVIOUS
  <2>. QED
    BY <2>1, SeqIs
<1>3. EntrySize = 4 /\ EntrySize * n \in Nat
  BY DEF EntrySize
<1>. HIDE DEF cell, count
<1>4. /\ cells = [j \in 1..(EntrySize * n) |-> cells[j]]
      /\ \A j \in 1..(EntrySize * n) : cells[j] = cell(j)
  OBVIOUS
<1>. HIDE DEF cells
<1>5. CellSeq(cells) /\ Len(cells) = EntrySize * n
  BY <1>3, <1>4, CellsIn
<1>. DEFINE all == count \o cells
<1>6. Joins(count, cells, all)
  BY <1>2, <1>5, Joined
<1>. HIDE DEF all
<1>7. /\ CellSeq(all) /\ Len(all) = 1 + EntrySize * n /\ all[1] = Number(n)
      /\ \A j \in 1..(EntrySize * n) : all[1 + j] = cells[j]
  BY <1>2, <1>3, <1>5, <1>6 DEF Joins
<1>8. ASSUME NEW i \in 1..n, NEW m \in 1..EntrySize
      PROVE  all[1 + EntrySize * (i - 1) + m] = entry(i)[m]
  <2>. DEFINE j == EntrySize * (i - 1) + m
  <2>1. /\ j \in 1..(EntrySize * n) /\ (j - 1) \div EntrySize = i - 1
        /\ (j - 1) % EntrySize = m - 1 /\ 1 + EntrySize * (i - 1) + m = 1 + j
    BY <1>3
  <2>2. cell(j) = entry(i)[m]
    BY <2>1 DEF cell
  <2>. HIDE DEF j
  <2>3. all[1 + j] = cell(j)
    BY <1>4, <1>7, <2>1
  <2>. QED
    BY <2>1, <2>2, <2>3
<1>. HIDE DEF entry
<1>. QED
  BY <1>1, <1>7, <1>8 DEF entry, all, Indexes

\* block is a content block with its envelope.
Enveloped(tag, content, block) ==
  /\ CellSeq(block) /\ Len(content) \in Nat
  /\ Len(block) = EnvelopeSize + Len(content)
  /\ block[1] = <<"tag", tag>>
  /\ block[2] = Number(Len(content))
  /\ block[3] = <<"crc32", content>>
  /\ \A j \in 1..Len(content) : block[EnvelopeSize + j] = content[j]

\* What Block puts before its content.
LEMMA BlockIs ==
  ASSUME NEW tag, NEW content, CellSeq(content)
  PROVE  Enveloped(tag, content, Block(tag, content))
<1>. DEFINE a == <<"tag", tag>>
            b == Number(Len(content))
            c == <<"crc32", content>>
            envelope == <<a, b, c>>
            all == envelope \o content
<1>. HIDE DEF a, b, c
<1>1. CellSeq(envelope) /\ Len(envelope) = 3 /\ envelope[1] = a /\ envelope[2] = b /\ envelope[3] = c
  <2>1. envelope \in Seq({a, b, c})
    OBVIOUS
  <2>. QED
    BY <2>1, SeqIs
<1>. HIDE DEF envelope
<1>2. Joins(envelope, content, all)
  BY <1>1, Joined
<1>3. Block(tag, content) = all
  BY DEF Block, envelope, a, b, c
<1>. HIDE DEF all
<1>4. all[1] = a /\ all[2] = b /\ all[3] = c
  BY <1>1, <1>2 DEF Joins
<1>. QED
  BY <1>1, <1>2, <1>3, <1>4 DEF Joins, Enveloped, EnvelopeSize, a, b, c

\* The header, cell by cell.
LEMMA HeaderIs ==
  ASSUME NEW m, NEW c, NEW e
  PROVE  /\ CellSeq(Header(m, c, e)) /\ Len(Header(m, c, e)) = HeaderSize
         /\ Header(m, c, e)[1] = Signature
         /\ Header(m, c, e)[2] = FormatVersion
         /\ Header(m, c, e)[3] = Flags
         /\ Header(m, c, e)[4] = Number(m)
         /\ Header(m, c, e)[5] = Number(c)
         /\ Header(m, c, e)[6] = Number(e)
         /\ Header(m, c, e)[7] = <<"reserved", 0>>
<1>. DEFINE r == <<"reserved", 0>>
<1>. HIDE DEF r
<1>1. Header(m, c, e) = <<Signature, FormatVersion, Flags, Number(m), Number(c), Number(e), r>>
  BY DEF Header, r
<1>2. Header(m, c, e) \in Seq({Signature, FormatVersion, Flags, Number(m), Number(c), Number(e), r})
  BY <1>1
<1>3. CellSeq(Header(m, c, e))
  BY <1>2, SeqIs
<1>4. /\ Len(Header(m, c, e)) = 7
      /\ Header(m, c, e)[1] = Signature /\ Header(m, c, e)[2] = FormatVersion
      /\ Header(m, c, e)[3] = Flags /\ Header(m, c, e)[4] = Number(m)
      /\ Header(m, c, e)[5] = Number(c) /\ Header(m, c, e)[6] = Number(e)
      /\ Header(m, c, e)[7] = r
  BY <1>1
<1>. QED
  BY <1>3, <1>4 DEF HeaderSize, r

\* The EOF block, cell by cell.
LEMMA EofBlockIs ==
  ASSUME NEW m, NEW c, NEW checksummed
  PROVE  /\ CellSeq(EofBlock(m, c, checksummed)) /\ Len(EofBlock(m, c, checksummed)) = EofSize
         /\ EofBlock(m, c, checksummed)[1] = <<"tag", "eof">>
         /\ EofBlock(m, c, checksummed)[2] = Number(m)
         /\ EofBlock(m, c, checksummed)[3] = Number(c)
         /\ EofBlock(m, c, checksummed)[4] = ReversedSignature
         /\ EofBlock(m, c, checksummed)[5] = <<"blake3", checksummed>>
<1>. DEFINE t == <<"tag", "eof">>
            b == <<"blake3", checksummed>>
<1>. HIDE DEF t, b
<1>1. EofBlock(m, c, checksummed) = <<t, Number(m), Number(c), ReversedSignature, b>>
  BY DEF EofBlock, t, b
<1>2. EofBlock(m, c, checksummed) \in Seq({t, Number(m), Number(c), ReversedSignature, b})
  BY <1>1
<1>3. CellSeq(EofBlock(m, c, checksummed))
  BY <1>2, SeqIs
<1>4. /\ Len(EofBlock(m, c, checksummed)) = 5
      /\ EofBlock(m, c, checksummed)[1] = t
      /\ EofBlock(m, c, checksummed)[2] = Number(m)
      /\ EofBlock(m, c, checksummed)[3] = Number(c)
      /\ EofBlock(m, c, checksummed)[4] = ReversedSignature
      /\ EofBlock(m, c, checksummed)[5] = b
  BY <1>1
<1>. QED
  BY <1>3, <1>4 DEF EofSize, t, b

\* The sections between the header and the EOF block.
AreSections(at, order, idx, meta) ==
  \E data, index, metadata, front :
    /\ Joins(data, index, front) /\ Joins(front, metadata, at.cells)
    /\ at.chunk_index = HeaderSize + Len(data)
    /\ at.metadata = HeaderSize + Len(front)
    /\ at.eof = HeaderSize + Len(at.cells)
    /\ Len(data) = Len(order)
    /\ \A i \in 1..Len(order) : data[i] = <<"chunk", order[i]>>
    /\ Enveloped("chunk_index", idx, index)
    /\ Enveloped("metadata", <<meta>>, metadata)

\* Sections are where they are said to be.
LEMMA SectionsAre ==
  ASSUME NEW tree, NEW conf, NEW S, NEW order \in Seq(S), NEW by_hash, NEW description
  PROVE  AreSections(Sections(tree, conf, order, by_hash, description), order,
                     ChunkIndex(order, by_hash), Metadata(tree, conf, description))
<1>. DEFINE n == Len(order)
            data == [i \in DOMAIN order |-> <<"chunk", order[i]>>]
            index == Block("chunk_index", ChunkIndex(order, by_hash))
            metadata == Block("metadata", <<Metadata(tree, conf, description)>>)
            front == data \o index
            cells == front \o metadata
<1>1. n \in Nat /\ DOMAIN order = 1..n
  OBVIOUS
<1>2. /\ data = [i \in 1..n |-> data[i]]
      /\ \A i \in 1..n : data[i] = <<"chunk", order[i]>>
  BY <1>1
<1>. DEFINE at == Sections(tree, conf, order, by_hash, description)
<1>3. at = [cells |-> cells, chunk_index |-> HeaderSize + Len(data),
            metadata |-> HeaderSize + Len(front), eof |-> HeaderSize + Len(cells)]
  BY DEF Sections
<1>4. Enveloped("chunk_index", ChunkIndex(order, by_hash), index)
  BY <1>1, ChunkIndexIs, BlockIs DEF Indexes
<1>5. Enveloped("metadata", <<Metadata(tree, conf, description)>>, metadata)
  <2>. DEFINE m == Metadata(tree, conf, description)
  <2>. HIDE DEF m
  <2>1. <<m>> \in Seq({m})
    OBVIOUS
  <2>2. CellSeq(<<m>>)
    BY <2>1, SeqIs
  <2>. QED
    BY <2>2, BlockIs DEF m
<1>. HIDE DEF at, data, index, metadata
<1>6. CellSeq(data) /\ Len(data) = n
  BY <1>1, <1>2, CellsIn
<1>7. Joins(data, index, front)
  <2>1. CellSeq(index)
    BY <1>4 DEF Enveloped
  <2>. QED
    BY <1>6, <2>1, Joined
<1>. HIDE DEF front
<1>8. Joins(front, metadata, cells)
  <2>1. CellSeq(front) /\ CellSeq(metadata)
    BY <1>5, <1>7 DEF Joins, Enveloped
  <2>. QED
    BY <2>1, Joined
<1>. HIDE DEF cells
<1>9. /\ at.cells = cells /\ at.chunk_index = HeaderSize + Len(data)
      /\ at.metadata = HeaderSize + Len(front) /\ at.eof = HeaderSize + Len(cells)
  BY <1>3
<1>10. Len(data) = n /\ \A i \in 1..n : data[i] = <<"chunk", order[i]>>
  BY <1>2, <1>6
<1>11. AreSections(at, order, ChunkIndex(order, by_hash), Metadata(tree, conf, description))
  <2>. SUFFICES \E d, i, m, f :
         /\ Joins(d, i, f) /\ Joins(f, m, at.cells)
         /\ at.chunk_index = HeaderSize + Len(d)
         /\ at.metadata = HeaderSize + Len(f)
         /\ at.eof = HeaderSize + Len(at.cells)
         /\ Len(d) = Len(order)
         /\ \A k \in 1..Len(order) : d[k] = <<"chunk", order[k]>>
         /\ Enveloped("chunk_index", ChunkIndex(order, by_hash), i)
         /\ Enveloped("metadata", <<Metadata(tree, conf, description)>>, m)
    BY Zenon DEF AreSections
  <2>. WITNESS data, index, metadata, front
  <2>. QED
    BY <1>4, <1>5, <1>7, <1>8, <1>9, <1>10, Zenon
<1>. QED
  BY <1>11 DEF at

\* A saved file is what `SavedCells' says, then the EOF block for it.
LEMMA SavedFile ==
  ASSUME NEW tree, NEW conf, NEW S, NEW order \in Seq(S), NEW by_hash, NEW description
  PROVE  \E content :
           /\ CellSeq(content) /\ Len(content) = EofAt(Len(order))
           /\ SavedCells(content, order, by_hash, Metadata(tree, conf, description))
           /\ Joins(content, EofBlock(MetadataAt(Len(order)), IndexAt(Len(order)), content),
                    Write(tree, conf, order, by_hash, description))
<1>. DEFINE n == Len(order)
            meta == Metadata(tree, conf, description)
            idx == ChunkIndex(order, by_hash)
            at == Sections(tree, conf, order, by_hash, description)
            header == Header(at.metadata, at.chunk_index, at.eof)
            content == header \o at.cells
            eof == EofBlock(at.metadata, at.chunk_index, content)
<1>1. n \in Nat
  OBVIOUS
<1>2. Write(tree, conf, order, by_hash, description) = content \o eof
  BY DEF Write
<1>. HIDE DEF at
<1>3. PICK data, index, metadata, front :
           /\ Joins(data, index, front) /\ Joins(front, metadata, at.cells)
           /\ at.chunk_index = HeaderSize + Len(data)
           /\ at.metadata = HeaderSize + Len(front)
           /\ at.eof = HeaderSize + Len(at.cells)
           /\ Len(data) = n
           /\ \A i \in 1..n : data[i] = <<"chunk", order[i]>>
           /\ Enveloped("chunk_index", idx, index)
           /\ Enveloped("metadata", <<meta>>, metadata)
  <2>1. AreSections(at, order, idx, meta)
    BY SectionsAre DEF at
  <2>. QED
    BY <2>1, Zenon DEF AreSections
<1>. HIDE DEF meta
<1>4. /\ CellSeq(idx) /\ Len(idx) = 1 + EntrySize * n /\ idx[1] = Number(n)
  BY <1>1, ChunkIndexIs DEF Indexes
<1>5. /\ CellSeq(<<meta>>) /\ Len(<<meta>>) = 1 /\ <<meta>>[1] = meta
  <2>1. <<meta>> \in Seq({meta})
    OBVIOUS
  <2>. QED
    BY <2>1, SeqIs
<1>. HIDE DEF idx
<1>6. /\ Len(index) = EnvelopeSize + 1 + EntrySize * n
      /\ index[1] = <<"tag", "chunk_index">> /\ index[2] = Number(1 + EntrySize * n)
      /\ index[3] = <<"crc32", idx>>
      /\ \A j \in 1..(1 + EntrySize * n) : index[EnvelopeSize + j] = idx[j]
  <2>1. /\ Len(index) = EnvelopeSize + Len(idx)
        /\ index[1] = <<"tag", "chunk_index">> /\ index[2] = Number(Len(idx))
        /\ index[3] = <<"crc32", idx>>
        /\ \A j \in 1..Len(idx) : index[EnvelopeSize + j] = idx[j]
    BY <1>3 DEF Enveloped
  <2>2. EnvelopeSize + (1 + EntrySize * n) = EnvelopeSize + 1 + EntrySize * n
    BY <1>1 DEF EnvelopeSize, EntrySize
  <2>. QED
    BY <1>4, <2>1, <2>2
<1>7. /\ Len(metadata) = EnvelopeSize + 1
      /\ metadata[1] = <<"tag", "metadata">> /\ metadata[2] = Number(1)
      /\ metadata[3] = <<"crc32", <<meta>>>> /\ metadata[4] = meta
  <2>. DEFINE one == <<meta>>
  <2>. HIDE DEF one
  <2>1. Len(one) = 1 /\ one[1] = meta /\ Enveloped("metadata", one, metadata)
    BY <1>3, <1>5 DEF one
  <2>2. /\ Len(metadata) = EnvelopeSize + Len(one)
        /\ metadata[1] = <<"tag", "metadata">> /\ metadata[2] = Number(Len(one))
        /\ metadata[3] = <<"crc32", one>>
        /\ \A j \in 1..Len(one) : metadata[EnvelopeSize + j] = one[j]
    BY <2>1 DEF Enveloped
  <2>3. metadata[4] = meta
    BY <2>1, <2>2 DEF EnvelopeSize
  <2>. QED
    BY <2>1, <2>2, <2>3 DEF one
<1>8. /\ Len(front) = n + EnvelopeSize + 1 + EntrySize * n
      /\ Len(at.cells) = n + EnvelopeSize + 1 + EntrySize * n + EnvelopeSize + 1
      /\ at.chunk_index = IndexAt(n) /\ at.metadata = MetadataAt(n) /\ at.eof = EofAt(n)
  BY <1>1, <1>3, <1>6, <1>7
     DEF Joins, HeaderSize, EnvelopeSize, EntrySize, IndexAt, MetadataAt, EofAt
<1>9. CellSeq(at.cells)
  BY <1>3 DEF Joins
<1>10. /\ CellSeq(header) /\ Len(header) = HeaderSize
       /\ header[1] = Signature /\ header[2] = FormatVersion /\ header[3] = Flags
       /\ header[4] = Number(MetadataAt(n)) /\ header[5] = Number(IndexAt(n))
       /\ header[6] = Number(EofAt(n)) /\ header[7] = <<"reserved", 0>>
  BY <1>8, HeaderIs
<1>. HIDE DEF header
<1>11. Joins(header, at.cells, content)
  BY <1>9, <1>10, Joined
<1>. HIDE DEF content
<1>12. CellSeq(content)
  BY <1>11 DEF Joins
<1>13. Len(content) = EofAt(n)
  BY <1>1, <1>8, <1>10, <1>11
     DEF Joins, HeaderSize, EnvelopeSize, EntrySize, IndexAt, MetadataAt, EofAt
<1>14. Joins(content, eof, Write(tree, conf, order, by_hash, description))
  BY <1>2, <1>12, EofBlockIs, Joined
<1>15. SavedCells(content, order, by_hash, meta)
  <2>1. /\ content[1] = Signature /\ content[2] = FormatVersion /\ content[3] = Flags
        /\ content[4] = Number(MetadataAt(n)) /\ content[5] = Number(IndexAt(n))
        /\ content[6] = Number(EofAt(n)) /\ content[7] = <<"reserved", 0>>
    BY <1>10, <1>11 DEF Joins, HeaderSize
  <2>2. ASSUME NEW i \in 1..n
        PROVE  content[HeaderSize + i] = <<"chunk", order[i]>>
    <3>1. front[i] = <<"chunk", order[i]>>
      BY <1>3 DEF Joins
    <3>2. i \in 1..Len(front) /\ i \in 1..Len(at.cells)
      BY <1>1, <1>8 DEF EnvelopeSize, EntrySize
    <3>. QED
      BY <1>3, <1>10, <1>11, <3>1, <3>2 DEF Joins
  <2>3. ASSUME NEW j \in 1..(EnvelopeSize + 1 + EntrySize * n)
        PROVE  content[IndexAt(n) + j] = index[j]
    <3>1. front[n + j] = index[j]
      BY <1>3, <1>6 DEF Joins
    <3>2. n + j \in 1..Len(front) /\ n + j \in 1..Len(at.cells) /\ HeaderSize + (n + j) = IndexAt(n) + j
      BY <1>1, <1>8 DEF EnvelopeSize, EntrySize, IndexAt, HeaderSize
    <3>. QED
      BY <1>3, <1>10, <1>11, <3>1, <3>2 DEF Joins
  <2>4. ASSUME NEW j \in 1..(EnvelopeSize + 1)
        PROVE  content[MetadataAt(n) + j] = metadata[j]
    <3>1. at.cells[Len(front) + j] = metadata[j]
      BY <1>3, <1>7 DEF Joins
    <3>2. /\ Len(front) + j \in 1..Len(at.cells)
          /\ HeaderSize + (Len(front) + j) = MetadataAt(n) + j
      BY <1>1, <1>8 DEF EnvelopeSize, EntrySize, IndexAt, MetadataAt, HeaderSize
    <3>. QED
      BY <1>10, <1>11, <3>1, <3>2 DEF Joins
  <2>5. /\ content[IndexAt(n) + 1] = <<"tag", "chunk_index">>
        /\ content[IndexAt(n) + 2] = Number(1 + EntrySize * n)
        /\ content[IndexAt(n) + 3] = <<"crc32", idx>>
    BY <1>1, <1>6, <2>3 DEF EnvelopeSize, EntrySize
  <2>6. ASSUME NEW j \in 1..(1 + EntrySize * n)
        PROVE  content[IndexAt(n) + EnvelopeSize + j] = idx[j]
    <3>1. /\ EnvelopeSize + j \in 1..(EnvelopeSize + 1 + EntrySize * n)
          /\ IndexAt(n) + (EnvelopeSize + j) = IndexAt(n) + EnvelopeSize + j
      BY <1>1 DEF EnvelopeSize, EntrySize, IndexAt, HeaderSize
    <3>. QED
      BY <1>6, <2>3, <3>1
  <2>7. /\ content[MetadataAt(n) + 1] = <<"tag", "metadata">>
        /\ content[MetadataAt(n) + 2] = Number(1)
        /\ content[MetadataAt(n) + 3] = <<"crc32", <<meta>>>>
        /\ content[MetadataAt(n) + 4] = meta
    BY <1>7, <2>4 DEF EnvelopeSize
  <2>. HIDE DEF idx
  <2>. QED
    BY <2>1, <2>2, <2>5, <2>6, <2>7, Zenon DEF SavedCells, idx
<1>. QED
  BY <1>8, <1>12, <1>13, <1>14, <1>15 DEF meta
-----------------------------------------------------------------------------
(***************************************************************************)
(* What is read of the cells of a saved file, whatever else is in it.      *)
(***************************************************************************)
\* The index has as many entries as there are chunks.
LEMMA SameLength ==
  ASSUME NEW S, NEW s, NEW t, Lists(s, S), Lists(t, S)
  PROVE  Len(s) \in Nat /\ Len(s) = Len(t)
<1>1. ASSUME NEW q, Lists(q, S)
      PROVE  Len(q) \in Nat /\ Cardinality(S) = Len(q)
  <2>1. q \in Seq(S) /\ Len(q) \in Nat /\ DOMAIN q = 1..Len(q)
    BY <1>1 DEF Lists
  <2>2. q \in [1..Len(q) -> S]
    BY <2>1
  <2>3. \A a, b \in 1..Len(q) : q[a] = q[b] => a = b
    BY <1>1, <2>1 DEF Lists, IsInjective
  <2>4. \A x \in S : \E i \in 1..Len(q) : q[i] = x
    BY <1>1, <2>1 DEF Lists, ToSet
  <2>5. ExistsBijection(1..Len(q), S)
    BY <2>2, <2>3, <2>4 DEF ExistsBijection, Bijection, Injection, Surjection, IsInjective
  <2>. QED
    BY <2>1, <2>5, FS_CountingElements
<1>. QED
  BY <1>1

\* Within the file there is something to read.
LEMMA CellIs ==
  ASSUME NEW f, CellSeq(f), NEW o \in Nat, o < Len(f)
  PROVE  Cell(f, o) = f[o + 1]
<1>1. DOMAIN f = 1..Len(f) /\ Len(f) \in Nat
  BY DEF CellSeq
<1>. QED
  BY <1>1 DEF Cell

\* A number that was written is read.
LEMMA NumberIs ==
  ASSUME NEW f, CellSeq(f), NEW o \in Nat, o < Len(f), NEW x, f[o + 1] = Number(x)
  PROVE  NumberAt(f, o) = x
<1>1. Cell(f, o) = <<"number", x>>
  BY CellIs DEF Number
<1>. QED
  BY <1>1 DEF NumberAt

\* The entries of the index are read as they were written.
LEMMA EntriesRead ==
  ASSUME NEW f, CellSeq(f), NEW order, NEW by_hash, NEW metadata, NEW n \in Nat, n = Len(order),
         Len(f) >= EofAt(n), SavedCells(f, order, by_hash, metadata)
  PROVE  /\ OffsetChunkIndex(f) = IndexAt(n)
         /\ IndexEntries(f) = {[hash |-> by_hash[i], offset |-> ChunkOffset(order, by_hash[i]),
                                length |-> 1] : i \in 1..n}
<1>. USE DEF HeaderSize, EnvelopeSize, EntrySize
<1>1. Len(f) \in Nat /\ n \in Nat /\ IndexAt(n) \in Nat
      /\ Len(f) >= 15 + 5 * n /\ IndexAt(n) = 7 + n
  BY DEF CellSeq, IndexAt, MetadataAt, EofAt
<1>2. OffsetChunkIndex(f) = IndexAt(n)
  <2>1. f[4 + 1] = Number(IndexAt(n))
    BY DEF SavedCells
  <2>. QED
    BY <1>1, <2>1, NumberIs DEF OffsetChunkIndex
<1>. DEFINE content == OffsetChunkIndex(f) + EnvelopeSize
            at(i) == content + 1 + (i - 1) * EntrySize
            idx == ChunkIndex(order, by_hash)
<1>3. content = 10 + n
  BY <1>1, <1>2
<1>4. \A j \in 1..(1 + EntrySize * n) : f[10 + n + j] = idx[j]
  BY <1>1 DEF SavedCells
<1>5. /\ idx[1] = Number(n)
      /\ \A i \in 1..n, m \in 1..4 :
           idx[1 + 4 * (i - 1) + m] = ChunkIndexEntry(by_hash[i], ChunkOffset(order, by_hash[i]), 1)[m]
  <2>1. Indexes(idx, order, by_hash)
    BY <1>1, ChunkIndexIs
  <2>. HIDE DEF idx
  <2>. QED
    BY <2>1 DEF Indexes
<1>. HIDE DEF idx
<1>6. NumberAt(f, content) = n
  <2>1. f[content + 1] = Number(n)
    BY <1>1, <1>3, <1>4, <1>5
  <2>. QED
    BY <1>1, <1>3, <2>1, NumberIs
<1>. HIDE DEF content
<1>7. ASSUME NEW i \in 1..n
      PROVE  /\ Cell(f, at(i))[2] = by_hash[i]
             /\ NumberAt(f, at(i) + 1) = ChunkOffset(order, by_hash[i])
             /\ NumberAt(f, at(i) + 2) = 1
  <2>. DEFINE entry == ChunkIndexEntry(by_hash[i], ChunkOffset(order, by_hash[i]), 1)
              p == at(i)
  <2>1. p = 11 + n + 4 * (i - 1) /\ p \in Nat /\ p + 2 < Len(f)
    BY <1>1, <1>3
  <2>2. \A m \in 1..4 : f[p + m] = entry[m]
    <3>. SUFFICES ASSUME NEW m \in 1..4
                  PROVE  f[p + m] = entry[m]
      OBVIOUS
    <3>1. 1 + 4 * (i - 1) + m \in 1..(1 + EntrySize * n)
      BY <1>1
    <3>2. 10 + n + (1 + 4 * (i - 1) + m) = p + m
      BY <1>1, <2>1
    <3>. HIDE DEF p, entry
    <3>3. f[10 + n + (1 + 4 * (i - 1) + m)] = idx[1 + 4 * (i - 1) + m]
      BY <1>4, <3>1
    <3>. QED
      BY <1>5, <3>2, <3>3 DEF entry
  <2>3. /\ entry[1] = <<"hash", by_hash[i]>> /\ entry[2] = Number(ChunkOffset(order, by_hash[i]))
        /\ entry[3] = Number(1)
    BY DEF ChunkIndexEntry
  <2>. HIDE DEF p, entry
  <2>4. f[p + 1] = entry[1] /\ f[(p + 1) + 1] = entry[2] /\ f[(p + 2) + 1] = entry[3]
    BY <2>1, <2>2
  <2>5. Cell(f, p)[2] = by_hash[i]
    BY <1>1, <2>1, <2>3, <2>4, CellIs
  <2>6. NumberAt(f, p + 1) = ChunkOffset(order, by_hash[i]) /\ NumberAt(f, p + 2) = 1
    <3>1. p + 1 \in Nat /\ p + 1 < Len(f) /\ p + 2 \in Nat /\ p + 2 < Len(f)
      BY <2>1
    <3>2. f[(p + 1) + 1] = Number(ChunkOffset(order, by_hash[i])) /\ f[(p + 2) + 1] = Number(1)
      BY <2>3, <2>4
    <3>. QED
      BY <1>1, <3>1, <3>2, NumberIs
  <2>. QED
    BY <2>5, <2>6 DEF p
<1>8. IndexEntries(f) =
        {[hash |-> Cell(f, at(i))[2], offset |-> NumberAt(f, at(i) + 1),
          length |-> NumberAt(f, at(i) + 2)] : i \in 1..NumberAt(f, content)}
  BY DEF IndexEntries, content
<1>. HIDE DEF at
<1>. QED
  BY <1>2, <1>6, <1>7, <1>8

\* The offset of a chunk is that of a cell which holds it.
LEMMA OffsetIs ==
  ASSUME NEW S, NEW order, Lists(order, S), NEW c \in S
  PROVE  \E k \in 1..Len(order) : order[k] = c /\ ChunkOffset(order, c) = HeaderSize + k - 1
<1>1. DOMAIN order = 1..Len(order)
  BY DEF Lists
<1>2. \E k \in DOMAIN order : order[k] = c
  BY DEF Lists, ToSet
<1>. QED
  BY <1>1, <1>2 DEF ChunkOffset

\* What a saved tree is loaded as.
RestoredAs(tree, conf, S) ==
  IF tree \in S \cup {None} THEN [out |-> "loaded", root |-> tree, config |-> conf, store |-> S]
  ELSE [out |-> "ChunkNotFound"]

\* Cells of a saved file with a valid EOF block are loaded as what was saved.
LEMMA ReadSaved ==
  ASSUME NEW tree, NEW conf, NEW S, NEW order, NEW by_hash, Lists(order, S), Lists(by_hash, S),
         NEW description, NEW f, CellSeq(f), Len(f) >= EofAt(Len(order)),
         SavedCells(f, order, by_hash, Metadata(tree, conf, description)), EofValid(f)
  PROVE  LoadTreeFromFileBytes(f) = RestoredAs(tree, conf, S)
<1>. DEFINE n == Len(order)
            meta == Metadata(tree, conf, description)
            idx == ChunkIndex(order, by_hash)
<1>1. n \in Nat /\ n = Len(by_hash) /\ Len(f) \in Nat
  BY SameLength DEF CellSeq
<1>2. /\ IndexAt(n) = 7 + n /\ MetadataAt(n) = 11 + 5 * n /\ EofAt(n) = 15 + 5 * n
      /\ IndexAt(n) \in Nat /\ MetadataAt(n) \in Nat /\ EofAt(n) \in Nat
  BY <1>1 DEF IndexAt, MetadataAt, EofAt, HeaderSize, EnvelopeSize, EntrySize
<1>. HIDE DEF n, meta, idx
<1>. DEFINE Located ==
      /\ f[IndexAt(n) + 1] = <<"tag", "chunk_index">>
      /\ f[IndexAt(n) + 2] = Number(1 + EntrySize * n)
      /\ f[IndexAt(n) + 3] = <<"crc32", idx>>
      /\ f[MetadataAt(n) + 1] = <<"tag", "metadata">>
      /\ f[MetadataAt(n) + 2] = Number(1)
      /\ f[MetadataAt(n) + 3] = <<"crc32", <<meta>>>>
      /\ f[MetadataAt(n) + 4] = meta
<1>3. /\ f[1] = Signature /\ f[2] = FormatVersion
      /\ f[4] = Number(MetadataAt(n)) /\ f[5] = Number(IndexAt(n)) /\ f[6] = Number(EofAt(n))
  BY Zenon DEF SavedCells, n
<1>16. \A i \in 1..n : f[HeaderSize + i] = <<"chunk", order[i]>>
  BY Zenon DEF SavedCells, n
<1>17. \A j \in 1..(1 + EntrySize * n) : f[IndexAt(n) + EnvelopeSize + j] = idx[j]
  BY Zenon DEF SavedCells, n, idx
<1>18. Located
  BY Zenon DEF SavedCells, n, idx, meta
<1>19. /\ f[IndexAt(n) + 1] = <<"tag", "chunk_index">>
       /\ f[(IndexAt(n) + 1) + 1] = Number(1 + EntrySize * n)
       /\ f[(IndexAt(n) + 2) + 1] = <<"crc32", idx>>
  <2>1. (IndexAt(n) + 1) + 1 = IndexAt(n) + 2 /\ (IndexAt(n) + 2) + 1 = IndexAt(n) + 3
    BY <1>2
  <2>. QED
    BY <1>18, <2>1, Zenon
<1>20. /\ f[MetadataAt(n) + 1] = <<"tag", "metadata">>
       /\ f[(MetadataAt(n) + 1) + 1] = Number(1)
       /\ f[(MetadataAt(n) + 2) + 1] = <<"crc32", <<meta>>>>
       /\ f[(MetadataAt(n) + 3) + 1] = meta
  <2>1. /\ (MetadataAt(n) + 1) + 1 = MetadataAt(n) + 2 /\ (MetadataAt(n) + 2) + 1 = MetadataAt(n) + 3
        /\ (MetadataAt(n) + 3) + 1 = MetadataAt(n) + 4
    BY <1>2
  <2>. QED
    BY <1>18, <2>1, Zenon
<1>. HIDE DEF Located
<1>4. Len(f) >= EofAt(n)
  BY DEF n
<1>5. /\ OffsetMetadata(f) = MetadataAt(n) /\ OffsetChunkIndex(f) = IndexAt(n)
      /\ OffsetEof(f) = EofAt(n)
  <2>1. 3 < Len(f) /\ 4 < Len(f) /\ 5 < Len(f)
    BY <1>1, <1>2, <1>4
  <2>2. f[3 + 1] = Number(MetadataAt(n)) /\ f[4 + 1] = Number(IndexAt(n)) /\ f[5 + 1] = Number(EofAt(n))
    BY <1>3
  <2>. QED
    BY <2>1, <2>2, NumberIs DEF OffsetMetadata, OffsetChunkIndex, OffsetEof
<1>6. HeaderValid(f)
  <2>1. Cell(f, 0) = f[0 + 1] /\ Cell(f, 1) = f[1 + 1]
    BY <1>1, <1>2, <1>4, CellIs
  <2>. QED
    BY <1>1, <1>2, <1>3, <1>4, <1>5, <2>1 DEF HeaderValid, HeaderSize
<1>7. BlockValid(f, IndexAt(n), "chunk_index")
  <2>1. IndexAt(n) + 2 < Len(f) /\ IndexAt(n) + EnvelopeSize + (1 + EntrySize * n) <= Len(f)
    BY <1>1, <1>2, <1>4 DEF EnvelopeSize, EntrySize
  <2>2. NumberAt(f, IndexAt(n) + 1) = 1 + EntrySize * n
    <3>1. IndexAt(n) + 1 \in Nat /\ IndexAt(n) + 1 < Len(f)
      BY <1>1, <1>2, <2>1
    <3>. QED
      BY <1>19, <3>1, NumberIs
  <2>3. Cell(f, IndexAt(n)) = <<"tag", "chunk_index">> /\ Cell(f, IndexAt(n) + 2) = <<"crc32", idx>>
    <3>1. /\ IndexAt(n) \in Nat /\ IndexAt(n) < Len(f)
          /\ IndexAt(n) + 2 \in Nat /\ IndexAt(n) + 2 < Len(f)
      BY <1>1, <1>2, <2>1
    <3>2. Cell(f, IndexAt(n)) = f[IndexAt(n) + 1] /\ Cell(f, IndexAt(n) + 2) = f[(IndexAt(n) + 2) + 1]
      BY <3>1, CellIs
    <3>. QED
      BY <1>19, <3>2, Zenon
  <2>4. Slice(f, IndexAt(n) + EnvelopeSize, 1 + EntrySize * n) = idx
    <3>. DEFINE part == Slice(f, IndexAt(n) + EnvelopeSize, 1 + EntrySize * n)
    <3>1. IndexAt(n) + EnvelopeSize \in Nat /\ 1 + EntrySize * n \in Nat
      BY <1>1, <1>2 DEF EnvelopeSize, EntrySize
    <3>2. /\ CellSeq(part) /\ Len(part) = 1 + EntrySize * n
          /\ \A j \in 1..(1 + EntrySize * n) : part[j] = f[IndexAt(n) + EnvelopeSize + j]
      BY <2>1, <3>1, SliceIs
    <3>3. CellSeq(idx) /\ Len(idx) = 1 + EntrySize * n
      BY <1>1, ChunkIndexIs DEF idx, n, Indexes
    <3>. HIDE DEF part
    <3>4. \A j \in 1..Len(part) : part[j] = idx[j]
      BY <1>17, <3>2
    <3>. QED
      BY <3>2, <3>3, <3>4, SameSeq DEF part
  <2>. QED
    BY <2>1, <2>2, <2>3, <2>4 DEF BlockValid
<1>8. BlockValid(f, MetadataAt(n), "metadata")
  <2>1. MetadataAt(n) + 2 < Len(f) /\ MetadataAt(n) + EnvelopeSize + 1 <= Len(f)
    BY <1>1, <1>2, <1>4 DEF EnvelopeSize
  <2>2. NumberAt(f, MetadataAt(n) + 1) = 1
    <3>1. MetadataAt(n) + 1 \in Nat /\ MetadataAt(n) + 1 < Len(f)
      BY <1>1, <1>2, <2>1
    <3>. QED
      BY <1>20, <3>1, NumberIs
  <2>3. Cell(f, MetadataAt(n)) = <<"tag", "metadata">> /\ Cell(f, MetadataAt(n) + 2) = <<"crc32", <<meta>>>>
    <3>1. /\ MetadataAt(n) \in Nat /\ MetadataAt(n) < Len(f)
          /\ MetadataAt(n) + 2 \in Nat /\ MetadataAt(n) + 2 < Len(f)
      BY <1>1, <1>2, <2>1
    <3>2. /\ Cell(f, MetadataAt(n)) = f[MetadataAt(n) + 1]
          /\ Cell(f, MetadataAt(n) + 2) = f[(MetadataAt(n) + 2) + 1]
      BY <3>1, CellIs
    <3>. QED
      BY <1>20, <3>2, Zenon
  <2>4. Slice(f, MetadataAt(n) + EnvelopeSize, 1) = <<meta>>
    <3>. DEFINE part == Slice(f, MetadataAt(n) + EnvelopeSize, 1)
    <3>1. /\ CellSeq(part) /\ Len(part) = 1
          /\ \A j \in 1..1 : part[j] = f[MetadataAt(n) + EnvelopeSize + j]
      <4>1. MetadataAt(n) + EnvelopeSize \in Nat /\ 1 \in Nat
        BY <1>2 DEF EnvelopeSize
      <4>. QED
        BY <2>1, <4>1, SliceIs
    <3>2. part[1] = meta
      <4>1. part[1] = f[(MetadataAt(n) + 3) + 1]
        BY <3>1 DEF EnvelopeSize
      <4>. QED
        BY <1>20, <4>1
    <3>3. part \in Seq(ToSet(part))
      BY <3>1 DEF CellSeq
    <3>. HIDE DEF part
    <3>. QED
      BY <3>1, <3>2, <3>3 DEF part
  <2>. QED
    BY <2>1, <2>2, <2>3, <2>4 DEF BlockValid
<1>9. IndexEntries(f) = {[hash |-> by_hash[i], offset |-> ChunkOffset(order, by_hash[i]),
                          length |-> 1] : i \in 1..n}
  BY <1>1, <1>4, EntriesRead DEF n
<1>10. \A i \in 1..n : /\ by_hash[i] \in S
                       /\ ChunkOffset(order, by_hash[i]) \in Nat
                       /\ ChunkOffset(order, by_hash[i]) < 7 + n
                       /\ f[ChunkOffset(order, by_hash[i]) + 1] = <<"chunk", by_hash[i]>>
  <2>. SUFFICES ASSUME NEW i \in 1..n
                PROVE  /\ by_hash[i] \in S
                       /\ ChunkOffset(order, by_hash[i]) \in Nat
                       /\ ChunkOffset(order, by_hash[i]) < 7 + n
                       /\ f[ChunkOffset(order, by_hash[i]) + 1] = <<"chunk", by_hash[i]>>
    OBVIOUS
  <2>1. by_hash[i] \in S
    BY <1>1 DEF Lists
  <2>2. PICK k \in 1..n : order[k] = by_hash[i] /\ ChunkOffset(order, by_hash[i]) = HeaderSize + k - 1
    BY <2>1, OffsetIs DEF n
  <2>3. ChunkOffset(order, by_hash[i]) + 1 = HeaderSize + k
    BY <1>1, <2>2 DEF HeaderSize
  <2>4. f[ChunkOffset(order, by_hash[i]) + 1] = <<"chunk", by_hash[i]>>
    BY <1>16, <2>2, <2>3
  <2>5. ChunkOffset(order, by_hash[i]) \in Nat /\ ChunkOffset(order, by_hash[i]) < 7 + n
    BY <1>1, <2>2 DEF HeaderSize
  <2>. QED
    BY <2>1, <2>4, <2>5
<1>11. \A entry \in IndexEntries(f) : InBounds(f, entry)
  BY <1>1, <1>2, <1>4, <1>9, <1>10 DEF InBounds
<1>12. {Cell(f, entry.offset)[2] : entry \in IndexEntries(f)} = S
  <2>1. \A i \in 1..n : Cell(f, ChunkOffset(order, by_hash[i]))[2] = by_hash[i]
    <3>. SUFFICES ASSUME NEW i \in 1..n
                  PROVE  Cell(f, ChunkOffset(order, by_hash[i]))[2] = by_hash[i]
      OBVIOUS
    <3>. DEFINE o == ChunkOffset(order, by_hash[i])
    <3>1. o \in Nat /\ o < 7 + n /\ f[o + 1] = <<"chunk", by_hash[i]>>
      BY <1>10
    <3>. HIDE DEF o
    <3>3. o < Len(f)
      BY <1>1, <1>2, <1>4, <3>1
    <3>2. Cell(f, o) = <<"chunk", by_hash[i]>>
      BY <3>1, <3>3, CellIs
    <3>. QED
      BY <3>2 DEF o
  <2>2. {Cell(f, entry.offset)[2] : entry \in IndexEntries(f)} = {by_hash[i] : i \in 1..n}
    <3>. DEFINE e(i) == [hash |-> by_hash[i], offset |-> ChunkOffset(order, by_hash[i]), length |-> 1]
    <3>1. \A i \in 1..n : Cell(f, e(i).offset)[2] = by_hash[i]
      BY <2>1
    <3>2. IndexEntries(f) = {e(i) : i \in 1..n}
      BY <1>9
    <3>. HIDE DEF e
    <3>. QED
      BY <3>1, <3>2
  <2>3. {by_hash[i] : i \in 1..n} = S
    BY <1>1 DEF Lists, ToSet
  <2>. QED
    BY <2>2, <2>3
<1>13. Cell(f, OffsetMetadata(f) + EnvelopeSize) = meta
  <2>1. f[(MetadataAt(n) + EnvelopeSize) + 1] = meta
    BY <1>20 DEF EnvelopeSize
  <2>2. MetadataAt(n) + EnvelopeSize \in Nat /\ MetadataAt(n) + EnvelopeSize < Len(f)
    BY <1>1, <1>2, <1>4 DEF EnvelopeSize
  <2>. QED
    BY <1>5, <2>1, <2>2, CellIs
<1>. DEFINE m == [root_hash |-> tree, tree_config |-> conf, description |-> description]
            read == [out |-> "read", metadata |-> m, chunks |-> S]
<1>14. Read(f) = read
  <2>1. meta[2] = m
    BY DEF meta, Metadata
  <2>. HIDE DEF m
  <2>. QED
    BY <1>5, <1>6, <1>7, <1>8, <1>11, <1>12, <1>13, <2>1 DEF Read
<1>15. read # Invalid /\ read.metadata.root_hash = tree /\ read.metadata.tree_config = conf
       /\ read.chunks = S
  BY DEF Invalid
<1>. HIDE DEF read
<1>. QED
  BY <1>14, <1>15 DEF LoadTreeFromFileBytes, RestoredAs
-----------------------------------------------------------------------------
(***************************************************************************)
(* A saved file is loaded.                                                 *)
(***************************************************************************)
\* What begins with the cells of a saved file has them.
LEMMA CellsKept ==
  ASSUME NEW f, NEW content, NEW order, NEW by_hash, NEW meta, Len(order) \in Nat,
         SavedCells(content, order, by_hash, meta),
         \A i \in 1..EofAt(Len(order)) : f[i] = content[i]
  PROVE  SavedCells(f, order, by_hash, meta)
<1>. DEFINE n == Len(order)
            idx == ChunkIndex(order, by_hash)
<1>. HIDE DEF n, idx
<1>1. /\ n \in Nat /\ HeaderSize = 7 /\ EnvelopeSize = 3 /\ EntrySize = 4
      /\ IndexAt(n) = 7 + n /\ MetadataAt(n) = 11 + 5 * n /\ EofAt(n) = 15 + 5 * n
  BY DEF n, IndexAt, MetadataAt, EofAt, HeaderSize, EnvelopeSize, EntrySize
<1>2. \A i \in 1..EofAt(n) : f[i] = content[i]
  BY DEF n
<1>3. \A i \in 1..7 : f[i] = content[i]
  BY <1>1, <1>2
<1>4. \A i \in 1..n : f[HeaderSize + i] = content[HeaderSize + i]
  BY <1>1, <1>2
<1>5. \A i \in 1..3 : f[IndexAt(n) + i] = content[IndexAt(n) + i]
  BY <1>1, <1>2
<1>6. \A j \in 1..(1 + EntrySize * n) :
        f[IndexAt(n) + EnvelopeSize + j] = content[IndexAt(n) + EnvelopeSize + j]
  BY <1>1, <1>2
<1>7. \A i \in 1..4 : f[MetadataAt(n) + i] = content[MetadataAt(n) + i]
  BY <1>1, <1>2
<1>8. /\ 1 \in 1..7 /\ 2 \in 1..7 /\ 3 \in 1..7 /\ 4 \in 1..7 /\ 5 \in 1..7 /\ 6 \in 1..7 /\ 7 \in 1..7
      /\ 1 \in 1..3 /\ 2 \in 1..3 /\ 3 \in 1..3 /\ 1 \in 1..4 /\ 2 \in 1..4 /\ 3 \in 1..4 /\ 4 \in 1..4
  OBVIOUS
<1>9. /\ content[1] = Signature /\ content[2] = FormatVersion /\ content[3] = Flags
      /\ content[4] = Number(MetadataAt(n)) /\ content[5] = Number(IndexAt(n))
      /\ content[6] = Number(EofAt(n)) /\ content[7] = <<"reserved", 0>>
      /\ \A i \in 1..n : content[HeaderSize + i] = <<"chunk", order[i]>>
      /\ content[IndexAt(n) + 1] = <<"tag", "chunk_index">>
      /\ content[IndexAt(n) + 2] = Number(1 + EntrySize * n)
      /\ content[IndexAt(n) + 3] = <<"crc32", idx>>
      /\ \A j \in 1..(1 + EntrySize * n) : content[IndexAt(n) + EnvelopeSize + j] = idx[j]
      /\ content[MetadataAt(n) + 1] = <<"tag", "metadata">>
      /\ content[MetadataAt(n) + 2] = Number(1)
      /\ content[MetadataAt(n) + 3] = <<"crc32", <<meta>>>>
      /\ content[MetadataAt(n) + 4] = meta
  BY Zenon DEF SavedCells, n, idx
<1>10. /\ f[1] = Signature /\ f[2] = FormatVersion /\ f[3] = Flags
       /\ f[4] = Number(MetadataAt(n)) /\ f[5] = Number(IndexAt(n))
       /\ f[6] = Number(EofAt(n)) /\ f[7] = <<"reserved", 0>>
  BY <1>3, <1>8, <1>9, Zenon
<1>11. \A i \in 1..n : f[HeaderSize + i] = <<"chunk", order[i]>>
  BY <1>4, <1>9, Zenon
<1>12. /\ f[IndexAt(n) + 1] = <<"tag", "chunk_index">>
       /\ f[IndexAt(n) + 2] = Number(1 + EntrySize * n)
       /\ f[IndexAt(n) + 3] = <<"crc32", idx>>
  BY <1>5, <1>8, <1>9, Zenon
<1>13. \A j \in 1..(1 + EntrySize * n) : f[IndexAt(n) + EnvelopeSize + j] = idx[j]
  BY <1>6, <1>9, Zenon
<1>14. /\ f[MetadataAt(n) + 1] = <<"tag", "metadata">> /\ f[MetadataAt(n) + 2] = Number(1)
       /\ f[MetadataAt(n) + 3] = <<"crc32", <<meta>>>> /\ f[MetadataAt(n) + 4] = meta
  BY <1>7, <1>8, <1>9, Zenon
<1>. QED
  BY <1>10, <1>11, <1>12, <1>13, <1>14, Zenon DEF SavedCells, n, idx

\* file is content, then the EOF block for it.
IsSaved(file, content, n) ==
  /\ CellSeq(file) /\ Len(file) = EofAt(n) + EofSize
  /\ CellSeq(content) /\ Len(content) = EofAt(n)
  /\ \A i \in 1..EofAt(n) : file[i] = content[i]
  /\ file[EofAt(n) + 1] = <<"tag", "eof">>
  /\ file[EofAt(n) + 4] = ReversedSignature
  /\ file[EofAt(n) + 5] = <<"blake3", content>>

\* What is saved is such a file.
LEMMA SavedIs ==
  ASSUME NEW tree, NEW conf, NEW S, NEW order, NEW by_hash, Lists(order, S), Lists(by_hash, S),
         NEW description
  PROVE  \E content :
           /\ IsSaved(SaveTreeToFileBytes(tree, conf, order, by_hash, description), content,
                      Len(order))
           /\ SavedCells(content, order, by_hash, Metadata(tree, conf, description))
<1>. DEFINE n == Len(order)
            meta == Metadata(tree, conf, description)
            file == SaveTreeToFileBytes(tree, conf, order, by_hash, description)
<1>. HIDE DEF n, meta, file
<1>1. PICK content :
        /\ CellSeq(content) /\ Len(content) = EofAt(n)
        /\ SavedCells(content, order, by_hash, meta)
        /\ Joins(content, EofBlock(MetadataAt(n), IndexAt(n), content), file)
  BY SavedFile, Zenon DEF Lists, SaveTreeToFileBytes, n, meta, file
<1>. DEFINE eof == EofBlock(MetadataAt(n), IndexAt(n), content)
<1>2. /\ Len(eof) = 5 /\ eof[1] = <<"tag", "eof">> /\ eof[4] = ReversedSignature
      /\ eof[5] = <<"blake3", content>>
  BY EofBlockIs DEF EofSize
<1>. HIDE DEF eof
<1>3. /\ CellSeq(file) /\ Len(file) = EofAt(n) + 5 /\ \A i \in 1..EofAt(n) : file[i] = content[i]
      /\ \A i \in 1..5 : file[EofAt(n) + i] = eof[i]
  BY <1>1, <1>2 DEF Joins, eof
<1>4. IsSaved(file, content, n)
  BY <1>1, <1>2, <1>3 DEF IsSaved, EofSize
<1>. QED
  BY <1>1, <1>4 DEF n, meta, file

\* The EOF block begins behind the header.
LEMMA SavedLength ==
  ASSUME NEW S, NEW order, Lists(order, S)
  PROVE  Len(order) \in Nat /\ EofAt(Len(order)) \in Nat /\ EofAt(Len(order)) > 10
BY SameLength DEF EofAt, MetadataAt, IndexAt, HeaderSize, EnvelopeSize, EntrySize

(***************************************************************************)
(* What saveTreeToFileBytes gives is loaded as the tree it was given, with *)
(* all that was in its store, in whatever order the chunks were written.   *)
(* (If the store lacks the root, as in a tree loaded from chunks, loading  *)
(* tells.)                                                                 *)
(***************************************************************************)
THEOREM SavedIsLoaded ==
  ASSUME NEW tree, NEW conf, NEW S, NEW order, NEW by_hash, Lists(order, S), Lists(by_hash, S),
         NEW description
  PROVE  LoadTreeFromFileBytes(SaveTreeToFileBytes(tree, conf, order, by_hash, description))
           = RestoredAs(tree, conf, S)
<1>. DEFINE n == Len(order)
            at == EofAt(n)
            meta == Metadata(tree, conf, description)
            file == SaveTreeToFileBytes(tree, conf, order, by_hash, description)
<1>1. n \in Nat /\ at \in Nat /\ at > 10
  BY SavedLength
<1>2. PICK content : IsSaved(file, content, n) /\ SavedCells(content, order, by_hash, meta)
  BY SavedIs, Zenon
<1>. HIDE DEF file, at, n
<1>3. /\ CellSeq(file) /\ Len(file) = at + 5 /\ CellSeq(content) /\ Len(content) = at
      /\ \A i \in 1..at : file[i] = content[i]
      /\ file[at + 1] = <<"tag", "eof">> /\ file[(at + 3) + 1] = ReversedSignature
      /\ file[(at + 4) + 1] = <<"blake3", content>>
  BY <1>1, <1>2 DEF IsSaved, EofSize, at
<1>4. SavedCells(file, order, by_hash, meta)
  BY <1>1, <1>2, <1>3, CellsKept DEF n, at
<1>5. OffsetEof(file) = at
  <2>1. file[5 + 1] = Number(at)
    BY <1>4 DEF SavedCells, n, at
  <2>. QED
    BY <1>1, <1>3, <2>1, NumberIs DEF OffsetEof
<1>6. Slice(file, 0, at) = content
  <2>1. /\ CellSeq(Slice(file, 0, at)) /\ Len(Slice(file, 0, at)) = at
        /\ \A i \in 1..at : Slice(file, 0, at)[i] = file[0 + i]
    BY <1>1, <1>3, SliceIs
  <2>2. \A i \in 1..at : 0 + i = i
    OBVIOUS
  <2>3. \A i \in 1..at : Slice(file, 0, at)[i] = content[i]
    BY <1>3, <2>1, <2>2
  <2>. QED
    BY <1>3, <2>1, <2>3, SameSeq
<1>7. /\ Cell(file, at) = <<"tag", "eof">> /\ Cell(file, at + 3) = ReversedSignature
      /\ Cell(file, at + 4) = <<"blake3", content>>
  <2>1. at + 3 \in Nat /\ at + 4 \in Nat /\ at < Len(file) /\ at + 3 < Len(file) /\ at + 4 < Len(file)
    BY <1>1, <1>3
  <2>2. /\ Cell(file, at) = file[at + 1] /\ Cell(file, at + 3) = file[(at + 3) + 1]
        /\ Cell(file, at + 4) = file[(at + 4) + 1]
    BY <1>1, <1>3, <2>1, CellIs
  <2>. QED
    BY <1>3, <2>2, Zenon
<1>8. EofValid(file)
  BY <1>3, <1>5, <1>6, <1>7 DEF EofValid, EofSize
<1>9. Len(file) >= at
  BY <1>1, <1>3
<1>. QED
  BY <1>3, <1>4, <1>8, <1>9, ReadSaved DEF n, at, file
-----------------------------------------------------------------------------
(***************************************************************************)
(* A damaged file is rejected, or loaded as if it were not damaged.        *)
(***************************************************************************)
\* No cell before the EOF block is the tag of one.
LEMMA NoOtherEof ==
  ASSUME NEW content, NEW order, NEW by_hash, NEW tree, NEW conf, NEW description,
         Len(order) \in Nat,
         SavedCells(content, order, by_hash, Metadata(tree, conf, description)),
         NEW j \in 1..EofAt(Len(order))
  PROVE  content[j] # <<"tag", "eof">>
<1>. DEFINE n == Len(order)
            idx == ChunkIndex(order, by_hash)
            meta == Metadata(tree, conf, description)
<1>2. Indexes(idx, order, by_hash)
  BY ChunkIndexIs
<1>3. meta # <<"tag", "eof">>
  BY DEF Metadata
<1>. HIDE DEF n, idx, meta
<1>1. /\ idx[1] = Number(n)
      /\ \A i \in 1..n, m \in 1..4 :
           idx[1 + 4 * (i - 1) + m] = ChunkIndexEntry(by_hash[i], ChunkOffset(order, by_hash[i]), 1)[m]
  BY <1>2 DEF Indexes, EntrySize, n
<1>4. /\ n \in Nat /\ HeaderSize = 7 /\ EnvelopeSize = 3 /\ EntrySize = 4
      /\ IndexAt(n) = 7 + n /\ MetadataAt(n) = 11 + 5 * n /\ EofAt(n) = 15 + 5 * n
      /\ j \in 1..(15 + 5 * n)
  BY DEF n, IndexAt, MetadataAt, EofAt, HeaderSize, EnvelopeSize, EntrySize
<1>5. /\ content[1] = Signature /\ content[2] = FormatVersion /\ content[3] = Flags
      /\ content[4] = Number(MetadataAt(n)) /\ content[5] = Number(IndexAt(n))
      /\ content[6] = Number(EofAt(n)) /\ content[7] = <<"reserved", 0>>
      /\ \A i \in 1..n : content[HeaderSize + i] = <<"chunk", order[i]>>
      /\ content[IndexAt(n) + 1] = <<"tag", "chunk_index">>
      /\ content[IndexAt(n) + 2] = Number(1 + EntrySize * n)
      /\ content[IndexAt(n) + 3] = <<"crc32", idx>>
      /\ \A k \in 1..(1 + EntrySize * n) : content[IndexAt(n) + EnvelopeSize + k] = idx[k]
      /\ content[MetadataAt(n) + 1] = <<"tag", "metadata">>
      /\ content[MetadataAt(n) + 2] = Number(1)
      /\ content[MetadataAt(n) + 3] = <<"crc32", <<meta>>>>
      /\ content[MetadataAt(n) + 4] = meta
  BY Zenon DEF SavedCells, n, idx, meta
<1>6. CASE j \in 1..7
  <2>1. \A i \in 1..7 : i = 1 \/ i = 2 \/ i = 3 \/ i = 4 \/ i = 5 \/ i = 6 \/ i = 7
    OBVIOUS
  <2>2. /\ content[1] # <<"tag", "eof">> /\ content[2] # <<"tag", "eof">>
        /\ content[3] # <<"tag", "eof">> /\ content[4] # <<"tag", "eof">>
        /\ content[5] # <<"tag", "eof">> /\ content[6] # <<"tag", "eof">>
        /\ content[7] # <<"tag", "eof">>
    BY <1>5 DEF Signature, FormatVersion, Flags, Number
  <2>. QED
    BY <1>6, <2>1, <2>2
<1>7. CASE j \in 8..(7 + n)
  <2>1. j - 7 \in 1..n /\ HeaderSize + (j - 7) = j
    BY <1>4, <1>7
  <2>2. content[j] = <<"chunk", order[j - 7]>>
    BY <1>5, <2>1
  <2>. QED
    BY <2>2
<1>8. CASE j \in (8 + n)..(10 + n)
  <2>1. j = IndexAt(n) + 1 \/ j = IndexAt(n) + 2 \/ j = IndexAt(n) + 3
    BY <1>4, <1>8
  <2>2. /\ content[IndexAt(n) + 1] # <<"tag", "eof">> /\ content[IndexAt(n) + 2] # <<"tag", "eof">>
        /\ content[IndexAt(n) + 3] # <<"tag", "eof">>
    BY <1>5 DEF Number
  <2>. QED
    BY <2>1, <2>2
<1>9. CASE j \in (11 + n)..(11 + 5 * n)
  <2>. DEFINE k == j - 10 - n
  <2>1. k \in 1..(1 + EntrySize * n) /\ IndexAt(n) + EnvelopeSize + k = j
    BY <1>4, <1>9
  <2>2. content[j] = idx[k]
    BY <1>5, <2>1
  <2>3. CASE k = 1
    BY <1>1, <2>2, <2>3 DEF Number
  <2>4. CASE k # 1
    <3>. DEFINE i == (k - 2) \div 4 + 1
                m == ((k - 2) % 4) + 1
                c == by_hash[i]
                e == ChunkIndexEntry(c, ChunkOffset(order, c), 1)
    <3>1. i \in 1..n /\ m \in 1..4 /\ k = 1 + 4 * (i - 1) + m
      BY <1>4, <2>1, <2>4
    <3>. HIDE DEF i, m, k
    <3>2. content[j] = e[m]
      BY <1>1, <2>2, <3>1
    <3>3. m = 1 \/ m = 2 \/ m = 3 \/ m = 4
      BY <3>1
    <3>4. /\ e[1] # <<"tag", "eof">> /\ e[2] # <<"tag", "eof">> /\ e[3] # <<"tag", "eof">>
          /\ e[4] # <<"tag", "eof">>
      BY DEF ChunkIndexEntry, Number, Flags
    <3>. HIDE DEF e
    <3>. QED
      BY <3>2, <3>3, <3>4
  <2>. QED
    BY <2>3, <2>4
<1>10. CASE j \in (12 + 5 * n)..(15 + 5 * n)
  <2>1. \/ j = MetadataAt(n) + 1 \/ j = MetadataAt(n) + 2 \/ j = MetadataAt(n) + 3
        \/ j = MetadataAt(n) + 4
    BY <1>4, <1>10
  <2>2. /\ content[MetadataAt(n) + 1] # <<"tag", "eof">> /\ content[MetadataAt(n) + 2] # <<"tag", "eof">>
        /\ content[MetadataAt(n) + 3] # <<"tag", "eof">> /\ content[MetadataAt(n) + 4] # <<"tag", "eof">>
    BY <1>3, <1>5 DEF Number
  <2>. QED
    BY <2>1, <2>2
<1>. QED
  BY <1>4, <1>6, <1>7, <1>8, <1>9, <1>10

\* Without a valid header and EOF block nothing is read.
LEMMA NotRead ==
  ASSUME NEW f, ~HeaderValid(f) \/ ~EofValid(f)
  PROVE  LoadTreeFromFileBytes(f) = Invalid
BY DEF LoadTreeFromFileBytes, Read

\* While the checksum of the file stays where it is, nothing before it can change.
LEMMA Checksummed ==
  ASSUME NEW tree, NEW conf, NEW S, NEW order, NEW by_hash, Lists(order, S), Lists(by_hash, S),
         NEW description, NEW content, CellSeq(content), Len(content) = EofAt(Len(order)),
         SavedCells(content, order, by_hash, Metadata(tree, conf, description)),
         NEW f, CellSeq(f), OffsetEof(f) = EofAt(Len(order)),
         f[EofAt(Len(order)) + 5] = <<"blake3", content>>
  PROVE  LoadTreeFromFileBytes(f) \in {Invalid, RestoredAs(tree, conf, S)}
<1>. DEFINE at == EofAt(Len(order))
<1>1. Len(order) \in Nat /\ at \in Nat /\ Len(f) \in Nat
  BY SavedLength DEF CellSeq
<1>. HIDE DEF at
<1>2. CASE ~EofValid(f)
  BY <1>2, NotRead
<1>3. CASE EofValid(f)
  <2>1. at + 5 <= Len(f) /\ Cell(f, at + 4) = <<"blake3", Slice(f, 0, at)>>
    BY <1>3 DEF EofValid, EofSize, at
  <2>2. Cell(f, at + 4) = <<"blake3", content>>
    <3>1. at + 4 \in Nat /\ at + 4 < Len(f) /\ (at + 4) + 1 = at + 5
      BY <1>1, <2>1
    <3>. QED
      BY <3>1, CellIs DEF at
  <2>3. content = Slice(f, 0, at)
    BY <2>1, <2>2
  <2>4. \A i \in 1..at : content[i] = f[i]
    <3>1. \A i \in 1..at : Slice(f, 0, at)[i] = f[0 + i]
      <4>1. 0 \in Nat /\ 0 + at <= Len(f)
        BY <1>1, <2>1
      <4>. QED
        BY <1>1, <4>1, SliceIs
    <3>2. \A i \in 1..at : 0 + i = i
      OBVIOUS
    <3>. QED
      BY <2>3, <3>1, <3>2
  <2>5. SavedCells(f, order, by_hash, Metadata(tree, conf, description))
    BY <1>1, <2>4, CellsKept DEF at
  <2>6. Len(f) >= at
    BY <1>1, <2>1
  <2>. QED
    BY <1>3, <2>5, <2>6, ReadSaved DEF at
<1>. QED
  BY <1>2, <1>3

\* Where the EOF block begins can only be told as it is.
LEMMA EofMoved ==
  ASSUME NEW tree, NEW conf, NEW description, NEW order, NEW by_hash, NEW content, NEW file,
         Len(order) \in Nat, IsSaved(file, content, Len(order)),
         SavedCells(content, order, by_hash, Metadata(tree, conf, description)),
         NEW cell, IsCell(cell), NEW f, CellSeq(f), Len(f) = Len(file),
         f[6] = cell, \A j \in 1..Len(file) : j # 6 => f[j] = file[j], OffsetEof(f) # EofAt(Len(order))
  PROVE  ~HeaderValid(f) \/ ~EofValid(f)
<1>. DEFINE at == EofAt(Len(order))
            moved == OffsetEof(f)
<1>1. /\ at \in Nat /\ at > 10 /\ Len(file) = at + 5 /\ CellSeq(file)
      /\ \A i \in 1..at : file[i] = content[i]
  BY DEF IsSaved, EofSize, EofAt, MetadataAt, IndexAt, HeaderSize, EnvelopeSize, EntrySize
<1>. HIDE DEF at, moved
<1>2. SUFFICES ASSUME moved <= Len(f), EofValid(f)
               PROVE  FALSE
  BY DEF HeaderValid, moved
<1>4. Cell(f, 5) = cell
  <2>1. 5 \in Nat /\ 5 < Len(f) /\ 5 + 1 = 6
    BY <1>1
  <2>2. Cell(f, 5) = f[5 + 1]
    BY <2>1, CellIs
  <2>. QED
    BY <2>1, <2>2
<1>5. cell[1] = "number" /\ moved = cell[2] /\ moved \in Nat
  <2>1. moved = IF cell[1] = "number" THEN cell[2] ELSE Len(f) + 1
    BY <1>4 DEF NumberAt, OffsetEof, moved
  <2>2. Len(f) \in Nat
    BY <1>1
  <2>. QED
    BY <1>2, <2>1, <2>2 DEF IsCell
<1>6. moved + 5 <= Len(f) /\ Cell(f, moved) = <<"tag", "eof">>
  BY <1>2 DEF EofValid, EofSize, moved
<1>7. f[moved + 1] = <<"tag", "eof">> /\ moved + 1 \in 1..Len(file)
  <2>1. moved < Len(f) /\ moved + 1 \in 1..Len(file)
    BY <1>1, <1>5, <1>6
  <2>2. Cell(f, moved) = f[moved + 1]
    BY <1>5, <2>1, CellIs
  <2>. QED
    BY <1>6, <2>1, <2>2
<1>8. moved + 1 # 6
  BY <1>5, <1>7
<1>9. moved + 1 \in 1..at
  BY <1>1, <1>5, <1>6 DEF at, moved
<1>10. content[moved + 1] = <<"tag", "eof">>
  BY <1>1, <1>7, <1>8, <1>9
<1>. QED
  BY <1>9, <1>10, NoOtherEof DEF at

(***************************************************************************)
(* Altering one field of a saved file, to anything, is noticed when it is  *)
(* loaded or makes no difference: the checksum of the whole file covers    *)
(* all before the EOF block, and there is no other place in the file that  *)
(* an altered header could have taken for the EOF block.                   *)
(***************************************************************************)
THEOREM AlteredIsNoticed ==
  ASSUME NEW tree, NEW conf, NEW S, NEW order, NEW by_hash, Lists(order, S), Lists(by_hash, S),
         NEW description,
         NEW i \in DOMAIN SaveTreeToFileBytes(tree, conf, order, by_hash, description),
         NEW cell, IsCell(cell)
  PROVE  LoadTreeFromFileBytes(
           [SaveTreeToFileBytes(tree, conf, order, by_hash, description) EXCEPT ![i] = cell])
           \in {Invalid, RestoredAs(tree, conf, S)}
<1>. DEFINE n == Len(order)
            at == EofAt(n)
            meta == Metadata(tree, conf, description)
            file == SaveTreeToFileBytes(tree, conf, order, by_hash, description)
            f == [file EXCEPT ![i] = cell]
<1>1. n \in Nat /\ at \in Nat /\ at > 10
  BY SavedLength
<1>2. PICK content : IsSaved(file, content, n) /\ SavedCells(content, order, by_hash, meta)
  BY SavedIs, Zenon
<1>3. i \in DOMAIN file
  OBVIOUS
<1>. SUFFICES LoadTreeFromFileBytes(f) \in {Invalid, RestoredAs(tree, conf, S)}
  OBVIOUS
<1>13. f = [file EXCEPT ![i] = cell]
  OBVIOUS
<1>. HIDE DEF file, at, n, meta, f
<1>4. /\ CellSeq(file) /\ Len(file) = at + 5 /\ CellSeq(content) /\ Len(content) = at
      /\ \A j \in 1..at : file[j] = content[j]
      /\ file[at + 5] = <<"blake3", content>>
  BY <1>1, <1>2 DEF IsSaved, EofSize, at
<1>5. DOMAIN file = 1..(at + 5) /\ file = [j \in 1..(at + 5) |-> file[j]]
  BY <1>4 DEF CellSeq
<1>6. /\ f = [j \in 1..(at + 5) |-> f[j]]
      /\ f[i] = cell /\ \A j \in 1..(at + 5) : j # i => f[j] = file[j]
  BY <1>3, <1>5, <1>13
<1>7. CellSeq(f) /\ Len(f) = at + 5
  BY <1>1, <1>6, CellsIn
<1>8. content[6] = Number(at)
  BY <1>2 DEF SavedCells, n, at
<1>9. ASSUME i # 6
      PROVE  OffsetEof(f) = at
  <2>1. f[5 + 1] = Number(at)
    BY <1>1, <1>4, <1>6, <1>8, <1>9
  <2>. QED
    BY <1>1, <1>7, <2>1, NumberIs DEF OffsetEof
<1>10. CASE OffsetEof(f) = at /\ i # at + 5
  <2>1. f[at + 5] = <<"blake3", content>>
    BY <1>1, <1>4, <1>6, <1>10
  <2>. QED
    BY <1>2, <1>4, <1>7, <1>10, <2>1, Checksummed DEF at, n, meta
<1>11. CASE i = at + 5
  <2>1. \A j \in 1..at : f[j] = content[j]
    BY <1>1, <1>4, <1>6, <1>11
  <2>2. SavedCells(f, order, by_hash, meta)
    BY <1>1, <1>2, <2>1, CellsKept DEF at, n
  <2>3. CASE EofValid(f)
    <3>1. Len(f) >= at
      BY <1>1, <1>7
    <3>. QED
      BY <1>7, <2>2, <2>3, <3>1, ReadSaved DEF at, n, meta
  <2>4. CASE ~EofValid(f)
    BY <2>4, NotRead
  <2>. QED
    BY <2>3, <2>4
<1>12. CASE OffsetEof(f) # at
  <2>1. i = 6
    BY <1>9, <1>12
  <2>2. ~HeaderValid(f) \/ ~EofValid(f)
    <3>1. /\ IsSaved(file, content, Len(order)) /\ Len(order) \in Nat
          /\ SavedCells(content, order, by_hash, Metadata(tree, conf, description))
          /\ OffsetEof(f) # EofAt(Len(order))
      BY <1>1, <1>2, <1>12 DEF at, n, meta
    <3>2. /\ CellSeq(f) /\ Len(f) = Len(file) /\ f[6] = cell
          /\ \A j \in 1..Len(file) : j # 6 => f[j] = file[j]
      BY <1>4, <1>6, <1>7, <2>1
    <3>. QED
      BY <3>1, <3>2, EofMoved
  <2>. QED
    BY <2>2, NotRead
<1>. QED
  BY <1>10, <1>11, <1>12

(***************************************************************************)
(* A saved file of which the end is missing, wherever it was cut, is       *)
(* rejected: the header says where the EOF block begins.                   *)
(***************************************************************************)
THEOREM CutIsRejected ==
  ASSUME NEW tree, NEW conf, NEW S, NEW order, NEW by_hash, Lists(order, S), Lists(by_hash, S),
         NEW description, NEW m \in Nat,
         m < Len(SaveTreeToFileBytes(tree, conf, order, by_hash, description))
  PROVE  LoadTreeFromFileBytes(
           SubSeq(SaveTreeToFileBytes(tree, conf, order, by_hash, description), 1, m)) = Invalid
<1>. DEFINE n == Len(order)
            at == EofAt(n)
            meta == Metadata(tree, conf, description)
            file == SaveTreeToFileBytes(tree, conf, order, by_hash, description)
            f == Slice(file, 0, m)
<1>1. n \in Nat /\ at \in Nat /\ at > 10
  BY SavedLength
<1>2. PICK content : IsSaved(file, content, n) /\ SavedCells(content, order, by_hash, meta)
  BY SavedIs, Zenon
<1>3. f = SubSeq(file, 1, m)
  BY DEF Slice
<1>4. m < Len(file)
  OBVIOUS
<1>. HIDE DEF file, at, n, meta, f
<1>5. CellSeq(file) /\ Len(file) = at + 5 /\ file[6] = Number(at)
  BY <1>1, <1>2 DEF IsSaved, EofSize, SavedCells, at, n
<1>6. CellSeq(f) /\ Len(f) = m /\ \A i \in 1..m : f[i] = file[0 + i]
  BY <1>1, <1>4, <1>5, SliceIs DEF f
<1>7. m < 7 => ~HeaderValid(f)
  BY <1>6 DEF HeaderValid, HeaderSize
<1>8. ASSUME m >= 7
      PROVE  ~EofValid(f)
  <2>1. f[5 + 1] = Number(at)
    BY <1>5, <1>6, <1>8
  <2>2. OffsetEof(f) = at
    BY <1>6, <1>8, <2>1, NumberIs DEF OffsetEof
  <2>. QED
    BY <1>1, <1>4, <1>5, <1>6, <2>2 DEF EofValid, EofSize
<1>9. ~HeaderValid(f) \/ ~EofValid(f)
  BY <1>7, <1>8
<1>. QED
  BY <1>3, <1>9, NotRead DEF file
-----------------------------------------------------------------------------
(***************************************************************************)
(* Any number of saves and loads, with anything in between.                *)
(***************************************************************************)
\* One save, one damage and one load.
LEMMA LoadedIs ==
  ASSUME NEW chunks, NEW file, NEW damage, SavedAs(file, chunks), IsDamage(damage, file)
  PROVE  LET loaded == LoadTreeFromFileBytes(WithDamage(file, damage))
             before == [out |-> "loaded", root |-> root, config |-> config, store |-> chunks]
         IN  /\ WithDamage(file, damage) = file => loaded = before
             /\ loaded \in {Invalid, before}
<1>. DEFINE loaded == LoadTreeFromFileBytes(WithDamage(file, damage))
            before == [out |-> "loaded", root |-> root, config |-> config, store |-> chunks]
<1>1. PICK order, by_hash, description :
        /\ Lists(order, chunks) /\ Lists(by_hash, chunks)
        /\ file = SaveTreeToFileBytes(root, config, order, by_hash, description)
  BY DEF SavedAs
<1>2. RestoredAs(root, config, chunks) = before
  BY DEF SavedAs, RestoredAs
<1>. SUFFICES (WithDamage(file, damage) = file => loaded = before) /\ loaded \in {Invalid, before}
  OBVIOUS
<1>. HIDE DEF before
<1>3. LoadTreeFromFileBytes(file) = before
  BY <1>1, <1>2, SavedIsLoaded
<1>4. CASE damage = Intact
  <2>1. WithDamage(file, damage) = file
    BY <1>4 DEF WithDamage, Intact
  <2>. QED
    BY <1>3, <2>1
<1>5. CASE damage[1] = "cell" /\ damage[2] \in DOMAIN file /\ IsCell(damage[3])
  <2>1. WithDamage(file, damage) = [file EXCEPT ![damage[2]] = damage[3]]
    BY <1>5 DEF WithDamage
  <2>2. LoadTreeFromFileBytes([file EXCEPT ![damage[2]] = damage[3]]) \in {Invalid, before}
    BY <1>1, <1>2, <1>5, AlteredIsNoticed
  <2>. QED
    BY <1>3, <2>1, <2>2
<1>6. CASE damage[1] = "cut" /\ damage[2] \in 0..(Len(file) - 1)
  <2>1. WithDamage(file, damage) = SubSeq(file, 1, damage[2])
    BY <1>6 DEF WithDamage
  <2>2. damage[2] \in Nat /\ damage[2] < Len(file)
    <3>1. CellSeq(file)
      BY <1>1, SavedIs DEF IsSaved
    <3>2. Len(file) \in Nat
      BY <3>1 DEF CellSeq
    <3>. QED
      BY <1>6, <3>2
  <2>3. LoadTreeFromFileBytes(SubSeq(file, 1, damage[2])) = Invalid
    BY <1>1, <2>2, CutIsRejected
  <2>. QED
    BY <1>3, <2>1, <2>3
<1>. QED
  BY <1>4, <1>5, <1>6 DEF IsDamage

(***************************************************************************)
(* Whatever is saved and loaded, and whatever else is asked of the tree in *)
(* between: a file that was not damaged gives the tree that was saved, and *)
(* one of which a field was altered or the end is missing is rejected or   *)
(* gives that tree.                                                        *)
(***************************************************************************)
THEOREM FilesKeepTrees == ReadsSpec => [](FileRoundTrips /\ DamageDetected)
<1>1. request.op # "file" => FileRoundTrips /\ DamageDetected
  BY DEF FileRoundTrips, DamageDetected
<1>2. ASSUME FileStep
      PROVE  FileRoundTrips' /\ DamageDetected'
  <2>1. PICK chunks, file, damage : SavedAs(file, chunks) /\ LoadFile(chunks, file, damage)
    BY <1>2 DEF FileStep
  <2>. DEFINE loaded == LoadTreeFromFileBytes(WithDamage(file, damage))
              before == [out |-> "loaded", root |-> root, config |-> config, store |-> chunks]
  <2>2. /\ reply' = loaded /\ root' = root /\ config' = config /\ request'.chunks = chunks
        /\ request'.damaged = (damage # Intact /\ WithDamage(file, damage) # file)
        /\ IsDamage(damage, file)
    BY <2>1 DEF LoadFile, Replies, sharedVars
  <2>3. WithDamage(file, Intact) = file
    BY DEF WithDamage, Intact
  <2>4. (WithDamage(file, damage) = file => loaded = before) /\ loaded \in {Invalid, before}
    BY <2>1, <2>2, LoadedIs
  <2>5. Restored' = before
    BY <2>2 DEF Restored
  <2>. HIDE DEF loaded, before
  <2>6. Invalid.out # "loaded"
    BY DEF Invalid
  <2>. QED
    BY <2>2, <2>3, <2>4, <2>5, <2>6 DEF FileRoundTrips, DamageDetected
<1>3. request'.op # "file" => FileRoundTrips' /\ DamageDetected'
  BY DEF FileRoundTrips, DamageDetected
<1>4. OtherStep \/ ScanStep => request'.op # "file"
  BY DEF OtherStep, ScanStep, ScanItems, ScanItemsSync, Replies
<1>5. FileRoundTrips /\ DamageDetected /\ UNCHANGED readVars => FileRoundTrips' /\ DamageDetected'
  BY DEF FileRoundTrips, DamageDetected, Restored, readVars, sharedVars
<1>6. FileRoundTrips /\ DamageDetected /\ [ScanStep \/ FileStep \/ OtherStep]_readVars
        => FileRoundTrips' /\ DamageDetected'
  BY <1>2, <1>3, <1>4, <1>5
<1>7. ReadsSpec => request.op # "file" /\ [][ScanStep \/ FileStep \/ OtherStep]_readVars
  BY DEF ReadsSpec
<1>. QED
  BY <1>1, <1>6, <1>7, PTL

(***************************************************************************)
(* No damage of those that Reads allows goes through as another tree,      *)
(* whatever else is asked of the tree: read_prly_tree_v2 compares the      *)
(* checksum of all before the EOF block, and looks for that block only     *)
(* where the header says.                                                  *)
(***************************************************************************)
THEOREM DamageStaysDetected == ReadsSpec => []DamageDetected
BY FilesKeepTrees, PTL
-----------------------------------------------------------------------------
(***************************************************************************)
(* Loops of a scan.                                                        *)
(***************************************************************************)
\* The turns of the loop that skips exist.
LEMMA SkippingExists ==
  ASSUME NEW c, NEW n, NEW args, NEW T
  PROVE  Skipping(c, n, args, T)
           = [l \in Nat |-> IF l = 0 THEN [cursor |-> c, out |-> "ready", due |-> n]
                            ELSE SkipMore(Skipping(c, n, args, T)[l - 1], args, T)]
<1>. DEFINE First == [cursor |-> c, out |-> "ready", due |-> n]
<1>. DEFINE Begins(g, m) ==
              g = [l \in 0..m |-> IF l = 0 THEN First ELSE SkipMore(g[l - 1], args, T)]
            Edge(g) ==
              g = [l \in Nat |-> IF l = 0 THEN First ELSE SkipMore(g[l - 1], args, T)]
<1>1. ASSUME NEW g, NEW m \in Nat, Begins(g, m), NEW l \in 0..m
      PROVE  g[l] = IF l = 0 THEN First ELSE SkipMore(g[l - 1], args, T)
  BY <1>1
<1>. HIDE DEF Begins
<1>2. \A m \in Nat : \E g : Begins(g, m)
  <2>. DEFINE Gaps == {m \in Nat : ~\E g : Begins(g, m)}
  <2>. SUFFICES ASSUME Gaps # {}
                PROVE  FALSE
    OBVIOUS
  <2>1. PICK m \in Gaps : \A u \in Gaps : m =< u
    <3>. HIDE DEF Gaps
    <3>1. Gaps \subseteq Nat
      BY DEF Gaps
    <3>. QED
      BY <3>1, LeastNatural
  <2>2. m # 0
    <3>. DEFINE g == [l \in 0..0 |-> First]
    <3>1. Begins(g, 0)
      BY DEF Begins
    <3>. QED
      BY <3>1
  <2>3. m - 1 \in Nat /\ m - 1 \notin Gaps
    BY <2>1, <2>2
  <2>4. PICK g : Begins(g, m - 1)
    BY <2>3
  <2>. DEFINE h == [l \in 0..m |-> IF l = m THEN SkipMore(g[m - 1], args, T) ELSE g[l]]
  <2>5. Begins(h, m)
    <3>1. ASSUME NEW l \in 0..m
          PROVE  h[l] = IF l = 0 THEN First ELSE SkipMore(h[l - 1], args, T)
      <4>1. CASE l = m
        <5>1. h[m] = SkipMore(g[m - 1], args, T)
          BY <2>1
        <5>2. h[m - 1] = g[m - 1]
          BY <2>3
        <5>. HIDE DEF h
        <5>. QED
          BY <2>2, <4>1, <5>1, <5>2
      <4>2. CASE l # m
        <5>1. l \in 0..(m - 1)
          BY <2>1, <4>2
        <5>2. h[l] = g[l]
          BY <4>2
        <5>3. l # 0 => h[l - 1] = g[l - 1]
          BY <2>3, <5>1
        <5>4. g[l] = IF l = 0 THEN First ELSE SkipMore(g[l - 1], args, T)
          BY <1>1, <2>3, <2>4, <5>1
        <5>. HIDE DEF h
        <5>. QED
          BY <5>2, <5>3, <5>4
      <4>. QED
        BY <4>1, <4>2
    <3>2. h = [l \in 0..m |-> h[l]]
      OBVIOUS
    <3>. HIDE DEF h
    <3>. QED
      BY <3>1, <3>2 DEF Begins
  <2>. QED
    BY <2>1, <2>5
<1>3. ASSUME NEW m \in Nat, NEW k \in Nat, NEW g, NEW h, Begins(g, m), Begins(h, k)
      PROVE  \A l \in Nat : l <= m /\ l <= k => g[l] = h[l]
  <2>. DEFINE Gaps == {l \in Nat : l <= m /\ l <= k /\ g[l] # h[l]}
  <2>. SUFFICES ASSUME Gaps # {}
                PROVE  FALSE
    OBVIOUS
  <2>1. PICK l \in Gaps : \A u \in Gaps : l =< u
    <3>. HIDE DEF Gaps
    <3>1. Gaps \subseteq Nat
      BY DEF Gaps
    <3>. QED
      BY <3>1, LeastNatural
  <2>2. l \in 0..m /\ l \in 0..k
    BY <2>1
  <2>3. /\ g[l] = IF l = 0 THEN First ELSE SkipMore(g[l - 1], args, T)
        /\ h[l] = IF l = 0 THEN First ELSE SkipMore(h[l - 1], args, T)
    BY <1>1, <1>3, <2>2
  <2>4. l # 0 => g[l - 1] = h[l - 1]
    BY <2>1
  <2>5. g[l] # h[l]
    BY <2>1
  <2>. HIDE DEF Gaps
  <2>. QED
    BY <2>3, <2>4, <2>5
<1>. DEFINE part(l) == CHOOSE g : Begins(g, l)
            f == [l \in Nat |-> part(l)[l]]
<1>4. \A l \in Nat : Begins(part(l), l)
  BY <1>2
<1>. HIDE DEF part
<1>5. Edge(f)
  <2>1. ASSUME NEW l \in Nat
        PROVE  f[l] = IF l = 0 THEN First ELSE SkipMore(f[l - 1], args, T)
    <3>1. l \in 0..l /\ part(l)[l] = IF l = 0 THEN First ELSE SkipMore(part(l)[l - 1], args, T)
      BY <1>1, <1>4
    <3>2. CASE l = 0
      BY <3>1, <3>2
    <3>3. CASE l # 0
      <4>1. l - 1 \in Nat /\ l - 1 <= l /\ l - 1 <= l - 1
        BY <3>3
      <4>2. part(l)[l - 1] = part(l - 1)[l - 1]
        BY <1>3, <1>4, <4>1
      <4>3. f[l] = part(l)[l] /\ f[l - 1] = part(l - 1)[l - 1]
        BY <4>1
      <4>. HIDE DEF f
      <4>. QED
        BY <3>1, <3>3, <4>2, <4>3
    <3>. QED
      BY <3>2, <3>3
  <2>2. f = [l \in Nat |-> f[l]]
    OBVIOUS
  <2>. HIDE DEF f
  <2>. QED
    BY <2>1, <2>2
<1>. HIDE DEF f
<1>6. Skipping(c, n, args, T) = CHOOSE g : Edge(g)
  BY Zenon DEF Skipping
<1>7. Edge(CHOOSE g : Edge(g))
  BY <1>5, Zenon
<1>. QED
  BY <1>6, <1>7, Zenon

\* It begins with all of them due and goes on with what a turn does.
LEMMA SkippingStep ==
  ASSUME NEW c, NEW n, NEW args, NEW T
  PROVE  /\ Skipping(c, n, args, T)[0] = [cursor |-> c, out |-> "ready", due |-> n]
         /\ \A l \in Nat : Skipping(c, n, args, T)[l + 1] = SkipMore(Skipping(c, n, args, T)[l], args, T)
<1>1. Skipping(c, n, args, T)[0] = [cursor |-> c, out |-> "ready", due |-> n]
  BY SkippingExists
<1>2. ASSUME NEW l \in Nat
      PROVE  Skipping(c, n, args, T)[l + 1] = SkipMore(Skipping(c, n, args, T)[l], args, T)
  <2>1. l + 1 \in Nat /\ l + 1 # 0 /\ (l + 1) - 1 = l
    OBVIOUS
  <2>. QED
    BY <2>1, SkippingExists
<1>. QED
  BY <1>1, <1>2

\* The steps of a page exist.
LEMMA FetchingExists ==
  ASSUME NEW c, NEW args, NEW T
  PROVE  Fetching(c, args, T)
           = [l \in Nat |-> IF l = 0 THEN [cursor |-> c, items |-> <<>>, out |-> "ready"]
                            ELSE FetchNext(Fetching(c, args, T)[l - 1], args, T)]
<1>. DEFINE First == [cursor |-> c, items |-> <<>>, out |-> "ready"]
<1>. DEFINE Begins(g, m) ==
              g = [l \in 0..m |-> IF l = 0 THEN First ELSE FetchNext(g[l - 1], args, T)]
            Edge(g) ==
              g = [l \in Nat |-> IF l = 0 THEN First ELSE FetchNext(g[l - 1], args, T)]
<1>1. ASSUME NEW g, NEW m \in Nat, Begins(g, m), NEW l \in 0..m
      PROVE  g[l] = IF l = 0 THEN First ELSE FetchNext(g[l - 1], args, T)
  BY <1>1
<1>. HIDE DEF Begins
<1>2. \A m \in Nat : \E g : Begins(g, m)
  <2>. DEFINE Gaps == {m \in Nat : ~\E g : Begins(g, m)}
  <2>. SUFFICES ASSUME Gaps # {}
                PROVE  FALSE
    OBVIOUS
  <2>1. PICK m \in Gaps : \A u \in Gaps : m =< u
    <3>. HIDE DEF Gaps
    <3>1. Gaps \subseteq Nat
      BY DEF Gaps
    <3>. QED
      BY <3>1, LeastNatural
  <2>2. m # 0
    <3>. DEFINE g == [l \in 0..0 |-> First]
    <3>1. Begins(g, 0)
      BY DEF Begins
    <3>. QED
      BY <3>1
  <2>3. m - 1 \in Nat /\ m - 1 \notin Gaps
    BY <2>1, <2>2
  <2>4. PICK g : Begins(g, m - 1)
    BY <2>3
  <2>. DEFINE h == [l \in 0..m |-> IF l = m THEN FetchNext(g[m - 1], args, T) ELSE g[l]]
  <2>5. Begins(h, m)
    <3>1. ASSUME NEW l \in 0..m
          PROVE  h[l] = IF l = 0 THEN First ELSE FetchNext(h[l - 1], args, T)
      <4>1. CASE l = m
        <5>1. h[m] = FetchNext(g[m - 1], args, T)
          BY <2>1
        <5>2. h[m - 1] = g[m - 1]
          BY <2>3
        <5>. HIDE DEF h
        <5>. QED
          BY <2>2, <4>1, <5>1, <5>2
      <4>2. CASE l # m
        <5>1. l \in 0..(m - 1)
          BY <2>1, <4>2
        <5>2. h[l] = g[l]
          BY <4>2
        <5>3. l # 0 => h[l - 1] = g[l - 1]
          BY <2>3, <5>1
        <5>4. g[l] = IF l = 0 THEN First ELSE FetchNext(g[l - 1], args, T)
          BY <1>1, <2>3, <2>4, <5>1
        <5>. HIDE DEF h
        <5>. QED
          BY <5>2, <5>3, <5>4
      <4>. QED
        BY <4>1, <4>2
    <3>2. h = [l \in 0..m |-> h[l]]
      OBVIOUS
    <3>. HIDE DEF h
    <3>. QED
      BY <3>1, <3>2 DEF Begins
  <2>. QED
    BY <2>1, <2>5
<1>3. ASSUME NEW m \in Nat, NEW k \in Nat, NEW g, NEW h, Begins(g, m), Begins(h, k)
      PROVE  \A l \in Nat : l <= m /\ l <= k => g[l] = h[l]
  <2>. DEFINE Gaps == {l \in Nat : l <= m /\ l <= k /\ g[l] # h[l]}
  <2>. SUFFICES ASSUME Gaps # {}
                PROVE  FALSE
    OBVIOUS
  <2>1. PICK l \in Gaps : \A u \in Gaps : l =< u
    <3>. HIDE DEF Gaps
    <3>1. Gaps \subseteq Nat
      BY DEF Gaps
    <3>. QED
      BY <3>1, LeastNatural
  <2>2. l \in 0..m /\ l \in 0..k
    BY <2>1
  <2>3. /\ g[l] = IF l = 0 THEN First ELSE FetchNext(g[l - 1], args, T)
        /\ h[l] = IF l = 0 THEN First ELSE FetchNext(h[l - 1], args, T)
    BY <1>1, <1>3, <2>2
  <2>4. l # 0 => g[l - 1] = h[l - 1]
    BY <2>1
  <2>5. g[l] # h[l]
    BY <2>1
  <2>. HIDE DEF Gaps
  <2>. QED
    BY <2>3, <2>4, <2>5
<1>. DEFINE part(l) == CHOOSE g : Begins(g, l)
            f == [l \in Nat |-> part(l)[l]]
<1>4. \A l \in Nat : Begins(part(l), l)
  BY <1>2
<1>. HIDE DEF part
<1>5. Edge(f)
  <2>1. ASSUME NEW l \in Nat
        PROVE  f[l] = IF l = 0 THEN First ELSE FetchNext(f[l - 1], args, T)
    <3>1. l \in 0..l /\ part(l)[l] = IF l = 0 THEN First ELSE FetchNext(part(l)[l - 1], args, T)
      BY <1>1, <1>4
    <3>2. CASE l = 0
      BY <3>1, <3>2
    <3>3. CASE l # 0
      <4>1. l - 1 \in Nat /\ l - 1 <= l /\ l - 1 <= l - 1
        BY <3>3
      <4>2. part(l)[l - 1] = part(l - 1)[l - 1]
        BY <1>3, <1>4, <4>1
      <4>3. f[l] = part(l)[l] /\ f[l - 1] = part(l - 1)[l - 1]
        BY <4>1
      <4>. HIDE DEF f
      <4>. QED
        BY <3>1, <3>3, <4>2, <4>3
    <3>. QED
      BY <3>2, <3>3
  <2>2. f = [l \in Nat |-> f[l]]
    OBVIOUS
  <2>. HIDE DEF f
  <2>. QED
    BY <2>1, <2>2
<1>. HIDE DEF f
<1>6. Fetching(c, args, T) = CHOOSE g : Edge(g)
  BY Zenon DEF Fetching
<1>7. Edge(CHOOSE g : Edge(g))
  BY <1>5, Zenon
<1>. QED
  BY <1>6, <1>7, Zenon

\* It begins with nothing and goes on with the next entry.
LEMMA FetchingStep ==
  ASSUME NEW c, NEW args, NEW T
  PROVE  /\ Fetching(c, args, T)[0] = [cursor |-> c, items |-> <<>>, out |-> "ready"]
         /\ \A l \in Nat : Fetching(c, args, T)[l + 1] = FetchNext(Fetching(c, args, T)[l], args, T)
<1>1. Fetching(c, args, T)[0] = [cursor |-> c, items |-> <<>>, out |-> "ready"]
  BY FetchingExists
<1>2. ASSUME NEW l \in Nat
      PROVE  Fetching(c, args, T)[l + 1] = FetchNext(Fetching(c, args, T)[l], args, T)
  <2>1. l + 1 \in Nat /\ l + 1 # 0 /\ (l + 1) - 1 = l
    OBVIOUS
  <2>. QED
    BY <2>1, FetchingExists
<1>. QED
  BY <1>1, <1>2

(***************************************************************************)
(* Positioning.                                                            *)
(***************************************************************************)
\* What is available in its leaf is what a cursor has ahead besides what is past the leaf.
LEMMA AvailableIs ==
  ASSUME NEW S, Fit(S), NEW r \in NodesIn(S), NEW args, NEW c, Poised(c, args, r, S), c.path # <<>>
  PROVE  LET past == PastLeaf(Last(c.path).node, args, r)
         IN  /\ Available(c, args) \in Nat
             /\ c.at \in DOMAIN Last(c.path).node.entries => Available(c, args) # 0
             /\ IsFiniteSet(past) /\ IsFiniteSet(Ahead(c, args, r))
             /\ Cardinality(Ahead(c, args, r)) = Cardinality(past) + Available(c, args)
<1>. DEFINE n == Last(c.path).node
            s == n.entries
            at == c.at
            past == PastLeaf(n, args, r)
            left == LeftInLeaf(n, at, args)
            low == IF args.reverse THEN 1 ELSE at
            high == IF args.reverse THEN at ELSE Len(s)
            I == low..high
            f == [i \in I |-> s[i]]
<1>1. /\ n.kind = "Leaf" /\ n \in Part(r, S)
      /\ at \in IF args.reverse THEN 0..Len(s) ELSE 1..(Len(s) + 1)
  BY LastIsPart DEF Poised
<1>2. /\ DOMAIN s = 1..Len(s) /\ Len(s) \in Nat
      /\ \A i \in DOMAIN s : s[i].key \in Int /\ s[i] \in StoredIn(n)
      /\ \A i, j \in DOMAIN s : i < j => s[i].key < s[j].key
  BY <1>1, LeafIs
<1>3. /\ LowKey(n) \in Int /\ BoundaryKey(n) \in Int
      /\ \A x \in StoredIn(n) : x.key \in Int /\ LowKey(n) <= x.key /\ x.key <= BoundaryKey(n)
  BY <1>1, NodeRange DEF Part
<1>4. Available(c, args) = IF args.reverse THEN at ELSE Len(s) + 1 - at
  BY DEF Available
<1>5. /\ left = {s[i] : i \in {i \in DOMAIN s : IF args.reverse THEN i <= at ELSE at <= i}}
      /\ past = {x \in StoredIn(r) : IF args.reverse THEN x.key < LowKey(n) ELSE BoundaryKey(n) < x.key}
  BY DEF LeftInLeaf, PastLeaf
<1>6. Ahead(c, args, r) = past \cup left
  BY DEF Ahead
<1>7. IsFiniteSet(StoredIn(r))
  BY StoredCounted DEF Fit
<1>. HIDE DEF n, s, at, past, left
<1>8. /\ low \in Int /\ high \in Int
      /\ Available(c, args) = IF low > high THEN 0 ELSE high - low + 1
      /\ Available(c, args) \in Nat
      /\ at \in DOMAIN s => Available(c, args) # 0
  BY <1>1, <1>2, <1>4
<1>9. I = {i \in DOMAIN s : IF args.reverse THEN i <= at ELSE at <= i}
  BY <1>1, <1>2
<1>10. IsFiniteSet(I) /\ Cardinality(I) = Available(c, args)
  <2>. HIDE DEF low, high
  <2>. QED
    BY <1>8, FS_Interval
<1>. HIDE DEF I
<1>11. f \in Bijection(I, left)
  <2>1. \A i, j \in I : s[i] = s[j] => i = j
    <3>. SUFFICES ASSUME NEW i \in I, NEW j \in I, s[i] = s[j], i # j
                  PROVE  FALSE
      OBVIOUS
    <3>1. i \in DOMAIN s /\ j \in DOMAIN s /\ s[i].key \in Int
      BY <1>2, <1>9
    <3>2. i < j \/ j < i
      BY <1>2, <3>1
    <3>. QED
      BY <1>2, <3>1, <3>2
  <2>2. left = {s[i] : i \in I}
    BY <1>5, <1>9
  <2>3. f \in [I -> left] /\ \A i \in I : f[i] = s[i]
    BY <2>2
  <2>4. \A e \in left : \E i \in I : f[i] = e
    BY <2>2, <2>3
  <2>. HIDE DEF f
  <2>. QED
    BY <2>1, <2>3, <2>4 DEF Bijection, Injection, IsInjective, Surjection
<1>12. IsFiniteSet(left) /\ Cardinality(left) = Available(c, args)
  BY <1>10, <1>11, FS_Bijection DEF ExistsBijection
<1>13. past \cap left = {}
  <2>. SUFFICES ASSUME NEW x \in past, x \in left
                PROVE  FALSE
    OBVIOUS
  <2>1. x.key \in Int /\ LowKey(n) <= x.key /\ x.key <= BoundaryKey(n)
    BY <1>2, <1>3, <1>5
  <2>2. IF args.reverse THEN x.key < LowKey(n) ELSE BoundaryKey(n) < x.key
    BY <1>5
  <2>. QED
    BY <1>3, <2>1, <2>2
<1>14. IsFiniteSet(past)
  BY <1>5, <1>7, FS_Subset
<1>15. Cardinality(past) \in Nat /\ Cardinality({}) = 0
  BY <1>14, FS_CardinalityType, FS_EmptySet
<1>16. /\ IsFiniteSet(past \cup left)
       /\ Cardinality(past \cup left) = Cardinality(past) + Cardinality(left) - Cardinality(past \cap left)
  BY <1>12, <1>14, FS_Union
<1>. HIDE DEF low, high
<1>17. Available(c, args) \in Nat
  BY <1>8
<1>18. Cardinality(past \cup left) = Cardinality(past) + Available(c, args)
  <2>1. Cardinality(past \cap left) = 0
    BY <1>13, <1>15
  <2>. DEFINE whole == Cardinality(past \cup left)
              far == Cardinality(past)
              near == Cardinality(left)
  <2>2. whole = far + near - 0 /\ far \in Nat /\ near = Available(c, args)
    BY <1>12, <1>15, <1>16, <2>1
  <2>. HIDE DEF whole, far, near
  <2>3. whole = far + Available(c, args)
    BY <1>17, <2>2
  <2>. QED
    BY <2>3 DEF whole, far
<1>19. at \in DOMAIN s => Available(c, args) # 0
  BY <1>8
<1>20. IsFiniteSet(Ahead(c, args, r))
       /\ Cardinality(Ahead(c, args, r)) = Cardinality(past) + Available(c, args)
  BY <1>6, <1>16, <1>18
<1>21. c.at \in DOMAIN Last(c.path).node.entries => Available(c, args) # 0
  BY <1>19 DEF n, s, at
<1>. QED
  BY <1>14, <1>17, <1>20, <1>21 DEF n, past

\* A turn of the loop that skips entries, from c on: the cursor is where it was,
\* in a leaf further on, or through with the tree; or a chunk was missing.
Skipped(k, c, args, r, S, T) ==
  /\ k = [cursor |-> [path |-> k.cursor.path, at |-> k.cursor.at], out |-> k.out, due |-> k.due]
  /\ k.due \in Nat
  /\ k.out = "ready" =>
       /\ Poised(k.cursor, args, r, S) /\ Ahead(k.cursor, args, r) \subseteq Ahead(c, args, r)
       /\ k.cursor.path = <<>> => k.due = 0
       /\ k.cursor = c \/ k.cursor.path = <<>> \/ k.cursor.at \in DOMAIN Last(k.cursor.path).node.entries
  /\ k.out # "ready" => k.due = 0 /\ k.out = "ChunkNotFound" /\ ~(ChunksUnder(r) \subseteq T)

\* Within a leaf: fewer entries are skipped than are left there.
LEMMA SkipInLeaf ==
  ASSUME NEW S, Fit(S), NEW r \in NodesIn(S), NEW args, NEW p, NEW at, NEW due \in Nat, due > 0,
         Poised([path |-> p, at |-> at], args, r, S), p # <<>>,
         due < Available([path |-> p, at |-> at], args)
  PROVE  LET to == [path |-> p, at |-> at + Dir(args) * due]
         IN  /\ Poised(to, args, r, S) /\ to.at \in DOMAIN Last(p).node.entries
             /\ Ahead(to, args, r) \subseteq Ahead([path |-> p, at |-> at], args, r)
<1>. DEFINE n == Last(p).node
            s == n.entries
            a == at + Dir(args) * due
            c == [path |-> p, at |-> at]
            to == [path |-> p, at |-> a]
<1>1. /\ Stacked(p, r, S) /\ n.kind = "Leaf" /\ n \in Part(r, S)
      /\ at \in IF args.reverse THEN 0..Len(s) ELSE 1..(Len(s) + 1)
  BY LastIsPart DEF Poised
<1>2. DOMAIN s = 1..Len(s) /\ Len(s) \in Nat
  BY <1>1, LeafIs
<1>3. a \in 1..Len(s) /\ at \in Int
  <2>1. a = IF args.reverse THEN at - due ELSE at + due
    <3>1. CASE args.reverse
      <4>1. Dir(args) = -1
        BY <3>1 DEF Dir
      <4>2. at \in Int
        BY <1>1, <1>2, <3>1
      <4>. QED
        BY <3>1, <4>1, <4>2
    <3>2. CASE ~args.reverse
      BY <3>2 DEF Dir
    <3>. QED
      BY <3>1, <3>2
  <2>. HIDE DEF a, s
  <2>2. due < (IF args.reverse THEN at ELSE Len(s) + 1 - at)
    BY DEF Available, s
  <2>. QED
    BY <1>1, <1>2, <2>1, <2>2
<1>4. \A i \in DOMAIN s : (IF args.reverse THEN i <= a ELSE a <= i) => (IF args.reverse THEN i <= at ELSE at <= i)
  <2>1. IF args.reverse THEN a <= at ELSE at <= a
    <3>1. CASE args.reverse
      <4>1. Dir(args) = -1 /\ at \in Int
        BY <1>3, <3>1 DEF Dir
      <4>. QED
        BY <3>1, <4>1
    <3>2. CASE ~args.reverse
      BY <1>3, <3>2 DEF Dir
    <3>. QED
      BY <3>1, <3>2
  <2>. HIDE DEF a, s
  <2>. QED
    BY <1>2, <1>3, <2>1
<1>5. LeftInLeaf(n, a, args) \subseteq LeftInLeaf(n, at, args)
  <2>. HIDE DEF a
  <2>. QED
    BY <1>4 DEF LeftInLeaf
<1>6. to.path = p /\ to.at = a /\ c.path = p /\ c.at = at
  OBVIOUS
<1>. HIDE DEF a, to, c
<1>7. /\ Ahead(to, args, r) = PastLeaf(n, args, r) \cup LeftInLeaf(n, a, args)
      /\ Ahead(c, args, r) = PastLeaf(n, args, r) \cup LeftInLeaf(n, at, args)
  BY <1>6 DEF Ahead
<1>8. a \in IF args.reverse THEN 0..Len(s) ELSE 1..(Len(s) + 1)
  <2>. HIDE DEF s
  <2>. QED
    BY <1>2, <1>3
<1>9. Poised(to, args, r, S)
  BY <1>1, <1>6, <1>8 DEF Poised
<1>10. Ahead(to, args, r) \subseteq Ahead(c, args, r)
  BY <1>5, <1>7
<1>. QED
  BY <1>2, <1>3, <1>9, <1>10 DEF a, to, c

LEMMA SkipMoreKeeps ==
  ASSUME NEW S, Fit(S), NEW r \in NodesIn(S), r # None, NEW args, NEW c, NEW k, NEW T,
         Skipped(k, c, args, r, S, T)
  PROVE  Skipped(SkipMore(k, args, T), c, args, r, S, T)
<1>. DEFINE p == k.cursor.path
            at == k.cursor.at
            n == Last(p).node
            here == [path |-> p, at |-> at]
            left == Available(here, args)
            moved == Advance(p, Dir(args), T)
            to == [path |-> moved.path, at |-> NearEnd(moved.path, args)]
            next == SkipMore(k, args, T)
<1>1. /\ k = [cursor |-> here, out |-> k.out, due |-> k.due] /\ k.due \in Nat
  BY DEF Skipped
<1>2. CASE k.due = 0
  <2>1. next = k
    BY <1>2 DEF SkipMore
  <2>. QED
    BY <2>1
<1>3. CASE k.due # 0
  <2>1. k.due > 0 /\ k.out = "ready"
    BY <1>1, <1>3 DEF Skipped
  <2>2. /\ k.cursor = here /\ Poised(here, args, r, S) /\ p # <<>>
        /\ Ahead(here, args, r) \subseteq Ahead(c, args, r)
    <3>1. k.cursor = here
      BY <1>1
    <3>2. Poised(k.cursor, args, r, S) /\ Ahead(k.cursor, args, r) \subseteq Ahead(c, args, r) /\ p # <<>>
      BY <1>3, <2>1 DEF Skipped
    <3>. QED
      BY <3>1, <3>2
  <2>3. Stacked(p, r, S) /\ n.kind = "Leaf" /\ n \in Part(r, S)
    BY <2>2, LastIsPart DEF Poised
  <2>4. left \in Nat
    <3>. HIDE DEF here
    <3>1. here.path # <<>>
      BY <2>2 DEF here
    <3>. QED
      BY <2>2, <3>1, AvailableIs
  <2>5. CASE k.due < left
    <3>. DEFINE a == at + Dir(args) * k.due
    <3>0. left = Available(k.cursor, args)
      BY <2>2
    <3>1. next = [cursor |-> [path |-> p, at |-> a], out |-> "ready", due |-> 0]
      <4>. HIDE DEF left
      <4>. QED
        BY <2>1, <2>5, <3>0 DEF SkipMore
    <3>2. /\ Poised([path |-> p, at |-> a], args, r, S) /\ a \in DOMAIN n.entries
          /\ Ahead([path |-> p, at |-> a], args, r) \subseteq Ahead(here, args, r)
      BY <1>1, <2>1, <2>2, <2>5, SkipInLeaf
    <3>. HIDE DEF a, next, here
    <3>. QED
      BY <2>2, <3>1, <3>2 DEF Skipped, next
  <2>6. CASE ~(k.due < left)
    <3>0. left = Available(k.cursor, args)
      BY <2>2
    <3>1. next = CASE moved.out = "leaf" ->
                        [cursor |-> to, out |-> "ready", due |-> k.due - left]
                   [] moved.out = "end" ->
                        [cursor |-> [path |-> <<>>, at |-> at], out |-> "ready", due |-> 0]
                   [] OTHER -> [cursor |-> [path |-> moved.path, at |-> at], out |-> moved.out, due |-> 0]
      <4>. HIDE DEF left
      <4>. QED
        BY <1>3, <2>6, <3>0 DEF SkipMore
    <3>2. \/ moved.out = "end" /\ PastLeaf(n, args, r) = {}
          \/ /\ moved.out = "leaf" /\ to.path # <<>> /\ Poised(to, args, r, S)
             /\ to.at \in DOMAIN Last(to.path).node.entries
             /\ Ahead(to, args, r) = PastLeaf(n, args, r)
          \/ moved.out = "ChunkNotFound" /\ ~(NodesUnder(r) \subseteq T)
      <4>. HIDE DEF p
      <4>. QED
        BY <2>2, <2>3, MoveOn
    <3>3. PastLeaf(n, args, r) \subseteq Ahead(here, args, r)
      BY <2>2 DEF Ahead
    <3>4. k.due - left \in Nat
      <4>. HIDE DEF left
      <4>. QED
        BY <1>1, <2>4, <2>6
    <3>5. to = [path |-> to.path, at |-> to.at]
      OBVIOUS
    <3>. HIDE DEF next, moved, to, here, left
    <3>6. CASE moved.out = "end"
      <4>1. next = [cursor |-> [path |-> <<>>, at |-> at], out |-> "ready", due |-> 0]
        BY <3>1, <3>6
      <4>2. /\ Poised([path |-> <<>>, at |-> at], args, r, S)
            /\ Ahead([path |-> <<>>, at |-> at], args, r) = {}
        BY DEF Poised, Ahead
      <4>. QED
        BY <4>1, <4>2 DEF Skipped, next
    <3>7. CASE /\ moved.out = "leaf" /\ to.path # <<>> /\ Poised(to, args, r, S)
               /\ to.at \in DOMAIN Last(to.path).node.entries
               /\ Ahead(to, args, r) = PastLeaf(n, args, r)
      <4>1. next = [cursor |-> to, out |-> "ready", due |-> k.due - left]
        BY <3>1, <3>7
      <4>2. next.cursor = to /\ next.out = "ready" /\ next.due = k.due - left
        BY <4>1
      <4>3. next = [cursor |-> [path |-> next.cursor.path, at |-> next.cursor.at],
                    out |-> next.out, due |-> next.due]
        BY <3>5, <4>1
      <4>4. Ahead(to, args, r) \subseteq Ahead(c, args, r)
        BY <2>2, <3>3, <3>7
      <4>5. Skipped(next, c, args, r, S, T)
        BY <3>4, <3>7, <4>2, <4>3, <4>4 DEF Skipped
      <4>. QED
        BY <4>5 DEF next
    <3>8. CASE moved.out = "ChunkNotFound" /\ ~(NodesUnder(r) \subseteq T)
      <4>1. next = [cursor |-> [path |-> moved.path, at |-> at], out |-> "ChunkNotFound", due |-> 0]
        BY <3>1, <3>8
      <4>2. ~(ChunksUnder(r) \subseteq T)
        BY <3>8, ChunksOf
      <4>. QED
        BY <4>1, <4>2 DEF Skipped, next
    <3>. QED
      BY <3>2, <3>6, <3>7, <3>8
  <2>. QED
    BY <2>5, <2>6
<1>. QED
  BY <1>2, <1>3

\* Any number of turns.
LEMMA SkippingKeeps ==
  ASSUME NEW S, Fit(S), NEW r \in NodesIn(S), r # None, NEW args, NEW p, NEW at, p # <<>>,
         Poised([path |-> p, at |-> at], args, r, S), NEW n \in Nat, NEW T
  PROVE  LET c       == [path |-> p, at |-> at]
             skipped == SkipOffset(c, n, args, T)
         IN  /\ \A m \in Nat : Skipped(Skipping(c, n, args, T)[m], c, args, r, S, T)
             /\ Skipped(skipped, c, args, r, S, T)
             /\ n = 0 => skipped = [cursor |-> c, out |-> "ready", due |-> 0]
<1>. DEFINE c == [path |-> p, at |-> at]
            first == [cursor |-> c, out |-> "ready", due |-> n]
            turns == Skipping(c, n, args, T)
            Bad == {m \in Nat : ~Skipped(turns[m], c, args, r, S, T)}
<1>1. turns[0] = first /\ \A m \in Nat : turns[m + 1] = SkipMore(turns[m], args, T)
  BY SkippingStep, SMTT(30)
<1>2. Skipped(first, c, args, r, S, T)
  <2>1. /\ first.cursor = c /\ first.out = "ready" /\ first.due = n
        /\ first = [cursor |-> [path |-> first.cursor.path, at |-> first.cursor.at],
                    out |-> first.out, due |-> first.due]
        /\ c.path = p
    OBVIOUS
  <2>. HIDE DEF first
  <2>2. Poised(c, args, r, S)
    OBVIOUS
  <2>. HIDE DEF c
  <2>. QED
    BY <2>1, <2>2 DEF Skipped
<1>. HIDE DEF turns, first, c
<1>3. Bad = {}
  <2>. SUFFICES ASSUME Bad # {}
                PROVE  FALSE
    OBVIOUS
  <2>1. PICK m \in Bad : \A u \in Bad : m =< u
    <3>. HIDE DEF Bad
    <3>1. Bad \subseteq Nat
      BY DEF Bad
    <3>. QED
      BY <3>1, LeastNatural
  <2>2. m # 0
    BY <1>1, <1>2, <2>1
  <2>3. m - 1 \in Nat /\ m - 1 \notin Bad /\ (m - 1) + 1 = m
    <3>1. m \in Nat /\ \A u \in Bad : m =< u
      BY <2>1
    <3>. HIDE DEF Bad
    <3>. QED
      BY <2>2, <3>1
  <2>4. Skipped(turns[m - 1], c, args, r, S, T)
    BY <2>3
  <2>5. turns[(m - 1) + 1] = SkipMore(turns[m - 1], args, T)
    BY <1>1, <2>3
  <2>6. Skipped(turns[m], c, args, r, S, T)
    BY <2>3, <2>4, <2>5, SkipMoreKeeps
  <2>. QED
    BY <2>1, <2>6
<1>4. SkipOffset(c, n, args, T) = turns[n + 1]
  BY DEF SkipOffset, turns
<1>5. \A m \in Nat : Skipped(turns[m], c, args, r, S, T)
  BY <1>3
<1>6. ASSUME n = 0
      PROVE  turns[n + 1] = [cursor |-> c, out |-> "ready", due |-> 0]
  <2>1. turns[n + 1] = SkipMore(first, args, T)
    BY <1>1, <1>6
  <2>2. first = [cursor |-> c, out |-> "ready", due |-> 0]
    BY <1>6 DEF first
  <2>3. SkipMore(first, args, T) = first
    BY <2>2 DEF SkipMore
  <2>. QED
    BY <2>1, <2>2, <2>3
<1>7. Skipped(turns[n + 1], c, args, r, S, T)
  BY <1>5
<1>. QED
  BY <1>4, <1>5, <1>6, <1>7 DEF turns, c

\* After m turns of skipping n entries from c on: the cursor has that many fewer
\* ahead, or c had no more, and every turn but the first has skipped one.
SkipCounts(k, m, c, n, args, r) ==
  k.out = "ready" =>
    /\ k.due <= n
    /\ m > 0 /\ k.due > 0 => /\ k.due <= n + 1 - m
                              /\ k.cursor.at \in DOMAIN Last(k.cursor.path).node.entries
    /\ IF k.cursor.path = <<>> THEN Cardinality(Ahead(c, args, r)) <= n
       ELSE Cardinality(Ahead(c, args, r)) = Cardinality(Ahead(k.cursor, args, r)) + (n - k.due)

LEMMA SkipMoreCounts ==
  ASSUME NEW S, Fit(S), NEW r \in NodesIn(S), r # None, NEW args, NEW c, NEW k, NEW T,
         Skipped(k, c, args, r, S, T), NEW m \in Nat, NEW n \in Nat, SkipCounts(k, m, c, n, args, r)
  PROVE  SkipCounts(SkipMore(k, args, T), m + 1, c, n, args, r)
<1>. DEFINE p == k.cursor.path
            at == k.cursor.at
            here == [path |-> p, at |-> at]
            leaf == Last(p).node
            past == PastLeaf(leaf, args, r)
            left == Available(here, args)
            far == Cardinality(past)
            moved == Advance(p, Dir(args), T)
            to == [path |-> moved.path, at |-> NearEnd(moved.path, args)]
            next == SkipMore(k, args, T)
            total == Cardinality(Ahead(c, args, r))
<1>1. k = [cursor |-> here, out |-> k.out, due |-> k.due] /\ k.due \in Nat
  BY DEF Skipped
<1>2. k.cursor = here
  BY <1>1
<1>3. CASE k.due = 0
  <2>1. next = k
    BY <1>3 DEF SkipMore
  <2>. QED
    BY <1>3, <2>1 DEF SkipCounts
<1>4. CASE k.due # 0
  <2>1. k.due > 0 /\ k.out = "ready"
    BY <1>1, <1>4 DEF Skipped
  <2>2. Poised(here, args, r, S) /\ p # <<>>
    <3>1. Poised(k.cursor, args, r, S) /\ p # <<>>
      BY <1>4, <2>1 DEF Skipped
    <3>. QED
      BY <1>2, <3>1
  <2>3. Stacked(p, r, S) /\ leaf.kind = "Leaf"
    BY <2>2 DEF Poised
  <2>4. /\ left \in Nat /\ (at \in DOMAIN leaf.entries => left # 0)
        /\ IsFiniteSet(past) /\ Cardinality(Ahead(here, args, r)) = far + left
    <3>. HIDE DEF here
    <3>1. here.path = p /\ here.at = at
      BY DEF here
    <3>. HIDE DEF p, at
    <3>. QED
      BY <2>2, <3>1, AvailableIs
  <2>5. far \in Nat
    BY <2>4, FS_CardinalityType
  <2>6. /\ k.due <= n
        /\ m > 0 => k.due <= n + 1 - m /\ at \in DOMAIN leaf.entries
        /\ total = far + left + (n - k.due)
    <3>1. total = Cardinality(Ahead(k.cursor, args, r)) + (n - k.due)
      BY <2>1, <2>2 DEF SkipCounts
    <3>2. k.due <= n /\ (m > 0 => k.due <= n + 1 - m /\ at \in DOMAIN leaf.entries)
      BY <2>1 DEF SkipCounts
    <3>3. Cardinality(Ahead(k.cursor, args, r)) = far + left
      BY <1>2, <2>4
    <3>. HIDE DEF total, far, left
    <3>. QED
      BY <3>1, <3>2, <3>3
  <2>7. left = Available(k.cursor, args)
    BY <1>2
  <2>8. CASE k.due < left
    <3>. DEFINE a == at + Dir(args) * k.due
                into == [path |-> p, at |-> a]
    <3>1. next = [cursor |-> into, out |-> "ready", due |-> 0]
      <4>. HIDE DEF left
      <4>. QED
        BY <2>1, <2>7, <2>8 DEF SkipMore
    <3>2. Poised(into, args, r, S)
      BY <1>1, <2>1, <2>2, <2>8, SkipInLeaf
    <3>3. Available(into, args) = left - k.due
      <4>1. into.at = a /\ into.path = p /\ here.at = at /\ here.path = p
        OBVIOUS
      <4>2. CASE args.reverse
        <5>1. Dir(args) = -1 /\ left = at /\ Available(into, args) = a
          BY <4>2 DEF Dir, Available
        <5>. HIDE DEF left, at
        <5>. QED
          BY <1>1, <2>4, <5>1
      <4>3. CASE ~args.reverse
        <5>. DEFINE len == Len(leaf.entries)
        <5>1. Dir(args) = 1 /\ left = len + 1 - at /\ Available(into, args) = len + 1 - a
          BY <4>3 DEF Dir, Available
        <5>2. len \in Nat /\ at \in Int
          <6>1. at \in 1..(Len(leaf.entries) + 1) /\ leaf \in Part(r, S)
            BY <2>2, <2>3, <4>3, LastIsPart DEF Poised
          <6>. QED
            BY <2>3, <6>1, LeafIs
        <5>. HIDE DEF left, at, len
        <5>. QED
          BY <1>1, <5>1, <5>2
      <4>. QED
        BY <4>2, <4>3
    <3>4. Cardinality(Ahead(into, args, r)) = far + Available(into, args)
      <4>1. into.path = p
        OBVIOUS
      <4>. HIDE DEF into, p
      <4>. QED
        BY <2>2, <3>2, <4>1, AvailableIs
    <3>5. next.cursor = into /\ next.out = "ready" /\ next.due = 0 /\ into.path = p
      BY <3>1
    <3>. HIDE DEF next, into, total, far, left
    <3>6. total = Cardinality(Ahead(into, args, r)) + (n - 0)
      BY <1>1, <2>4, <2>5, <2>6, <3>3, <3>4
    <3>7. SkipCounts(next, m + 1, c, n, args, r)
      BY <2>2, <3>5, <3>6 DEF SkipCounts, total
    <3>. QED
      BY <3>7 DEF next
  <2>9. CASE ~(k.due < left)
    <3>1. next = CASE moved.out = "leaf" ->
                        [cursor |-> to, out |-> "ready", due |-> k.due - left]
                   [] moved.out = "end" ->
                        [cursor |-> [path |-> <<>>, at |-> at], out |-> "ready", due |-> 0]
                   [] OTHER -> [cursor |-> [path |-> moved.path, at |-> at], out |-> moved.out, due |-> 0]
      <4>. HIDE DEF left
      <4>. QED
        BY <1>4, <2>7, <2>9 DEF SkipMore
    <3>2. \/ moved.out = "end" /\ past = {}
          \/ /\ moved.out = "leaf" /\ to.path # <<>>
             /\ to.at \in DOMAIN Last(to.path).node.entries
             /\ Ahead(to, args, r) = past
          \/ moved.out = "ChunkNotFound"
      <4>1. \/ moved.out = "end" /\ past = {}
            \/ /\ moved.out = "leaf" /\ to.path # <<>> /\ Poised(to, args, r, S)
               /\ to.at \in DOMAIN Last(to.path).node.entries
               /\ Ahead(to, args, r) = past
            \/ moved.out = "ChunkNotFound" /\ ~(NodesUnder(r) \subseteq T)
        <5>. HIDE DEF p
        <5>. QED
          BY <2>2, <2>3, MoveOn
      <4>. HIDE DEF moved, to, past
      <4>. QED
        BY <4>1
    <3>. HIDE DEF next, moved, to, past, left, total
    <3>3. CASE moved.out = "end" /\ past = {}
      <4>1. next.cursor.path = <<>> /\ next.out = "ready" /\ next.due = 0
        BY <3>1, <3>3
      <4>2. far = 0
        BY <3>3, FS_EmptySet
      <4>3. total <= n
        <5>. HIDE DEF far
        <5>. QED
          BY <1>1, <2>4, <2>6, <2>9, <4>2
      <4>4. SkipCounts(next, m + 1, c, n, args, r)
        BY <4>1, <4>3 DEF SkipCounts, total
      <4>. QED
        BY <4>4 DEF next
    <3>4. CASE /\ moved.out = "leaf" /\ to.path # <<>>
               /\ to.at \in DOMAIN Last(to.path).node.entries
               /\ Ahead(to, args, r) = past
      <4>. DEFINE due == k.due - left
      <4>1. next.cursor = to /\ next.out = "ready" /\ next.due = due
        BY <3>1, <3>4
      <4>2. due <= n /\ due \in Nat
        BY <1>1, <2>4, <2>6, <2>9
      <4>3. due <= n + 1 - (m + 1)
        <5>1. CASE m = 0
          BY <4>2, <5>1
        <5>2. CASE m # 0
          BY <1>1, <2>4, <2>6, <5>2
        <5>. QED
          BY <5>1, <5>2
      <4>4. total = far + (n - due)
        <5>. HIDE DEF far
        <5>. QED
          BY <1>1, <2>4, <2>5, <2>6
      <4>5. total = Cardinality(Ahead(to, args, r)) + (n - due)
        BY <3>4, <4>4
      <4>. HIDE DEF due
      <4>6. SkipCounts(next, m + 1, c, n, args, r)
        BY <3>4, <4>1, <4>2, <4>3, <4>5 DEF SkipCounts, total
      <4>. QED
        BY <4>6 DEF next
    <3>5. CASE moved.out = "ChunkNotFound"
      <4>1. next.out = "ChunkNotFound"
        BY <3>1, <3>5
      <4>. QED
        BY <4>1 DEF SkipCounts, next
    <3>. QED
      BY <3>2, <3>3, <3>4, <3>5
  <2>. QED
    BY <2>8, <2>9
<1>. QED
  BY <1>1, <1>3, <1>4

\* All turns together skip as many as they should, as far as there are any.
LEMMA SkippingCounts ==
  ASSUME NEW S, Fit(S), NEW r \in NodesIn(S), r # None, NEW args, NEW p, NEW at, p # <<>>,
         Poised([path |-> p, at |-> at], args, r, S), NEW n \in Nat, NEW T
  PROVE  LET c       == [path |-> p, at |-> at]
             skipped == SkipOffset(c, n, args, T)
         IN  skipped.out = "ready" =>
               IF skipped.cursor.path = <<>> THEN Cardinality(Ahead(c, args, r)) <= n
               ELSE Cardinality(Ahead(c, args, r)) = Cardinality(Ahead(skipped.cursor, args, r)) + n
<1>. DEFINE c == [path |-> p, at |-> at]
            first == [cursor |-> c, out |-> "ready", due |-> n]
            turns == Skipping(c, n, args, T)
            Bad == {m \in Nat : ~SkipCounts(turns[m], m, c, n, args, r)}
<1>1. turns[0] = first /\ \A m \in Nat : turns[m + 1] = SkipMore(turns[m], args, T)
  BY SkippingStep, SMTT(30)
<1>2. \A m \in Nat : Skipped(turns[m], c, args, r, S, T)
  BY SkippingKeeps
<1>3. SkipCounts(first, 0, c, n, args, r)
  <2>1. first.cursor = c /\ first.out = "ready" /\ first.due = n /\ c.path = p
    OBVIOUS
  <2>2. Cardinality(Ahead(c, args, r)) \in Nat
    <3>1. Poised(c, args, r, S) /\ c.path # <<>>
      OBVIOUS
    <3>. HIDE DEF c
    <3>. QED
      BY <3>1, AvailableIs, FS_CardinalityType
  <2>. HIDE DEF first, c
  <2>. QED
    BY <2>1, <2>2 DEF SkipCounts
<1>4. SkipOffset(c, n, args, T) = turns[n + 1]
  BY DEF SkipOffset
<1>. HIDE DEF turns, first, c
<1>5. Bad = {}
  <2>. SUFFICES ASSUME Bad # {}
                PROVE  FALSE
    OBVIOUS
  <2>1. PICK m \in Bad : \A u \in Bad : m =< u
    <3>. HIDE DEF Bad
    <3>1. Bad \subseteq Nat
      BY DEF Bad
    <3>. QED
      BY <3>1, LeastNatural
  <2>2. m # 0
    BY <1>1, <1>3, <2>1
  <2>3. m - 1 \in Nat /\ m - 1 \notin Bad /\ (m - 1) + 1 = m
    <3>1. m \in Nat /\ \A u \in Bad : m =< u
      BY <2>1
    <3>. HIDE DEF Bad
    <3>. QED
      BY <2>2, <3>1
  <2>4. SkipCounts(turns[m - 1], m - 1, c, n, args, r) /\ Skipped(turns[m - 1], c, args, r, S, T)
    BY <1>2, <2>3
  <2>5. turns[(m - 1) + 1] = SkipMore(turns[m - 1], args, T)
    BY <1>1, <2>3
  <2>6. SkipCounts(SkipMore(turns[m - 1], args, T), (m - 1) + 1, c, n, args, r)
    BY <2>3, <2>4, SkipMoreCounts
  <2>7. SkipCounts(turns[m], m, c, n, args, r)
    BY <2>3, <2>5, <2>6
  <2>. QED
    BY <2>1, <2>7
<1>. DEFINE k == turns[n + 1]
<1>6. SkipCounts(k, n + 1, c, n, args, r) /\ Skipped(k, c, args, r, S, T)
  BY <1>2, <1>5
<1>. HIDE DEF k
<1>7. ASSUME k.out = "ready"
      PROVE  k.due = 0
  <2>1. k.due \in Nat /\ (k.due > 0 => k.due <= n + 1 - (n + 1))
    BY <1>6, <1>7 DEF SkipCounts, Skipped
  <2>. QED
    BY <2>1
<1>8. k.out = "ready" => IF k.cursor.path = <<>> THEN Cardinality(Ahead(c, args, r)) <= n
                         ELSE Cardinality(Ahead(c, args, r)) = Cardinality(Ahead(k.cursor, args, r)) + n
  BY <1>6, <1>7 DEF SkipCounts
<1>. QED
  BY <1>4, <1>8 DEF k, c

\* An exclusive bound would not be passed over.
Clear(c, args, r) ==
  \/ c.path = <<>> \/ c.at \in DOMAIN Last(c.path).node.entries
  \/ \A x \in Ahead(c, args, r) : x.key # args.start

LEMMA ExcludedIs ==
  ASSUME NEW S, Fit(S), NEW r \in NodesIn(S), NEW args, NEW c, Poised(c, args, r, S), Clear(c, args, r),
         \E p, at : c = [path |-> p, at |-> at], args.start \in Int \cup {None}
  PROVE  LET to == SkipExcluded(c, args)
             A  == Ahead(c, args, r)
         IN  /\ Poised(to, args, r, S) /\ Ahead(to, args, r) \subseteq A
             /\ args.start = None \/ args.start_inclusive => to = c
             /\ /\ args.start # None /\ ~args.start_inclusive
                /\ \A x \in A : ~Precedes(x.key, args.start, args)
                => Ahead(to, args, r) = {x \in A : x.key # args.start}
<1>. DEFINE to == SkipExcluded(c, args)
            A == Ahead(c, args, r)
            n == Last(c.path).node
            e == n.entries[c.at]
            next == [path |-> c.path, at |-> c.at + Dir(args)]
            There == c.path # <<>> /\ c.at \in DOMAIN n.entries
            Out == args.start # None /\ ~args.start_inclusive
<1>1. \A x \in StoredIn(r) : x.key \in Int
  BY NodeRange
<1>2. There => /\ e \in A /\ e \in StoredIn(r)
               /\ \A x \in A : x \in StoredIn(r) /\ (x = e \/ Precedes(e.key, x.key, args))
               /\ Poised(next, args, r, S) /\ Ahead(next, args, r) = A \ {e}
  <2>. SUFFICES ASSUME There
                PROVE  /\ e \in A /\ e \in StoredIn(r)
                       /\ \A x \in A : x \in StoredIn(r) /\ (x = e \/ Precedes(e.key, x.key, args))
                       /\ Poised(next, args, r, S) /\ Ahead(next, args, r) = A \ {e}
    OBVIOUS
  <2>. QED
    BY FirstAhead
<1>3. to = IF There /\ Out /\ args.start = e.key THEN [c EXCEPT !.at = @ + Dir(args)] ELSE c
  BY DEF SkipExcluded
<1>4. [c EXCEPT !.at = @ + Dir(args)] = next
  <2>1. PICK p, at : c = [path |-> p, at |-> at]
    OBVIOUS
  <2>2. [c EXCEPT !.at = @ + Dir(args)] = [path |-> p, at |-> at + Dir(args)] /\ c.path = p /\ c.at = at
    BY <2>1
  <2>. QED
    BY <2>2
<1>5. Clear(c, args, r) /\ ~There => \A x \in A : x.key # args.start
  BY DEF Clear, Ahead
<1>. HIDE DEF A, e, next, to, There
<1>6. CASE There /\ Out /\ args.start = e.key
  <2>1. to = next
    BY <1>3, <1>4, <1>6
  <2>2. \A x \in A : x # e => x.key # args.start
    <3>. SUFFICES ASSUME NEW x \in A, x # e
                  PROVE  x.key # args.start
      OBVIOUS
    <3>1. Precedes(e.key, x.key, args) /\ x.key \in Int /\ e.key \in Int
      BY <1>1, <1>2, <1>6
    <3>. QED
      BY <1>6, <3>1 DEF Precedes
  <2>3. A \ {e} = {x \in A : x.key # args.start}
    BY <1>2, <1>6, <2>2
  <2>. QED
    BY <1>2, <1>6, <2>1, <2>3 DEF A, to
<1>7. CASE ~(There /\ Out /\ args.start = e.key)
  <2>1. to = c
    BY <1>3, <1>7
  <2>2. ASSUME Out, \A x \in A : ~Precedes(x.key, args.start, args)
        PROVE  A = {x \in A : x.key # args.start}
    <3>. SUFFICES ASSUME NEW x \in A, x.key = args.start
                  PROVE  FALSE
      OBVIOUS
    <3>1. There
      BY <1>5
    <3>2. x # e
      BY <1>7, <2>2, <3>1
    <3>3. Precedes(e.key, args.start, args)
      BY <1>2, <3>1, <3>2
    <3>. QED
      BY <1>2, <2>2, <3>1, <3>3
  <2>. QED
    BY <2>1, <2>2 DEF A, to
<1>. QED
  BY <1>6, <1>7

\* Where the descent of a scan goes.
GoalOf(args) ==
  CASE args.start # None -> Toward(args.start)
    [] args.start = None /\ args.reverse -> Rightmost
    [] OTHER -> Leftmost

\* Not before the key that a scan starts from.
FromStart(args, r) ==
  {x \in StoredIn(r) : args.start = None \/ ~Precedes(x.key, args.start, args)}

\* Where a scan begins: unless it is led astray, everything from its start on is ahead.
SetsOut(c, args, r, S) ==
  /\ Poised(c, args, r, S) /\ c.path # <<>> /\ Clear(c, args, r)
  /\ StartFound(MapOf(r), args) => Ahead(c, args, r) = FromStart(args, r)

\* Without a start_bound a scan begins at one end.
LEMMA BeginsAtEnd ==
  ASSUME NEW S, Fit(S), NEW r \in NodesIn(S), r # None, NEW args, args.start = None, NEW T,
         Open(r, GoalOf(args), T).out = "leaf"
  PROVE  LET path == Open(r, GoalOf(args), T).path
         IN  SetsOut([path |-> path, at |-> StartIn(Last(path).node.entries, args)], args, r, S)
<1>. DEFINE goal == GoalOf(args)
            opened == Open(r, goal, T)
            m == Last(opened.path).node
            k == IF args.reverse THEN BoundaryKey(r) ELSE LowKey(r)
            at == StartIn(m.entries, args)
            c == [path |-> opened.path, at |-> at]
<1>1. goal = IF args.reverse THEN Rightmost ELSE Leftmost
  BY DEF GoalOf
<1>2. k \in Int /\ \A x \in StoredIn(r) : x.key \in Int /\ LowKey(r) <= x.key /\ x.key <= BoundaryKey(r)
  BY NodeRange
<1>3. Seeks(goal, r, k, r)
  BY <1>1, <1>2 DEF Seeks
<1>4. Landed(opened, goal, k, r, S, T) /\ opened.out = "leaf"
  <2>. HIDE DEF k, goal
  <2>1. Landed(Open(r, goal, T), goal, k, r, S, T)
    BY <1>2, <1>3, OpenLands
  <2>. QED
    BY <2>1 DEF goal
<1>5. /\ Stacked(opened.path, r, S) /\ opened.path # <<>> /\ m.kind = "Leaf"
      /\ Seeks(goal, m, k, r) /\ Near(m, r, k)
  BY <1>4 DEF Landed
<1>6. at = EntryPlace(m, args)
  BY DEF StartIn, EntryPlace
<1>7. c.path = opened.path /\ c.at = at
  OBVIOUS
<1>8. IF args.reverse THEN k = BoundaryKey(m) ELSE k <= LowKey(m)
  BY <1>1, <1>5 DEF Seeks, Leftmost, Rightmost, Toward
<1>. HIDE DEF goal, opened, at, c
<1>9. m \in Part(r, S)
  BY <1>5, LastIsPart
<1>10. /\ at \in DOMAIN m.entries
       /\ PastLeaf(m, args, r) \cup LeftInLeaf(m, at, args) = Onward(k, args, r)
  <2>. HIDE DEF m, k
  <2>. QED
    BY <1>2, <1>5, <1>6, <1>8, <1>9, EnteredLeaf
<1>11. at \in IF args.reverse THEN 0..Len(m.entries) ELSE 1..(Len(m.entries) + 1)
  <2>1. DOMAIN m.entries = 1..Len(m.entries) /\ Len(m.entries) \in Nat
    BY <1>5, <1>9, LeafIs
  <2>. HIDE DEF m
  <2>. QED
    BY <1>10, <2>1
<1>12. Onward(k, args, r) = StoredIn(r)
  BY <1>2 DEF Onward
<1>13. FromStart(args, r) = StoredIn(r)
  BY DEF FromStart
<1>14. Poised(c, args, r, S)
  BY <1>5, <1>7, <1>11 DEF Poised
<1>15. Ahead(c, args, r) = PastLeaf(m, args, r) \cup LeftInLeaf(m, at, args)
  BY <1>5, <1>7 DEF Ahead
<1>16. Clear(c, args, r)
  BY <1>7, <1>10 DEF Clear
<1>. QED
  BY <1>5, <1>7, <1>10, <1>12, <1>13, <1>14, <1>15, <1>16 DEF SetsOut, c, opened, goal, at

\* Forwards a scan begins at start_bound, or where it would be.
LEMMA BeginsForth ==
  ASSUME NEW S, Fit(S), NEW r \in NodesIn(S), NEW args, args.start \in Int, args.start # None,
         ~args.reverse,
         NEW path, Stacked(path, r, S), path # <<>>, NEW at,
         LET m == Last(path).node
         IN  /\ m.kind = "Leaf" /\ Near(m, r, args.start) /\ Placed(at, m, args.start)
             /\ args.start <= BoundaryKey(m) \/ BoundaryKey(m) = BoundaryKey(r)
  PROVE  SetsOut([path |-> path, at |-> at], args, r, S)
<1>. DEFINE m == Last(path).node
            s == m.entries
            k == args.start
            b == BoundaryKey(m)
            c == [path |-> path, at |-> at]
<1>1. m \in Part(r, S) /\ m \in NodesIn(S)
  BY LastIsPart DEF Part
<1>2. b \in Int /\ k \in Int /\ \A x \in StoredIn(r) : x.key \in Int /\ x.key <= BoundaryKey(r)
  BY <1>1, NodeRange
<1>3. /\ DOMAIN s = 1..Len(s) /\ Len(s) \in Nat
      /\ \A i \in DOMAIN s : s[i].key \in Int /\ s[i] \in StoredIn(m)
      /\ \A x \in StoredIn(m) : \E i \in DOMAIN s : x = s[i]
  BY <1>1, LeafIs
<1>4. StoredIn(m) \subseteq StoredIn(r)
  BY <1>1 DEF Part
<1>5. /\ at \in 1..(Len(s) + 1)
      /\ \A i \in DOMAIN s : s[i].key < k <=> i < at
  BY DEF Placed
<1>6. /\ \A x \in StoredIn(r) : /\ k <= x.key /\ x.key <= b => x \in StoredIn(m)
                                /\ ~(b < x.key /\ x.key < k)
      /\ k <= b \/ b = BoundaryKey(r)
  BY DEF Near
<1>7. PastLeaf(m, args, r) = {x \in StoredIn(r) : b < x.key}
      /\ LeftInLeaf(m, at, args) = {s[i] : i \in {i \in DOMAIN s : at <= i}}
  BY DEF PastLeaf, LeftInLeaf
<1>8. FromStart(args, r) = {x \in StoredIn(r) : k = None \/ ~(x.key < k)}
  BY DEF FromStart, Precedes
<1>9. c.path = path /\ c.at = at
  OBVIOUS
<1>10. Ahead(c, args, r) = PastLeaf(m, args, r) \cup LeftInLeaf(m, at, args)
  BY <1>9 DEF Ahead
<1>11. Poised(c, args, r, S)
  BY <1>5, <1>9 DEF Poised
<1>. HIDE DEF c, b, s, m
<1>12. ASSUME NEW x \in StoredIn(r), k <= x.key
       PROVE  x \in PastLeaf(m, args, r) \cup LeftInLeaf(m, at, args)
  <2>1. CASE b < x.key
    BY <1>7, <2>1
  <2>2. CASE ~(b < x.key)
    <3>1. x \in StoredIn(m)
      BY <1>2, <1>6, <1>12, <2>2
    <3>2. PICK i \in DOMAIN s : x = s[i]
      BY <1>3, <3>1
    <3>3. ~(s[i].key < k)
      BY <1>2, <1>12, <3>2
    <3>4. at <= i
      BY <1>3, <1>5, <3>3
    <3>. QED
      BY <1>7, <3>2, <3>4
  <2>. QED
    BY <2>1, <2>2
<1>13. ASSUME NEW x \in PastLeaf(m, args, r) \cup LeftInLeaf(m, at, args)
       PROVE  x \in StoredIn(r) /\ k <= x.key
  <2>1. CASE x \in PastLeaf(m, args, r)
    BY <1>2, <1>6, <1>7, <2>1
  <2>2. CASE x \in LeftInLeaf(m, at, args)
    <3>1. PICK i \in DOMAIN s : x = s[i] /\ at <= i
      BY <1>7, <2>2
    <3>2. ~(i < at) /\ x \in StoredIn(r)
      BY <1>3, <1>4, <1>5, <3>1
    <3>3. ~(s[i].key < k) /\ s[i].key \in Int
      BY <1>3, <1>5, <3>2
    <3>. QED
      BY <1>2, <3>1, <3>2, <3>3
  <2>. QED
    BY <1>13, <2>1, <2>2
<1>14. Ahead(c, args, r) = {x \in StoredIn(r) : k <= x.key}
  BY <1>10, <1>12, <1>13
<1>15. k # None
  OBVIOUS
<1>16. Ahead(c, args, r) = FromStart(args, r)
  <2>1. \A x \in StoredIn(r) : k <= x.key <=> ~(x.key < k)
    BY <1>2
  <2>. QED
    BY <1>8, <1>14, <1>15, <2>1
<1>17. Clear(c, args, r)
  <2>. SUFFICES ASSUME at \notin DOMAIN s
                PROVE  \A x \in Ahead(c, args, r) : x.key # k
    BY <1>9 DEF Clear, s, m
  <2>1. Ahead(c, args, r) = PastLeaf(m, args, r)
    BY <1>9, <1>11, OffLeaf DEF s, m
  <2>. SUFFICES ASSUME NEW x \in Ahead(c, args, r), x.key = k
                PROVE  FALSE
    OBVIOUS
  <2>2. x \in StoredIn(r) /\ b < x.key
    BY <1>7, <2>1
  <2>. QED
    BY <1>2, <1>6, <2>2
<1>. QED
  BY <1>9, <1>11, <1>16, <1>17 DEF SetsOut, c

\* Backwards it begins at start_bound if that is a key, at the last key if all
\* are before start_bound, and somewhere in the leaf otherwise.
LEMMA BeginsBack ==
  ASSUME NEW S, Fit(S), NEW r \in NodesIn(S), r # None, NEW args, args.start \in Int, args.start # None,
         args.reverse, NEW path, Stacked(path, r, S), path # <<>>,
         LET m == Last(path).node
         IN  /\ m.kind = "Leaf" /\ Near(m, r, args.start)
             /\ args.start <= BoundaryKey(m) \/ BoundaryKey(m) = BoundaryKey(r)
  PROVE  SetsOut([path |-> path, at |-> StartIn(Last(path).node.entries, args)], args, r, S)
<1>. DEFINE m == Last(path).node
            s == m.entries
            k == args.start
            b == BoundaryKey(m)
            p == KeyPosition(s, k)
            at == StartIn(s, args)
            c == [path |-> path, at |-> at]
<1>1. m \in Part(r, S) /\ m \in NodesIn(S)
  BY LastIsPart DEF Part
<1>2. b \in Int /\ k \in Int /\ \A x \in StoredIn(r) : x.key \in Int /\ x.key <= BoundaryKey(r)
  BY <1>1, NodeRange
<1>3. /\ DOMAIN s = 1..Len(s) /\ Len(s) \in Nat \ {0}
      /\ \A i \in DOMAIN s : s[i].key \in Int /\ s[i] \in StoredIn(m)
      /\ \A x \in StoredIn(m) : \E i \in DOMAIN s : x = s[i]
      /\ \A i, j \in DOMAIN s : i < j => s[i].key < s[j].key
      /\ s \in Seq(LeafEntries(S)) /\ InOrder(s)
  BY <1>1, LeafIs
<1>4. s[Len(s)].key = b
  BY <1>1, LastInLeaf
<1>5. \A x \in StoredIn(r) : k <= x.key /\ x.key <= b => x \in StoredIn(m)
  BY DEF Near
<1>6. k <= b \/ b = BoundaryKey(r)
  OBVIOUS
<1>7. Sound(S)
  BY DEF Fit
<1>8. at = IF HasKey(s, k) THEN p ELSE Max({1, p - 1})
  BY DEF StartIn
<1>9. c.path = path /\ c.at = at
  OBVIOUS
<1>. HIDE DEF m, s, b, p, at, c
<1>10. p \in 1..(Len(s) + 1) /\ \A i \in DOMAIN s : s[i].key < k <=> i < p
  BY <1>2, <1>3, <1>7, KeyPositionRange, KeyPositionIs DEF p
<1>11. ASSUME HasKey(s, k)
       PROVE  at \in DOMAIN s /\ s[at].key = k
  <2>1. PICK i \in DOMAIN s : s[i].key = k
    BY <1>11 DEF HasKey
  <2>2. ~(i < p)
    BY <1>2, <1>10, <2>1
  <2>3. p \in DOMAIN s /\ p <= i
    BY <1>3, <1>10, <2>2
  <2>4. ~(p < i)
    <3>. SUFFICES ASSUME p < i
                  PROVE  FALSE
      OBVIOUS
    <3>1. s[p].key < k
      BY <1>3, <2>1, <2>3
    <3>2. p < p
      BY <1>10, <2>3, <3>1
    <3>. QED
      BY <1>10, <3>2
  <2>5. p = i
    BY <1>3, <2>1, <2>3, <2>4
  <2>. QED
    BY <1>8, <1>11, <2>1, <2>5
<1>12. ASSUME ~HasKey(s, k)
       PROVE  at \in DOMAIN s /\ (p = Len(s) + 1 => at = Len(s))
  <2>. DEFINE places == {1, p - 1}
              q == Max(places)
  <2>1. places \in SUBSET (0..Len(s)) /\ places # {}
    BY <1>3, <1>10
  <2>2. q \in places /\ \A u \in places : u <= q
    <3>. HIDE DEF places
    <3>. QED
      BY <1>3, <2>1, GreatestNatural
  <2>3. q \in {1, p - 1} /\ 1 <= q /\ p - 1 <= q
    <3>. HIDE DEF q
    <3>. QED
      BY <2>2
  <2>. HIDE DEF q
  <2>4. q \in 1..Len(s) /\ (p = Len(s) + 1 => q = Len(s))
    <3>1. Len(s) \in Nat /\ Len(s) # 0 /\ p \in Int /\ 1 <= p /\ p <= Len(s) + 1
      BY <1>3, <1>10
    <3>2. q = 1 \/ q = p - 1
      BY <2>3
    <3>3. q \in Int /\ 1 <= q /\ q <= Len(s)
      BY <2>3, <3>1, <3>2
    <3>. QED
      BY <2>3, <3>1, <3>2, <3>3
  <2>5. at = q
    BY <1>8, <1>12 DEF q
  <2>. QED
    BY <1>3, <2>4, <2>5
<1>13. at \in DOMAIN s
  BY <1>11, <1>12
<1>14. PastLeaf(m, args, r) \cup LeftInLeaf(m, at, args) = Onward(s[at].key, args, r)
  BY <1>1, <1>13, AheadFrom DEF s, m
<1>15. Ahead(c, args, r) = Onward(s[at].key, args, r)
  BY <1>9, <1>14 DEF Ahead, m
<1>16. at \in IF args.reverse THEN 0..Len(s) ELSE 1..(Len(s) + 1)
  BY <1>3, <1>13
<1>17. Poised(c, args, r, S) /\ Clear(c, args, r)
  BY <1>9, <1>13, <1>16 DEF Poised, Clear, s, m
<1>18. FromStart(args, r) = {x \in StoredIn(r) : ~(k < x.key)}
  BY DEF FromStart, Precedes
<1>19. \A j \in Int : Onward(j, args, r) = {x \in StoredIn(r) : x.key <= j}
  BY DEF Onward
<1>20. ASSUME StartFound(MapOf(r), args)
       PROVE  Ahead(c, args, r) = FromStart(args, r)
  <2>1. DOMAIN MapOf(r) = {x.key : x \in StoredIn(r)}
    BY MapIs
  <2>2. \/ \E x \in StoredIn(r) : x.key = k
        \/ \A x \in StoredIn(r) : x.key < k
    BY <1>20, <2>1 DEF StartFound
  <2>3. s[at].key \in Int
    BY <1>3, <1>13
  <2>4. CASE HasKey(s, k)
    <3>1. Ahead(c, args, r) = {x \in StoredIn(r) : x.key <= k}
      BY <1>2, <1>11, <1>15, <1>19, <2>4
    <3>2. \A x \in StoredIn(r) : x.key <= k <=> ~(k < x.key)
      BY <1>2
    <3>. QED
      BY <1>18, <3>1, <3>2
  <2>5. CASE ~HasKey(s, k)
    <3>1. Len(s) \in DOMAIN s /\ s[Len(s)] \in StoredIn(r)
      <4>1. StoredIn(m) \subseteq StoredIn(r)
        BY <1>1 DEF Part
      <4>. QED
        BY <1>3, <4>1
    <3>2. \A x \in StoredIn(r) : x.key < k
      <4>. SUFFICES ASSUME NEW x \in StoredIn(r), x.key = k
                    PROVE  FALSE
        BY <2>2
      <4>1. x \in StoredIn(m)
        BY <1>2, <1>5, <1>6
      <4>. QED
        BY <1>3, <2>5, <4>1 DEF HasKey
    <3>3. b < k /\ b = BoundaryKey(r)
      BY <1>2, <1>4, <1>6, <3>1, <3>2
    <3>4. Len(s) < p
      BY <1>4, <1>10, <3>1, <3>3
    <3>5. p = Len(s) + 1
      BY <1>3, <1>10, <3>4
    <3>6. s[at].key = b
      BY <1>4, <1>12, <2>5, <3>5
    <3>7. Ahead(c, args, r) = {x \in StoredIn(r) : x.key <= b}
      BY <1>2, <1>15, <1>19, <3>6
    <3>8. \A x \in StoredIn(r) : x.key <= b /\ ~(k < x.key)
      BY <1>2, <3>2, <3>3
    <3>. QED
      BY <1>18, <3>7, <3>8
  <2>. QED
    BY <2>4, <2>5
<1>. QED
  BY <1>9, <1>17, <1>20 DEF SetsOut, c, at, s, m

LEMMA BeginsSomewhere ==
  ASSUME NEW S, Fit(S), NEW r \in NodesIn(S), r # None, NEW args, IsArgs(args), NEW T,
         Open(r, GoalOf(args), T).out = "leaf"
  PROVE  LET path == Open(r, GoalOf(args), T).path
         IN  SetsOut([path |-> path, at |-> StartIn(Last(path).node.entries, args)], args, r, S)
<1>. DEFINE opened == Open(r, GoalOf(args), T)
            m == Last(opened.path).node
            k == args.start
            at == StartIn(m.entries, args)
<1>1. CASE k = None
  BY <1>1, BeginsAtEnd
<1>2. CASE k # None
  <2>1. k \in Int /\ GoalOf(args) = Toward(k)
    BY <1>2 DEF IsArgs, GoalOf
  <2>2. Seeks(Toward(k), r, k, r)
    BY DEF Seeks
  <2>3. Landed(opened, Toward(k), k, r, S, T)
    BY <2>1, <2>2, OpenLands
  <2>4. /\ Stacked(opened.path, r, S) /\ opened.path # <<>> /\ m.kind = "Leaf"
        /\ Seeks(Toward(k), m, k, r) /\ Near(m, r, k)
    BY <2>3 DEF Landed
  <2>5. k <= BoundaryKey(m) \/ BoundaryKey(m) = BoundaryKey(r)
    BY <2>4 DEF Seeks, Leftmost, Rightmost, Toward
  <2>. HIDE DEF opened
  <2>6. CASE args.reverse
    BY <1>2, <2>1, <2>4, <2>5, <2>6, BeginsBack DEF opened
  <2>7. CASE ~args.reverse
    <3>1. at = KeyPosition(m.entries, k)
      BY <1>2, <2>7 DEF StartIn
    <3>2. m \in Part(r, S)
      BY <2>4, LastIsPart
    <3>3. m.entries \in Seq(LeafEntries(S)) /\ InOrder(m.entries) /\ Sound(S)
      BY <2>4, <3>2, LeafIs DEF Fit
    <3>. HIDE DEF m
    <3>4. at \in 1..(Len(m.entries) + 1) /\ \A i \in DOMAIN m.entries : m.entries[i].key < k <=> i < at
      BY <2>1, <3>1, <3>3, KeyPositionRange, KeyPositionIs
    <3>5. Placed(at, m, k)
      BY <3>4 DEF Placed
    <3>. HIDE DEF at
    <3>6. SetsOut([path |-> opened.path, at |-> at], args, r, S)
      BY <1>2, <2>1, <2>4, <2>5, <2>7, <3>5, BeginsForth DEF m
    <3>. QED
      BY <3>6 DEF at, m, opened
  <2>. QED
    BY <2>6, <2>7
<1>. QED
  BY <1>1, <1>2

\* On the right side of start_bound.
WithinStart(k, args) ==
  args.start # None => Precedes(args.start, k, args) \/ (k = args.start /\ args.start_inclusive)

InStart(args, r) == {x \in StoredIn(r) : WithinStart(x.key, args)}

LEMMA InStartIs ==
  ASSUME NEW S, Fit(S), NEW r \in NodesIn(S), NEW args, IsArgs(args)
  PROVE  InStart(args, r) = IF args.start = None \/ args.start_inclusive THEN FromStart(args, r)
                            ELSE {x \in FromStart(args, r) : x.key # args.start}
<1>1. \A x \in StoredIn(r) : x.key \in Int
  BY NodeRange
<1>2. CASE args.start = None
  BY <1>2 DEF InStart, FromStart, WithinStart
<1>3. CASE args.start # None
  <2>1. args.start \in Int
    BY <1>3 DEF IsArgs
  <2>2. \A x \in StoredIn(r) :
          WithinStart(x.key, args) <=> /\ ~Precedes(x.key, args.start, args)
                                       /\ args.start_inclusive \/ x.key # args.start
    <3>. SUFFICES ASSUME NEW x \in StoredIn(r)
                  PROVE  WithinStart(x.key, args) <=> /\ ~Precedes(x.key, args.start, args)
                                                      /\ args.start_inclusive \/ x.key # args.start
      OBVIOUS
    <3>1. CASE args.reverse
      BY <1>1, <1>3, <2>1, <3>1 DEF WithinStart, Precedes
    <3>2. CASE ~args.reverse
      BY <1>1, <1>3, <2>1, <3>2 DEF WithinStart, Precedes
    <3>. QED
      BY <3>1, <3>2
  <2>. QED
    BY <1>3, <2>2 DEF InStart, FromStart
<1>. QED
  BY <1>2, <1>3

LEMMA OpensForScan ==
  ASSUME NEW S, Fit(S), NEW r \in NodesIn(S), r # None, NEW args, IsArgs(args), NEW T
  PROVE  LET opened == Open(r, GoalOf(args), T)
         IN  opened.out = "leaf" \/ (opened.out = "ChunkNotFound" /\ ~(ChunksUnder(r) \subseteq T))
<1>. DEFINE goal == GoalOf(args)
            opened == Open(r, goal, T)
            k == CASE args.start # None -> args.start
                   [] args.start = None /\ args.reverse -> BoundaryKey(r)
                   [] OTHER -> LowKey(r)
<1>1. LowKey(r) \in Int /\ BoundaryKey(r) \in Int
  BY NodeRange
<1>2. k \in Int
  BY <1>1 DEF IsArgs
<1>3. Seeks(goal, r, k, r)
  BY <1>1 DEF Seeks, GoalOf
<1>4. Landed(opened, goal, k, r, S, T)
  <2>. HIDE DEF goal, k
  <2>. QED
    BY <1>2, <1>3, OpenLands
<1>5. opened.out \in {"leaf", "ChunkNotFound"}
      /\ (opened.out = "ChunkNotFound" => ~(NodesUnder(r) \subseteq T))
  BY <1>4 DEF Landed
<1>. QED
  BY <1>5, ChunksOf

\* What a scan that opens a tree has ahead: nothing before start_bound forwards,
\* all from there on in both directions, if it skips nothing and finds its start,
\* and as many fewer, counted from start_bound itself on, as it skips.
Opened(c, args, r, S) ==
  /\ Poised(c, args, r, S)
  /\ ~args.reverse => Ahead(c, args, r) \subseteq InStart(args, r)
  /\ args.offset = 0 /\ StartFound(MapOf(r), args) => Ahead(c, args, r) = InStart(args, r)
  /\ args.offset > 0 /\ StartFound(MapOf(r), args) =>
       LET all == FromStart(args, r)
       IN  /\ Ahead(c, args, r) \subseteq all /\ \A x \in Ahead(c, args, r) : x.key # args.start
           /\ IF c.path = <<>> THEN Cardinality(all) <= args.offset
              ELSE Cardinality(all) = Cardinality(Ahead(c, args, r)) + args.offset

LEMMA ScanOpens ==
  ASSUME NEW S, Fit(S), NEW r \in NodesIn(S), r # None, NEW args, IsArgs(args), NEW T
  PROVE  LET o == NewForScan(r, args, T)
         IN  \/ o.out = "ready" /\ Opened(o.cursor, args, r, S)
             \/ o.out = "ChunkNotFound" /\ ~(ChunksUnder(r) \subseteq T)
<1>. DEFINE opened == Open(r, GoalOf(args), T)
            at == StartIn(Last(opened.path).node.entries, args)
            c == [path |-> opened.path, at |-> at]
            skipped == SkipOffset(c, args.offset, args, T)
            kept == skipped.cursor
            to == SkipExcluded(kept, args)
            o == NewForScan(r, args, T)
<1>1. o = CASE opened.out = "end" -> Outcome(<<>>, 1, "ready")
            [] opened.out = "leaf" /\ skipped.out = "ready" ->
                 [skipped EXCEPT !.cursor = SkipExcluded(@, args)]
            [] opened.out = "leaf" /\ skipped.out # "ready" -> skipped
            [] OTHER -> Outcome(opened.path, 1, opened.out)
  BY DEF NewForScan, GoalOf
<1>2. opened.out = "leaf" \/ (opened.out = "ChunkNotFound" /\ ~(ChunksUnder(r) \subseteq T))
  BY OpensForScan
<1>3. CASE opened.out = "ChunkNotFound" /\ ~(ChunksUnder(r) \subseteq T)
  <2>1. o = Outcome(opened.path, 1, opened.out)
    <3>. HIDE DEF o, opened, skipped
    <3>. QED
      BY <1>1, <1>3
  <2>2. o.out = "ChunkNotFound"
    BY <1>3, <2>1 DEF Outcome
  <2>. QED
    BY <1>3, <2>2
<1>4. CASE opened.out = "leaf"
  <2>1. SetsOut(c, args, r, S)
    BY <1>4, BeginsSomewhere
  <2>2. c.path = opened.path /\ opened.path # <<>> /\ Poised(c, args, r, S) /\ Clear(c, args, r)
    BY <2>1 DEF SetsOut
  <2>3. args.offset \in Nat /\ args.start \in Int \cup {None}
    BY DEF IsArgs
  <2>4. /\ Skipped(skipped, c, args, r, S, T)
        /\ args.offset = 0 => skipped = [cursor |-> c, out |-> "ready", due |-> 0]
    <3>. HIDE DEF opened, at
    <3>. QED
      BY <2>2, <2>3, SkippingKeeps
  <2>7. skipped.out = "ready" =>
          IF kept.path = <<>> THEN Cardinality(Ahead(c, args, r)) <= args.offset
          ELSE Cardinality(Ahead(c, args, r)) = Cardinality(Ahead(kept, args, r)) + args.offset
    <3>. HIDE DEF opened, at
    <3>. QED
      BY <2>2, <2>3, SkippingCounts
  <2>. HIDE DEF o, opened, at, c, skipped
  <2>5. CASE skipped.out # "ready"
    <3>1. o = skipped
      BY <1>1, <1>4, <2>5
    <3>2. skipped.out = "ChunkNotFound" /\ ~(ChunksUnder(r) \subseteq T)
      BY <2>4, <2>5 DEF Skipped
    <3>. QED
      BY <3>1, <3>2 DEF o
  <2>6. CASE skipped.out = "ready"
    <3>1. /\ Poised(kept, args, r, S) /\ Ahead(kept, args, r) \subseteq Ahead(c, args, r)
          /\ kept = c \/ kept.path = <<>> \/ kept.at \in DOMAIN Last(kept.path).node.entries
          /\ skipped = [cursor |-> [path |-> kept.path, at |-> kept.at],
                        out |-> skipped.out, due |-> skipped.due]
      BY <2>4, <2>6 DEF Skipped
    <3>2. \E p, i : kept = [path |-> p, at |-> i]
      BY <3>1
    <3>3. o.out = "ready" /\ o.cursor = to
      <4>1. o = [skipped EXCEPT !.cursor = SkipExcluded(@, args)]
        BY <1>1, <1>4, <2>6
      <4>2. PICK q, d : skipped = [cursor |-> q, out |-> "ready", due |-> d]
        BY <2>6, <3>1
      <4>3. o = [cursor |-> SkipExcluded(q, args), out |-> "ready", due |-> d] /\ kept = q
        BY <4>1, <4>2
      <4>. QED
        BY <4>3
    <3>. HIDE DEF kept, to
    <3>4. Clear(kept, args, r)
      BY <2>2, <3>1 DEF Clear
    <3>5. /\ Poised(to, args, r, S) /\ Ahead(to, args, r) \subseteq Ahead(kept, args, r)
          /\ args.start = None \/ args.start_inclusive => to = kept
          /\ /\ args.start # None /\ ~args.start_inclusive
             /\ \A x \in Ahead(kept, args, r) : ~Precedes(x.key, args.start, args)
             => Ahead(to, args, r) = {x \in Ahead(kept, args, r) : x.key # args.start}
      BY <2>3, <3>1, <3>2, <3>4, ExcludedIs DEF to
    <3>6. ASSUME StartFound(MapOf(r), args)
          PROVE  /\ Ahead(to, args, r) \subseteq InStart(args, r)
                 /\ kept = c => Ahead(to, args, r) = InStart(args, r)
      <4>1. Ahead(c, args, r) = FromStart(args, r)
        BY <2>1, <3>6 DEF SetsOut
      <4>2. Ahead(kept, args, r) \subseteq FromStart(args, r)
            /\ (kept = c => Ahead(kept, args, r) = FromStart(args, r))
        BY <3>1, <4>1
      <4>3. CASE args.start = None \/ args.start_inclusive
        <5>1. InStart(args, r) = FromStart(args, r) /\ to = kept
          BY <3>5, <4>3, InStartIs
        <5>. QED
          BY <4>2, <5>1
      <4>4. CASE ~(args.start = None \/ args.start_inclusive)
        <5>1. InStart(args, r) = {x \in FromStart(args, r) : x.key # args.start}
          BY <4>4, InStartIs
        <5>2. \A x \in Ahead(kept, args, r) : ~Precedes(x.key, args.start, args)
          BY <4>2, <4>4 DEF FromStart
        <5>3. Ahead(to, args, r) = {x \in Ahead(kept, args, r) : x.key # args.start}
          BY <3>5, <4>4, <5>2
        <5>. QED
          BY <4>2, <5>1, <5>3
      <4>. QED
        BY <4>3, <4>4
    <3>7. ~args.reverse => StartFound(MapOf(r), args)
      BY DEF StartFound
    <3>8. args.offset = 0 => kept = c
      BY <2>4 DEF kept
    <3>9. ASSUME args.offset > 0, StartFound(MapOf(r), args)
          PROVE  LET all == FromStart(args, r)
                     A   == Ahead(kept, args, r)
                 IN  /\ to = kept /\ A \subseteq all /\ \A x \in A : x.key # args.start
                     /\ IF kept.path = <<>> THEN Cardinality(all) <= args.offset
                        ELSE Cardinality(all) = Cardinality(A) + args.offset
      <4>. DEFINE all == FromStart(args, r)
                  A == Ahead(kept, args, r)
      <4>1. Ahead(c, args, r) = all
        BY <2>1, <3>9 DEF SetsOut
      <4>2. /\ A \subseteq all
            /\ IF kept.path = <<>> THEN Cardinality(all) <= args.offset
               ELSE Cardinality(all) = Cardinality(A) + args.offset
        BY <2>6, <2>7, <3>1, <4>1
      \* start_bound itself, if it is stored, was the first that was skipped.
      <4>3. ASSUME NEW e \in A, e.key = args.start
            PROVE  FALSE
        <5>1. kept.path # <<>>
          BY <4>3 DEF Ahead
        <5>2. Closed(A, args, r)
          BY <3>1, AheadClosed
        <5>3. e.key \in Keys
          BY <4>3, <5>2, NodeRange DEF Closed
        <5>4. all = {x \in StoredIn(r) : ~Precedes(x.key, e.key, args)}
          BY <4>3, <5>3, NoneAssumption DEF FromStart
        <5>5. IsFiniteSet(A)
          BY <3>1, <5>1, AvailableIs
        <5>. HIDE DEF all, A
        <5>6. all \subseteq A
          BY <4>3, <5>2, <5>4 DEF Closed
        <5>7. all = A
          BY <4>2, <5>6
        <5>8. Cardinality(A) \in Nat
          BY <5>5, FS_CardinalityType
        <5>9. Cardinality(A) = Cardinality(A) + args.offset
          BY <4>2, <5>1, <5>7
        <5>. QED
          BY <2>3, <3>9, <5>8, <5>9
      <4>4. to = kept
        <5>. DEFINE e == Last(kept.path).node.entries[kept.at]
        <5>. SUFFICES ASSUME to # kept
                      PROVE  FALSE
          OBVIOUS
        <5>1. kept.path # <<>> /\ kept.at \in DOMAIN Last(kept.path).node.entries /\ e.key = args.start
          BY DEF to, SkipExcluded
        <5>2. e \in A
          BY <3>1, <5>1, FirstAhead
        <5>. QED
          BY <4>3, <5>1, <5>2
      <4>. QED
        BY <4>2, <4>3, <4>4
    <3>10. Opened(to, args, r, S)
      <4>1. args.offset > 0 /\ StartFound(MapOf(r), args) =>
              LET all == FromStart(args, r)
              IN  /\ Ahead(to, args, r) \subseteq all /\ \A x \in Ahead(to, args, r) : x.key # args.start
                  /\ IF to.path = <<>> THEN Cardinality(all) <= args.offset
                     ELSE Cardinality(all) = Cardinality(Ahead(to, args, r)) + args.offset
        BY <3>9
      <4>. QED
        BY <3>5, <3>6, <3>7, <3>8, <4>1 DEF Opened
    <3>. QED
      BY <3>3, <3>10 DEF o
  <2>. QED
    BY <2>5, <2>6
<1>. QED
  BY <1>2, <1>3, <1>4
-----------------------------------------------------------------------------
(***************************************************************************)
(* Pages.                                                                  *)
(***************************************************************************)
\* What a scan gives of entries.
ItemsOf(X) == {<<e.key, ValueOf(e.value)>> : e \in X}

\* After n steps from a cursor on that had A ahead: what is given is what is no
\* longer ahead, in order and in range.
Gathered(f, n, A, args, r, S, T) ==
  LET B == Ahead(f.cursor, args, r)
  IN  /\ \E c, s, o : f = [cursor |-> c, items |-> s, out |-> o]
      /\ Poised(f.cursor, args, r, S) /\ B \subseteq A
      /\ f.items \in Seq(ItemsOf(StoredIn(r))) /\ ToSet(f.items) = ItemsOf(A \ B)
      /\ \A i, j \in DOMAIN f.items : i < j => Precedes(f.items[i][1], f.items[j][1], args)
      /\ \A x \in A \ B : ~EndsAt(x.key, args)
      /\ Len(f.items) <= n
      /\ \/ f.out = "ready" /\ Len(f.items) = n
         \/ f.out = "done" /\ Spent(B, args)
         \/ f.out = "ChunkNotFound" /\ ~(ChunksUnder(r) \subseteq T)

LEMMA FetchNextKeeps ==
  ASSUME NEW S, Fit(S), NEW r \in NodesIn(S), r # None, NEW args, NEW A, A \subseteq StoredIn(r),
         NEW f, NEW n \in Nat, NEW T, Gathered(f, n, A, args, r, S, T)
  PROVE  Gathered(FetchNext(f, args, T), n + 1, A, args, r, S, T)
<1>. DEFINE B == Ahead(f.cursor, args, r)
            s == f.items
            next == NextInScan(f.cursor, args, T)
            to == FetchNext(f, args, T)
            U == ItemsOf(StoredIn(r))
<1>1. /\ Poised(f.cursor, args, r, S) /\ B \subseteq A
      /\ s \in Seq(U) /\ ToSet(s) = ItemsOf(A \ B)
      /\ \A i, j \in DOMAIN s : i < j => Precedes(s[i][1], s[j][1], args)
      /\ \A x \in A \ B : ~EndsAt(x.key, args)
      /\ Len(s) <= n /\ (f.out = "ready" => Len(s) = n)
  BY DEF Gathered
<1>2. Len(s) \in Nat /\ DOMAIN s = 1..Len(s)
  BY <1>1, ElementsOfSeq
<1>3. PICK c, t, o : f = [cursor |-> c, items |-> t, out |-> o]
  BY DEF Gathered
<1>4. CASE f.out # "ready"
  <2>1. to = f
    BY <1>4 DEF FetchNext
  <2>2. Len(f.items) <= n + 1
    BY <1>1, <1>2
  <2>. QED
    BY <1>4, <2>1, <2>2 DEF Gathered
<1>5. CASE f.out = "ready" /\ next.out # "item"
  <2>1. to = [f EXCEPT !.out = next.out]
    BY <1>5 DEF FetchNext
  <2>2. to = [cursor |-> c, items |-> t, out |-> next.out]
    BY <1>3, <2>1
  <2>3. to.cursor = f.cursor /\ to.items = s /\ to.out = next.out
    BY <1>3, <2>2
  <2>4. Steps(next, B, args, r, S, T)
    BY <1>1, NextSteps
  <2>5. \/ next.out = "done" /\ Spent(B, args)
        \/ next.out = "ChunkNotFound" /\ ~(ChunksUnder(r) \subseteq T)
    BY <1>5, <2>4 DEF Steps, Meets
  <2>6. Len(s) <= n + 1
    BY <1>1, <1>2
  <2>7. \E c1, s1, o1 : to = [cursor |-> c1, items |-> s1, out |-> o1]
    BY <2>2
  <2>. HIDE DEF to, next
  <2>. QED
    BY <1>1, <2>3, <2>5, <2>6, <2>7 DEF Gathered, to
<1>6. CASE f.out = "ready" /\ next.out = "item"
  <2>1. to = [cursor |-> next.cursor, items |-> Append(s, next.item), out |-> "ready"]
    BY <1>6 DEF FetchNext
  <2>2. to.cursor = next.cursor /\ to.items = Append(s, next.item) /\ to.out = "ready"
        /\ \E c1, s1, o1 : to = [cursor |-> c1, items |-> s1, out |-> o1]
    <3>. DEFINE q == next.cursor
                u == Append(s, next.item)
    <3>1. to = [cursor |-> q, items |-> u, out |-> "ready"]
      BY <2>1
    <3>. HIDE DEF to, q, u
    <3>2. to.cursor = q /\ to.items = u /\ to.out = "ready"
      BY <3>1
    <3>3. \E c1, s1, o1 : to = [cursor |-> c1, items |-> s1, out |-> o1]
      BY <3>1, Zenon
    <3>. QED
      BY <3>2, <3>3 DEF q, u
  <2>3. Steps(next, B, args, r, S, T)
    BY <1>1, NextSteps
  <2>. HIDE DEF next, to, s, B, U
  <2>4. Meets(next, B, args, r, S)
    BY <1>6, <2>3 DEF Steps
  <2>5. PICK e \in B : /\ IsNearest(e, B, args) /\ ~EndsAt(e.key, args)
                       /\ next.item = <<e.key, ValueOf(e.value)>>
                       /\ Ahead(next.cursor, args, r) = B \ {e}
    BY <2>4 DEF Meets
  <2>. DEFINE item == <<e.key, ValueOf(e.value)>>
              all == Append(s, item)
  <2>6. Poised(next.cursor, args, r, S)
    BY <2>4 DEF Meets
  <2>7. e \in A /\ e \in StoredIn(r) /\ item \in U /\ item[1] = e.key
    BY <1>1, <2>5 DEF U, ItemsOf
  <2>. HIDE DEF item
  <2>8. /\ all \in Seq(U) /\ Len(all) = n + 1 /\ DOMAIN all = 1..(n + 1)
        /\ \A i \in 1..n : all[i] = s[i]
        /\ all[n + 1] = item
    BY <1>1, <1>2, <1>6, <2>7
  <2>9. DOMAIN s = 1..n
    BY <1>1, <1>2, <1>6
  <2>10. A \ (B \ {e}) = (A \ B) \cup {e}
    BY <2>5, <2>7
  <2>. HIDE DEF all
  <2>11. ToSet(all) = ItemsOf(A \ (B \ {e}))
    <3>1. ToSet(all) = ToSet(s) \cup {item}
      <4>1. ToSet(all) = {all[i] : i \in 1..(n + 1)} /\ ToSet(s) = {s[i] : i \in 1..n}
        BY <2>8, <2>9 DEF ToSet
      <4>2. \A i \in 1..(n + 1) : i \in 1..n \/ i = n + 1
        OBVIOUS
      <4>3. \A i \in 1..n : i \in 1..(n + 1)
        OBVIOUS
      <4>4. n + 1 \in 1..(n + 1)
        OBVIOUS
      <4>. QED
        BY <2>8, <4>1, <4>2, <4>3, <4>4
    <3>2. ItemsOf((A \ B) \cup {e}) = ItemsOf(A \ B) \cup {item}
      BY DEF ItemsOf, item
    <3>. QED
      BY <1>1, <2>10, <3>1, <3>2
  <2>12. ASSUME NEW i \in DOMAIN all, NEW j \in DOMAIN all, i < j
         PROVE  Precedes(all[i][1], all[j][1], args)
    <3>1. i \in 1..n /\ all[i] = s[i]
      BY <2>8, <2>12
    <3>2. CASE j \in 1..n
      BY <1>1, <2>8, <2>9, <2>12, <3>1, <3>2
    <3>3. CASE j = n + 1
      <4>1. s[i] \in ItemsOf(A \ B)
        BY <1>1, <2>9, <3>1 DEF ToSet
      <4>2. PICK x \in A \ B : s[i] = <<x.key, ValueOf(x.value)>>
        BY <4>1 DEF ItemsOf
      <4>3. Closed(B, args, r)
        BY <1>1, AheadClosed DEF B
      <4>4. Precedes(x.key, e.key, args)
        BY <2>5, <4>2, <4>3 DEF Closed
      <4>5. s[i][1] = x.key
        BY <4>2
      <4>. QED
        BY <2>7, <2>8, <3>1, <3>3, <4>4, <4>5
    <3>. QED
      BY <2>8, <2>12, <3>2, <3>3
  <2>13. \A x \in A \ (B \ {e}) : ~EndsAt(x.key, args)
    BY <1>1, <2>5, <2>10
  <2>14. to.items = all
    BY <2>2, <2>5 DEF all, item
  <2>15. Gathered(to, n + 1, A, args, r, S, T)
    <3>1. Ahead(to.cursor, args, r) = B \ {e} /\ B \ {e} \subseteq A /\ Poised(to.cursor, args, r, S)
      BY <1>1, <2>2, <2>5, <2>6
    <3>2. Len(to.items) <= n + 1 /\ Len(to.items) = n + 1
      BY <2>8, <2>14
    <3>3. /\ to.items \in Seq(U) /\ ToSet(to.items) = ItemsOf(A \ (B \ {e}))
          /\ \A i, j \in DOMAIN to.items : i < j => Precedes(to.items[i][1], to.items[j][1], args)
      BY <2>8, <2>11, <2>12, <2>14
    <3>. QED
      BY <2>2, <2>13, <3>1, <3>2, <3>3 DEF Gathered, U
  <2>. QED
    BY <2>15 DEF to
<1>. QED
  BY <1>4, <1>5, <1>6

LEMMA FetchGathers ==
  ASSUME NEW S, Fit(S), NEW r \in NodesIn(S), r # None, NEW args, NEW c, Poised(c, args, r, S),
         NEW n \in Nat, NEW T
  PROVE  Gathered(Fetch(c, n, args, T), n, Ahead(c, args, r), args, r, S, T)
<1>. DEFINE A == Ahead(c, args, r)
            steps == Fetching(c, args, T)
            first == [cursor |-> c, items |-> <<>>, out |-> "ready"]
            Bad == {m \in Nat : ~Gathered(steps[m], m, A, args, r, S, T)}
<1>1. steps[0] = first /\ \A m \in Nat : steps[m + 1] = FetchNext(steps[m], args, T)
  BY FetchingStep
<1>2. A \subseteq StoredIn(r)
  BY AheadClosed DEF Closed
<1>3. Gathered(first, 0, A, args, r, S, T)
  <2>1. /\ first.cursor = c /\ first.items = <<>> /\ first.out = "ready"
        /\ \E c1, s1, o1 : first = [cursor |-> c1, items |-> s1, out |-> o1]
    OBVIOUS
  <2>2. ToSet(<<>>) = ItemsOf(A \ A)
    BY DEF ToSet, ItemsOf
  <2>3. <<>> \in Seq(ItemsOf(StoredIn(r))) /\ DOMAIN <<>> = {} /\ Len(<<>>) = 0
    OBVIOUS
  <2>. HIDE DEF first
  <2>4. Ahead(first.cursor, args, r) = A /\ Poised(first.cursor, args, r, S)
    BY <2>1
  <2>. HIDE DEF A
  <2>5. /\ first.items \in Seq(ItemsOf(StoredIn(r))) /\ ToSet(first.items) = ItemsOf(A \ A)
        /\ \A i, j \in DOMAIN first.items : i < j => Precedes(first.items[i][1], first.items[j][1], args)
        /\ Len(first.items) <= 0 /\ Len(first.items) = 0
    BY <2>1, <2>2, <2>3
  <2>6. \A x \in A \ A : ~EndsAt(x.key, args)
    OBVIOUS
  <2>. QED
    BY <2>1, <2>4, <2>5, <2>6 DEF Gathered
<1>. HIDE DEF steps, first, A
<1>4. Bad = {}
  <2>. SUFFICES ASSUME Bad # {}
                PROVE  FALSE
    OBVIOUS
  <2>1. PICK m \in Bad : \A u \in Bad : m =< u
    <3>. HIDE DEF Bad
    <3>1. Bad \subseteq Nat
      BY DEF Bad
    <3>. QED
      BY <3>1, LeastNatural
  <2>2. m # 0
    BY <1>1, <1>3, <2>1
  <2>3. m - 1 \in Nat /\ m - 1 \notin Bad /\ (m - 1) + 1 = m
    <3>1. m \in Nat /\ \A u \in Bad : m =< u
      BY <2>1
    <3>. HIDE DEF Bad
    <3>. QED
      BY <2>2, <3>1
  <2>4. Gathered(steps[m - 1], m - 1, A, args, r, S, T)
    BY <2>3
  <2>5. steps[(m - 1) + 1] = FetchNext(steps[m - 1], args, T)
    BY <1>1, <2>3
  <2>6. Gathered(FetchNext(steps[m - 1], args, T), (m - 1) + 1, A, args, r, S, T)
    BY <1>2, <2>3, <2>4, FetchNextKeeps
  <2>7. Gathered(steps[m], m, A, args, r, S, T)
    BY <2>3, <2>5, <2>6
  <2>. QED
    BY <2>1, <2>7
<1>. QED
  BY <1>4 DEF Fetch, steps, A

LEMMA MinOfTwo ==
  ASSUME NEW m \in Nat, NEW n \in Nat
  PROVE  Min({m, n}) = IF m <= n THEN m ELSE n
<1>1. Min({m, n}) \in {m, n} /\ \A u \in {m, n} : Min({m, n}) =< u
  <2>. DEFINE T == {m, n}
  <2>1. T \in SUBSET Nat /\ T # {}
    OBVIOUS
  <2>. HIDE DEF T
  <2>2. Min(T) \in T /\ \A u \in T : Min(T) =< u
    BY <2>1, LeastNatural
  <2>. QED
    BY <2>2 DEF T
<1>. QED
  BY <1>1

\* What is cut off for a page.
LEMMA FirstOfIs ==
  ASSUME NEW U, NEW s \in Seq(U), NEW m \in Nat
  PROVE  LET t == FirstOf(s, m)
         IN  /\ t \in Seq(U) /\ Len(t) \in Nat /\ DOMAIN t = 1..Len(t)
             /\ Len(t) = IF m <= Len(s) THEN m ELSE Len(s)
             /\ \A i \in 1..Len(t) : t[i] = s[i]
<1>. DEFINE n == IF m <= Len(s) THEN m ELSE Len(s)
<1>1. Len(s) \in Nat /\ n \in 0..Len(s)
  OBVIOUS
<1>2. FirstOf(s, m) = SubSeq(s, 1, n)
  BY <1>1, MinOfTwo DEF FirstOf
<1>. HIDE DEF n
<1>3. \A i \in 1..n : s[i] \in U
  BY <1>1, ElementOfSeq
<1>4. /\ SubSeq(s, 1, n) \in Seq(U)
      /\ Len(SubSeq(s, 1, n)) = IF 1 <= n THEN n - 1 + 1 ELSE 0
      /\ \A i \in 1..(n - 1 + 1) : SubSeq(s, 1, n)[i] = s[1 + i - 1]
  BY <1>3, <1>1, SubSeqProperties
<1>5. Len(SubSeq(s, 1, n)) = n /\ \A i \in 1..n : i \in 1..(n - 1 + 1) /\ 1 + i - 1 = i
  BY <1>1, <1>4
<1>6. \A i \in 1..n : SubSeq(s, 1, n)[i] = s[i]
  BY <1>4, <1>5
<1>7. SubSeq(s, 1, n) \in Seq(U) /\ DOMAIN SubSeq(s, 1, n) = 1..n
  BY <1>4, <1>5
<1>. QED
  BY <1>1, <1>2, <1>5, <1>6, <1>7 DEF n

\* The keys of what was fetched.
Given(s) == {s[i][1] : i \in DOMAIN s}

\* What a scan that wants n entries fetches, of which C are the keys in range.
Run(f, n, C, map, args) ==
  LET s    == f.items
      rest == C \ Given(s)
  IN  /\ \E U : s \in Seq(U)
      /\ Len(s) <= n
      /\ \A i \in DOMAIN s : s[i][1] \in C /\ s[i] = <<s[i][1], map[s[i][1]]>>
      /\ \A i, j \in DOMAIN s : i < j => Precedes(s[i][1], s[j][1], args)
      /\ \A k \in rest : \/ \A i \in DOMAIN s : Precedes(k, s[i][1], args)
                         \/ \A i \in DOMAIN s : Precedes(s[i][1], k, args)
      /\ \/ f.out = "ready" /\ Len(s) = n
         \/ f.out = "done" /\ (s # <<>> => \A k \in rest, i \in DOMAIN s : Precedes(k, s[i][1], args))
      /\ args.offset = 0 /\ StartFound(map, args) =>
           \A k \in rest : f.out = "ready" /\ \A i \in DOMAIN s : Precedes(s[i][1], k, args)

LEMMA PrecedesIs ==
  ASSUME NEW args, NEW i \in Int, NEW j \in Int, NEW k \in Int
  PROVE  /\ ~Precedes(i, i, args)
         /\ ~(Precedes(i, j, args) /\ Precedes(j, i, args))
         /\ Precedes(i, j, args) /\ Precedes(j, k, args) => Precedes(i, k, args)
  BY DEF Precedes

\* The keys on a page of what was fetched.
LEMMA OnPage ==
  ASSUME NEW U, NEW s \in Seq(U), NEW m \in Nat, NEW page, page.items = FirstOf(s, m)
  PROVE  /\ ToSet(page.items) = {s[i] : i \in 1..Len(page.items)}
         /\ KeysGiven(page) = {s[i][1] : i \in 1..Len(page.items)}
<1>. DEFINE t == page.items
<1>1. DOMAIN t = 1..Len(t) /\ \A i \in 1..Len(t) : t[i] = s[i]
  BY FirstOfIs
<1>2. ToSet(t) = {s[i] : i \in 1..Len(t)}
  BY <1>1 DEF ToSet
<1>. QED
  BY <1>2 DEF KeysGiven

LEMMA PageFaithful ==
  ASSUME NEW map, NEW args, Chosen(map, args) \subseteq Int, NEW f, NEW n, NEW limit \in Nat,
         Run(f, n, Chosen(map, args), map, args), args.limit # None => args.limit = limit,
         NEW page, page.items = FirstOf(f.items, limit)
  PROVE  FaithfulPage(page, map, args)
<1>. DEFINE C == Chosen(map, args)
            s == f.items
            t == page.items
            m == Len(t)
<1>1. PICK U : s \in Seq(U)
  BY DEF Run
<1>2. /\ Len(s) \in Nat /\ DOMAIN s = 1..Len(s)
      /\ m \in Nat /\ DOMAIN t = 1..m /\ m <= limit /\ m <= Len(s)
      /\ \A i \in 1..m : t[i] = s[i] /\ i \in DOMAIN s
  BY <1>1, FirstOfIs
<1>3. ToSet(t) = {s[i] : i \in 1..m} /\ KeysGiven(page) = {s[i][1] : i \in 1..m}
  BY <1>1, OnPage
<1>4. /\ \A i \in DOMAIN s : s[i][1] \in C /\ s[i] = <<s[i][1], map[s[i][1]]>>
      /\ \A i, j \in DOMAIN s : i < j => Precedes(s[i][1], s[j][1], args)
      /\ \A k \in C \ Given(s) : \/ \A i \in DOMAIN s : Precedes(k, s[i][1], args)
                                 \/ \A i \in DOMAIN s : Precedes(s[i][1], k, args)
  BY DEF Run
<1>. HIDE DEF C, s, t, m
<1>5. \A item \in ToSet(t) : item[1] \in C /\ item = <<item[1], map[item[1]]>>
  <2>. SUFFICES ASSUME NEW i \in 1..m
                PROVE  s[i][1] \in C /\ s[i] = <<s[i][1], map[s[i][1]]>>
    BY <1>3
  <2>. QED
    BY <1>2, <1>4
<1>6. \A i, j \in DOMAIN t : i < j => Precedes(t[i][1], t[j][1], args)
  BY <1>2, <1>4
<1>7. ASSUME NEW k \in C \ KeysGiven(page)
      PROVE  Behind(k, page, args) \/ Beyond(k, page, args)
  <2>1. CASE k \in Given(s)
    <3>1. PICK j \in DOMAIN s : k = s[j][1]
      BY <2>1 DEF Given
    <3>2. j > m
      BY <1>2, <1>3, <1>7, <3>1
    <3>3. \A i \in 1..m : Precedes(s[i][1], k, args)
      BY <1>2, <1>4, <3>1, <3>2
    <3>. QED
      BY <1>3, <3>3 DEF Beyond
  <2>2. CASE k \notin Given(s)
    BY <1>2, <1>3, <1>4, <1>7, <2>2 DEF Behind, Beyond
  <2>. QED
    BY <2>1, <2>2
<1>8. AtMost(args, m)
  BY <1>2 DEF AtMost
<1>. QED
  BY <1>5, <1>6, <1>7, <1>8 DEF FaithfulPage, C, t, m

\* What Scan and ScanSync fetch and name.
Wanted(op, limit) == IF op = "scanItems" /\ limit = 0 THEN 0 ELSE limit + 1

Named(op, limit) == IF op = "scanItems" THEN limit + 1 ELSE limit

LEMMA PageJoins ==
  ASSUME NEW map, NEW args, Chosen(map, args) \subseteq Int, NEW f, NEW limit \in Nat, NEW op,
         op \in {"scanItems", "scanItemsSync"},
         Run(f, Wanted(op, limit), Chosen(map, args), map, args),
         args.limit # None => args.limit = limit, args.limit = None => limit # 0,
         NEW page, page.items = FirstOf(f.items, limit),
         page.has_next_page <=> Len(f.items) > limit,
         page.has_next_page => page.next_page_cursor = LastKey(FirstOf(f.items, Named(op, limit)))
  PROVE  JoiningPage(page, map, args, op)
<1>. DEFINE C == Chosen(map, args)
            s == f.items
            t == page.items
            m == Len(t)
            later == {k \in C : Beyond(k, page, args)}
            next == page.next_page_cursor
<1>1. PICK U : s \in Seq(U)
  BY DEF Run
<1>2. /\ Len(s) \in Nat /\ DOMAIN s = 1..Len(s)
      /\ m \in Nat /\ DOMAIN t = 1..m /\ m <= limit /\ m <= Len(s) /\ (m = limit \/ m = Len(s))
      /\ \A i \in 1..m : t[i] = s[i] /\ i \in DOMAIN s
      /\ t \in Seq(U)
  BY <1>1, FirstOfIs
<1>3. KeysGiven(page) = {s[i][1] : i \in 1..m}
  BY <1>1, OnPage
<1>4. /\ \A i \in DOMAIN s : s[i][1] \in C /\ s[i][1] \in Int
      /\ \A i, j \in DOMAIN s : i < j => Precedes(s[i][1], s[j][1], args)
      /\ \A k \in C \ Given(s) : \/ \A i \in DOMAIN s : Precedes(k, s[i][1], args)
                                 \/ \A i \in DOMAIN s : Precedes(s[i][1], k, args)
      /\ Len(s) <= Wanted(op, limit)
  BY DEF Run
<1>5. \/ f.out = "ready" /\ Len(s) = Wanted(op, limit)
      \/ f.out = "done" /\ (s # <<>> => \A k \in C \ Given(s), i \in DOMAIN s : Precedes(k, s[i][1], args))
  BY DEF Run
<1>6. args.offset = 0 /\ StartFound(map, args) =>
        \A k \in C \ Given(s) : f.out = "ready" /\ \A i \in DOMAIN s : Precedes(s[i][1], k, args)
  BY DEF Run
<1>7. C \subseteq Int
  OBVIOUS
<1>8. s # <<>> <=> Len(s) # 0
  BY <1>1
<1>9. t # <<>> <=> m # 0
  BY <1>2
<1>10. page.has_next_page <=> Len(s) > limit
  OBVIOUS
<1>11. page.has_next_page => next = LastKey(FirstOf(s, Named(op, limit)))
  OBVIOUS
<1>12. /\ Wanted(op, limit) <= limit + 1 /\ (limit # 0 => Wanted(op, limit) = limit + 1)
       /\ op = "scanItems" /\ limit = 0 => Wanted(op, limit) = 0
  BY DEF Wanted
<1>13. /\ limit \in Nat /\ Len(s) \in Nat /\ m \in Nat /\ m <= limit /\ m <= Len(s)
       /\ m = limit \/ m = Len(s)
  BY <1>2
<1>. HIDE DEF C, s, t, m, next
<1>14. ASSUME page.has_next_page
       PROVE  Len(s) = limit + 1 /\ m = limit /\ limit + 1 \in DOMAIN s /\ (op = "scanItems" => limit # 0)
  <2>. DEFINE w == Wanted(op, limit)
  <2>1. Len(s) > limit
    BY <1>10, <1>14
  <2>2. Len(s) <= w /\ w <= limit + 1 /\ (limit # 0 => w = limit + 1) /\ (op = "scanItems" /\ limit = 0 => w = 0)
    BY <1>4, <1>12
  <2>3. w \in Nat
    BY DEF Wanted
  <2>. HIDE DEF w
  <2>4. Len(s) = limit + 1
    BY <1>13, <2>1, <2>2, <2>3
  <2>5. m = limit /\ limit + 1 \in 1..Len(s)
    BY <1>13, <2>4
  <2>. QED
    BY <1>2, <1>13, <2>1, <2>2, <2>4, <2>5
<1>15. ASSUME page.has_next_page
       PROVE  s[limit + 1][1] \in later
  <2>1. \A i \in 1..m : Precedes(s[i][1], s[limit + 1][1], args)
    BY <1>2, <1>4, <1>14, <1>15
  <2>. QED
    BY <1>3, <1>4, <1>14, <1>15, <2>1 DEF Beyond
<1>16. ASSUME limit # 0, m # 0, ~page.has_next_page, NEW k \in later
       PROVE  FALSE
  <2>1. Len(s) <= limit
    <3>1. ~(Len(s) > limit)
      BY <1>10, <1>16
    <3>. QED
      BY <1>13, <3>1
  <2>2. m = Len(s)
    BY <1>13, <2>1
  <2>3. 1 \in DOMAIN s /\ 1 \in 1..m
    BY <1>2, <1>16, <2>2
  <2>4. k \in C /\ k \in Int /\ \A i \in DOMAIN s : Precedes(s[i][1], k, args)
    BY <1>2, <1>3, <1>7, <1>16, <2>2 DEF Beyond
  <2>5. f.out = "done"
    <3>1. Wanted(op, limit) = limit + 1
      BY <1>12, <1>16
    <3>2. Len(s) # Wanted(op, limit)
      BY <1>13, <2>1, <3>1
    <3>. QED
      BY <1>5, <3>2
  <2>6. k \notin Given(s)
    BY <1>4, <2>4, PrecedesIs DEF Given
  <2>7. s # <<>>
    BY <1>8, <1>13, <1>16, <2>2
  <2>8. Precedes(k, s[1][1], args) /\ Precedes(s[1][1], k, args)
    BY <1>5, <2>3, <2>4, <2>5, <2>6, <2>7
  <2>. QED
    BY <1>4, <2>3, <2>4, <2>8, PrecedesIs
<1>17. limit # 0 => (page.has_next_page <=> t # <<>> /\ later # {})
  BY <1>9, <1>14, <1>15, <1>16
<1>18. ASSUME page.has_next_page, op = "scanItems"
       PROVE  next \in later /\ \A k \in later \ {next} : Precedes(next, k, args)
  <2>1. next = s[limit + 1][1]
    <3>. DEFINE u == FirstOf(s, limit + 1)
    <3>1. Len(s) = limit + 1 /\ limit + 1 \in Nat
      BY <1>14, <1>18
    <3>2. Len(u) = limit + 1 /\ u[limit + 1] = s[limit + 1] /\ u \in Seq(U)
      BY <1>1, <3>1, FirstOfIs
    <3>3. u # <<>>
      BY <3>1, <3>2
    <3>. HIDE DEF u
    <3>4. LastKey(u) = s[limit + 1][1]
      BY <3>2, <3>3 DEF LastKey, Last
    <3>. QED
      BY <1>11, <1>18, <3>4 DEF u, Named
  <2>2. ASSUME NEW k \in later, k # next
        PROVE  Precedes(next, k, args)
    <3>1. k \in C /\ k \in Int /\ \A i \in 1..m : Precedes(s[i][1], k, args)
      BY <1>3, <1>7 DEF Beyond
    <3>2. 1 \in 1..m /\ 1 \in DOMAIN s /\ limit + 1 \in DOMAIN s
      BY <1>2, <1>14, <1>18
    <3>3. ASSUME NEW j \in DOMAIN s, k = s[j][1]
          PROVE  FALSE
      <4>1. j \notin 1..m
        BY <1>4, <3>1, <3>3, PrecedesIs
      <4>2. j = limit + 1
        BY <1>2, <1>14, <1>18, <4>1
      <4>. QED
        BY <2>1, <2>2, <3>3, <4>2
    <3>4. k \in C \ Given(s)
      BY <3>1, <3>3 DEF Given
    <3>5. ~\A i \in DOMAIN s : Precedes(k, s[i][1], args)
      BY <1>4, <3>1, <3>2, PrecedesIs
    <3>. QED
      BY <1>4, <2>1, <3>2, <3>4, <3>5
  <2>. QED
    BY <1>15, <1>18, <2>1, <2>2
<1>19. ASSUME page.has_next_page, op = "scanItemsSync", limit # 0
       PROVE  next = Last(t)[1]
  <2>1. next = LastKey(t)
    BY <1>11, <1>19 DEF Named, t, s
  <2>. QED
    BY <1>2, <1>9, <1>14, <1>19, <2>1 DEF LastKey
<1>20. ASSUME args.offset = 0, limit # 0, StartFound(map, args), NEW k \in C \ KeysGiven(page)
       PROVE  ~Behind(k, page, args)
  <2>. SUFFICES ASSUME Behind(k, page, args)
                PROVE  FALSE
    OBVIOUS
  <2>1. \A i \in 1..m : Precedes(k, s[i][1], args)
    BY <1>3 DEF Behind
  <2>2. k \in Int
    BY <1>7
  <2>3. CASE k \in Given(s)
    <3>1. PICK j \in DOMAIN s : k = s[j][1]
      BY <2>3 DEF Given
    <3>2. j > m
      <4>1. j \in 1..Len(s) /\ j \notin 1..m
        BY <1>2, <1>3, <1>20, <3>1
      <4>. QED
        BY <1>13, <4>1
    <3>3. 1 \in 1..m /\ 1 \in DOMAIN s /\ 1 < j
      BY <1>2, <1>20, <3>2
    <3>4. Precedes(s[1][1], k, args) /\ Precedes(k, s[1][1], args)
      BY <1>4, <2>1, <3>1, <3>3
    <3>. QED
      BY <1>4, <2>2, <3>3, <3>4, PrecedesIs
  <2>4. CASE k \notin Given(s)
    <3>1. f.out = "ready" /\ \A i \in DOMAIN s : Precedes(s[i][1], k, args)
      BY <1>6, <1>20, <2>4
    <3>2. Len(s) = limit + 1
      BY <1>5, <1>20, <3>1 DEF Wanted
    <3>3. 1 \in 1..m /\ 1 \in DOMAIN s
      BY <1>2, <1>20, <3>2
    <3>4. Precedes(s[1][1], k, args) /\ Precedes(k, s[1][1], args)
      BY <2>1, <3>1, <3>3
    <3>. QED
      BY <1>4, <2>2, <3>3, <3>4, PrecedesIs
  <2>. QED
    BY <2>3, <2>4
<1>21. args.limit # 0 => limit # 0
  OBVIOUS
<1>. QED
  BY <1>17, <1>18, <1>19, <1>20, <1>21 DEF JoiningPage, C, t, next
-----------------------------------------------------------------------------
(***************************************************************************)
(* What is fetched from where a scan opens.                                *)
(***************************************************************************)
\* The range ends where the scan does, and everything beyond is out of it too.
LEMMA RangeIs ==
  ASSUME NEW args, IsArgs(args), NEW j \in Int, NEW k \in Int
  PROVE  /\ InRange(k, args) <=> WithinStart(k, args) /\ ~EndsAt(k, args)
         /\ args.reverse /\ ~EndsAt(k, args) => WithinStart(k, args)
         /\ WithinStart(j, args) /\ Precedes(j, k, args) => WithinStart(k, args)
         /\ WithinStart(j, args) /\ EndsAt(j, args) /\ Precedes(j, k, args) => EndsAt(k, args)
<1>. DEFINE from == args.start
            to == args.end
<1>1. /\ from \in Int \cup {None} /\ to \in Int \cup {None} /\ args.reverse \in BOOLEAN
      /\ args.start_inclusive \in BOOLEAN /\ args.end_inclusive \in BOOLEAN
  BY DEF IsArgs
<1>2. CASE ~args.reverse
  <2>1. \A i \in {j, k} :
          /\ EndsAt(i, args) <=> Above(i, to, args.end_inclusive)
          /\ WithinStart(i, args) <=> ~Below(i, from, args.start_inclusive)
          /\ InRange(i, args) <=> /\ ~Below(i, from, args.start_inclusive)
                                  /\ ~Above(i, to, args.end_inclusive)
    BY <1>1, <1>2 DEF EndsAt, WithinStart, InRange, Precedes, Above, Below
  <2>2. Precedes(j, k, args) <=> j < k
    BY <1>2 DEF Precedes
  <2>3. /\ j < k /\ Above(j, to, args.end_inclusive) => Above(k, to, args.end_inclusive)
        /\ j < k /\ ~Below(j, from, args.start_inclusive) => ~Below(k, from, args.start_inclusive)
    BY <1>1 DEF Above, Below
  <2>. QED
    BY <1>2, <2>1, <2>2, <2>3
<1>3. CASE args.reverse
  <2>1. \A i \in {j, k} :
          /\ EndsAt(i, args) <=> \/ Above(i, from, args.start_inclusive)
                                 \/ Below(i, to, args.end_inclusive)
          /\ WithinStart(i, args) <=> ~Above(i, from, args.start_inclusive)
          /\ InRange(i, args) <=> /\ ~Above(i, from, args.start_inclusive)
                                  /\ ~Below(i, to, args.end_inclusive)
    BY <1>1, <1>3 DEF EndsAt, WithinStart, InRange, Precedes, Above, Below
  <2>2. Precedes(j, k, args) <=> k < j
    BY <1>3 DEF Precedes
  <2>3. /\ k < j /\ Below(j, to, args.end_inclusive) => Below(k, to, args.end_inclusive)
        /\ k < j /\ ~Above(j, from, args.start_inclusive) => ~Above(k, from, args.start_inclusive)
    BY <1>1 DEF Above, Below
  <2>. QED
    BY <1>3, <2>1, <2>2, <2>3
<1>. QED
  BY <1>2, <1>3

LEMMA ChosenIs ==
  ASSUME NEW S, Fit(S), NEW r \in NodesIn(S), r # None, NEW args
  PROVE  /\ Chosen(MapOf(r), args) = {x.key : x \in {x \in StoredIn(r) : InRange(x.key, args)}}
         /\ Chosen(MapOf(r), args) \subseteq Int
<1>1. DOMAIN MapOf(r) = {e.key : e \in StoredIn(r)}
  BY MapIs
<1>2. \A x \in StoredIn(r) : x.key \in Int
  BY NodeRange
<1>. QED
  BY <1>1, <1>2 DEF Chosen

LEMMA FetchRuns ==
  ASSUME NEW S, Fit(S), NEW r \in NodesIn(S), r # None, NEW args, IsArgs(args),
         NEW c, Opened(c, args, r, S), NEW n \in Nat, NEW T
  PROVE  LET f == Fetch(c, n, args, T)
         IN  \/ f.out = "ChunkNotFound" /\ ~(ChunksUnder(r) \subseteq T)
             \/ f.out \in {"ready", "done"} /\ Run(f, n, Chosen(MapOf(r), args), MapOf(r), args)
<1>. DEFINE f == Fetch(c, n, args, T)
            map == MapOf(r)
            C == Chosen(map, args)
            s == f.items
            A == Ahead(c, args, r)
            B == Ahead(f.cursor, args, r)
            X == StoredIn(r)
            rest == C \ Given(s)
<1>1. /\ Poised(c, args, r, S)
      /\ ~args.reverse => A \subseteq InStart(args, r)
      /\ args.offset = 0 /\ StartFound(map, args) => A = InStart(args, r)
  BY DEF Opened
<1>2. Gathered(f, n, A, args, r, S, T)
  BY <1>1, FetchGathers
<1>3. /\ Poised(f.cursor, args, r, S) /\ B \subseteq A
      /\ s \in Seq(ItemsOf(X)) /\ ToSet(s) = ItemsOf(A \ B)
      /\ \A i, j \in DOMAIN s : i < j => Precedes(s[i][1], s[j][1], args)
      /\ \A x \in A \ B : ~EndsAt(x.key, args)
      /\ Len(s) <= n
  <2>. HIDE DEF f, A, X
  <2>. QED
    BY <1>2 DEF Gathered, X
<1>4. \/ f.out = "ready" /\ Len(s) = n
      \/ f.out = "done" /\ Spent(B, args)
      \/ f.out = "ChunkNotFound" /\ ~(ChunksUnder(r) \subseteq T)
  <2>. HIDE DEF f, A
  <2>. QED
    BY <1>2 DEF Gathered
<1>. SUFFICES ASSUME f.out # "ChunkNotFound" \/ ChunksUnder(r) \subseteq T
              PROVE  f.out \in {"ready", "done"} /\ Run(f, n, C, map, args)
  OBVIOUS
<1>5. \/ f.out = "ready" /\ Len(s) = n
      \/ f.out = "done" /\ Spent(B, args)
  BY <1>4
<1>6. Closed(A, args, r) /\ Closed(B, args, r)
  BY <1>1, <1>3, AheadClosed
<1>7. /\ A \subseteq X /\ B \subseteq X
      /\ \A x \in X \ A, y \in A : Precedes(x.key, y.key, args)
      /\ \A x \in X \ B, y \in B : Precedes(x.key, y.key, args)
  BY <1>6 DEF Closed
<1>8. /\ \A x \in X : x.key \in Int
      /\ \A e \in X : map[e.key] = ValueOf(e.value)
      /\ C = {x.key : x \in {x \in X : InRange(x.key, args)}}
  BY NodeRange, MapIs, ChosenIs
<1>9. DOMAIN s = 1..Len(s)
  BY <1>3
<1>10. InStart(args, r) = {x \in X : WithinStart(x.key, args)}
  BY DEF InStart
<1>11. \E U : s \in Seq(U)
  BY <1>3
<1>12. ToSet(s) = {s[i] : i \in DOMAIN s}
  BY DEF ToSet
<1>. HIDE DEF f, map, C, s, A, B, X
<1>14. \A i \in DOMAIN s : \E x \in A \ B : s[i] = <<x.key, ValueOf(x.value)>>
  BY <1>3, <1>12 DEF ItemsOf
<1>15. \A x \in A \ B : x.key \in Given(s)
  <2>1. \A x \in A \ B : \E i \in DOMAIN s : s[i] = <<x.key, ValueOf(x.value)>>
    BY <1>3, <1>12 DEF ItemsOf
  <2>. QED
    BY <2>1 DEF Given
<1>16. \A x \in A \ B : InRange(x.key, args)
  <2>. SUFFICES ASSUME NEW x \in A \ B
                PROVE  InRange(x.key, args)
    OBVIOUS
  <2>1. x \in X /\ x.key \in Int /\ ~EndsAt(x.key, args)
    BY <1>3, <1>7, <1>8
  <2>2. WithinStart(x.key, args)
    BY <1>1, <1>10, <2>1, RangeIs
  <2>. QED
    BY <2>1, <2>2, RangeIs
<1>17. \A i \in DOMAIN s : s[i][1] \in C /\ s[i] = <<s[i][1], map[s[i][1]]>>
  <2>. SUFFICES ASSUME NEW i \in DOMAIN s
                PROVE  s[i][1] \in C /\ s[i] = <<s[i][1], map[s[i][1]]>>
    OBVIOUS
  <2>1. PICK x \in A \ B : s[i] = <<x.key, ValueOf(x.value)>>
    BY <1>14
  <2>2. x \in X /\ InRange(x.key, args)
    BY <1>7, <1>16
  <2>. QED
    BY <1>8, <2>1, <2>2
\* What is not given lies before what the scan had ahead, or is ahead of it still.
<1>18. ASSUME NEW k \in rest
       PROVE  \E x \in X : /\ x.key = k /\ k \in Int /\ WithinStart(k, args) /\ ~EndsAt(k, args)
                           /\ \/ x \notin A /\ \A i \in DOMAIN s : Precedes(k, s[i][1], args)
                              \/ x \in B /\ \A i \in DOMAIN s : Precedes(s[i][1], k, args)
  <2>1. PICK x \in X : x.key = k /\ InRange(k, args)
    BY <1>8
  <2>2. k \in Int
    BY <1>8, <2>1
  <2>3. WithinStart(k, args) /\ ~EndsAt(k, args)
    BY <2>1, <2>2, RangeIs
  <2>4. x \notin A \ B
    BY <1>15, <2>1
  <2>5. \A i \in DOMAIN s : \E y \in A \ B : s[i][1] = y.key
    BY <1>14
  <2>6. CASE x \notin A
    <3>1. \A i \in DOMAIN s : Precedes(k, s[i][1], args)
      BY <1>7, <2>1, <2>5, <2>6
    <3>. QED
      BY <2>1, <2>2, <2>3, <2>6, <3>1
  <2>7. CASE x \in B
    <3>1. \A i \in DOMAIN s : Precedes(s[i][1], k, args)
      BY <1>7, <2>1, <2>5, <2>7
    <3>. QED
      BY <2>1, <2>2, <2>3, <2>7, <3>1
  <2>. QED
    BY <2>4, <2>6, <2>7
\* If the scan is over, nothing in range is ahead, unless it went astray.
<1>19. ASSUME f.out = "done", NEW x \in B, WithinStart(x.key, args), ~EndsAt(x.key, args),
              \A y \in B : WithinStart(y.key, args)
       PROVE  FALSE
  <2>1. Spent(B, args)
    BY <1>5, <1>19
  <2>2. PICK e \in B : IsNearest(e, B, args) /\ EndsAt(e.key, args)
    BY <1>19, <2>1 DEF Spent
  <2>3. x = e \/ Precedes(e.key, x.key, args)
    BY <1>19, <2>2 DEF IsNearest
  <2>4. e.key \in Int /\ x.key \in Int /\ WithinStart(e.key, args)
    BY <1>7, <1>8, <1>19
  <2>. QED
    BY <1>19, <2>2, <2>3, <2>4, RangeIs
<1>20. ASSUME f.out = "done", s # <<>>, NEW k \in rest, NEW i \in DOMAIN s
       PROVE  Precedes(k, s[i][1], args)
  <2>1. PICK x \in X : /\ x.key = k /\ k \in Int /\ WithinStart(k, args) /\ ~EndsAt(k, args)
                       /\ \/ x \notin A /\ \A j \in DOMAIN s : Precedes(k, s[j][1], args)
                          \/ x \in B /\ \A j \in DOMAIN s : Precedes(s[j][1], k, args)
    BY <1>18, <1>20
  <2>2. ASSUME x \in B
        PROVE  FALSE
    <3>1. PICK y \in A \ B : s[i] = <<y.key, ValueOf(y.value)>>
      BY <1>14, <1>20
    <3>2. y \in X /\ y.key \in Int /\ WithinStart(y.key, args)
      BY <1>7, <1>8, <1>16, <3>1, RangeIs
    <3>3. ASSUME NEW z \in B
          PROVE  WithinStart(z.key, args)
      <4>1. Precedes(y.key, z.key, args) /\ z.key \in Int
        BY <1>7, <1>8, <3>1, <3>2, <3>3
      <4>. QED
        BY <3>2, <4>1, RangeIs
    <3>. QED
      BY <1>19, <1>20, <2>1, <2>2, <3>3
  <2>. QED
    BY <2>1, <2>2
<1>21. ASSUME args.offset = 0, StartFound(map, args), NEW k \in rest
       PROVE  f.out = "ready" /\ \A i \in DOMAIN s : Precedes(s[i][1], k, args)
  <2>1. PICK x \in X : /\ x.key = k /\ k \in Int /\ WithinStart(k, args) /\ ~EndsAt(k, args)
                       /\ \/ x \notin A /\ \A j \in DOMAIN s : Precedes(k, s[j][1], args)
                          \/ x \in B /\ \A j \in DOMAIN s : Precedes(s[j][1], k, args)
    BY <1>18, <1>21
  <2>2. A = InStart(args, r)
    BY <1>1, <1>21
  <2>3. x \in B /\ \A j \in DOMAIN s : Precedes(s[j][1], k, args)
    BY <1>10, <2>1, <2>2
  <2>4. \A y \in B : WithinStart(y.key, args)
    BY <1>3, <1>10, <2>2
  <2>5. f.out # "done"
    BY <1>19, <2>1, <2>3, <2>4
  <2>. QED
    BY <1>5, <2>3, <2>5
<1>22. \A k \in rest : \/ \A i \in DOMAIN s : Precedes(k, s[i][1], args)
                       \/ \A i \in DOMAIN s : Precedes(s[i][1], k, args)
  BY <1>18
<1>23. \/ f.out = "ready" /\ Len(s) = n
       \/ f.out = "done" /\ (s # <<>> => \A k \in rest, i \in DOMAIN s : Precedes(k, s[i][1], args))
  BY <1>5, <1>20
<1>24. Run(f, n, C, map, args)
  BY <1>3, <1>11, <1>17, <1>21, <1>22, <1>23 DEF Run, s
<1>. QED
  BY <1>5, <1>24

\* What a scan that wants n entries has passed before the first it gives.
Passes(f, n, map, args) ==
  args.offset > 0 /\ n # 0 /\ StartFound(map, args) =>
    LET passed == {k \in Counted(map, args) : \A i \in DOMAIN f.items : Precedes(k, f.items[i][1], args)}
    IN  /\ Cardinality(passed) <= args.offset
        /\ f.items # <<>> => Cardinality(passed) = args.offset

\* start_bound made inclusive.
Inclusive(args) == [args EXCEPT !.start_inclusive = TRUE]

LEMMA InclusiveIs ==
  ASSUME NEW args, IsArgs(args)
  PROVE  LET wide == Inclusive(args)
         IN  /\ IsArgs(wide) /\ wide.start_inclusive
             /\ wide.start = args.start /\ wide.reverse = args.reverse
             /\ \A j \in Int, k \in Int : Precedes(j, k, wide) <=> Precedes(j, k, args)
             /\ \A k \in Int : WithinStart(k, wide) <=> args.start = None \/ ~Precedes(k, args.start, args)
             /\ \A k \in Int : InRange(k, args) => InRange(k, wide)
             /\ \A k \in Int : k # args.start => (EndsAt(k, wide) <=> EndsAt(k, args))
<1>. DEFINE wide == Inclusive(args)
<1>1. /\ args.start \in Int \cup {None} /\ args.end \in Int \cup {None} /\ args.reverse \in BOOLEAN
      /\ args.start_inclusive \in BOOLEAN /\ args.end_inclusive \in BOOLEAN
  BY DEF IsArgs
<1>2. /\ IsArgs(wide) /\ wide.start_inclusive = TRUE
      /\ wide.start = args.start /\ wide.reverse = args.reverse
      /\ wide.end = args.end /\ wide.end_inclusive = args.end_inclusive
  BY DEF IsArgs, Inclusive
<1>. HIDE DEF wide
<1>3. \A j \in Int, k \in Int : Precedes(j, k, wide) <=> Precedes(j, k, args)
  BY <1>2 DEF Precedes
<1>4. ASSUME NEW k \in Int
      PROVE  /\ WithinStart(k, wide) <=> args.start = None \/ ~Precedes(k, args.start, args)
             /\ InRange(k, args) => InRange(k, wide)
             /\ k # args.start => (EndsAt(k, wide) <=> EndsAt(k, args))
  <2>1. WithinStart(k, wide) <=> args.start = None \/ ~Precedes(k, args.start, args)
    <3>1. CASE args.reverse
      BY <1>1, <1>2, <3>1 DEF WithinStart, Precedes
    <3>2. CASE ~args.reverse
      BY <1>1, <1>2, <3>2 DEF WithinStart, Precedes
    <3>. QED
      BY <3>1, <3>2
  <2>2. InRange(k, args) => InRange(k, wide)
    <3>1. CASE args.reverse
      BY <1>1, <1>2, <3>1 DEF InRange
    <3>2. CASE ~args.reverse
      BY <1>1, <1>2, <3>2 DEF InRange
    <3>. QED
      BY <3>1, <3>2
  <2>3. k # args.start => (EndsAt(k, wide) <=> EndsAt(k, args))
    BY <1>1, <1>2 DEF EndsAt, Above, Below
  <2>. QED
    BY <2>1, <2>2, <2>3
<1>. QED
  BY <1>2, <1>3, <1>4 DEF wide

\* As many keys as entries.
LEMMA KeysCount ==
  ASSUME NEW S, Fit(S), NEW r \in NodesIn(S), NEW Z, Z \subseteq StoredIn(r)
  PROVE  /\ IsFiniteSet(Z) /\ IsFiniteSet({x.key : x \in Z})
         /\ Cardinality({x.key : x \in Z}) = Cardinality(Z)
<1>. DEFINE K == {x.key : x \in Z}
            f == [x \in Z |-> x.key]
<1>1. IsFiniteSet(Z)
  BY StoredCounted, FS_Subset DEF Fit
<1>2. \A x, y \in Z : x.key = y.key => x = y
  BY NodeKeeps DEF OneEach, Fit
<1>3. f \in [Z -> K] /\ \A x \in Z : f[x] = x.key
  OBVIOUS
<1>4. \A k \in K : \E x \in Z : f[x] = k
  BY <1>3
<1>. HIDE DEF f
<1>5. f \in Bijection(Z, K)
  <2>. HIDE DEF K
  <2>. QED
    BY <1>2, <1>3, <1>4 DEF Bijection, Injection, IsInjective, Surjection
<1>6. ExistsBijection(Z, K)
  BY <1>5 DEF ExistsBijection
<1>. HIDE DEF K
<1>7. IsFiniteSet(K) /\ Cardinality(K) = Cardinality(Z)
  BY <1>1, <1>6, FS_Bijection
<1>. QED
  BY <1>1, <1>7 DEF K

\* What a scan passes are the entries that it no longer has ahead when it opens.
LEMMA FetchPasses ==
  ASSUME NEW S, Fit(S), NEW r \in NodesIn(S), r # None, NEW args, IsArgs(args),
         NEW c, Opened(c, args, r, S), NEW n \in Nat, NEW T,
         Fetch(c, n, args, T).out # "ChunkNotFound"
  PROVE  Passes(Fetch(c, n, args, T), n, MapOf(r), args)
<1>. DEFINE f == Fetch(c, n, args, T)
            map == MapOf(r)
            s == f.items
            A == Ahead(c, args, r)
            B == Ahead(f.cursor, args, r)
            X == StoredIn(r)
            wide == Inclusive(args)
            all == FromStart(args, r)
            gone == {x.key : x \in all \ A}
            passed == {k \in Counted(map, args) : \A i \in DOMAIN s : Precedes(k, s[i][1], args)}
<1>1. SUFFICES ASSUME args.offset > 0, n # 0, StartFound(map, args)
               PROVE  /\ Cardinality(passed) <= args.offset
                      /\ s # <<>> => Cardinality(passed) = args.offset
  BY DEF Passes
<1>2. /\ Poised(c, args, r, S) /\ A \subseteq all /\ \A x \in A : x.key # args.start
      /\ IF c.path = <<>> THEN Cardinality(all) <= args.offset
         ELSE Cardinality(all) = Cardinality(A) + args.offset
  BY <1>1 DEF Opened
<1>3. Gathered(f, n, A, args, r, S, T)
  BY <1>2, FetchGathers
<1>4. /\ Poised(f.cursor, args, r, S) /\ B \subseteq A
      /\ s \in Seq(ItemsOf(X)) /\ ToSet(s) = ItemsOf(A \ B)
      /\ \A x \in A \ B : ~EndsAt(x.key, args)
      /\ s = <<>> => f.out = "done" /\ Spent(B, args)
  <2>1. f.out # "ChunkNotFound" /\ Len(<<>>) = 0
    OBVIOUS
  <2>. HIDE DEF f, A, X
  <2>2. s = <<>> => f.out = "done" /\ Spent(B, args)
    BY <1>1, <1>3, <2>1 DEF Gathered
  <2>. QED
    BY <1>3, <2>2 DEF Gathered, X
<1>5. Closed(A, args, r) /\ Closed(B, args, r)
  BY <1>2, <1>4, AheadClosed
<1>6. /\ A \subseteq X /\ B \subseteq X
      /\ \A x \in X \ A, y \in A : Precedes(x.key, y.key, args)
      /\ \A x \in X \ B, y \in B : Precedes(x.key, y.key, args)
  BY <1>5 DEF Closed
<1>7. \A x \in X : x.key \in Int
  BY NodeRange
<1>8. /\ IsArgs(wide)
      /\ \A j \in Int, k \in Int : Precedes(j, k, wide) <=> Precedes(j, k, args)
      /\ \A k \in Int : WithinStart(k, wide) <=> args.start = None \/ ~Precedes(k, args.start, args)
      /\ \A k \in Int : k # args.start => (EndsAt(k, wide) <=> EndsAt(k, args))
  BY InclusiveIs
<1>9. all = {x \in X : WithinStart(x.key, wide)}
  <2>1. all = {x \in X : args.start = None \/ ~Precedes(x.key, args.start, args)}
    BY DEF FromStart
  <2>. HIDE DEF X, wide, all
  <2>2. \A x \in X : WithinStart(x.key, wide) <=> args.start = None \/ ~Precedes(x.key, args.start, args)
    BY <1>7, <1>8
  <2>. QED
    BY <2>1, <2>2
<1>10. Counted(map, args) = {x.key : x \in {x \in X : InRange(x.key, wide)}}
  BY ChosenIs DEF Counted, Inclusive
<1>11. \A j \in Int, k \in Int :
         /\ InRange(k, wide) <=> WithinStart(k, wide) /\ ~EndsAt(k, wide)
         /\ WithinStart(j, wide) /\ EndsAt(j, wide) /\ Precedes(j, k, args) => EndsAt(k, wide)
  BY <1>8, RangeIs
<1>12. c.path = <<>> => A = {}
  BY DEF Ahead
<1>13. DOMAIN s = 1..Len(s) /\ ToSet(s) = {s[i] : i \in DOMAIN s}
  BY <1>4 DEF ToSet
<1>. HIDE DEF f, map, s, A, B, X, wide, all
<1>14. \A i \in DOMAIN s : \E x \in A \ B : s[i] = <<x.key, ValueOf(x.value)>>
  BY <1>4, <1>13 DEF ItemsOf
<1>15. \A x \in A \ B : \E i \in DOMAIN s : s[i] = <<x.key, ValueOf(x.value)>>
  BY <1>4, <1>13 DEF ItemsOf
<1>16. all \subseteq X
  BY <1>9
<1>17. /\ IsFiniteSet(all) /\ IsFiniteSet(all \ A) /\ IsFiniteSet(gone) /\ IsFiniteSet(A)
       /\ Cardinality(gone) = Cardinality(all \ A)
  <2>1. IsFiniteSet(all) /\ IsFiniteSet(A)
    BY <1>6, <1>16, KeysCount DEF X
  <2>2. all \ A \subseteq X
    BY <1>16
  <2>. DEFINE Z == all \ A
  <2>. HIDE DEF Z
  <2>3. Z \subseteq StoredIn(r)
    BY <2>2 DEF X, Z
  <2>4. IsFiniteSet(Z) /\ IsFiniteSet({x.key : x \in Z}) /\ Cardinality({x.key : x \in Z}) = Cardinality(Z)
    BY <2>3, KeysCount
  <2>. QED
    BY <2>1, <2>4 DEF Z
<1>18. Cardinality(gone) <= args.offset /\ (A # {} => Cardinality(gone) = args.offset)
  <2>1. Cardinality(all \ A) = Cardinality(all) - Cardinality(all \cap A)
    BY <1>17, FS_Difference
  <2>2. all \cap A = A
    BY <1>2
  <2>3. Cardinality(all) \in Nat /\ Cardinality(A) \in Nat /\ args.offset \in Nat
    BY <1>17, FS_CardinalityType DEF IsArgs
  <2>4. CASE c.path = <<>>
    <3>1. A = {} /\ Cardinality(A) = 0
      BY <1>12, <2>4, FS_EmptySet
    <3>2. Cardinality(all \ A) = Cardinality(all)
      BY <2>1, <2>2, <2>3, <3>1
    <3>. QED
      BY <1>2, <1>17, <2>4, <3>1, <3>2
  <2>5. CASE c.path # <<>>
    <3>. DEFINE total == Cardinality(all)
                ahead == Cardinality(A)
                rest == Cardinality(all \ A)
    <3>1. total = ahead + args.offset
      BY <1>2, <2>5
    <3>2. rest = total - ahead
      BY <2>1, <2>2
    <3>3. total \in Nat /\ ahead \in Nat /\ args.offset \in Nat
      BY <2>3
    <3>. HIDE DEF total, ahead, rest
    <3>4. rest = args.offset
      BY <3>1, <3>2, <3>3
    <3>5. Cardinality(gone) = args.offset
      BY <1>17, <3>4 DEF rest
    <3>. QED
      BY <2>3, <3>5
  <2>. QED
    BY <2>4, <2>5
<1>19. CASE s # <<>>
  <2>1. 1 \in DOMAIN s
    BY <1>4, <1>13, <1>19
  <2>2. PICK y \in A \ B : s[1] = <<y.key, ValueOf(y.value)>>
    BY <1>14, <2>1
  <2>3. y.key \in Int /\ y \in all /\ InRange(y.key, wide)
    <3>1. y.key \in Int /\ y \in all /\ y.key # args.start /\ ~EndsAt(y.key, args)
      BY <1>2, <1>4, <1>6, <1>7, <2>2
    <3>2. ~EndsAt(y.key, wide)
      <4>1. EndsAt(y.key, wide) <=> EndsAt(y.key, args)
        BY <1>8, <3>1
      <4>. QED
        BY <3>1, <4>1
    <3>3. WithinStart(y.key, wide)
      BY <1>9, <3>1
    <3>. QED
      BY <1>11, <3>1, <3>2, <3>3
  <2>4. ASSUME NEW x \in all \ A
        PROVE  x.key \in passed
    <3>1. x \in X /\ x.key \in Int /\ WithinStart(x.key, wide)
      BY <1>7, <1>9, <2>4
    <3>2. \A z \in A : Precedes(x.key, z.key, args)
      BY <1>6, <2>4, <3>1
    <3>3. ~EndsAt(x.key, wide)
      BY <1>11, <2>2, <2>3, <3>1, <3>2
    <3>4. x.key \in Counted(map, args)
      BY <1>10, <1>11, <3>1, <3>3
    <3>5. \A i \in DOMAIN s : Precedes(x.key, s[i][1], args)
      <4>. SUFFICES ASSUME NEW i \in DOMAIN s
                    PROVE  Precedes(x.key, s[i][1], args)
        OBVIOUS
      <4>1. PICK z \in A \ B : s[i] = <<z.key, ValueOf(z.value)>>
        BY <1>14
      <4>2. s[i][1] = z.key
        BY <4>1
      <4>. QED
        BY <3>2, <4>2
    <3>. QED
      BY <3>4, <3>5
  <2>5. ASSUME NEW k \in passed
        PROVE  k \in gone
    <3>1. PICK x \in X : x.key = k /\ InRange(k, wide)
      BY <1>10
    <3>2. k \in Int /\ x \in all
      BY <1>7, <1>9, <1>11, <3>1
    <3>3. Precedes(k, y.key, args)
      <4>1. Precedes(k, s[1][1], args)
        BY <2>1
      <4>. QED
        BY <2>2, <4>1
    <3>4. x \notin B
      <4>. SUFFICES ASSUME x \in B
                    PROVE  FALSE
        OBVIOUS
      <4>1. Precedes(y.key, k, args)
        BY <1>6, <2>2, <3>1
      <4>. QED
        BY <2>3, <3>2, <3>3, <4>1, PrecedesIs
    <3>5. x \notin A
      <4>. SUFFICES ASSUME x \in A
                    PROVE  FALSE
        OBVIOUS
      <4>1. PICK i \in DOMAIN s : s[i] = <<x.key, ValueOf(x.value)>>
        BY <1>15, <3>4
      <4>2. s[i][1] = k
        BY <3>1, <4>1
      <4>3. Precedes(k, k, args)
        BY <4>2
      <4>. QED
        BY <3>2, <4>3, PrecedesIs
    <3>. QED
      BY <3>1, <3>2, <3>5
  <2>6. passed = gone
    BY <2>4, <2>5
  <2>. HIDE DEF passed, gone
  <2>. QED
    BY <1>17, <1>18, <2>2, <2>6
<1>20. CASE s = <<>>
  <2>1. A = B
    <3>1. DOMAIN s = {}
      BY <1>20
    <3>. QED
      BY <1>4, <1>15, <3>1
  <2>2. ASSUME NEW k \in passed
        PROVE  k \in gone
    <3>1. PICK x \in X : x.key = k /\ InRange(k, wide)
      BY <1>10
    <3>2. k \in Int /\ x \in all /\ ~EndsAt(k, wide)
      BY <1>7, <1>9, <1>11, <3>1
    <3>3. ASSUME x \in A
          PROVE  FALSE
      <4>1. PICK e \in A : IsNearest(e, A, args) /\ EndsAt(e.key, args)
        BY <1>4, <1>20, <2>1, <3>3 DEF Spent
      <4>2. e.key \in Int /\ e.key # args.start /\ WithinStart(e.key, wide)
        BY <1>2, <1>6, <1>7, <1>9, <4>1
      <4>3. EndsAt(e.key, wide)
        <5>1. EndsAt(e.key, wide) <=> EndsAt(e.key, args)
          BY <1>8, <4>2
        <5>. QED
          BY <4>1, <5>1
      <4>4. x = e \/ Precedes(e.key, x.key, args)
        BY <3>3, <4>1 DEF IsNearest
      <4>. QED
        BY <1>11, <3>1, <3>2, <4>2, <4>3, <4>4
    <3>. QED
      BY <3>1, <3>2, <3>3
  <2>3. passed \subseteq gone
    BY <2>2
  <2>. HIDE DEF passed, gone
  <2>4. Cardinality(passed) <= Cardinality(gone) /\ IsFiniteSet(passed)
    BY <1>17, <2>3, FS_Subset
  <2>5. Cardinality(passed) \in Nat /\ Cardinality(gone) \in Nat /\ args.offset \in Nat
    BY <1>17, <2>4, FS_CardinalityType DEF IsArgs
  <2>. QED
    BY <1>18, <1>20, <2>4, <2>5
<1>. QED
  BY <1>19, <1>20

\* An empty tree has nothing to fetch.
LEMMA EmptyRuns ==
  ASSUME NEW args, IsArgs(args), NEW n \in Nat, NEW T
  PROVE  LET f == Fetch([path |-> <<>>, at |-> 1], n, args, T)
         IN  /\ f.out \in {"ready", "done"} /\ Run(f, n, Chosen(MapOf(None), args), MapOf(None), args)
             /\ Passes(f, n, MapOf(None), args)
<1>. DEFINE c == [path |-> <<>>, at |-> 1]
            steps == Fetching(c, args, T)
            At(m) == [cursor |-> c, items |-> <<>>, out |-> IF m = 0 THEN "ready" ELSE "done"]
            Bad == {m \in Nat : steps[m] # At(m)}
<1>1. steps[0] = [cursor |-> c, items |-> <<>>, out |-> "ready"]
      /\ \A m \in Nat : steps[m + 1] = FetchNext(steps[m], args, T)
  BY FetchingStep
<1>2. NextInScan(c, args, T) = Outcome(<<>>, 1, "done")
  BY DEF NextInScan
<1>3. steps[0] = At(0)
  BY <1>1
<1>4. \A m \in Nat : FetchNext(At(m), args, T) = At(m + 1)
  <2>. SUFFICES ASSUME NEW m \in Nat
                PROVE  FetchNext(At(m), args, T) = At(m + 1)
    OBVIOUS
  <2>. DEFINE next == NextInScan(c, args, T)
  <2>0. At(m).cursor = c /\ next.out = "done"
    BY <1>2 DEF Outcome
  <2>. HIDE DEF next
  <2>1. At(m + 1) = [cursor |-> c, items |-> <<>>, out |-> "done"]
    OBVIOUS
  <2>2. CASE m = 0
    <3>1. FetchNext(At(m), args, T) = [At(m) EXCEPT !.out = next.out]
      BY <2>0, <2>2 DEF FetchNext, next
    <3>. QED
      BY <2>0, <2>1, <3>1
  <2>3. CASE m # 0
    <3>1. At(m) = [cursor |-> c, items |-> <<>>, out |-> "done"]
      BY <2>3
    <3>2. FetchNext(At(m), args, T) = At(m)
      BY <3>1 DEF FetchNext
    <3>. QED
      BY <2>1, <3>1, <3>2
  <2>. QED
    BY <2>2, <2>3
<1>. HIDE DEF steps, At
<1>5. Bad = {}
  <2>. SUFFICES ASSUME Bad # {}
                PROVE  FALSE
    OBVIOUS
  <2>1. PICK m \in Bad : \A u \in Bad : m =< u
    <3>. HIDE DEF Bad
    <3>1. Bad \subseteq Nat
      BY DEF Bad
    <3>. QED
      BY <3>1, LeastNatural
  <2>2. m # 0
    BY <1>3, <2>1
  <2>3. m - 1 \in Nat /\ m - 1 \notin Bad /\ (m - 1) + 1 = m
    <3>1. m \in Nat /\ \A u \in Bad : m =< u
      BY <2>1
    <3>. HIDE DEF Bad
    <3>. QED
      BY <2>2, <3>1
  <2>4. steps[m - 1] = At(m - 1)
    BY <2>3
  <2>5. steps[(m - 1) + 1] = FetchNext(steps[m - 1], args, T)
    BY <1>1, <2>3
  <2>6. steps[m] = At(m)
    BY <1>4, <2>3, <2>4, <2>5
  <2>. QED
    BY <2>1, <2>6
<1>. DEFINE f == Fetch(c, n, args, T)
<1>6. f = [cursor |-> c, items |-> <<>>, out |-> IF n = 0 THEN "ready" ELSE "done"]
  BY <1>5 DEF Fetch, steps, At
<1>7. Chosen(MapOf(None), args) = {}
  BY DEF Chosen, MapOf
<1>8. f.items = <<>> /\ ((f.out = "ready" /\ n = 0) \/ f.out = "done")
  BY <1>6
<1>. HIDE DEF f
<1>9. <<>> \in Seq({}) /\ DOMAIN <<>> = {} /\ Len(<<>>) = 0
  OBVIOUS
<1>10. Run(f, n, {}, MapOf(None), args)
  BY <1>8, <1>9 DEF Run
<1>11. Counted(MapOf(None), args) = {}
  BY DEF Counted, Chosen, MapOf
<1>12. Passes(f, n, MapOf(None), args)
  <2>. DEFINE passed == {k \in Counted(MapOf(None), args) : \A i \in DOMAIN f.items : Precedes(k, f.items[i][1], args)}
  <2>1. passed = {}
    BY <1>11
  <2>2. Cardinality(passed) = 0 /\ args.offset \in Nat
    BY <2>1, FS_EmptySet DEF IsArgs
  <2>. HIDE DEF passed
  <2>3. Cardinality(passed) <= args.offset
    BY <2>2
  <2>. QED
    BY <1>8, <2>3 DEF Passes, passed
<1>. QED
  BY <1>7, <1>8, <1>10, <1>12 DEF f, c

\* The tree is one that a well-formed store holds, complete or not here.
TreeFit == root # None => \E S : Fit(S) /\ root \in NodesIn(S)

\* What a scan fetches of a tree.
LEMMA ScanRuns ==
  ASSUME NEW r, r # None => \E S : Fit(S) /\ r \in NodesIn(S), NEW args, IsArgs(args),
         NEW n \in Nat, NEW T
  PROVE  LET f == Fetched(r, args, n, T)
         IN  \/ f.out = "ChunkNotFound" /\ ~(ChunksUnder(r) \subseteq T)
             \/ /\ f.out \in {"ready", "done"} /\ Run(f, n, Chosen(MapOf(r), args), MapOf(r), args)
                /\ Passes(f, n, MapOf(r), args)
<1>. DEFINE f == Fetched(r, args, n, T)
            o == NewForScan(r, args, T)
<1>1. f = IF o.out = "ready" THEN Fetch(o.cursor, n, args, T) ELSE [items |-> <<>>, out |-> o.out]
  BY DEF Fetched
<1>2. CASE r = None
  <2>1. o = Outcome(<<>>, 1, "ready")
    <3>. DEFINE opened == Open(r, GoalOf(args), T)
                skipped == SkipOffset([path |-> opened.path,
                                       at |-> StartIn(Last(opened.path).node.entries, args)],
                                      args.offset, args, T)
    <3>1. o = CASE opened.out = "end" -> Outcome(<<>>, 1, "ready")
                [] opened.out = "leaf" /\ skipped.out = "ready" ->
                     [skipped EXCEPT !.cursor = SkipExcluded(@, args)]
                [] opened.out = "leaf" /\ skipped.out # "ready" -> skipped
                [] OTHER -> Outcome(opened.path, 1, opened.out)
      BY DEF NewForScan, GoalOf
    <3>2. opened.out = "end"
      BY <1>2 DEF Open
    <3>. HIDE DEF o, opened, skipped
    <3>. QED
      BY <3>1, <3>2
  <2>2. o.out = "ready" /\ o.cursor = [path |-> <<>>, at |-> 1]
    BY <2>1 DEF Outcome
  <2>3. f = Fetch([path |-> <<>>, at |-> 1], n, args, T)
    <3>. HIDE DEF f, o
    <3>. QED
      BY <1>1, <2>2
  <2>. HIDE DEF f
  <2>4. /\ f.out \in {"ready", "done"} /\ Run(f, n, Chosen(MapOf(None), args), MapOf(None), args)
        /\ Passes(f, n, MapOf(None), args)
    BY <2>3, EmptyRuns
  <2>. QED
    BY <1>2, <2>4 DEF f
<1>3. CASE r # None
  <2>1. PICK S : Fit(S) /\ r \in NodesIn(S)
    BY <1>3
  <2>2. \/ o.out = "ready" /\ Opened(o.cursor, args, r, S)
        \/ o.out = "ChunkNotFound" /\ ~(ChunksUnder(r) \subseteq T)
    BY <1>3, <2>1, ScanOpens
  <2>. HIDE DEF f, o
  <2>3. CASE o.out = "ready" /\ Opened(o.cursor, args, r, S)
    <3>1. f = Fetch(o.cursor, n, args, T)
      BY <1>1, <2>3
    <3>. DEFINE c == o.cursor
    <3>2. Opened(c, args, r, S) /\ f = Fetch(c, n, args, T)
      BY <2>3, <3>1
    <3>. HIDE DEF c
    <3>3. \/ f.out = "ChunkNotFound" /\ ~(ChunksUnder(r) \subseteq T)
          \/ f.out \in {"ready", "done"} /\ Run(f, n, Chosen(MapOf(r), args), MapOf(r), args)
      BY <1>3, <2>1, <3>2, FetchRuns
    <3>4. f.out # "ChunkNotFound" => Passes(f, n, MapOf(r), args)
      BY <1>3, <2>1, <3>2, FetchPasses
    <3>. QED
      BY <3>3, <3>4 DEF f
  <2>4. CASE o.out = "ChunkNotFound" /\ ~(ChunksUnder(r) \subseteq T)
    <3>1. f = [items |-> <<>>, out |-> "ChunkNotFound"]
      BY <1>1, <2>4
    <3>2. f.out = "ChunkNotFound"
      BY <3>1
    <3>. QED
      BY <2>4, <3>2 DEF f
  <2>. QED
    BY <2>2, <2>3, <2>4
<1>. QED
  BY <1>2, <1>3

LEMMA LimitIs ==
  ASSUME NEW r, r # None => \E S : Fit(S) /\ r \in NodesIn(S), NEW args, IsArgs(args)
  PROVE  LET limit == Limit(r, args)
         IN  /\ limit \in Nat
             /\ args.limit # None => args.limit = limit
             /\ args.limit = None => limit # 0
<1>. DEFINE limit == Limit(r, args)
<1>1. args.limit \in Nat \cup {None}
  BY DEF IsArgs
<1>2. Unlimited(r) \in Nat \ {0}
  <2>1. CASE r = None
    BY <2>1 DEF Unlimited
  <2>2. CASE r # None
    <3>1. PICK S : Fit(S) /\ r \in NodesIn(S)
      BY <2>2
    <3>2. IsFiniteSet(StoredIn(r))
      BY <3>1, StoredCounted DEF Fit
    <3>3. Cardinality(StoredIn(r)) \in Nat
      BY <3>2, FS_CardinalityType
    <3>. QED
      BY <2>2, <3>3 DEF Unlimited
  <2>. QED
    BY <2>1, <2>2
<1>. QED
  BY <1>1, <1>2 DEF Limit

\* What comes before the first entry of a page comes before all of it.
LEMMA PageCounts ==
  ASSUME NEW map, NEW args, Chosen(map, args) \subseteq Int, Counted(map, args) \subseteq Int,
         NEW f, NEW n, n # 0, NEW limit \in Nat, args.limit # 0 => limit # 0,
         Run(f, n, Chosen(map, args), map, args), Passes(f, n, map, args),
         NEW page, page.items = FirstOf(f.items, limit)
  PROVE  CountingPage(page, map, args)
<1>. DEFINE s == f.items
            t == page.items
            C == Chosen(map, args)
            D == Counted(map, args)
<1>1. SUFFICES ASSUME args.offset > 0, args.limit # 0, StartFound(map, args)
               PROVE  LET passed == {k \in D : Behind(k, page, args)}
                      IN  /\ Cardinality(passed) <= args.offset
                          /\ t # <<>> => Cardinality(passed) = args.offset
  BY DEF CountingPage
<1>2. PICK U : s \in Seq(U)
  BY DEF Run
<1>3. /\ Len(s) \in Nat /\ DOMAIN s = 1..Len(s) /\ t \in Seq(U)
      /\ Len(t) \in Nat /\ Len(t) = (IF limit <= Len(s) THEN limit ELSE Len(s))
      /\ KeysGiven(page) = {s[i][1] : i \in 1..Len(t)}
  <2>1. Len(s) \in Nat /\ DOMAIN s = 1..Len(s)
    BY <1>2
  <2>2. t \in Seq(U) /\ Len(t) \in Nat /\ Len(t) = (IF limit <= Len(s) THEN limit ELSE Len(s))
    BY <1>2, FirstOfIs
  <2>3. KeysGiven(page) = {s[i][1] : i \in 1..Len(t)}
    BY <1>2, OnPage
  <2>. HIDE DEF s, t
  <2>. QED
    BY <2>1, <2>2, <2>3
<1>4. limit # 0
  BY <1>1
<1>5. /\ \A i \in DOMAIN s : s[i][1] \in C
      /\ \A i, j \in DOMAIN s : i < j => Precedes(s[i][1], s[j][1], args)
  BY DEF Run
<1>6. LET passed == {k \in D : \A i \in DOMAIN s : Precedes(k, s[i][1], args)}
      IN  /\ Cardinality(passed) <= args.offset
          /\ s # <<>> => Cardinality(passed) = args.offset
  BY <1>1 DEF Passes
<1>. HIDE DEF s, t, C, D
<1>7. ASSUME NEW k \in D
      PROVE  Behind(k, page, args) <=> \A i \in DOMAIN s : Precedes(k, s[i][1], args)
  <2>1. Behind(k, page, args) <=> \A i \in 1..Len(t) : Precedes(k, s[i][1], args)
    BY <1>3 DEF Behind
  <2>2. 1..Len(t) \subseteq DOMAIN s
    BY <1>3
  <2>3. ASSUME NEW i \in DOMAIN s, \A j \in 1..Len(t) : Precedes(k, s[j][1], args)
        PROVE  Precedes(k, s[i][1], args)
    <3>1. 1 \in 1..Len(t) /\ 1 \in DOMAIN s /\ (i = 1 \/ 1 < i)
      BY <1>3, <1>4
    <3>2. Precedes(k, s[1][1], args)
      BY <2>3, <3>1
    <3>3. k \in Int /\ s[1][1] \in Int /\ s[i][1] \in Int
      BY <1>5, <3>1 DEF C, D
    <3>4. CASE 1 < i
      BY <1>5, <3>1, <3>2, <3>3, <3>4, PrecedesIs
    <3>. QED
      BY <3>1, <3>2, <3>4
  <2>. QED
    BY <2>1, <2>2, <2>3
<1>8. {k \in D : Behind(k, page, args)} = {k \in D : \A i \in DOMAIN s : Precedes(k, s[i][1], args)}
  BY <1>7
<1>9. t # <<>> => s # <<>>
  <2>. SUFFICES ASSUME s = <<>>
                PROVE  t = <<>>
    OBVIOUS
  <2>1. Len(s) = 0
    OBVIOUS
  <2>2. Len(t) = 0
    BY <1>3, <1>4, <2>1
  <2>. QED
    BY <1>3, <2>2
<1>. QED
  BY <1>6, <1>8, <1>9

\* A page, of either scan.
LEMMA ScanPages ==
  ASSUME NEW r, r # None => \E S : Fit(S) /\ r \in NodesIn(S), NEW args, IsArgs(args), NEW T,
         NEW op, NEW page, \/ op = "scanItems" /\ page = Scan(r, args, T)
                           \/ op = "scanItemsSync" /\ page = ScanSync(r, args, T)
  PROVE  \/ /\ page.out = "page" /\ (\E U : page.items \in Seq(U))
            /\ FaithfulPage(page, MapOf(r), args) /\ JoiningPage(page, MapOf(r), args, op)
            /\ CountingPage(page, MapOf(r), args)
         \/ page.out # "page" /\ ~(ChunksUnder(r) \subseteq T)
<1>. DEFINE limit == Limit(r, args)
            n == Wanted(op, limit)
            f == Fetched(r, args, n, T)
            map == MapOf(r)
            named == LastKey(FirstOf(f.items, Named(op, limit)))
<1>1. /\ limit \in Nat
      /\ args.limit # None => args.limit = limit
      /\ args.limit = None => limit # 0
  BY LimitIs
<1>2. n \in Nat
  BY <1>1 DEF Wanted
<1>3. \/ f.out = "ChunkNotFound" /\ ~(ChunksUnder(r) \subseteq T)
      \/ /\ f.out \in {"ready", "done"} /\ Run(f, n, Chosen(map, args), map, args)
         /\ Passes(f, n, map, args)
  <2>. HIDE DEF n
  <2>. QED
    BY <1>2, ScanRuns
<1>4. \E earlier : page = Page(f, limit, Named(op, limit), earlier)
  <2>1. CASE op = "scanItems"
    BY <2>1 DEF Scan, Wanted, Named
  <2>2. CASE op = "scanItemsSync"
    BY <2>2 DEF ScanSync, Wanted, Named
  <2>. QED
    BY <2>1, <2>2
<1>5. Chosen(map, args) \subseteq Int /\ Counted(map, args) \subseteq Int
  <2>1. CASE r = None
    BY <2>1 DEF Counted, Chosen, MapOf
  <2>2. CASE r # None
    BY <2>2, ChosenIs DEF Counted
  <2>. QED
    BY <2>1, <2>2
<1>6. op \in {"scanItems", "scanItemsSync"}
  OBVIOUS
<1>7. args.limit # 0 => limit # 0 /\ n # 0
  BY <1>1 DEF Wanted
<1>. HIDE DEF limit, n, f, map
<1>8. CASE f.out = "ChunkNotFound" /\ ~(ChunksUnder(r) \subseteq T)
  <2>1. page = FailedPage("ChunkNotFound")
    BY <1>4, <1>8 DEF Page, Failed
  <2>. QED
    BY <1>8, <2>1 DEF FailedPage
<1>9. CASE f.out \in {"ready", "done"} /\ Run(f, n, Chosen(map, args), map, args) /\ Passes(f, n, map, args)
  <2>1. PICK earlier : page = Page(f, limit, Named(op, limit), earlier)
    BY <1>4
  <2>. DEFINE more == Len(f.items) > limit
              items == FirstOf(f.items, limit)
              first == FirstKey(f.items)
  <2>2. page = [out |-> "page", items |-> items, has_next_page |-> more,
                has_previous_page |-> earlier,
                next_page_cursor |-> IF more THEN named ELSE None,
                previous_page_cursor |-> first]
    BY <1>9, <2>1 DEF Page, Failed
  <2>. HIDE DEF items, first, named
  <2>3. /\ page.out = "page" /\ page.items = items
        /\ page.has_next_page <=> more
        /\ page.has_next_page => page.next_page_cursor = named
    BY <2>2
  <2>4. FaithfulPage(page, map, args)
    BY <1>1, <1>5, <1>9, <2>3, PageFaithful DEF items
  <2>5. JoiningPage(page, map, args, op)
    BY <1>1, <1>5, <1>6, <1>9, <2>3, PageJoins DEF items, named, n
  <2>6. \E U : items \in Seq(U)
    <3>1. PICK U : f.items \in Seq(U)
      BY <1>9 DEF Run
    <3>. QED
      BY <1>1, <3>1, FirstOfIs DEF items
  <2>7. CountingPage(page, map, args)
    <3>1. CASE args.limit = 0
      BY <3>1 DEF CountingPage
    <3>2. CASE args.limit # 0
      BY <1>1, <1>5, <1>9, <1>7, <2>3, <3>2, PageCounts DEF items
    <3>. QED
      BY <3>1, <3>2
  <2>. QED
    BY <2>3, <2>4, <2>5, <2>6, <2>7 DEF map
<1>. QED
  BY <1>3, <1>8, <1>9

LEMMA ScansKeep ==
  ASSUME TreeFit, [ScanStep \/ FileStep \/ OtherStep]_readVars, ScanSound, PagesJoin, OffsetsCount
  PROVE  ScanSound' /\ PagesJoin' /\ OffsetsCount'
<1>1. CASE ScanStep
  <2>1. PICK args : ScanItems(args) \/ ScanItemsSync(args)
    BY <1>1 DEF ScanStep
  <2>2. /\ IsArgs(args) /\ request'.args = args /\ root' = root /\ store' = store
        /\ \/ request'.op = "scanItems" /\ reply' = Scan(root, args, store)
           \/ request'.op = "scanItemsSync" /\ reply' = ScanSync(root, args, store)
    BY <2>1 DEF ScanItems, ScanItemsSync, Replies, sharedVars
  <2>. DEFINE page == reply'
              op == request'.op
  <2>3. \/ page.out = "page" /\ FaithfulPage(page, MapOf(root), args)
           /\ JoiningPage(page, MapOf(root), args, op) /\ CountingPage(page, MapOf(root), args)
        \/ page.out # "page" /\ ~(ChunksUnder(root) \subseteq store)
    BY <2>2, ScanPages DEF TreeFit
  <2>4. /\ ScanSound' <=> (Scanned' => IF page.out = "page" THEN FaithfulPage(page, MapOf(root), args)
                                       ELSE ~(ChunksUnder(root) \subseteq store))
        /\ PagesJoin' <=> (Scanned' /\ page.out = "page" => JoiningPage(page, MapOf(root), args, op))
        /\ OffsetsCount' <=> (Scanned' /\ page.out = "page" => CountingPage(page, MapOf(root), args))
    BY <2>2 DEF ScanSound, PagesJoin, OffsetsCount
  <2>. QED
    BY <2>3, <2>4
<1>2. CASE FileStep \/ OtherStep
  <2>1. ~Scanned'
    BY <1>2 DEF FileStep, LoadFile, Replies, OtherStep, Scanned
  <2>. QED
    BY <2>1 DEF ScanSound, PagesJoin, OffsetsCount
<1>3. CASE UNCHANGED readVars
  <2>1. root' = root /\ store' = store /\ request' = request /\ reply' = reply
    BY <1>3 DEF readVars, sharedVars
  <2>. QED
    BY <2>1 DEF ScanSound, PagesJoin, OffsetsCount, Scanned
<1>. QED
  BY <1>1, <1>2, <1>3

(***************************************************************************)
(* Whatever a tree is scanned for, with chunks lost or not, and whatever   *)
(* happens to it between two scans: a page holds entries within the        *)
(* bounds, in order and without gaps, no more than asked for, and only a   *)
(* lost chunk makes a scan fail.                                           *)
(***************************************************************************)
THEOREM ScansStaySound == ReadsSpec /\ []TreeFit => []ScanSound
<1>1. ReadsSpec => ~Scanned /\ [][ScanStep \/ FileStep \/ OtherStep]_readVars
  BY DEF ReadsSpec, Scanned
<1>2. ~Scanned => ScanSound /\ PagesJoin /\ OffsetsCount
  BY DEF ScanSound, PagesJoin, OffsetsCount
<1>3. /\ TreeFit /\ ScanSound /\ PagesJoin /\ OffsetsCount
      /\ [ScanStep \/ FileStep \/ OtherStep]_readVars
      => ScanSound' /\ PagesJoin' /\ OffsetsCount'
  BY ScansKeep
<1>. QED
  BY <1>1, <1>2, <1>3, PTL

(***************************************************************************)
(* Each of those pages tells whether the tree has more, and where the next *)
(* page begins: following the cursors, an application meets every entry    *)
(* in range once.                                                          *)
(***************************************************************************)
THEOREM PagesKeepJoining == ReadsSpec /\ []TreeFit => []PagesJoin
<1>1. ReadsSpec => ~Scanned /\ [][ScanStep \/ FileStep \/ OtherStep]_readVars
  BY DEF ReadsSpec, Scanned
<1>2. ~Scanned => ScanSound /\ PagesJoin /\ OffsetsCount
  BY DEF ScanSound, PagesJoin, OffsetsCount
<1>3. /\ TreeFit /\ ScanSound /\ PagesJoin /\ OffsetsCount
      /\ [ScanStep \/ FileStep \/ OtherStep]_readVars
      => ScanSound' /\ PagesJoin' /\ OffsetsCount'
  BY ScansKeep
<1>. QED
  BY <1>1, <1>2, <1>3, PTL

(***************************************************************************)
(* And an offset passes exactly as many entries as it says, across leaves  *)
(* and in both directions, or all if there are fewer.                      *)
(***************************************************************************)
THEOREM OffsetsKeepCounting == ReadsSpec /\ []TreeFit => []OffsetsCount
<1>1. ReadsSpec => ~Scanned /\ [][ScanStep \/ FileStep \/ OtherStep]_readVars
  BY DEF ReadsSpec, Scanned
<1>2. ~Scanned => ScanSound /\ PagesJoin /\ OffsetsCount
  BY DEF ScanSound, PagesJoin, OffsetsCount
<1>3. /\ TreeFit /\ ScanSound /\ PagesJoin /\ OffsetsCount
      /\ [ScanStep \/ FileStep \/ OtherStep]_readVars
      => ScanSound' /\ PagesJoin' /\ OffsetsCount'
  BY ScansKeep
<1>. QED
  BY <1>1, <1>2, <1>3, PTL
-----------------------------------------------------------------------------
(***************************************************************************)
(* Pages of a tree that is edited meanwhile.                               *)
(***************************************************************************)
\* Where the scan goes on from key j.
LEMMA NextArgs ==
  ASSUME NEW args, CanPage(args), NEW j \in Int, j # None, NEW inclusive \in BOOLEAN
  PROVE  LET next == [args EXCEPT !.start = j, !.start_inclusive = inclusive]
         IN  /\ CanPage(next) /\ next.end = args.end /\ next.end_inclusive = args.end_inclusive
             /\ \A k \in Int : WithinStart(k, next) <=> j < k \/ (k = j /\ inclusive)
<1>. DEFINE next == [args EXCEPT !.start = j, !.start_inclusive = inclusive]
<1>1. /\ args \in [start : Int \cup {None}, start_inclusive : BOOLEAN,
                   end : Int \cup {None}, end_inclusive : BOOLEAN,
                   reverse : BOOLEAN, offset : Nat, limit : Nat \cup {None}]
      /\ ~args.reverse /\ args.offset = 0 /\ args.limit # 0
  BY DEF CanPage, IsArgs
<1>2. /\ next \in [start : Int \cup {None}, start_inclusive : BOOLEAN,
                   end : Int \cup {None}, end_inclusive : BOOLEAN,
                   reverse : BOOLEAN, offset : Nat, limit : Nat \cup {None}]
      /\ next.start = j /\ next.start_inclusive = inclusive
      /\ next.end = args.end /\ next.end_inclusive = args.end_inclusive
      /\ ~next.reverse /\ next.offset = 0 /\ next.limit # 0
  BY <1>1
<1>. HIDE DEF next
<1>3. CanPage(next)
  BY <1>2 DEF CanPage, IsArgs
<1>4. \A k \in Int : WithinStart(k, next) <=> j < k \/ (k = j /\ inclusive)
  BY <1>2 DEF WithinStart, Precedes
<1>. QED
  BY <1>2, <1>3, <1>4 DEF next

\* Two ranges that end at the same key.
LEMMA EndsAlike ==
  ASSUME NEW asked, CanPage(asked), NEW args, CanPage(args),
         args.end = asked.end, args.end_inclusive = asked.end_inclusive, NEW k \in Int
  PROVE  /\ InRange(k, args) <=> WithinStart(k, args) /\ ~EndsAt(k, asked)
         /\ InRange(k, asked) <=> WithinStart(k, asked) /\ ~EndsAt(k, asked)
<1>1. EndsAt(k, args) <=> EndsAt(k, asked)
  BY DEF EndsAt, CanPage
<1>2. IsArgs(args) /\ IsArgs(asked)
  BY DEF CanPage
<1>. QED
  BY <1>1, <1>2, RangeIs

\* What is left of a range after the entries that were given: it is asked for with args.
LeftOf(asked, args, given) ==
  /\ CanPage(args) /\ args.end = asked.end /\ args.end_inclusive = asked.end_inclusive
  /\ \A k \in Int : WithinStart(k, args) =>
       WithinStart(k, asked) /\ \A i \in DOMAIN given : given[i][1] < k

\* What was there all along was given, or is left.
Accounted(asked, args, more, given, all) ==
  \A item \in all : InRange(item[1], asked) =>
    item \in ToSet(given) \/ (more /\ WithinStart(item[1], args))

\* Entries in order, whatever else they are.
Rising(given) ==
  /\ \E U : given \in Seq(U)
  /\ \A i \in DOMAIN given : given[i][1] \in Int
  /\ \A i, j \in DOMAIN given : i < j => given[i][1] < given[j][1]

\* What a page gives comes after what was given, and is in the range asked for.
LEMMA PageRises ==
  ASSUME NEW asked, CanPage(asked), NEW args, NEW given, Rising(given), LeftOf(asked, args, given),
         NEW map, DOMAIN map \subseteq Int, NEW page, \E U : page.items \in Seq(U),
         FaithfulPage(page, map, args)
  PROVE  LET now == given \o page.items
         IN  /\ Rising(now)
             /\ ToSet(now) = ToSet(given) \cup ToSet(page.items)
             /\ \A item \in ToSet(page.items) :
                  /\ item[1] \in DOMAIN map /\ item = <<item[1], map[item[1]]>>
                  /\ InRange(item[1], asked)
<1>. DEFINE now == given \o page.items
            t == page.items
            n == Len(given)
            m == Len(t)
<1>1. PICK U1, U2 : given \in Seq(U1) /\ t \in Seq(U2)
  BY DEF Rising
<1>2. given \in Seq(U1 \cup U2) /\ t \in Seq(U1 \cup U2)
  <2>1. n \in Nat /\ given \in [1..n -> U1] /\ m \in Nat /\ t \in [1..m -> U2]
    BY <1>1, LenProperties
  <2>2. given \in [1..n -> U1 \cup U2] /\ t \in [1..m -> U1 \cup U2]
    BY <2>1
  <2>. HIDE DEF n, m
  <2>3. given \in Seq(U1 \cup U2)
    BY <2>1, <2>2 DEF Seq
  <2>4. t \in Seq(U1 \cup U2)
    BY <2>1, <2>2 DEF Seq
  <2>. QED
    BY <2>3, <2>4
<1>3. /\ now \in Seq(U1 \cup U2) /\ Len(now) = n + m
      /\ \A i \in 1..(n + m) : now[i] = IF i <= n THEN given[i] ELSE t[i - n]
  BY <1>2, ConcatProperties
<1>4. n \in Nat /\ m \in Nat /\ DOMAIN given = 1..n /\ DOMAIN t = 1..m /\ DOMAIN now = 1..(n + m)
  BY <1>2, <1>3
<1>5. /\ ToSet(given) = {given[i] : i \in 1..n} /\ ToSet(t) = {t[i] : i \in 1..m}
      /\ ToSet(now) = {now[i] : i \in 1..(n + m)}
  BY <1>4 DEF ToSet
<1>6. /\ \A item \in ToSet(t) : /\ item[1] \in DOMAIN map /\ InRange(item[1], args)
                                /\ item = <<item[1], map[item[1]]>>
      /\ \A i, j \in DOMAIN t : i < j => Precedes(t[i][1], t[j][1], args)
  BY DEF FaithfulPage, Chosen
<1>7. CanPage(args) /\ ~args.reverse /\ args.end = asked.end /\ args.end_inclusive = asked.end_inclusive
  BY DEF LeftOf, CanPage
<1>. HIDE DEF now, t, n, m
<1>8. \A i \in 1..m : t[i] \in ToSet(t)
  BY <1>5
<1>9. \A i \in 1..m : t[i][1] \in Int
  BY <1>6, <1>8
<1>10. \A i \in 1..m : InRange(t[i][1], asked) /\ \A j \in 1..n : given[j][1] < t[i][1]
  <2>. SUFFICES ASSUME NEW i \in 1..m
                PROVE  InRange(t[i][1], asked) /\ \A j \in 1..n : given[j][1] < t[i][1]
    OBVIOUS
  <2>. DEFINE k == t[i][1]
  <2>1. k \in Int /\ InRange(k, args)
    BY <1>6, <1>8, <1>9
  <2>. HIDE DEF k
  <2>2. WithinStart(k, args) /\ ~EndsAt(k, asked)
    BY <1>7, <2>1, EndsAlike
  <2>3. WithinStart(k, asked) /\ \A j \in 1..n : given[j][1] < k
    BY <1>4, <2>1, <2>2 DEF LeftOf
  <2>4. InRange(k, asked)
    BY <1>7, <2>1, <2>2, <2>3, EndsAlike
  <2>. QED
    BY <2>3, <2>4 DEF k
<1>11. \A i \in 1..n : now[i] = given[i] /\ given[i][1] \in Int
  BY <1>3, <1>4 DEF Rising
<1>12. \A i \in (n + 1)..(n + m) : i - n \in 1..m /\ now[i] = t[i - n]
  BY <1>3, <1>4
<1>13. \A i \in 1..(n + m) : i \in 1..n \/ i \in (n + 1)..(n + m)
  BY <1>4
<1>14. \A i \in 1..m : n + i \in (n + 1)..(n + m) /\ (n + i) - n = i
  BY <1>4
<1>15. \A i \in DOMAIN now : now[i][1] \in Int
  BY <1>4, <1>9, <1>11, <1>12, <1>13
<1>16. ASSUME NEW i \in DOMAIN now, NEW j \in DOMAIN now, i < j
       PROVE  now[i][1] < now[j][1]
  <2>1. CASE i \in 1..n /\ j \in 1..n
    <3>1. given[i][1] < given[j][1]
      BY <1>4, <1>16, <2>1 DEF Rising
    <3>. QED
      BY <1>11, <2>1, <3>1
  <2>2. CASE i \in 1..n /\ j \in (n + 1)..(n + m)
    <3>1. now[i] = given[i] /\ now[j] = t[j - n] /\ j - n \in 1..m
      BY <1>11, <1>12, <2>2
    <3>2. given[i][1] < t[j - n][1]
      BY <1>10, <2>2, <3>1
    <3>. QED
      BY <3>1, <3>2
  <2>3. CASE i \in (n + 1)..(n + m) /\ j \in (n + 1)..(n + m)
    <3>1. i - n \in DOMAIN t /\ j - n \in DOMAIN t /\ i - n < j - n
      BY <1>4, <1>12, <1>16, <2>3
    <3>2. Precedes(t[i - n][1], t[j - n][1], args)
      BY <1>6, <3>1
    <3>. QED
      BY <1>7, <1>12, <2>3, <3>2 DEF Precedes
  <2>. QED
    BY <1>4, <1>13, <1>16, <2>1, <2>2, <2>3
<1>17. ToSet(now) = ToSet(given) \cup ToSet(t)
  <2>1. \A x \in ToSet(now) : x \in ToSet(given) \cup ToSet(t)
    BY <1>5, <1>11, <1>12, <1>13
  <2>2. \A i \in 1..n : i \in 1..(n + m)
    BY <1>4
  <2>3. \A x \in ToSet(given) : x \in ToSet(now)
    BY <1>5, <1>11, <2>2
  <2>4. \A i \in 1..m : n + i \in 1..(n + m) /\ now[n + i] = t[i]
    BY <1>4, <1>12, <1>14
  <2>5. \A x \in ToSet(t) : x \in ToSet(now)
    BY <1>5, <2>4
  <2>. QED
    BY <2>1, <2>3, <2>5
<1>18. Rising(now)
  BY <1>3, <1>15, <1>16 DEF Rising
<1>19. \A item \in ToSet(t) : InRange(item[1], asked)
  BY <1>5, <1>10
<1>. QED
  BY <1>6, <1>17, <1>18, <1>19 DEF now, t
\* The entries in range that a page leaves.
Later(page, map, args) == {k \in Chosen(map, args) : Beyond(k, page, args)}

\* Arguments that go on behind what a page gives and before all that it leaves.
GoOn(next, page, map, args) ==
  \E j \in Chosen(map, args), inclusive \in BOOLEAN :
    /\ next = [args EXCEPT !.start = j, !.start_inclusive = inclusive]
    /\ \A k \in KeysGiven(page) : k < j \/ (k = j /\ ~inclusive)
    /\ \A k \in Later(page, map, args) : j < k \/ (k = j /\ inclusive)

LEMMA PageEnds ==
  ASSUME NEW args, CanPage(args), NEW map, DOMAIN map \subseteq Int, None \notin DOMAIN map,
         NEW page, \E U : page.items \in Seq(U), FaithfulPage(page, map, args),
         NEW function \in {"scanItems", "scanItemsSync"}, JoiningPage(page, map, args, function)
  PROVE  /\ Chosen(map, args) \subseteq KeysGiven(page) \cup Later(page, map, args)
         /\ Later(page, map, args) # {} => page.has_next_page
         /\ page.has_next_page => GoOn(FollowedBy(function, args, page), page, map, args)
<1>. DEFINE C == Chosen(map, args)
            later == {k \in C : Beyond(k, page, args)}
            given == KeysGiven(page)
            t == page.items
            j == page.next_page_cursor
<1>1. ~args.reverse /\ args.offset = 0 /\ args.limit # 0 /\ StartFound(map, args)
  BY DEF CanPage, StartFound
<1>2. C \subseteq DOMAIN map /\ C \subseteq Int
  BY DEF Chosen
<1>3. /\ page.has_next_page <=> t # <<>> /\ later # {}
      /\ page.has_next_page /\ function = "scanItems" =>
           j \in later /\ \A k \in later \ {j} : Precedes(j, k, args)
      /\ page.has_next_page /\ function = "scanItemsSync" => j = Last(t)[1]
      /\ \A k \in C \ given : ~Behind(k, page, args)
  BY <1>1 DEF JoiningPage
<1>4. /\ \A item \in ToSet(t) : item[1] \in C
      /\ \A i, l \in DOMAIN t : i < l => Precedes(t[i][1], t[l][1], args)
      /\ \A k \in C \ given : Behind(k, page, args) \/ Beyond(k, page, args)
  BY DEF FaithfulPage
<1>5. C \subseteq given \cup later
  BY <1>3, <1>4
<1>6. given = {item[1] : item \in ToSet(t)}
  BY DEF KeysGiven
<1>7. t = <<>> => given = {}
  <2>1. t = <<>> => ToSet(t) = {}
    BY DEF ToSet
  <2>. QED
    BY <1>6, <2>1
<1>8. \A k \in later, l \in given : k \in Int /\ l \in Int /\ l < k
  BY <1>1, <1>2, <1>4, <1>6 DEF Beyond, Precedes
<1>9. later # {} => page.has_next_page
  <2>1. SUFFICES ASSUME later # {}, t = <<>>
                 PROVE  FALSE
    BY <1>3
  <2>2. PICK k \in later : TRUE
    BY <2>1
  <2>3. k \in C \ given /\ Behind(k, page, args)
    BY <1>7, <2>1, <2>2 DEF Behind
  <2>. QED
    BY <1>3, <2>3
<1>. HIDE DEF C, later, given, t, j
<1>10. ASSUME page.has_next_page
       PROVE  GoOn(FollowedBy(function, args, page), page, map, args)
  <2>. DEFINE From(inclusive) == [args EXCEPT !.start = j, !.start_inclusive = inclusive]
  <2>1. FollowedBy(function, args, page) = From(function = "scanItems")
    BY <1>10 DEF FollowedBy, j
  <2>. DEFINE next == FollowedBy(function, args, page)
              Fits(inclusive) == /\ \A k \in given : k < j \/ (k = j /\ ~inclusive)
                                 /\ \A k \in later : j < k \/ (k = j /\ inclusive)
  <2>2. \A inclusive \in BOOLEAN :
          next = From(inclusive) /\ j \in C /\ Fits(inclusive) => GoOn(next, page, map, args)
    BY DEF GoOn, Later, C, later, given
  <2>. HIDE DEF From, next
  <2>3. CASE function = "scanItems"
    <3>1. j \in later /\ \A k \in later \ {j} : Precedes(j, k, args)
      BY <1>3, <1>10, <2>3
    <3>2. j \in C
      BY <3>1 DEF later
    <3>3. \A k \in later : j < k \/ k = j
      BY <1>1, <3>1 DEF Precedes
    <3>4. \A k \in given : k < j
      BY <1>8, <3>1
    <3>5. next = From(TRUE)
      BY <2>1, <2>3 DEF next
    <3>6. Fits(TRUE)
      BY <3>3, <3>4
    <3>. QED
      BY <2>2, <3>2, <3>5, <3>6 DEF next
  <2>4. CASE function = "scanItemsSync"
    <3>1. j = Last(t)[1] /\ t # <<>>
      BY <1>3, <1>10, <2>4
    <3>2. PICK U : t \in Seq(U)
      BY DEF t
    <3>3. /\ Len(t) \in Nat /\ DOMAIN t = 1..Len(t) /\ Len(t) \in DOMAIN t
          /\ Last(t) = t[Len(t)] /\ ToSet(t) = {t[i] : i \in DOMAIN t}
      BY <3>1, <3>2 DEF Last, ToSet
    <3>4. j = t[Len(t)][1] /\ j \in given /\ j \in C
      BY <1>4, <1>6, <3>1, <3>3
    <3>5. \A i \in DOMAIN t : i = Len(t) \/ i < Len(t)
      BY <3>3
    <3>6. \A i \in DOMAIN t : t[i][1] < j \/ t[i][1] = j
      BY <1>1, <1>4, <3>3, <3>4, <3>5 DEF Precedes
    <3>7. \A k \in given : k < j \/ k = j
      BY <1>6, <3>3, <3>6
    <3>8. \A k \in later : j < k
      BY <1>8, <3>4
    <3>9. next = From(FALSE)
      <4>1. (function = "scanItems") = FALSE
        BY <2>4
      <4>. QED
        BY <2>1, <4>1 DEF next
    <3>10. Fits(FALSE)
      BY <3>7, <3>8
    <3>. QED
      BY <2>2, <3>4, <3>9, <3>10 DEF next
  <2>. QED
    BY <2>3, <2>4
<1>. QED
  BY <1>5, <1>9, <1>10 DEF C, later, given, Later

\* What a page leaves.
LEMMA PageLeaves ==
  ASSUME NEW asked, CanPage(asked), NEW args, NEW given, Rising(given), LeftOf(asked, args, given),
         NEW map, DOMAIN map \subseteq Int, None \notin DOMAIN map,
         NEW page, \E U : page.items \in Seq(U), FaithfulPage(page, map, args),
         NEW function \in {"scanItems", "scanItemsSync"}, JoiningPage(page, map, args, function),
         NEW all, \A item \in all : item[1] \in DOMAIN map /\ item = <<item[1], map[item[1]]>>,
         Accounted(asked, args, TRUE, given, all)
  PROVE  LET now  == given \o page.items
             next == FollowedBy(function, args, page)
         IN  /\ page.has_next_page => LeftOf(asked, next, now)
             /\ Accounted(asked, next, page.has_next_page, now, all)
<1>. DEFINE now == given \o page.items
            next == FollowedBy(function, args, page)
            C == Chosen(map, args)
            later == Later(page, map, args)
            keys == KeysGiven(page)
            more == page.has_next_page
<1>1. /\ CanPage(args) /\ args.end = asked.end /\ args.end_inclusive = asked.end_inclusive
      /\ \A k \in Int : WithinStart(k, args) =>
           WithinStart(k, asked) /\ \A i \in DOMAIN given : given[i][1] < k
  BY DEF LeftOf
<1>2. /\ Rising(now) /\ ToSet(now) = ToSet(given) \cup ToSet(page.items)
      /\ \A item \in ToSet(page.items) : item = <<item[1], map[item[1]]>>
  BY PageRises
<1>3. /\ C \subseteq keys \cup later
      /\ later # {} => more
      /\ more => GoOn(next, page, map, args)
  BY <1>1, PageEnds
<1>4. /\ keys = {item[1] : item \in ToSet(page.items)}
      /\ C \subseteq DOMAIN map /\ \A k \in DOMAIN map : k \in C <=> InRange(k, args)
  BY DEF KeysGiven, Chosen
<1>5. \A i \in DOMAIN now : \/ \E l \in DOMAIN given : now[i] = given[l]
                            \/ now[i][1] \in keys
  <2>1. \A i \in DOMAIN now : now[i] \in ToSet(given) \cup ToSet(page.items)
    BY <1>2 DEF ToSet
  <2>2. \A x \in ToSet(given) : \E l \in DOMAIN given : x = given[l]
    BY DEF ToSet
  <2>. QED
    BY <1>4, <2>1, <2>2
<1>6. \A i \in DOMAIN given : given[i][1] \in Int
  BY DEF Rising
<1>7. keys \subseteq Int
  BY <1>4 DEF FaithfulPage
<1>. HIDE DEF now, next, C, later, keys, more
<1>8. ASSUME more
      PROVE  LeftOf(asked, next, now)
  <2>1. PICK j \in C, inclusive \in BOOLEAN :
               /\ next = [args EXCEPT !.start = j, !.start_inclusive = inclusive]
               /\ \A k \in keys : k < j \/ (k = j /\ ~inclusive)
    BY <1>3, <1>8 DEF GoOn, C, keys
  <2>2. j \in Int /\ j # None /\ InRange(j, args)
    BY <1>4
  <2>3. /\ CanPage(next) /\ next.end = args.end /\ next.end_inclusive = args.end_inclusive
        /\ \A k \in Int : WithinStart(k, next) <=> j < k \/ (k = j /\ inclusive)
    BY <1>1, <2>1, <2>2, NextArgs
  <2>4. WithinStart(j, args)
    BY <1>1, <2>2, EndsAlike
  <2>5. ASSUME NEW k \in Int, WithinStart(k, next)
        PROVE  WithinStart(k, asked) /\ \A i \in DOMAIN now : now[i][1] < k
    <3>1. j < k \/ (k = j /\ inclusive)
      BY <2>3, <2>5
    <3>2. WithinStart(k, args)
      <4>1. IsArgs(args) /\ (j < k => Precedes(j, k, args))
        BY <1>1 DEF CanPage, Precedes
      <4>2. j < k => WithinStart(k, args)
        BY <2>2, <2>4, <2>5, <4>1, RangeIs
      <4>. QED
        BY <2>4, <3>1, <4>2
    <3>3. WithinStart(k, asked) /\ \A i \in DOMAIN given : given[i][1] < k
      BY <1>1, <2>5, <3>2
    <3>4. \A l \in keys : l < k
      BY <1>7, <2>1, <2>2, <2>5, <3>1
    <3>. QED
      BY <1>5, <3>3, <3>4
  <2>. QED
    BY <1>1, <2>3, <2>5 DEF LeftOf
<1>9. Accounted(asked, next, more, now, all)
  <2>. SUFFICES ASSUME NEW item \in all, InRange(item[1], asked), item \notin ToSet(now)
                PROVE  more /\ WithinStart(item[1], next)
    BY DEF Accounted
  <2>. DEFINE k == item[1]
  <2>1. k \in DOMAIN map /\ k \in Int /\ item = <<k, map[k]>>
    OBVIOUS
  <2>2. WithinStart(k, args)
    BY <1>2 DEF Accounted
  <2>3. k \in C
    <3>1. InRange(k, asked)
      OBVIOUS
    <3>. HIDE DEF k
    <3>2. InRange(k, args)
      BY <1>1, <2>1, <2>2, <3>1, EndsAlike
    <3>. QED
      BY <1>4, <2>1, <3>2
  <2>4. k \notin keys
    <3>. SUFFICES ASSUME k \in keys
                  PROVE  FALSE
      OBVIOUS
    <3>1. PICK x \in ToSet(page.items) : k = x[1]
      BY <1>4
    <3>2. x = <<k, map[k]>>
      BY <1>2, <3>1
    <3>. QED
      BY <1>2, <2>1, <3>1, <3>2
  <2>. HIDE DEF k
  <2>5. k \in later /\ more
    BY <1>3, <2>3, <2>4
  <2>6. PICK j \in C, inclusive \in BOOLEAN :
               /\ next = [args EXCEPT !.start = j, !.start_inclusive = inclusive]
               /\ \A l \in later : j < l \/ (l = j /\ inclusive)
    BY <1>3, <2>5 DEF GoOn, C, later
  <2>7. j \in Int /\ j # None
    BY <1>4
  <2>8. WithinStart(k, next)
    BY <1>1, <2>1, <2>5, <2>6, <2>7, NextArgs
  <2>. QED
    BY <2>5, <2>8 DEF k
<1>. QED
  BY <1>8, <1>9 DEF now, next, more

PagingInv ==
  pages # NoPages =>
    /\ pages.function \in {"scanItems", "scanItemsSync"}
    /\ CanPage(pages.asked)
    /\ pages = [function |-> pages.function, asked |-> pages.asked,
                args |-> pages.args, more |-> pages.more]
    /\ Rising(paged)
    /\ \A item \in ToSet(paged) : item \in ever /\ InRange(item[1], pages.asked)
    /\ always \subseteq EntriesOf(root) /\ EntriesOf(root) \subseteq ever
    /\ pages.more => LeftOf(pages.asked, pages.args, paged)
    /\ Accounted(pages.asked, pages.args, pages.more, paged, always)

LEMMA PagingInvMeans == PagingInv => PagesFit
<1>. SUFFICES ASSUME PagingInv, pages # NoPages
              PROVE  /\ \A i, j \in DOMAIN paged : i < j => paged[i][1] < paged[j][1]
                     /\ \A item \in ToSet(paged) : item \in ever /\ InRange(item[1], pages.asked)
                     /\ ~pages.more =>
                          \A item \in always : InRange(item[1], pages.asked) => item \in ToSet(paged)
  BY DEF PagesFit
<1>1. \A i, j \in DOMAIN paged : i < j => paged[i][1] < paged[j][1]
  BY DEF PagingInv, Rising
<1>2. \A item \in ToSet(paged) : item \in ever /\ InRange(item[1], pages.asked)
  BY DEF PagingInv
<1>3. ~pages.more => \A item \in always : InRange(item[1], pages.asked) => item \in ToSet(paged)
  BY DEF PagingInv, Accounted
<1>. QED
  BY <1>1, <1>2, <1>3

\* The keys of a tree are keys, and none of them is None.
LEMMA KeysOfTree ==
  ASSUME TreeFit
  PROVE  DOMAIN MapOf(root) \subseteq Int /\ None \notin DOMAIN MapOf(root)
<1>1. CASE root = None
  BY <1>1 DEF MapOf
<1>2. CASE root # None
  <2>1. PICK S : Fit(S) /\ root \in NodesIn(S)
    BY <1>2 DEF TreeFit
  <2>2. DOMAIN MapOf(root) = {e.key : e \in StoredIn(root)}
    BY <1>2, <2>1, MapIs
  <2>3. \A e \in StoredIn(root) : e.key \in Keys /\ e.key \in Int
    BY <2>1, NodeRange
  <2>. QED
    BY <2>2, <2>3, NoneAssumption
<1>. QED
  BY <1>1, <1>2

\* Nothing was given yet: all is left.
LEMMA StartLeaves ==
  ASSUME NEW args, CanPage(args), NEW all, \A item \in all : item[1] \in Int
  PROVE  /\ Rising(<<>>) /\ ToSet(<<>>) = {} /\ LeftOf(args, args, <<>>)
         /\ Accounted(args, args, TRUE, <<>>, all)
<1>1. DOMAIN <<>> = {} /\ <<>> \in Seq({})
  OBVIOUS
<1>2. Rising(<<>>) /\ ToSet(<<>>) = {}
  BY <1>1 DEF Rising, ToSet
<1>3. LeftOf(args, args, <<>>)
  BY <1>1 DEF LeftOf
<1>4. \A item \in all : InRange(item[1], args) => WithinStart(item[1], args)
  BY RangeIs DEF CanPage
<1>5. Accounted(args, args, TRUE, <<>>, all)
  BY <1>4 DEF Accounted
<1>. QED
  BY <1>2, <1>3, <1>5

LEMMA EntriesAre ==
  ASSUME NEW item
  PROVE  item \in EntriesOf(root) <=>
           item[1] \in DOMAIN MapOf(root) /\ item = <<item[1], MapOf(root)[item[1]]>>
  BY DEF EntriesOf

\* Where an application is with its pages, and how it gets further.
PagesAt(f, a, g, w) == [function |-> f, asked |-> a, args |-> g, more |-> w]

Further(at, n, m) == [at EXCEPT !.args = n, !.more = m]

LEMMA GoneOn ==
  ASSUME NEW f, NEW a, NEW g, NEW w, NEW n, NEW m
  PROVE  Further(PagesAt(f, a, g, w), n, m) = PagesAt(f, a, n, m)
<1>. DEFINE old == [function |-> f, asked |-> a, args |-> g, more |-> w]
<1>1. DOMAIN old = {"function", "asked", "args", "more"} /\ old.function = f /\ old.asked = a
  OBVIOUS
<1>2. [old EXCEPT !.args = n, !.more = m]
        = [x \in DOMAIN old |-> IF x = "more" THEN m ELSE IF x = "args" THEN n ELSE old[x]]
  OBVIOUS
<1>. QED
  BY <1>1, <1>2 DEF PagesAt, Further

LEMMA PagingInvNext ==
  TreeFit /\ PagingInv /\ [PagingCall \/ BetweenPages]_<<sharedVars, pageVars>> => PagingInv'
<1>. SUFFICES ASSUME TreeFit, PagingInv, [PagingCall \/ BetweenPages]_<<sharedVars, pageVars>>
              PROVE  PagingInv'
  OBVIOUS
<1>. DEFINE map == MapOf(root)
<1>0. DOMAIN map \subseteq Int /\ None \notin DOMAIN map
  BY KeysOfTree
<1>1. ASSUME NEW function, NEW args, StartPaging(function, args), UNCHANGED sharedVars
      PROVE  PagingInv'
  <2>1. /\ function \in {"scanItems", "scanItemsSync"} /\ CanPage(args)
        /\ pages' = [function |-> function, asked |-> args, args |-> args, more |-> TRUE]
        /\ paged' = <<>> /\ always' = EntriesOf(root) /\ ever' = EntriesOf(root) /\ root' = root
    BY <1>1 DEF StartPaging, sharedVars
  <2>2. /\ pages'.function = function /\ pages'.asked = args
        /\ pages'.args = args /\ pages'.more = TRUE
    BY <2>1
  <2>3. \A item \in EntriesOf(root) : item[1] \in Int
    BY <1>0, EntriesAre
  <2>4. /\ Rising(<<>>) /\ ToSet(<<>>) = {} /\ LeftOf(args, args, <<>>)
        /\ Accounted(args, args, TRUE, <<>>, EntriesOf(root))
    BY <2>1, <2>3, StartLeaves
  <2>. QED
    BY <2>1, <2>2, <2>4 DEF PagingInv
<1>2. CASE NextPage /\ UNCHANGED sharedVars
  <2>. DEFINE function == pages.function
              asked == pages.asked
              args == pages.args
              page == PageFrom(function, args)
              now == paged \o page.items
              next == FollowedBy(function, args, page)
  <2>1. /\ pages.more /\ page.out = "page"
        /\ pages' = [pages EXCEPT !.args = next, !.more = page.has_next_page]
        /\ paged' = now /\ always' = always /\ ever' = ever /\ root' = root
    BY <1>2 DEF NextPage, sharedVars
  <2>2. /\ function \in {"scanItems", "scanItemsSync"}
        /\ CanPage(asked)
        /\ pages = [function |-> function, asked |-> asked, args |-> args, more |-> pages.more]
        /\ Rising(paged)
        /\ \A item \in ToSet(paged) : item \in ever /\ InRange(item[1], asked)
        /\ always \subseteq EntriesOf(root) /\ EntriesOf(root) \subseteq ever
        /\ LeftOf(asked, args, paged)
        /\ Accounted(asked, args, TRUE, paged, always)
    <3>1. pages # NoPages
      BY <2>1 DEF NoPages
    <3>. QED
      BY <2>1, <3>1 DEF PagingInv, Accounted
  <2>3. /\ \E U : page.items \in Seq(U)
        /\ FaithfulPage(page, map, args) /\ JoiningPage(page, map, args, function)
    <3>1. IsArgs(args)
      BY <2>2 DEF LeftOf, CanPage
    <3>2. \/ function = "scanItems" /\ page = Scan(root, args, store)
          \/ function = "scanItemsSync" /\ page = ScanSync(root, args, store)
      BY <2>2 DEF PageFrom
    <3>3. root # None => \E S : Fit(S) /\ root \in NodesIn(S)
      BY DEF TreeFit
    <3>. HIDE DEF page, function, args
    <3>. QED
      BY <2>1, <3>1, <3>2, <3>3, ScanPages
  <2>. HIDE DEF function, asked, args, page, map
  <2>4. /\ Rising(now)
        /\ ToSet(now) = ToSet(paged) \cup ToSet(page.items)
        /\ \A item \in ToSet(page.items) :
             item[1] \in DOMAIN map /\ item = <<item[1], map[item[1]]>> /\ InRange(item[1], asked)
    BY <1>0, <2>2, <2>3, PageRises
  <2>5. \A item \in always : item[1] \in DOMAIN map /\ item = <<item[1], map[item[1]]>>
    BY <2>2, EntriesAre DEF map
  <2>6. /\ page.has_next_page => LeftOf(asked, next, now)
        /\ Accounted(asked, next, page.has_next_page, now, always)
    BY <1>0, <2>2, <2>3, <2>5, PageLeaves
  <2>7. \A item \in ToSet(page.items) : item \in EntriesOf(root)
    BY <2>4, EntriesAre DEF map
  <2>8. \A item \in ToSet(now) : item \in ever /\ InRange(item[1], asked)
    BY <2>2, <2>4, <2>7
  <2>. HIDE DEF next, now
  <2>9. /\ pages' = [function |-> function, asked |-> asked, args |-> next,
                     more |-> page.has_next_page]
    <3>. DEFINE was == pages.more
                is == page.has_next_page
    <3>1. pages = PagesAt(function, asked, args, was)
      BY <2>2, Zenon DEF PagesAt
    <3>2. pages' = Further(pages, next, is)
      BY <2>1, Zenon DEF Further
    <3>. HIDE DEF was, is
    <3>3. Further(pages, next, is) = PagesAt(function, asked, next, is)
      BY <3>1, GoneOn
    <3>. QED
      BY <3>2, <3>3, Zenon DEF is, PagesAt
  <2>10. /\ pages'.function = function /\ pages'.asked = asked
         /\ pages'.args = next /\ pages'.more = page.has_next_page
    BY <2>9
  <2>. QED
    BY <2>1, <2>2, <2>4, <2>6, <2>8, <2>9, <2>10 DEF PagingInv
<1>3. CASE BetweenPages
  <2>1. /\ always' = always \cap EntriesOf(root') /\ pages' = pages /\ paged' = paged
        /\ pages # NoPages => ever' = ever \cup EntriesOf(root')
    BY <1>3 DEF BetweenPages
  <2>2. SUFFICES ASSUME pages # NoPages
                 PROVE  PagingInv'
    BY <2>1 DEF PagingInv
  <2>3. always' \subseteq always /\ ever \subseteq ever'
        /\ always' \subseteq EntriesOf(root') /\ EntriesOf(root') \subseteq ever'
    BY <2>1, <2>2
  <2>4. EntriesOf(root)' = EntriesOf(root')
    BY DEF EntriesOf
  <2>5. Accounted(pages.asked, pages.args, pages.more, paged, always')
    BY <2>2, <2>3 DEF PagingInv, Accounted
  <2>6. \A item \in ToSet(paged) : item \in ever' /\ InRange(item[1], pages.asked)
    BY <2>2, <2>3 DEF PagingInv
  <2>. QED
    BY <2>1, <2>2, <2>3, <2>4, <2>5, <2>6 DEF PagingInv
<1>4. CASE UNCHANGED <<sharedVars, pageVars>>
  <2>1. pages' = pages /\ paged' = paged /\ always' = always /\ ever' = ever /\ root' = root
    BY <1>4 DEF sharedVars, pageVars
  <2>. QED
    BY <2>1 DEF PagingInv
<1>. QED
  BY <1>1, <1>2, <1>3, <1>4 DEF PagingCall

(***************************************************************************)
(* Pages of a tree that is edited between them, with chunks lost or not:   *)
(* none repeats an entry, each entry was there at some time, and when the  *)
(* last page is there, nothing that was there all the time is left out.    *)
(***************************************************************************)
THEOREM PagesStayFit == PagingSpec /\ []TreeFit => []PagesFit
<1>1. PagingInit => PagingInv
  BY DEF PagingInit, PagingInv
<1>. QED
  BY <1>1, PagingInvNext, PagingInvMeans, PTL DEF PagingSpec
=============================================================================
