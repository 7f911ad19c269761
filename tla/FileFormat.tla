------------------------------ MODULE FileFormat ------------------------------
(***************************************************************************)
(* A store and a root as one file: store/format_v2.rs, store/file_io_v2.rs *)
(* and saveTreeToFileBytes and loadTreeFromFileBytes of lib.rs.            *)
(*                                                                         *)
(* A file is a sequence of cells, one for each field, each chunk and the   *)
(* JSON of the metadata; a cell is <<kind, content>>, and offsets and      *)
(* lengths count cells from 0.  Sections follow each other as in           *)
(*                                                                         *)
(*   header | chunks | chunk index block | metadata block | EOF block      *)
(*                                                                         *)
(* A checksum is the cells it is of: CRC32 misses no altered field, Blake3 *)
(* has no collisions.                                                      *)
(***************************************************************************)
EXTENDS Node

Number(n) == <<"number", n>>

(***************************************************************************)
(* The parts of a file.                                                    *)
(***************************************************************************)
Signature == <<"signature", "PRLYTRV2">>
ReversedSignature == <<"signature", "2VRTYLRP">>
FormatVersion == <<"version", 2>>
Flags == <<"flags", 0>>

Header(offset_metadata, offset_chunk_index, offset_eof) ==
  << Signature, FormatVersion, Flags, Number(offset_metadata), Number(offset_chunk_index),
     Number(offset_eof), <<"reserved", 0>> >>

HeaderSize == 7

\* A content block behind its envelope: tag, content_length, content_checksum.
Block(tag, content) == << <<"tag", tag>>, Number(Len(content)), <<"crc32", content>> >> \o content

EnvelopeSize == 3

ChunkIndexEntry(hash, offset, length) ==
  << <<"hash", hash>>, Number(offset), Number(length), Flags >>

EntrySize == 4

EofBlock(offset_metadata, offset_chunk_index, checksummed) ==
  << <<"tag", "eof">>, Number(offset_metadata), Number(offset_chunk_index), ReversedSignature,
     <<"blake3", checksummed>> >>

EofSize == 5

Metadata(root, config, description) ==
  <<"json", [root_hash |-> root, tree_config |-> config, description |-> description]>>

ChunkOffset(order, c) == HeaderSize + (CHOOSE i \in DOMAIN order : order[i] = c) - 1

\* by_hash is order after chunk_index_entries.sort_by_key.
ChunkIndex(order, by_hash) ==
  LET entry(i) == ChunkIndexEntry(by_hash[i], ChunkOffset(order, by_hash[i]), 1)
  IN  <<Number(Len(order))>>
        \o [j \in 1..(EntrySize * Len(order)) |->
              entry((j - 1) \div EntrySize + 1)[((j - 1) % EntrySize) + 1]]

\* What lies between the header and the EOF block, and where its parts begin.
Sections(root, config, order, by_hash, description) ==
  LET data     == [i \in DOMAIN order |-> <<"chunk", order[i]>>]
      index    == Block("chunk_index", ChunkIndex(order, by_hash))
      metadata == Block("metadata", <<Metadata(root, config, description)>>)
  IN  [cells       |-> data \o index \o metadata,
       chunk_index |-> HeaderSize + Len(data),
       metadata    |-> HeaderSize + Len(data \o index),
       eof         |-> HeaderSize + Len(data \o index \o metadata)]

\* (Faulty: the header still has no offsets when the file's checksum is taken.)
WriteHeaderLast(root, config, order, by_hash, description) ==
  LET at == Sections(root, config, order, by_hash, description)
  IN  Header(at.metadata, at.chunk_index, at.eof) \o at.cells
        \o EofBlock(at.metadata, at.chunk_index, Header(0, 0, 0) \o at.cells)

(***************************************************************************)
(* write_prly_tree_v2.  Chunks come in the order of a hash map, the index  *)
(* of them in that of their hashes; the final header is in place when the  *)
(* file's checksum is taken.                                               *)
(***************************************************************************)
Write(root, config, order, by_hash, description) ==
  LET at      == Sections(root, config, order, by_hash, description)
      content == Header(at.metadata, at.chunk_index, at.eof) \o at.cells
  IN  content \o EofBlock(at.metadata, at.chunk_index, content)
-----------------------------------------------------------------------------
(***************************************************************************)
(* Reading.  Past the end there is nothing to read, and what is not a      *)
(* number is an offset or a length out of bounds.                          *)
(***************************************************************************)
Cell(file, offset) == IF offset + 1 \in DOMAIN file THEN file[offset + 1] ELSE <<"none", None>>

NumberAt(file, offset) ==
  IF Cell(file, offset)[1] = "number" THEN Cell(file, offset)[2] ELSE Len(file) + 1

Slice(file, offset, length) == SubSeq(file, offset + 1, offset + length)

OffsetMetadata(file) == NumberAt(file, 3)
OffsetChunkIndex(file) == NumberAt(file, 4)
OffsetEof(file) == NumberAt(file, 5)

HeaderValid(file) ==
  /\ Len(file) >= HeaderSize
  /\ Cell(file, 0) = Signature
  /\ Cell(file, 1) = FormatVersion
  /\ OffsetEof(file) <= Len(file)

BlockValid(file, offset, tag) ==
  LET length == NumberAt(file, offset + 1)
  IN  /\ Cell(file, offset) = <<"tag", tag>>
      /\ offset + EnvelopeSize + length <= Len(file)
      /\ Cell(file, offset + 2) = <<"crc32", Slice(file, offset + EnvelopeSize, length)>>

IndexEntries(file) ==
  LET content == OffsetChunkIndex(file) + EnvelopeSize
      at(i)   == content + 1 + (i - 1) * EntrySize
  IN  {[hash   |-> Cell(file, at(i))[2],
        offset |-> NumberAt(file, at(i) + 1),
        length |-> NumberAt(file, at(i) + 2)] : i \in 1..NumberAt(file, content)}

InBounds(file, entry) ==
  /\ entry.offset + entry.length <= Len(file)
  /\ entry.offset >= Len(file) => entry.length = 0

\* (Faulty: ENABLE_OVERALL_FILE_CHECKSUM is off when the file is read.)
EofUnchecked(file) ==
  LET at == OffsetEof(file)
  IN  /\ at + EofSize <= Len(file)
      /\ Cell(file, at) = <<"tag", "eof">>
      /\ Cell(file, at + 3) = ReversedSignature

\* The repeated offsets are not compared with the header's.
EofValid(file) ==
  LET at == OffsetEof(file)
  IN  /\ at + EofSize <= Len(file)
      /\ Cell(file, at) = <<"tag", "eof">>
      /\ Cell(file, at + 3) = ReversedSignature
      /\ Cell(file, at + 4) = <<"blake3", Slice(file, 0, at)>>

Invalid == [out |-> "invalid"]

\* read_prly_tree_v2; its several errors are one here.
Read(file) ==
  IF /\ HeaderValid(file)
     /\ BlockValid(file, OffsetChunkIndex(file), "chunk_index")
     /\ BlockValid(file, OffsetMetadata(file), "metadata")
     /\ \A entry \in IndexEntries(file) : InBounds(file, entry)
     /\ EofValid(file)
  THEN [out |-> "read",
        metadata |-> Cell(file, OffsetMetadata(file) + EnvelopeSize)[2],
        chunks |-> {Cell(file, entry.offset)[2] : entry \in IndexEntries(file)}]
  ELSE Invalid
-----------------------------------------------------------------------------
(***************************************************************************)
(* saveTreeToFileBytes writes all that is in the store, not only what the  *)
(* root reaches.  loadTreeFromFileBytes puts every chunk into a new store, *)
(* under the hash it has now.                                              *)
(***************************************************************************)
SaveTreeToFileBytes(root, config, order, by_hash, description) ==
  Write(root, config, order, by_hash, description)

LoadTreeFromFileBytes(file) ==
  LET read == Read(file)
  IN  CASE read = Invalid -> Invalid
        [] read # Invalid /\ read.metadata.root_hash \notin read.chunks \cup {None} ->
             [out |-> "ChunkNotFound"]
        [] OTHER -> [out |-> "loaded",
                     root |-> read.metadata.root_hash,
                     config |-> read.metadata.tree_config,
                     store |-> read.chunks]
===============================================================================
