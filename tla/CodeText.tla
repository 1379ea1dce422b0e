------------------------------ MODULE CodeText ------------------------------
(***************************************************************************)
(* The bytes of a source file, its lines, and the chunks that are cut out  *)
(* of it (backend/parsers/tree_sitter.py, backend/parsers/models.py).      *)
(*                                                                         *)
(* A file is a record:                                                     *)
(*   bytes  its UTF-8 bytes, told apart as far as chunks depend on them    *)
(*   code   a parser for a programming language reads it                   *)
(* and what CodeParser needs of it besides.  Offsets are those of the      *)
(* code: a range starts at start and ends before end, counted from 0.      *)
(***************************************************************************)
EXTENDS Integers, FiniteSets, Sequences

-----------------------------------------------------------------------------
Bytes == {"x",     \* a character that is not white space, or its first byte
          "cont",  \* another byte of that character
          "sp",    \* white space within a line
          "nl"}    \* a line break

Slice(bytes, start, end) == SubSeq(bytes, start + 1, end)

\* _line_at
LineAt(bytes, offset) ==
    Cardinality({i \in 1 .. offset : bytes[i] = "nl"}) + 1

\* Faulty variant: the last line is taken where the next chunk starts.
Chunk_NextLine(bytes, region, range) ==
    [text |-> Slice(bytes, range[1], range[2]), start |-> range[1],
     symbol |-> region.symbol, type |-> region.type, parent |-> region.parent,
     first |-> LineAt(bytes, range[1]), last |-> LineAt(bytes, range[2])]

\* A ParsedChunk, with its lines; its index is its place.  No chunk knows
\* start: it is kept to tell where the text comes from.
Chunk(bytes, region, range) ==
    [text |-> Slice(bytes, range[1], range[2]), start |-> range[1],
     symbol |-> region.symbol, type |-> region.type, parent |-> region.parent,
     first |-> LineAt(bytes, range[1]),
     last |-> LineAt(bytes, IF range[1] < range[2] THEN range[2] - 1 ELSE range[1])]

\* The chunk of a file that does not parse; 0 is a line that is not known.
FallbackChunk(file) ==
    [text |-> file.bytes, start |-> 0, symbol |-> "", type |-> "",
     parent |-> "", first |-> 0, last |-> 0]

\* A name in the source; "" is None.
Names == {""} \cup STRING

\* ParsedChunk and ParsedDocument.
ParsedChunks ==
    [text : Seq(Bytes), start : Nat, symbol : Names,
     type : {"", "module", "class", "method", "function"},
     parent : Names, first : Nat, last : Nat]

ParsedDocuments ==
    [code : BOOLEAN, bytes : Seq(Bytes), chunks : Seq(ParsedChunks)]
=============================================================================
