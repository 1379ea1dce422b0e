---------------------------- MODULE CodeIndexing ----------------------------
(***************************************************************************)
(* CodeChunks with the parser of CodeParser in it (get_parser of backend/  *)
(* parsers/registry.py, _parse of backend/worker/service.py), and what the *)
(* chunks that executions make have to do with the files they are of.      *)
(***************************************************************************)
EXTENDS CodeParser, CodeChunks

ASSUME ParserIsCodeParser == \A f \in Files : IsSource(f) /\ ParseOf[f] = Parse(f)

-----------------------------------------------------------------------------
\* The chunks an execution has made, with the file they are of.
Parsed ==
    {[file   |-> docs[d].revs[IF proc[d].rev = 0 THEN 1 ELSE proc[d].rev],
      chunks |-> proc[d].new.chunks] : d \in {e \in Docs : proc[e].new.code}}

\* No more tokens than the limit, and no beginning within a character,
\* however many bytes the characters before it have.
WithinLimit(text) ==
    /\ Cardinality(TokenStarts(Decoded(text))) <= TokenLimit
    /\ text # << >> => text[1] # "cont"

\* parsers/tree_sitter.py:67 says that source is partitioned without overlap:
\* the chunks, in order, are the whole file, none but that of an empty file
\* is empty, and none is larger than the limit unless the file has an error.
ChunksPartitionFile ==
    \A p \in Parsed :
      /\ FlattenSeq([k \in DOMAIN p.chunks |-> p.chunks[k].text]) = p.file.bytes
      /\ \A k \in DOMAIN p.chunks :
           /\ p.file.bytes # << >> => p.chunks[k].text # << >>
           /\ ~p.file.error => WithinLimit(p.chunks[k].text)

\* The symbols around a byte; the innermost of them comes last.
Around(file, offset) ==
    {n \in DOMAIN file.nodes : /\ file.nodes[n].type \notin {"root", "other"}
                               /\ file.nodes[n].start <= offset
                               /\ offset < file.nodes[n].end}

\* chunk is attributed to the innermost symbol around the byte: its parent is
\* the next symbol outside, and a method is a function right inside a class.
AttributedAt(file, chunk, offset) ==
    LET around == Around(file, offset)
        inner  == Max(around)
        others == around \ {inner}
        outer  == Max(others)
        nodes  == file.nodes
    IN  IF around = {} THEN chunk.symbol = "" /\ chunk.type = "module"
        ELSE /\ chunk.symbol = nodes[inner].name
             /\ others # {} => chunk.parent \in {nodes[outer].name,
                                                 nodes[inner].receiver}
             /\ nodes[inner].type = "function"
                => (chunk.type = "method")
                   <=> (others # {} /\ nodes[outer].type = "class")

\* Every byte of a chunk is in the symbol the chunk is attributed to, and in
\* none inside that.
AttributedToInnermost ==
    \A p \in Parsed : ~p.file.error =>
      \A k \in DOMAIN p.chunks : \A i \in 0 .. Len(p.chunks[k].text) - 1 :
        AttributedAt(p.file, p.chunks[k], p.chunks[k].start + i)
=============================================================================
