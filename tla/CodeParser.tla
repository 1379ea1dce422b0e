----------------------------- MODULE CodeParser -----------------------------
(***************************************************************************)
(* TreeSitterParser of backend/parsers/tree_sitter.py: how source code is  *)
(* cut into chunks.  What tree-sitter makes of a file is part of the file. *)
(*                                                                         *)
(* A file is a record of its bytes and code (see CodeText), and            *)
(*   error  the syntax tree has an error                                   *)
(*   nodes  the named nodes of the syntax tree, each after its parent      *)
(* A symbol is named by its node, and the module, which is the text        *)
(* outside all symbols, by the root.                                       *)
(***************************************************************************)
EXTENDS CodeText, SequencesExt

CONSTANT TokenLimit    \* tokens of a chunk, DEFAULT_CODE_CHUNK_TOKEN_LIMIT

ASSUME TokenAssumption == TokenLimit \in Nat \ {0}

-----------------------------------------------------------------------------
(* What tree-sitter gives.                                                 *)

SymbolTypes == {"class", "function", "method", "receiver"}

\* receiver is the type of a node of Go's method_declaration; other nodes of
\* _METHOD_NODES are methods.  The field receiver has its receiver's name.
Nodes ==
    [type : SymbolTypes \cup {"root", "other"}, start : Nat, end : Nat,
     name : STRING, receiver : STRING, children : Seq(Nat)]

\* offset is not within a character.
AtCharacter(bytes, offset) == offset < Len(bytes) => bytes[offset + 1] # "cont"

\* Children lie inside their parent, in order and without overlap, every node
\* but the root has one parent, and symbols are not empty.
IsSyntaxTree(nodes, bytes) ==
    /\ nodes \in Seq(Nodes) /\ nodes # << >>
    /\ AtCharacter(bytes, 0)
    /\ \A n \in DOMAIN nodes :
         LET node == nodes[n]
             kids == node.children
         IN  /\ node.type = "root" <=> n = 1
             /\ node.start <= node.end /\ node.end <= Len(bytes)
             /\ node.type \in SymbolTypes => node.start < node.end
             /\ AtCharacter(bytes, node.start) /\ AtCharacter(bytes, node.end)
             /\ \A k \in DOMAIN kids :
                  /\ kids[k] \in n + 1 .. Len(nodes)
                  /\ node.start <= nodes[kids[k]].start
                  /\ nodes[kids[k]].end <= node.end
                  /\ \A l \in k + 1 .. Len(kids) :
                       /\ kids[k] # kids[l]
                       /\ nodes[kids[k]].end <= nodes[kids[l]].start
    /\ \A n \in 2 .. Len(nodes) :
         /\ \E p \in DOMAIN nodes : \E k \in DOMAIN nodes[p].children :
              nodes[p].children[k] = n
         /\ \A p, q \in DOMAIN nodes :
              /\ \E k \in DOMAIN nodes[p].children : nodes[p].children[k] = n
              /\ \E k \in DOMAIN nodes[q].children : nodes[q].children[k] = n
              => p = q

\* A text of whole characters with its tree.
IsSource(file) ==
    /\ file.bytes \in Seq(Bytes)
    /\ file.code \in BOOLEAN /\ file.error \in BOOLEAN
    /\ file.code /\ ~file.error => IsSyntaxTree(file.nodes, file.bytes)

-----------------------------------------------------------------------------
(* Text.                                                                   *)

\* The member of S with j members below it.
Nth(S, j) == CHOOSE n \in S : Cardinality({m \in S : m < n}) = j

CharStarts(bytes) == {i \in 0 .. Len(bytes) - 1 : bytes[i + 1] # "cont"}

\* decode: a character for every byte but the continuations.
Decoded(bytes) ==
    [c \in 1 .. Cardinality(CharStarts(bytes)) |->
       bytes[Nth(CharStarts(bytes), c - 1) + 1]]

\* The length of text[:cut].encode() for the text that bytes decode to.
EncodedLength(bytes, cut) == Nth(CharStarts(bytes) \cup {Len(bytes)}, cut)

\* The matches of \S+, by the offset in chars where they start.
TokenStarts(chars) ==
    {i \in 0 .. Len(chars) - 1 :
       /\ chars[i + 1] = "x"
       /\ i > 0 => chars[i] # "x"}

-----------------------------------------------------------------------------
(* Symbols of the syntax tree.                                             *)

\* _collect_symbols: for each node the symbols closest below it.  A node that
\* is none hands its own up.
CollectSymbols(nodes) ==
    LET below[n \in DOMAIN nodes] ==
          FlattenSeq([k \in DOMAIN nodes[n].children |->
                        LET child == nodes[n].children[k]
                        IN  IF nodes[child].type \in SymbolTypes
                            THEN <<child>> ELSE below[child]])
    IN  below

\* The symbol that a symbol is collected for.
Outer(nodes, n) ==
    CHOOSE p \in DOMAIN nodes :
      /\ nodes[p].type # "other"
      /\ \E k \in DOMAIN CollectSymbols(nodes)[p] : CollectSymbols(nodes)[p][k] = n

\* Faulty variant: a function stays one within a class.
SymbolType_NoClass(nodes, n) ==
    CASE nodes[n].type = "root" -> "module"
      [] nodes[n].type = "class" -> "class"
      [] nodes[n].type \in {"method", "receiver"} -> "method"
      [] OTHER -> "function"

\* _symbol_type.
SymbolType(nodes, n) ==
    CASE nodes[n].type = "root" -> "module"
      [] nodes[n].type = "class" -> "class"
      [] nodes[n].type \in {"method", "receiver"} -> "method"
      [] OTHER -> IF nodes[Outer(nodes, n)].type = "class"
                  THEN "method" ELSE "function"

SymbolName(nodes, n) == IF n = 1 THEN "" ELSE nodes[n].name

ParentSymbol(nodes, n) ==
    LET parent == IF n = 1 THEN "" ELSE SymbolName(nodes, Outer(nodes, n))
    IN  IF nodes[n].type = "receiver" /\ parent = "" THEN nodes[n].receiver
        ELSE parent

-----------------------------------------------------------------------------
(* Regions and chunks.                                                     *)

\* A symbol's bytes; the module has all.
StartByte(file, n) == IF n = 1 THEN 0 ELSE file.nodes[n].start
EndByte(file, n) == IF n = 1 THEN Len(file.bytes) ELSE file.nodes[n].end

Region(nodes, n, start, end) ==
    [start |-> start, end |-> end, symbol |-> SymbolName(nodes, n),
     type |-> SymbolType(nodes, n), parent |-> ParentSymbol(nodes, n)]

\* Faulty variant: what follows the last child is forgotten.
Partition_NoRest(file) ==
    LET symbols == CollectSymbols(file.nodes)
        regions[n \in DOMAIN file.nodes] ==
          LET kids == symbols[n]
              Cursor(k) == IF k = 1 THEN StartByte(file, n)
                           ELSE EndByte(file, kids[k - 1])
              Gap(k) == IF Cursor(k) < StartByte(file, kids[k])
                        THEN <<Region(file.nodes, n, Cursor(k), StartByte(file, kids[k]))>>
                        ELSE << >>
          IN  IF kids = << >>
              THEN <<Region(file.nodes, n, StartByte(file, n), EndByte(file, n))>>
              ELSE FlattenSeq([k \in DOMAIN kids |-> Gap(k) \o regions[kids[k]]])
    IN  regions[1]

\* _partition: a symbol's regions are those of its children and the gaps
\* before, between and after them.
Partition(file) ==
    LET symbols == CollectSymbols(file.nodes)
        regions[n \in DOMAIN file.nodes] ==
          LET kids == symbols[n]
              Cursor(k) == IF k = 1 THEN StartByte(file, n)
                           ELSE EndByte(file, kids[k - 1])
              Gap(k) == IF Cursor(k) < StartByte(file, kids[k])
                        THEN <<Region(file.nodes, n, Cursor(k), StartByte(file, kids[k]))>>
                        ELSE << >>
              before == FlattenSeq([k \in DOMAIN kids |-> Gap(k) \o regions[kids[k]]])
              rest == Cursor(Len(kids) + 1)
          IN  IF \/ rest < EndByte(file, n)
                 \/ before = << >> /\ StartByte(file, n) = EndByte(file, n)
              THEN Append(before, Region(file.nodes, n, rest, EndByte(file, n)))
              ELSE before
    IN  regions[1]

\* Where text is cut, in characters: at every TokenLimit-th token.
TokenCuts(chars) ==
    LET starts == TokenStarts(chars)
    IN  <<0>> \o [k \in 1 .. (Cardinality(starts) - 1) \div TokenLimit |->
                    Nth(starts, k * TokenLimit)]
              \o <<Len(chars)>>

\* _split_by_token_limit: ranges of bytes that make up the region.
Split(bytes, region) ==
    LET part  == Slice(bytes, region.start, region.end)
        chars == Decoded(part)
        cuts  == TokenCuts(chars)
        At(k) == region.start + EncodedLength(part, cuts[k])
    IN  IF Cardinality(TokenStarts(chars)) <= TokenLimit
        THEN <<<<region.start, region.end>>>>
        ELSE [k \in 1 .. Len(cuts) - 1 |-> <<At(k), At(k + 1)>>]

\* _semantic_chunks
SemanticChunks(file) ==
    LET regions == Partition(file)
        Of(region) == LET ranges == Split(file.bytes, region)
                      IN  [k \in DOMAIN ranges |->
                             Chunk(file.bytes, region, ranges[k])]
    IN  FlattenSeq([k \in DOMAIN regions |-> Of(regions[k])])

\* parse.  The chunks of other parsers are never used: that a file is no
\* code is all that is known of them.
Parse(file) ==
    [code   |-> file.code,
     bytes  |-> file.bytes,
     chunks |-> IF ~file.code THEN << >>
                ELSE IF file.error THEN <<FallbackChunk(file)>>
                ELSE SemanticChunks(file)]
=============================================================================
