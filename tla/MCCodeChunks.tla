---------------------------- MODULE MCCodeChunks ----------------------------
(* Short files with every syntax tree of up to two symbols, and a few that *)
(* they are replaced by.                                                   *)
EXTENDS CodeIndexing

Node(type, start, end, name, children) ==
    [type |-> type, start |-> start, end |-> end, name |-> name,
     receiver |-> IF type = "receiver" THEN "R" ELSE "", children |-> children]

Tree(bytes, children, below) ==
    <<Node("root", 0, Len(bytes), "", children)>> \o below

Code(bytes, nodes) ==
    [bytes |-> bytes, code |-> TRUE, error |-> FALSE, nodes |-> nodes]

\* Two lines, five characters that are no white space, four tokens.
Text == <<"x", "sp", "x", "cont", "nl", "x", "sp", "x", "x">>

Borders == {0, 2, 5, 9}

Ranges == {<<i, j>> \in Borders \X Borders : i < j}

Types == {"class", "function", "receiver"}

One == {Code(Text, Tree(Text, <<2>>, <<Node(t, r[1], r[2], "f", << >>)>>)) :
          t \in Types, r \in Ranges}

Siblings ==
    {Code(Text, Tree(Text, <<2, 3>>, <<Node("function", p[1][1], p[1][2], "f", << >>),
                                       Node("class", p[2][1], p[2][2], "g", << >>)>>)) :
       p \in {q \in Ranges \X Ranges : q[1][2] <= q[2][1]}}

\* The inner symbol is a child of the outer one, or of a node between.
Nested ==
    LET Pairs == {q \in Ranges \X Ranges : /\ q[1][1] <= q[2][1]
                                           /\ q[2][2] <= q[1][2]}
        Direct(t, u, p) == <<Node(t, p[1][1], p[1][2], "f", <<3>>),
                             Node(u, p[2][1], p[2][2], "g", << >>)>>
        Between(t, u, p) == <<Node(t, p[1][1], p[1][2], "f", <<3>>),
                              Node("other", p[1][1], p[1][2], "", <<4>>),
                              Node(u, p[2][1], p[2][2], "g", << >>)>>
    IN  {Code(Text, Tree(Text, <<2>>, Direct(t[1], t[2], p))) :
           t \in {<<"class", "function">>, <<"function", "method">>}, p \in Pairs}
        \cup {Code(Text, Tree(Text, <<2>>, Between("class", "function", p))) :
                p \in Pairs}

Empty == Code(<< >>, Tree(<< >>, << >>, << >>))

Broken == [bytes |-> <<"x", "nl", "x">>, code |-> TRUE, error |-> TRUE,
           nodes |-> Tree(<<"x", "nl", "x">>, << >>, << >>)]

Plain == [bytes |-> <<"x", "nl">>, code |-> FALSE, error |-> FALSE,
          nodes |-> << >>]

Flat == Code(<<"x", "cont", "sp", "x", "nl", "x">>,
             Tree(<<"x", "cont", "sp", "x", "nl", "x">>, << >>, << >>))

Few == {Flat, Broken, Plain}

Many == One \cup Siblings \cup Nested \cup {Empty} \cup Few

MCFew == [d \in Docs |-> Few]

MCMany == [d \in Docs |-> Many]

MCParse == [f \in Many |-> Parse(f)]
=============================================================================
