------------------------------- MODULE FcSort -------------------------------
(***************************************************************************)
(* fc_sort (tests/fc_sort.py): the entries of file_contexts files, the     *)
(* less specific first.  A path is a sequence of characters, a line        *)
(*   [path, filetype, type]                                                *)
(* with filetype "" if it has no such field.                               *)
(***************************************************************************)
EXTENDS Naturals, Sequences, FiniteSets, SequencesExt

META_CHARS == {".", "^", "$", "?", "*", "+", "|", "[", "(", "{"}

\* get_stem_len: what stands after a backslash is taken literally, and the two
\* are one character
Escapes(path) == LET e[k \in 1 .. Len(path)] == k > 1 /\ path[k - 1] = "\\" /\ ~e[k - 1]
                 IN  {k \in DOMAIN path : e[k]}
Operators(path) == {k \in DOMAIN path \ Escapes(path) : path[k] \in META_CHARS}
StemLen(path) == Cardinality({k \in DOMAIN path \ Escapes(path) : \A o \in Operators(path) : k < o})

\* is_meta counts the different characters, and the different escaped ones
Escaped(path) == {c \in META_CHARS : \E k \in 2 .. Len(path) : path[k - 1] = "\\" /\ path[k] = c}
IsMeta(path)  == Cardinality(META_CHARS \cap Range(path)) > Cardinality(Escaped(path))

StrLen(path) == Cardinality({k \in DOMAIN path : path[k] # "\\"})

\* FileContextsNode: create computes once what __lt__ compares
Node(line) == [line |-> line, meta |-> IsMeta(line.path), stem_len |-> StemLen(line.path),
               str_len |-> StrLen(line.path), typed |-> line.filetype # ""]

LessByLength(a, b) ==         \* (mutant) the length is looked at before the stem
  \/ a.meta /\ ~b.meta
  \/ a.meta = b.meta /\ \/ a.str_len < b.str_len
                        \/ a.str_len = b.str_len /\ a.stem_len < b.stem_len
Less(a, b) ==
  \/ a.meta /\ ~b.meta
  \/ /\ a.meta = b.meta
     /\ \/ a.stem_len < b.stem_len
        \/ /\ a.stem_len = b.stem_len
           /\ \/ a.str_len < b.str_len
              \/ a.str_len = b.str_len /\ ~a.typed /\ b.typed

\* Python's sort, which is stable
Place(nodes, k) ==
  Cardinality({j \in DOMAIN nodes : \/ Less(nodes[j], nodes[k])
                                    \/ ~Less(nodes[k], nodes[j]) /\ j <= k})
SortNodes(nodes) ==
  LET place == [k \in DOMAIN nodes |-> Place(nodes, k)]
  IN  [n \in DOMAIN nodes |-> nodes[CHOOSE k \in DOMAIN nodes : place[k] = n]]

\* sort: the files one after the other, without comments and empty lines
Blank == [blank |-> TRUE]
NotBlank(lines) ==
  LET upto[k \in 0 .. Len(lines)] ==
        IF k = 0 THEN <<>>
        ELSE IF lines[k] = Blank THEN upto[k - 1] ELSE Append(upto[k - 1], lines[k])
  IN  upto[Len(lines)]
Lines(files)  == NotBlank(FlattenSeq(files))
Nodes(files)  == LET lines == Lines(files) IN [k \in DOMAIN lines |-> Node(lines[k])]
Sorted(files) == LET nodes == SortNodes(Nodes(files)) IN [k \in DOMAIN nodes |-> nodes[k].line]
=============================================================================
