--------------------------- MODULE MCFileContexts ---------------------------
(***************************************************************************)
(* checkfc: files of up to two entries over two paths, with types that are *)
(* of the right attribute, of another, exempt, an attribute themselves or  *)
(* unknown; up to two options, and up to two lines of tests.               *)
(* The build: one line of the platform, up to two of vendor, or one of     *)
(* vendor and one of product, and one of odm, out of plain paths and       *)
(* regular expressions that match the same paths; the one of product may   *)
(* be less specific than the one of the platform, which it comes after.    *)
(***************************************************************************)
EXTENDS PathTests

MCAttributes(m) == IF m = "file" THEN {"fs_type", "file_type"} ELSE {"service_type"}

MCPolicy ==
  [ok |-> TRUE,
   flavor |-> [n \in {"fs_type", "file_type", "service_type"} |-> "attribute"] @@
              [n \in {"etc", "lib", "tool", "kit", "svc", "exempt"} |-> "type"],
   attrs  |-> [etc |-> {"file_type", "core"}, lib |-> {"file_type", "library"},
               tool |-> {"file_type"}, kit |-> {"file_type"}, svc |-> {"service_type"},
               exempt |-> {}]]
Unreadable == [MCPolicy EXCEPT !.ok = FALSE]
Attributeless == [MCPolicy EXCEPT !.flavor = [n \in DOMAIN @ \ {"fs_type"} |-> @[n]]]

SeqsUpTo(S, n) == UNION {[1 .. k -> S] : k \in 0 .. n}

File(ok, entries) == [size |-> Len(entries), ok |-> ok, entries |-> entries]
Files(types) ==
  {File(TRUE, es) : es \in SeqsUpTo({[paths |-> {"/a"}, static |-> s, type |-> t] :
                                       s \in BOOLEAN, t \in types}
                                    \cup {[paths |-> {"/a", "/b"}, static |-> FALSE, type |-> t] :
                                            t \in types}, 2)}

Case(args, two, policy, file, tests) ==
  [args |-> args, two |-> two, policy |-> policy, file |-> file, tests |-> tests]

TestLines == [path : {"/a", "/b"}, type : {"etc", "svc"}] \cup {Comment, Garbled}

MCCases ==
  {Case(args, TRUE, MCPolicy, file, <<>>) :
     args \in SeqsUpTo({"p", "s", "e", "c", "t"}, 2),
     file \in Files({"etc", "svc", "exempt", "fs_type", "none"})}
  \cup {Case(<<"t">>, TRUE, MCPolicy, file, tests) :
          file \in Files({"etc", "svc"}), tests \in SeqsUpTo(TestLines, 2)}
  \cup {Case(args, two, policy,
             File(ok, <<[paths |-> {"/a"}, static |-> TRUE, type |-> "etc"]>>), <<>>) :
          args \in {<<>>, <<"s">>, <<"h">>, <<"t">>, <<"c">>}, two \in BOOLEAN,
          policy \in {Unreadable, Attributeless}, ok \in BOOLEAN}

MCIdle == Case(<<>>, TRUE, MCPolicy, File(TRUE, <<>>), <<>>)

-----------------------------------------------------------------------------
\* the expressions
Plain(path) == SelectSeq(path, LAMBDA c : c # "\\")
All == <<"a", ".", "*">>
Abs == <<"a", "b", ".", "*">>
Ab  == <<"a", "b", "?">>
One == <<"a", ".">>
Dot == <<"a", "\\", ".">>
Odd == <<"a", "\\", ".", ".">>          \* is_meta takes it for a plain path
Opt == <<"a", ".", "?", "b", "*">>
Bs  == <<"a", "\\", ".", "b", "*">>
Mis == <<"a", "b", "?", ".", "*">>      \* a. does not look like the beginning of it
Part == <<"a", "(", "b", "|", "\\", ".", ")">>         \* a partition with two names
In  == Part \o <<"b", "?">>
Far == Part \o <<"a", "?", "b">>
Grp == <<"a", "(", "b", "|", "\\", ".", "b", ")">>   \* of both or none of ab and a.b
Expressions == {All, Abs, Ab, One, Dot, Odd, Opt, Bs, Mis, In, Far, Grp,
                <<"a", "b", "b">>, <<"a", "b">>, <<"a">>, <<"b">>}

\* what is left of them, cut off at either end
Cut == UNION {{SubSeq(r, m, n) : m \in {1, Len(Part) + 1} \cap 1 .. Len(r), n \in 0 .. Len(r)} :
              r \in Expressions}

Words == {<<"a">>, <<"a", "b">>, <<"a", "b", "b">>, <<"a", ".", "b">>, <<"a", ".">>, <<"b">>, <<>>}

\* a group is one of its two halves
Halves(r) ==
  LET open == SelectInSeq(r, LAMBDA c : c = "(")
      bar  == SelectInSeq(r, LAMBDA c : c = "|")
      end  == SelectInSeq(r, LAMBDA c : c = ")")
  IN  IF open = 0 THEN {r}
      ELSE IF end = 0 THEN {}
      ELSE {SubSeq(r, 1, open - 1) \o half \o SubSeq(r, end + 1, Len(r)) :
              half \in {SubSeq(r, open + 1, bar - 1), SubSeq(r, bar + 1, end - 1)}}

RECURSIVE Fits(_, _)
Fits(r, s) ==
  LET n    == IF r # <<>> /\ r[1] = "\\" THEN 2 ELSE 1
      one  == s # <<>> /\ (r[n] = s[1] \/ (n = 1 /\ r[1] = "."))
      mark == IF Len(r) > n THEN r[n + 1] ELSE ""
      rest == SubSeq(r, IF mark \in {"?", "*"} THEN n + 2 ELSE n + 1, Len(r))
  IN  CASE r = <<>>   -> s = <<>>
        [] Len(r) < n -> FALSE                           \* no expression
        [] mark = "?" -> Fits(rest, s) \/ (one /\ Fits(rest, Tail(s)))
        [] mark = "*" -> Fits(rest, s) \/ (one /\ Fits(r, Tail(s)))
        [] OTHER      -> one /\ Fits(rest, Tail(s))

Table == [r \in Cut |-> {s \in Words : \E h \in Halves(r) : Fits(h, s)}]
MCDenoted(path) == Table[path]

Entry(path, filetype, type) == [path |-> path, filetype |-> filetype, type |-> type]
PlatLines   == {Entry(All, "", "etc"), Entry(<<"a", "b", "b">>, "", "etc"),
                Entry(Ab, "", "svc")}
VendorLines == {Entry(All, "", "lib"), Entry(Opt, "", "exempt"), Entry(Ab, "--", "lib"),
                Entry(<<"a">>, "", "exempt"), Entry(Dot, "", "lib"), Entry(Odd, "", "lib"),
                Entry(One, "", "lib"), Entry(In, "", "tool"), Entry(Far, "", "kit"), Entry(<<"a", "b">>, "--", "none")}
OdmLines    == {Entry(Ab, "", "exempt"), Entry(Mis, "", "etc"), Entry(Opt, "", "lib"),
                Entry(Bs, "", "exempt"), Entry(Grp, "", "etc"), Entry(<<"b">>, "", "exempt")}

Source(p, r, v, o) == [plat |-> p, system_ext |-> <<>>, product |-> r, vendor |-> v, odm |-> o]
MCInputs ==
  {Source(p, <<>>, v, o) :
     p \in SeqsUpTo(PlatLines, 1), v \in SeqsUpTo(VendorLines, 2) \cup {<<Blank>>}, o \in SeqsUpTo(OdmLines, 1)}
  \cup \* a line of product, too, behind one of the platform that may be more specific
  {Source(p, r, v, o) :
     p \in SeqsUpTo(PlatLines \cup {Entry(Abs, "", "etc")}, 1),
     r \in {<<Entry(Ab, "", "etc")>>, <<Entry(All, "", "etc")>>},
     v \in SeqsUpTo(VendorLines, 1), o \in SeqsUpTo(OdmLines, 1)}

-----------------------------------------------------------------------------
\* the tests: what is below abb, and b, must be core or exempt, what is below a. not
\* core, and what is below ab no library, except for abb; and four domains
MCCommonPrefixes == <<[regex |-> Part, plain |-> <<<<"a", "b">>, <<"a", ".">>>>]>>
MCAttrTests ==
  {[prefixes |-> {<<"a", "b", "b">>, <<"b">>}, except |-> {}, attr |-> "core", have |-> TRUE,
    excluded |-> {"exempt", "tool"}],
   [prefixes |-> {<<"a", ".">>}, except |-> {}, attr |-> "core", have |-> FALSE, excluded |-> {}],
   [prefixes |-> {<<"a", "b">>}, except |-> {<<"a", "b", "b">>}, attr |-> "library",
    have |-> FALSE, excluded |-> {}],
   [prefixes |-> {<<"a">>}, except |-> {}, attr |-> "core", have |-> TRUE,
    excluded |-> {"etc", "lib", "svc", "kit", "exempt"}]}
MCDomains ==
  [system_d |-> [attrs |-> {"coredomain"}, entrypoints |-> {"exempt"}],
   vendor_d |-> [attrs |-> {}, entrypoints |-> {"tool"}],
   app_d    |-> [attrs |-> {"appdomain"}, entrypoints |-> {"etc"}],
   init_d   |-> [attrs |-> {}, entrypoints |-> {"etc"}]]
MCVendorPaths  == {<<"a", ".">>}
MCSystemPaths  == {<<"b">>}
MCSystemPath   == <<"a", "b">>
MCSystemVendor == <<"a", "b", "b">>
=============================================================================
