--------------------------- MODULE MCPolicyBuild ---------------------------
(***************************************************************************)
(* Small instances of PolicyBuild: one type for each directory that may    *)
(* declare one, and the lines in which the directories' policies meet.     *)
(***************************************************************************)
EXTENDS PolicyBuild

Line(kind, s, t)  == [kind |-> kind, s |-> <<s>>, t |-> <<t>>]
Type(a)       == Line("type", a, a)
Allow(a, b)   == Line("allow", a, b)
Never(a, b)   == Line("neverallow", a, b)
Enforced(a)   == Line("permissive", a, a)
Sid(a)        == Line("sid", a, a)

MCTypes == {"pub", "priv", "ext", "mask", "vnd", "odm"}
MCVersions == {"old", "current"}

\* what every directory has, for its part to compile
Least ==
  [plat_public       |-> {Type("pub")},  plat_private       |-> {Type("priv"), Sid("priv")},
   system_ext_public |-> {Type("ext")},  system_ext_private |-> {},
   vendor            |-> {Type("vnd")},  odm                |-> {Type("odm")},
   reqd_mask         |-> {Type("mask"), Sid("mask")},
   technical_debt    |-> {}]

(***************************************************************************)
(* What they may have besides: rules of each partition about its own types *)
(* and those of the others, the same rule in two partitions, rules and     *)
(* neverallow rules that contradict each other within a partition and      *)
(* across them, a vendor type with the name of a private one, a rule about *)
(* a private type, and permissive domains.                                 *)
(***************************************************************************)
More ==
  { <<"plat_public", Allow("pub", "pub")>>,        <<"plat_private", Allow("priv", "pub")>>,
    <<"plat_private", Never("pub", "priv")>>,      <<"technical_debt", Allow("pub", "priv")>>,
    <<"technical_debt", Allow("pub", "pub")>>,     <<"vendor", Never("pub", "pub")>>,
    <<"vendor", Allow("vnd", "ext")>>,
    <<"system_ext_public", Allow("ext", "pub")>>,  <<"system_ext_private", Allow("ext", "priv")>>,
    <<"system_ext_private", Never("ext", "pub")>>, <<"vendor", Allow("vnd", "pub")>>,
    <<"vendor", Allow("pub", "pub")>>,             <<"vendor", Type("priv")>>,
    <<"vendor", Allow("vnd", "priv")>>,            <<"vendor", Enforced("vnd")>>,
    <<"vendor", Enforced("pub")>>,                 <<"odm", Allow("odm", "vnd")>>,
    <<"odm", Allow("vnd", "pub")>>,                <<"odm", Never("vnd", "pub")>>,
    <<"odm", Enforced("odm")>> }

With(more) == [d \in Dirs |-> Least[d] \cup {m[2] : m \in {x \in more : x[1] = d}}]

Plain    == [user |-> TRUE, ignore |-> FALSE, vendor |-> "current", allowed |-> {"vnd"}]
Others   == { [user |-> TRUE, ignore |-> TRUE, vendor |-> "current", allowed |-> {}],
              [user |-> FALSE, ignore |-> FALSE, vendor |-> "old", allowed |-> {}] }

UpToOne == {Least} \cup {With({a}) : a \in More}
UpToTwo == UpToOne \cup {With({a, b}) : a, b \in More}
MCCases == [srcs : UpToTwo, settings : {Plain}] \cup [srcs : UpToOne, settings : Others]

\* from one of the sources, in the next build: the same again, what is
\* optional removed, or one line more that touches some of the rules
Restless == With({<<"vendor", Allow("vnd", "pub")>>, <<"system_ext_public", Allow("ext", "pub")>>})
Touches  == { <<"plat_public", Allow("pub", "pub")>>, <<"plat_private", Allow("priv", "pub")>>,
              <<"system_ext_private", Never("ext", "pub")>>, <<"odm", Allow("vnd", "pub")>>,
              <<"vendor", Type("priv")>> }
Edited   == {Restless, Least} \cup {[Restless EXCEPT ![m[1]] = @ \cup {m[2]}] : m \in Touches}

MCSources == UpToTwo \cup Edited

MCEdits(s, set)     == IF s = Restless /\ set = Plain THEN Edited ELSE {}
MCMaxFaults(s, set) == IF s \in Edited /\ set = Plain THEN 1 ELSE 0
=============================================================================
