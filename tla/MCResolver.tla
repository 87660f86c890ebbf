----------------------------- MODULE MCResolver -----------------------------
(***************************************************************************)
(* Two pushes at the same time.  The repository has 1 <- 2, master at 2    *)
(* and perhaps side at 1.  Clients have made 3 and 4 on top of 2, 5 on top *)
(* of 1, and 6, which merges 2 and 5.                                      *)
(***************************************************************************)
EXTENDS Resolver, TLC

Graph == <<{}, {1}, {2}, {3}, {1}, {2, 5}>>
File(f, ty) == [path |-> f, ty |-> ty]
Changes == <<{}, {}, {File("f", "added")}, {File("g", "deleted")},
             {File("f", "modified")}, {File("f", "modified")}>>
Messages == <<{}, {}, {}, {"skip"}, {}, {}>>

\* "size" looks at files and does not like 5's; "author" looks at commits and
\* rejects 4, unless its message says otherwise.
MCRejects(h, c, f) == <<h, c, f>> \in {<<"size", 5, "f">>, <<"size", 4, "g">>, <<"author", 4, None>>}
MCBookmarkHooks == [n \in Names |-> IF n = "master" THEN {"size"} ELSE {}]
MCRegexHooks == {<<{"master", "other"}, {"author"}>>}
MCBypass == "size" :> [by |-> "pushvar", text |-> "SKIP_SIZE"]
            @@ "author" :> [by |-> "message", text |-> "skip"]

Part(x) == [part |-> x]
Vars(v) == [part |-> "pushvars", vars |-> v]
Group(cs, onto, newhead) ==
  [part |-> "changegroup", commits |-> cs, onto |-> onto, newhead |-> newhead]
Pushkey(n, old, new) ==
  [part |-> "pushkey", namespace |-> "bookmarks", name |-> n, old |-> old, new |-> new]
PhasesKey == [part |-> "pushkey", namespace |-> "phases"]
OddKey == [part |-> "pushkey", namespace |-> "obsolete"]

Open == <<Part("start"), Part("replycaps")>>
Push(cs, keys) == Open \o <<Group(cs, None, FALSE)>> \o keys \o <<Part("treegroup")>>
OpenRebase == Open \o <<Part("commonheads")>>
Rebase(cs, onto) == OpenRebase \o <<Part("treegroup"), Group(cs, onto, TRUE)>>

\* Bundles that clients send.
Regular ==
  {Push({3, 4}, <<Pushkey("master", 2, 4), PhasesKey, Pushkey("side", 1, 3)>>),
   Rebase({3}, "master") \o <<Pushkey("master", 2, 3)>>,
   Rebase({3, 4}, "master") \o <<PhasesKey>>,
   OpenRebase \o <<Vars({"SKIP_SIZE"})>> \o <<Part("treegroup"), Group({5}, "master", FALSE)>>,
   Rebase({5}, "side"),
   OpenRebase \o <<Pushkey("side", 1, 5)>>,
   Open \o <<Vars({"NON_FAST_FORWARD", "BYPASS_READONLY"}), Pushkey("side", 1, None)>>}

\* Bundles that must be refused, or do less than one may think.
Irregular ==
  {Rebase({5}, "master"),                                         \* a hook rejects it
   Rebase({5, 6}, "side"),                                        \* a merge
   Open \o <<Vars({"NON_FAST_FORWARD"})>> \o
     <<Group({5}, None, FALSE), Pushkey("master", 2, 5), Part("treegroup")>>,
   Push({4}, <<Pushkey("side", 1, 4)>>),                          \* the parent is missing
   Push({5}, <<Pushkey("side", 1, 5), Pushkey("side", 1, 5)>>),   \* the same one twice
   OpenRebase \o <<Pushkey("master", 2, None)>>,                  \* a deletion
   OpenRebase \o <<Pushkey("side", 3, 4)>>,                       \* perhaps unknown
   OpenRebase \o <<Pushkey("side", None, 5)>>,                    \* perhaps being uploaded
   OpenRebase \o <<Pushkey("side", 1, 2), PhasesKey>>,
   Open \o <<OddKey>>,
   Open, <<Part("start")>>,
   OpenRebase \o <<Part("treegroup"), Group({3}, None, FALSE)>>,
   OpenRebase \o <<Group({3}, "master", FALSE)>>,
   Rebase({3}, "master") \o <<Pushkey("side", 1, 3)>>,
   Rebase({3}, "master") \o <<Part("listkeys")>>,
   Push({3}, <<Pushkey("master", 2, 3)>>) \o <<Part("infinitepushbookmarks")>>,
   Push({3}, <<Pushkey("master", 2, 3)>>) \o <<Part("listkeys")>>}

Whole(S) == {[parts |-> s, cut |-> FALSE] : s \in S}
CutShort(s) == {[parts |-> SubSeq(s, 1, i), cut |-> TRUE] : i \in 0..Len(s)}

P1 == CHOOSE p \in Pushes : TRUE

MCInit ==
  \E one \in Whole(Regular),
     two \in Whole(Regular \cup Irregular)
             \cup CutShort(Push({3, 4}, <<Pushkey("side", 1, 3)>>))
             \cup CutShort(Rebase({3}, "master") \o <<Pushkey("master", 2, 3)>>)
             \cup CutShort(OpenRebase \o <<Vars({}), Pushkey("side", 1, 2)>>),
     side \in {None, 1} :
    ResolverInit([p \in Pushes |-> IF p = P1 THEN one ELSE two], Graph, Changes, Messages,
                 {1, 2}, [n \in Names |-> IF n = "master" THEN 2 ELSE side])

MCSpec == MCInit /\ [][Next]_vars
=============================================================================
