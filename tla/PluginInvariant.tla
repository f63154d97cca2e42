---------------------------- MODULE PluginInvariant ----------------------------
(***************************************************************************)
(* The inductive invariant of Plugin.                                      *)
(*                                                                         *)
(* A call loads or unloads, and its agenda has a shape that says how far   *)
(* it has come.  The ledger relates the agenda to the counts: of each      *)
(* plugin, the references that are claimed or about to be given back are   *)
(* counted already or about to be taken.                                   *)
(***************************************************************************)
EXTENDS Plugin

Rank == CHOOSE rank \in Rankings : TRUE
Depended(d) == \E p \in Plugins : Contains(Depends[p], d)
Shared(p) == Multi(FileOf(p))

LoadTasks == ({"load", "fail"} \X Files)
             \union ({"plugin", "depend", "ref", "init"} \X Plugins)
UnloadTasks == ({"unload", "unref", "remove"} \X Modules) \union ({"drop"} \X Plugins)

Op(i) == todo[i][1]
Arg(i) == todo[i][2]
Pending(op, x) == Contains(todo, <<op, x>>)

-----------------------------------------------------------------------------
(* The ledger.                                                             *)

Number(s, S) == Cardinality({i \in DOMAIN s : s[i] \in S})

\* A plugin that is about to be initialized claims for itself already.
Counted == [p \in Plugins |-> IF p \in inited THEN refs[p]
                              ELSE IF Pending("init", p) THEN 1 ELSE 0]

Owed(d) == Number(todo, {<<"drop", d>>})
Coming(d) == Number(todo, {<<"ref", d>>, <<"depend", d>>})

Ledger == \A d \in Plugins :
  Cardinality(Claims(d, Counted)) + Owed(d) + (IF refs[d] > 0 THEN 1 ELSE 0)
    <= refs[d] + Coming(d)

-----------------------------------------------------------------------------
(* The counts.                                                             *)

\* The plugins of a file that are counted.
Counting(f) == {p \in ToSet(Contents[f]) : refs[p] > 0}

Counts ==
  /\ \A p \in inited : refs[p] > 0
  /\ \A f \in Files : Multi(f) =>
       /\ refs[Parent(f)] > 0 => refs[Parent(f)] = 1 + Cardinality(Counting(f))
       /\ refs[Parent(f)] = 0 => Counting(f) = {}
       /\ \A p \in Counting(f) : refs[p] = 1

\* Outside XPR_PluginUnloadAll the list is walked to its end.
TailIsLast == Pending("next", NoModule) \/ list = << >> \/ tail = Last(list)

-----------------------------------------------------------------------------
(* A call that loads.                                                      *)

\* Inner loads are of plugins nearer to the ground.
Inside(t, u) == t[1] \in {"load", "plugin", "depend", "init"} /\ u[1] = "init" =>
  Rank[t[2]] < Rank[u[2]]
Descends == \A i, j \in DOMAIN todo : i < j => Inside(todo[i], todo[j])

\* Only the first task loads, and a shared file is the outermost.
Outermost == \A i \in DOMAIN todo :
  /\ Op(i) \in {"load", "plugin"} => i = 1
  /\ Op(i) \in {"plugin", "init"} /\ Shared(Arg(i)) => i = Len(todo)
  /\ Op(i) = "load" => i = Len(todo) \/ Contents[Arg(i)] = <<Arg(i)>>
  /\ Op(i) \in {"depend", "ref"} => Depended(Arg(i))

\* Beyond the references that a recursion is taking, the dependencies of a
\* plugin come in their order, and its initializer after them.
InPlace(s, j) == \E l \in j + 1 .. Len(s) :
  /\ s[l][1] = "init" /\ \A k \in j .. l - 1 : s[k][1] # "init"
  /\ Len(Depends[s[l][2]]) + 1 - (l - j) \in Uses(s[l][2], s[j][2])
Aligned == \A j \in DOMAIN todo :
  Op(j) \in {"depend", "ref"} /\ (\E k \in 1 .. j : Op(k) # "ref") => InPlace(todo, j)

\* What is going to be counted is there by then, or the load has failed.
Brings(t, d) == t[1] = "fail" \/ (t[1] \in {"load", "plugin", "init"} /\ t[2] = d)
Arrives == \A j \in DOMAIN todo :
  Op(j) = "ref" => Arg(j) \in inited \/ \E i \in 1 .. j - 1 : Brings(todo[i], Arg(j))

\* The plugins of a file are loaded in their order.
IsNext(p) ==
  /\ \A q \in ToSet(Contents[FileOf(p)]) : Place(q) >= Place(p) => refs[q] = 0
  /\ Shared(p) => refs[Parent(FileOf(p))] > 0
InOrder == \A i \in DOMAIN todo : Op(i) \in {"plugin", "init"} => IsNext(Arg(i))

Loading ==
  /\ todo \in Seq(LoadTasks)
  /\ \A p \in Plugins : refs[p] > 0 => p \in inited
  /\ Descends /\ Outermost /\ Aligned /\ Arrives /\ InOrder

-----------------------------------------------------------------------------
(* A call that unloads, or cleans up.                                      *)

Unclaimed(p) == Claims(p, Counted) = {} /\ ~Pending("drop", p)

UnloadPending == \A i \in DOMAIN todo : Op(i) = "unload" =>
  /\ \A j \in DOMAIN todo : todo[j] = todo[i] => j = i
  /\ ~Pending("unref", Arg(i)) /\ ~Pending("remove", Arg(i))
  /\ Arg(i) \in Plugins => Unclaimed(Arg(i))

UnrefPending == \A i \in DOMAIN todo : Op(i) = "unref" =>
  /\ \A j \in DOMAIN todo : todo[j] = todo[i] => j = i
  /\ ~Pending("remove", Arg(i))
  /\ refs[Arg(i)] > 0
  /\ Arg(i) \in Plugins => Unclaimed(Arg(i))
  /\ Arg(i) \in inited => i = 1 /\ refs[Arg(i)] > 1

RemovePending == \A i \in DOMAIN todo : Op(i) = "remove" =>
  /\ Arg(i) \in listed
  /\ \/ i = 1
     \/ /\ i = 2 /\ Arg(2) \in Plugins
        /\ Op(1) \in {"unload", "unref", "remove"} /\ Arg(1) \in ParentsOf(Arg(2))

\* A parent goes when its plugins are gone.
ParentGoes == \A f \in Files : \A i \in DOMAIN todo :
  Multi(f) /\ todo[i] \in {<<"unload", Parent(f)>>, <<"unref", Parent(f)>>} =>
    i = 1 /\ refs[Parent(f)] = 1

Unloading ==
  /\ todo \in Seq(UnloadTasks \union {<<"next", NoModule>>} \union ({"fail"} \X Files))
  /\ \A i \in DOMAIN todo : Op(i) \in {"next", "fail"} => i = Len(todo)
  /\ \A p \in Plugins : refs[p] > 0 /\ p \notin inited => refs[p] = 1 /\ Pending("unref", p)
  /\ UnloadPending /\ UnrefPending /\ RemovePending /\ ParentGoes

-----------------------------------------------------------------------------

\* The invariant: what a run checks, and what makes it inductive.
PluginInv == TypeOK /\ Ledger /\ Counts /\ TailIsLast /\ (Loading \/ Unloading)
===============================================================================
