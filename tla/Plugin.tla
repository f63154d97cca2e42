-------------------------------- MODULE Plugin --------------------------------
(***************************************************************************)
(* src/xpr_plugin.c with the part of src/xpr_list.c it uses: plugins are   *)
(* loaded with what they depend on, counted, and unloaded with what nobody *)
(* needs any more.                                                         *)
(*                                                                         *)
(* A file registers one plugin, or several that share a parent module.  A  *)
(* module is a plugin or the parent of a file.  The functions of the file  *)
(* call each other recursively: todo is what the call at work has still to *)
(* do, the innermost first, and every action does the first task.  One     *)
(* call is at work at a time, for XPR_PluginLoad takes no lock and so asks *)
(* its callers to take turns.                                              *)
(*                                                                         *)
(* The code lets the application unload a plugin on which others depend:   *)
(* with Careful it does not (see Unneeded).  Like                          *)
(* examples/plugin_framework.c it unloads everything before                *)
(* XPR_PluginFini.  There is memory for the nodes of the list: a plugin    *)
(* without one would be finalized again and reported as loaded (222-228),  *)
(* and what depends on it initialized without it.                          *)
(***************************************************************************)
EXTENDS Integers, FiniteSetsExt, SequencesExt

CONSTANTS Plugins,
          Contents,   \* the plugins a file registers; a file has a plugin's name
          Depends,    \* the plugins a plugin depends on, in order
          Careful,    \* the application unloads only what no plugin needs
          MaxRefs,    \* bound: the largest count a load starts from
          MaxInits    \* bound: nested calls of XPR_PluginInit

Files == DOMAIN Contents
Multi(f) == Len(Contents[f]) > 1
Parent(f) == <<f>>
Modules == Plugins \union {Parent(f) : f \in {g \in Files : Multi(g)}}
FileOf(p) == CHOOSE f \in Files : Contains(Contents[f], p)
Place(p) == SelectInSeq(Contents[FileOf(p)], LAMBDA x : x = p)
ParentsOf(m) == {Parent(f) : f \in {g \in Files : Multi(g) /\ Contains(Contents[g], m)}}
After(p) == LET ps == Contents[FileOf(p)]
            IN IF p = Last(ps) THEN << >> ELSE <<ps[Place(p) + 1]>>
NoModule == << >>

\* Every plugin has its place in one file.
ASSUME PluginConstants ==
  /\ IsFiniteSet(Plugins) /\ Files \subseteq Plugins
  /\ Contents \in [Files -> Seq(Plugins) \ {<< >>}]
  /\ \A f \in Files : IsInjective(Contents[f]) /\ Parent(f) \notin Plugins
  /\ \A p \in Plugins : \E f \in Files : Contains(Contents[f], p)
  /\ \A f, g \in Files : ToSet(Contents[f]) \intersect ToSet(Contents[g]) # {} => f = g
  /\ Depends \in [Plugins -> Seq(Plugins)]
  /\ MaxRefs \in Nat /\ MaxInits \in Nat

ASSUME PluginCaller == Careful \in BOOLEAN

\* The depths of plugins that grow along their dependencies.
Rankings == {rank \in [Plugins -> 0 .. Cardinality(Plugins)] :
               \A p, d \in Plugins : Contains(Depends[p], d) => rank[d] < rank[p]}

\* What a plugin depends on does not depend on it: the load would recur for
\* ever.  It is no plugin of a shared file: cleaning up after a failed load
\* takes such a plugin's references away, and once it is counted as often as
\* its parent, XPR_PluginUnloadAll closes the library first.  The file of its
\* name registers it:
\* a dependency that is not there once its file is loaded is not counted.
ASSUME PluginUsage ==
  /\ Rankings # {}
  /\ \A p, d \in Plugins : Contains(Depends[p], d) =>
       ~Multi(FileOf(d)) /\ (d \in Files => Contents[d] = <<d>>)

VARIABLES inits,    \* sHasInited
          list, tail, refs,  \* sPluginList: its nodes in order, its tail, refcounts
          inited,   \* plugins initialized and not finalized
          todo      \* tasks of the call at work; << >> is no call

vars == <<inits, list, tail, refs, inited, todo>>
listed == ToSet(list)

Init == /\ inits = 0 /\ list = << >> /\ tail = NoModule
        /\ refs = [m \in Modules |-> 0] /\ inited = {} /\ todo = << >>

-----------------------------------------------------------------------------
(* The list is sorted by refcount when a module is appended or all are     *)
(* sorted.  Sorting leaves tail where it was, and XPR_ListNextNl stops     *)
(* there; so does the tail stay when the first node is removed.            *)

Walk == IF tail \in listed
          THEN SubSeq(list, 1, SelectInSeq(list, LAMBDA m : m = tail))
          ELSE list
Found(m) == Contains(Walk, m)

\* Before the first that has more references.
ListAppend(m, counts) ==
  LET more == SelectInSeq(list, LAMBDA x : counts[x] > counts[m])
  IN /\ refs' = counts
     /\ list' = IF more = 0 THEN Append(list, m) ELSE InsertAt(list, more, m)
     /\ tail' = Last(list')

ListRemove(m) == /\ list' = RemoveFirst(list, m)
                 /\ tail' = IF m \in listed /\ m # Head(list) THEN Last(list') ELSE tail

\* The sort is stable: modules counted alike keep their order.
Index(m) == SelectInSeq(list, LAMBDA x : x = m)
Before(m) == {x \in listed : \/ refs[x] < refs[m]
                             \/ refs[x] = refs[m] /\ Index(x) < Index(m)}
Sorted == [k \in 1 .. Len(list) |-> CHOOSE m \in listed : Cardinality(Before(m)) = k - 1]

-----------------------------------------------------------------------------
(* Tasks.                                                                  *)

Tasks(op, xs) == [i \in DOMAIN xs |-> <<op, xs[i]>>]
Doing(op, x) == todo # << >> /\ Head(todo) = <<op, x>>
Then(tasks) == todo' = tasks \o Tail(todo)

\* The load of a file fails: the plugins of the file that were loaded are
\* unloaded by name, and the load that asked for it fails too.
Fails ==
  LET i == SelectInSeq(todo, LAMBDA t : t[1] = "init")
      p == todo[i][2]
      f == FileOf(p)
      gone == SubSeq(Contents[f], 1, Place(p) - 1)
  IN todo' = IF i = 0 THEN << >>
             ELSE Tasks("unload", IF Multi(f) /\ gone = << >> THEN <<Parent(f)>> ELSE gone)
                  \o <<<<"fail", f>>>> \o SubSeq(todo, i + 1, Len(todo))

-----------------------------------------------------------------------------
(* loadModule and loadModuleDepends                                        *)

\* A mutant of IsLibraryLoaded: only its first plugin is looked for.
FirstPluginLoaded(f) == Found(Contents[f][1])

IsLibraryLoaded(f) == Found(IF Multi(f) THEN Parent(f) ELSE Contents[f][1])

LoadFile(f) ==
  /\ Doing("load", f)
  /\ \/ IsLibraryLoaded(f) /\ Then(<< >>) /\ UNCHANGED <<list, tail, refs>>
     \/ ~IsLibraryLoaded(f) /\ Fails /\ UNCHANGED <<list, tail, refs>>
     \/ /\ ~IsLibraryLoaded(f) /\ Then(<<<<"plugin", Contents[f][1]>>>>)
        /\ IF Multi(f)
             THEN ListAppend(Parent(f), [refs EXCEPT ![Parent(f)] = 1])
             ELSE UNCHANGED <<list, tail, refs>>
  /\ UNCHANGED <<inits, inited>>

LoadPlugin(p) ==
  /\ Doing("plugin", p)
  /\ Then(Tasks("depend", Depends[p]) \o <<<<"init", p>>>>)
  /\ UNCHANGED <<inits, list, tail, refs, inited>>

\* A mutant of LoadDepend: a dependency that is loaded is not counted.
DependUncounted(d) ==
  /\ Doing("depend", d)
  /\ \/ Found(d) /\ Then(<< >>)
     \/ ~Found(d) /\ d \in Files /\ Then(<<<<"load", d>>, <<"ref", d>>>>)
     \/ ~Found(d) /\ Fails
  /\ UNCHANGED <<inits, list, tail, refs, inited>>

\* A file that does not exist fails the load.
LoadDepend(d) ==
  /\ Doing("depend", d)
  /\ \/ Found(d) /\ Then(<<<<"ref", d>>>>)
     \/ ~Found(d) /\ d \in Files /\ Then(<<<<"load", d>>, <<"ref", d>>>>)
     \/ ~Found(d) /\ Fails
  /\ UNCHANGED <<inits, list, tail, refs, inited>>

\* A mutant of RefModuleRecursive: it does not recur.
RefModuleOnce(d) ==
  /\ Doing("ref", d) /\ Then(<< >>)
  /\ refs' = IF Found(d) THEN [refs EXCEPT ![d] = @ + 1] ELSE refs
  /\ UNCHANGED <<inits, list, tail, inited>>

RefModuleRecursive(d) ==
  /\ Doing("ref", d)
  /\ IF Found(d) THEN refs' = [refs EXCEPT ![d] = @ + 1] /\ Then(Tasks("ref", Depends[d]))
                 ELSE Then(<< >>) /\ UNCHANGED refs
  /\ UNCHANGED <<inits, list, tail, inited>>

\* A mutant of InitPlugin: the parent is not counted.
InitUncounted(p) ==
  /\ Doing("init", p)
  /\ inited' = inited \union {p}
  /\ ListAppend(p, [refs EXCEPT ![p] = 1])
  /\ Then(Tasks("plugin", After(p)))
  /\ UNCHANGED inits

\* The initializer succeeds, and the new module is listed: it counts in its
\* parent.
InitPlugin(p) ==
  /\ Doing("init", p)
  /\ inited' = inited \union {p}
  /\ ListAppend(p, [m \in Modules |-> IF m = p THEN 1
                       ELSE IF m \in ParentsOf(p) THEN refs[m] + 1 ELSE refs[m]])
  /\ Then(Tasks("plugin", After(p)))
  /\ UNCHANGED inits

InitFails(p) == Doing("init", p) /\ Fails /\ UNCHANGED <<inits, list, tail, refs, inited>>

GiveUp(f) == Doing("fail", f) /\ Fails /\ UNCHANGED <<inits, list, tail, refs, inited>>

-----------------------------------------------------------------------------
(* unloadModule and unloadModuleDepends                                    *)

\* A mutant of UnloadModule: what is counted more than once is busy.
UnloadUnlessCounted(m) ==
  /\ Doing("unload", m)
  /\ IF m \in Plugins /\ (~Found(m) \/ refs[m] > 1) THEN Then(<< >>) /\ UNCHANGED inited
     ELSE IF m \notin Plugins THEN Then(<<<<"unref", m>>>>) /\ UNCHANGED inited
     ELSE /\ inited' = inited \ {m}
          /\ Then(Tasks("drop", Depends[m]) \o <<<<"unref", m>>>>)
  /\ UNCHANGED <<inits, list, tail, refs>>

\* The finalizer runs for the last reference.
UnloadModule(m) ==
  /\ Doing("unload", m)
  /\ IF m \in Plugins /\ ~Found(m) THEN Then(<< >>) /\ UNCHANGED inited
     ELSE IF m \notin Plugins \/ refs[m] # 1 THEN Then(<<<<"unref", m>>>>) /\ UNCHANGED inited
     ELSE /\ inited' = inited \ {m}
          /\ Then(Tasks("drop", Depends[m]) \o <<<<"unref", m>>>>)
  /\ UNCHANGED <<inits, list, tail, refs>>

\* The finalizer fails: BUSY.
FiniFails(p) ==
  /\ Doing("unload", p) /\ p \in Plugins /\ Found(p) /\ refs[p] = 1
  /\ Then(<< >>)
  /\ UNCHANGED <<inits, list, tail, refs, inited>>

\* A dependency that only its own load counts goes too.
UnloadDepend(d) ==
  /\ Doing("drop", d)
  /\ IF Found(d) THEN /\ refs' = [refs EXCEPT ![d] = @ - 1]
                      /\ Then(IF refs'[d] = 1 THEN <<<<"unload", d>>>> ELSE << >>)
                 ELSE Then(<< >>) /\ UNCHANGED refs
  /\ UNCHANGED <<inits, list, tail, inited>>

\* The last reference closes the library; the parent goes with its last plugin.
Unref(m) ==
  /\ Doing("unref", m)
  /\ LET last == refs[m] = 1
         dec == {m} \union (IF last THEN ParentsOf(m) ELSE {})
     IN /\ refs' = [x \in Modules |-> IF x \in dec THEN refs[x] - 1 ELSE refs[x]]
        /\ Then(IF ~last THEN << >>
                ELSE IF \E x \in ParentsOf(m) : refs'[x] = 1
                  THEN <<<<"unload", Parent(FileOf(m))>>, <<"remove", m>>>>
                  ELSE <<<<"remove", m>>>>)
  /\ UNCHANGED <<inits, list, tail, inited>>

RemoveModule(m) == /\ Doing("remove", m) /\ Then(<< >>) /\ ListRemove(m)
                   /\ UNCHANGED <<inits, refs, inited>>

-----------------------------------------------------------------------------
(* The calls.                                                              *)

PluginInit ==
  /\ todo = << >> /\ inits < MaxInits
  /\ inits' = inits + 1
  /\ UNCHANGED <<list, tail, refs, inited, todo>>

PluginFini ==
  /\ todo = << >> /\ inits > 0
  /\ inits = 1 => list = << >>
  /\ inits' = inits - 1
  /\ tail' = IF inits = 1 THEN NoModule ELSE tail
  /\ UNCHANGED <<list, refs, inited, todo>>

\* XPR_PluginLoad; XPR_PluginLoadDir is one load after another.
Load(f) ==
  /\ todo = << >> /\ inits > 0
  /\ \A m \in Modules : refs[m] <= MaxRefs
  /\ todo' = <<<<"load", f>>>>
  /\ UNCHANGED <<inits, list, tail, refs, inited>>

\* No check of the code, which neither header nor example asks the caller for:
\* a reference that others count on can be given back, and the plugin finalized
\* under them, or left with no reference when they go, so that
\* XPR_PluginUnloadAll counts it below zero and does not end.
Unneeded(p) == \A q \in inited : ~Contains(Depends[q], p)

Unload(p) ==
  /\ todo = << >> /\ inits > 0 /\ (Careful => Unneeded(p))
  /\ todo' = <<<<"unload", p>>>>
  /\ UNCHANGED <<inits, list, tail, refs, inited>>

UnloadAll ==
  /\ todo = << >> /\ inits > 0
  /\ todo' = <<<<"next", NoModule>>>>
  /\ UNCHANGED <<inits, list, tail, refs, inited>>

\* The first of the list, sorted again; the tail is not.
UnloadNext ==
  /\ Doing("next", NoModule)
  /\ list' = Sorted
  /\ todo' = IF list = << >> THEN << >> ELSE <<<<"unload", Head(list')>>>> \o todo
  /\ UNCHANGED <<inits, tail, refs, inited>>

LoadStep == \/ \E f \in Files : LoadFile(f) \/ GiveUp(f)
            \/ \E p \in Plugins : \/ LoadPlugin(p) \/ LoadDepend(p) \/ RefModuleRecursive(p)
                                  \/ InitPlugin(p) \/ InitFails(p)
Unloads == \E m \in Modules : UnloadModule(m)
UnloadStep == \/ Unloads \/ \E m \in Modules : Unref(m) \/ RemoveModule(m)
              \/ \E p \in Plugins : UnloadDepend(p)
              \/ UnloadNext
Busy == \E p \in Plugins : FiniFails(p)
Call == \/ PluginInit \/ PluginFini \/ UnloadAll
        \/ \E p \in Plugins : Unload(p)
        \/ \E f \in Files : Load(f)

Next == Call \/ LoadStep \/ UnloadStep \/ Busy

Spec == Init /\ [][Next]_vars

\* A call goes on, and no finalizer fails for ever.
FairSpec == Spec /\ WF_vars(LoadStep) /\ WF_vars(UnloadStep) /\ SF_vars(Unloads)

-----------------------------------------------------------------------------
(* Properties.                                                             *)

\* A module is listed once, and counted until it is about to be removed.
TypeOK == /\ inits \in 0 .. MaxInits
          /\ list \in Seq(Modules) /\ IsInjective(list)
          /\ refs \in [Modules -> Nat]
          /\ \A m \in Modules : (refs[m] > 0) =
               (m \in listed /\ ~Contains(todo, <<"remove", m>>))
          /\ inited \subseteq listed \cap Plugins

\* What an initialized plugin depends on is initialized, at every moment of a
\* call and whatever was loaded, failed to load or was unloaded before: as long
\* as the application itself unloads nothing that is needed (Careful).
DependsInited == \A p \in inited : \A d \in Plugins :
                   Contains(Depends[p], d) => d \in inited

\* What plugins counted so often claim of d: of each, a reference for each
\* place where it names d, once for each of its own references.
Uses(p, d) == {i \in DOMAIN Depends[p] : Depends[p][i] = d}
Claims(d, counts) == UNION {({p} \X Uses(p, d)) \X (1 .. counts[p]) : p \in Plugins}

\* A plugin has its own reference and all those of the plugins that depend on
\* it: sorting by count puts dependents first, as XPR_PluginUnloadAll needs.
\* One XPR_PluginUnload of a needed plugin makes counts equal (Careful).
CountCoversDependents ==
  todo = << >> \/ Doing("next", NoModule) =>
    \A d \in inited :
      refs[d] > Cardinality(Claims(d, [p \in Plugins |-> IF p \in inited THEN refs[p] ELSE 0]))

\* The library of several plugins is open as long as one of them is loaded, if
\* no plugin of it is depended on (PluginUsage): through loads that fail after
\* some of its plugins, and finalizers that fail.
LibraryOpen == \A p \in inited : ParentsOf(p) \subseteq listed

\* XPR_PluginLoad, XPR_PluginUnload and XPR_PluginUnloadAll return, although
\* loads that fail leave references behind, if the application is Careful.
CallsReturn == todo # << >> ~> todo = << >>
===============================================================================
