------------------------------ MODULE PlanTodos ------------------------------
(***************************************************************************)
(* The todos of a thread and the plans of its workspace.  create_plan      *)
(* writes a plan, and its tasks become todos; todo_write and the route for *)
(* todos replace the list, and tick the boxes of the plan's tasks.         *)
(*                                                                         *)
(* A plan is the sequence of its task lines, the other ones are left out;  *)
(* its id is made of its path.  A source says which line of which plan a   *)
(* todo is about.  The hash of a text is the text.  One step is what runs  *)
(* between two awaits, or under the mutation queue of a file.              *)
(*                                                                         *)
(* PlaceFirst is a way to get the next definition wrong.                 *)
(***************************************************************************)
EXTENDS Naturals, Sequences, SequencesExt, FiniteSetsExt

CONSTANTS
  AtOnce,      \* bound: calls at work at once
  Text,        \* what a task says
  MaxPlan,     \* plans that are looked at
  Drafts,      \* what models, and people, write to a plan: sequences of [text, done]
  MaxCalls     \* bound: calls, and plans written or removed by others

Slot == 1 .. AtOnce
Plan == 1 .. MaxPlan  \* in the order of the names that are tried
Absent == <<>>
NoSource == [plan |-> 0, ordinal |-> 0, text |-> ""]
NoId == <<0, 0, "">>
Status == {"pending", "in_progress", "completed"}

VARIABLES
  plans,       \* the plan files
  todos,       \* the list of the thread
  call,        \* each slot
  started,     \* how many calls there were
  past         \* history: what got in the way

todoVars == <<plans, todos, call, started, past>>

IdsOf(list) == {list[i].id : i \in DOMAIN list}
Done(item) == item.status = "completed"
-----------------------------------------------------------------------------
(***************************************************************************)
(* todos.ts                                                                *)
(***************************************************************************)
\* The first of the first set that has one.
Best(candidates) ==
  FoldLeft(LAMBDA best, set : IF best # 0 \/ set = {} THEN best ELSE Min(set), 0, candidates)

extractPlanTodos(plan, markdown) ==
  [i \in DOMAIN markdown |->
     [id |-> <<plan, i, markdown[i].text>>, text |-> markdown[i].text,
      status |-> IF markdown[i].done THEN "completed" ELSE "pending",
      source |-> [plan |-> plan, ordinal |-> i, text |-> markdown[i].text]]]

Free(list, used) == {i \in DOMAIN list : list[i].id \notin used}
Agree(x, y, fields) == x.plan # 0 /\ \A f \in fields : x[f] = y[f]

PlaceFirst(list, used, item) ==
  LET With(fields) == {i \in Free(list, used) : Agree(list[i].source, item.source, fields)} IN
  Best(<<With({"plan", "ordinal"}), With({"plan", "text"}),
         {i \in Free(list, used) : list[i].text = item.text}>>)
findExistingPlanTodo(list, used, item) ==
  LET With(fields) == {i \in Free(list, used) : Agree(list[i].source, item.source, fields)} IN
  Best(<<With({"plan", "text"}), {i \in Free(list, used) : list[i].text = item.text},
         With({"plan", "ordinal"})>>)

\* A todo that is found keeps its id and status, whatever the plan shows; one that is not
\* loses its source.
mergePlanTodos(list, planItems) ==
  LET Take(acc, item, i) ==
        IF i = 0 THEN [acc EXCEPT !.items = Append(@, item)]
        ELSE [used |-> acc.used \cup {list[i].id},
              items |-> Append(acc.items, [item EXCEPT !.id = list[i].id, !.status = list[i].status])]
      taken == FoldLeft(LAMBDA acc, item : Take(acc, item, findExistingPlanTodo(list, acc.used, item)),
                        [used |-> {}, items |-> <<>>], planItems)
      left == SelectSeq(list, LAMBDA item : item.id \notin taken.used)
  IN taken.items \o [i \in DOMAIN left |-> [left[i] EXCEPT !.source = NoSource]]

patchPlanTodoStatus(markdown, item) ==
  LET said == {i \in DOMAIN markdown : markdown[i].text = item.source.text}
      there == {item.source.ordinal} \cap DOMAIN markdown
      target == Best(<<said \cap there, said, there>>)
  IN IF target = 0 THEN markdown ELSE [markdown EXCEPT ![target].done = Done(item)]
-----------------------------------------------------------------------------
(***************************************************************************)
(* thread-service.ts                                                       *)
(***************************************************************************)
findExistingTodoForRaw(list, used, raw) ==
  LET With(fields) == {i \in Free(list, used) : Agree(list[i].source, raw.source, fields)} IN
  IF raw.source # NoSource
  THEN Best(<<With({"plan", "ordinal", "text"}), With({"plan", "text"}), With({"plan", "ordinal"})>>)
  ELSE Best(<<{i \in Free(list, used) : list[i].source = NoSource /\ list[i].text = raw.text}>>)

\* ids.next: an id that nobody remembers stands for one that never was.
Fresh(used) == <<0, CHOOSE n \in 1 .. 9 : <<0, n, "">> \notin used, "">>

RequestedId(list, used, raw) ==
  IF raw.id # NoId THEN raw.id
  ELSE LET i == findExistingTodoForRaw(list, used, raw) IN IF i = 0 THEN NoId ELSE list[i].id

uniqueTodoId(requested, used, taken) ==
  IF requested \in used \cup {NoId} THEN Fresh(used \cup taken) ELSE requested

normalizeTodoItems(raws, list, taken) ==
  FoldLeft(LAMBDA items, raw :
             LET used == IdsOf(items) IN
             Append(items, [raw EXCEPT !.id = uniqueTodoId(RequestedId(list, used, raw), used, taken)]),
           <<>>, raws)

Changed(items, list) ==
  SelectSeq(items, LAMBDA x : x.source # NoSource /\
                     ~\E i \in DOMAIN list : list[i].id = x.id /\ list[i].status = x.status)
-----------------------------------------------------------------------------
NoCall == [op |-> "none", pc |-> "idle", plan |-> 0, own |-> FALSE, markdown |-> <<>>, list |-> <<>>,
           base |-> <<>>]

Init ==
  /\ plans = [p \in Plan |-> Absent] /\ todos = <<>> /\ call = [s \in Slot |-> NoCall]
  /\ started = 0
  /\ past = [stray |-> {}, kept |-> {}, renamed |-> FALSE, alike |-> FALSE, lost |-> FALSE, met |-> FALSE]

At(s, pc) == call[s].pc = pc
Goes(s, pc) == call' = [call EXCEPT ![s].pc = pc]
Ends(s) == call' = [call EXCEPT ![s] = NoCall]
MayBegin(s) == started < MaxCalls /\ At(s, "idle") /\ \A t \in 1 .. (s - 1) : ~At(t, "idle")
Begin(s, c) == started' = started + 1 /\ call' = [call EXCEPT ![s] = c]

\* create_plan of this thread ("plan") or of another one of the workspace ("theirs"): with
\* the path of a plan, or with a name of its own that is free.
CreatePlan(s) ==
  /\ MayBegin(s)
  /\ \E op \in {"plan", "theirs"}, p \in {0} \cup {q \in Plan : plans[q] # Absent}, markdown \in Drafts :
       Begin(s, [NoCall EXCEPT !.op = op, !.pc = IF p = 0 THEN "name" ELSE "write", !.plan = p,
                               !.own = p = 0, !.markdown = markdown])
  /\ UNCHANGED <<plans, todos, past>>

ChooseName(s) ==
  /\ At(s, "name")
  /\ \E p \in Plan :
       /\ plans[p] = Absent /\ \A q \in 1 .. (p - 1) : plans[q] # Absent
       /\ call' = [call EXCEPT ![s].pc = "write", ![s].plan = p]
  /\ past' = [past EXCEPT !.met = @ \/ \E t \in Slot \ {s} : At(t, "write") /\ call[t].plan = call'[s].plan]
  /\ UNCHANGED <<plans, todos, started>>

\* An abort is seen before the plan is renamed to its place, or after.
WritePlan(s) ==
  /\ At(s, "write")
  /\ plans' = [plans EXCEPT ![call[s].plan] = call[s].markdown]
  /\ past' = [past EXCEPT !.stray = @ \cup {call[s].plan}]
  /\ IF call[s].op = "plan" THEN Goes(s, "sync") \/ Ends(s) ELSE Ends(s)
  /\ UNCHANGED <<todos, started>>

Abort(s) ==
  /\ call[s].pc \in {"name", "write"} /\ Ends(s)
  /\ UNCHANGED <<plans, todos, started, past>>

syncTodosFromPlan(s) ==
  /\ At(s, "sync")
  /\ call' = [call EXCEPT ![s].pc = "upsert", ![s].base = todos,
                          ![s].list = mergePlanTodos(todos, extractPlanTodos(call[s].plan, call[s].markdown))]
  /\ UNCHANGED <<plans, todos, started, past>>
-----------------------------------------------------------------------------
\* What a person or a model makes of the list there is: another status, or another text, for
\* one todo, one more, or one less.
Amended(list) ==
  {[list EXCEPT ![i].status = status] : i \in DOMAIN list, status \in Status}
  \cup {[list EXCEPT ![i].text = text] : i \in DOMAIN list, text \in Text}
  \cup {Append(list, [id |-> NoId, text |-> text, status |-> "pending", source |-> NoSource]) : text \in Text}
  \cup {RemoveAt(list, i) : i \in DOMAIN list}

\* A model may leave out what is optional: the sources, and the ids.
Bare(list) == [i \in DOMAIN list |-> [list[i] EXCEPT !.source = NoSource]]
Nameless(list) == [i \in DOMAIN list |-> [list[i] EXCEPT !.id = NoId]]

Active(list) == {i \in DOMAIN list : list[i].status = "in_progress"}

\* normalizeToolTodos: only the first one that is in progress stays so.
OneActive(list) ==
  [i \in DOMAIN list |-> [list[i] EXCEPT !.status = IF i \in Active(list) /\ \E j \in Active(list) : j < i
                                                    THEN "pending" ELSE @]]

\* The list is made of the todos as they are when the call begins, and of what it is told.
WriteTodos(s) ==
  /\ MayBegin(s)
  /\ \E list \in Amended(todos) :
       \E asked \in {list} \cup {OneActive(l) : l \in {list, Bare(list), Nameless(Bare(list))}} :
         Begin(s, [NoCall EXCEPT !.op = "todos", !.pc = "read", !.list = asked, !.base = todos])
  /\ UNCHANGED <<plans, todos, past>>

Remembered == IdsOf(todos) \cup UNION {IdsOf(call[t].list) : t \in Slot}

\* setTodos up to its first write; it refuses a list with two todos in progress.
setTodos(s) ==
  LET items == normalizeTodoItems(call[s].list, todos, Remembered) IN
  /\ At(s, "read")
  /\ IF Cardinality(Active(call[s].list)) > 1 THEN Ends(s)
     ELSE call' = [call EXCEPT ![s].pc = IF Changed(items, todos) = <<>> THEN "upsert" ELSE "patch",
                               ![s].list = items, ![s].base = todos]
  /\ past' = [past EXCEPT !.lost = @ \/ call[s].base # todos]
  /\ UNCHANGED <<plans, todos, started>>

Patched(p, items) ==
  FoldLeft(patchPlanTodoStatus, plans[p], SelectSeq(items, LAMBDA x : x.source.plan = p))

\* A plan that is not there cannot be read, and the call fails.
patchPlanMarkdownForTodoStatusChanges(s) ==
  LET items == Changed(call[s].list, call[s].base) IN
  /\ At(s, "patch")
  /\ IF \E i \in DOMAIN items : plans[items[i].source.plan] = Absent
     THEN Ends(s) /\ UNCHANGED plans
     ELSE Goes(s, "upsert") /\ plans' = [p \in Plan |-> Patched(p, items)]
  /\ UNCHANGED <<todos, started, past>>

clearTodos(s) ==
  /\ MayBegin(s) /\ todos # <<>>
  /\ Begin(s, [NoCall EXCEPT !.op = "todos", !.pc = "upsert", !.base = todos])
  /\ UNCHANGED <<plans, todos, past>>

\* A todo that keeps its id is given another text.
Renames(c) ==
  c.op = "todos" /\ \E x \in ToSet(c.list), y \in ToSet(c.base) : x.id = y.id /\ x.text # y.text

\* Todos whose status a sync has kept although the plan shows another one.
Kept(c) ==
  IF c.op = "plan"
  THEN {x.id : x \in {y \in ToSet(c.list) : y.source # NoSource /\ Done(y) # c.markdown[y.source.ordinal].done}}
  ELSE past.kept \ IdsOf(Changed(c.list, c.base))

HasTwins(markdown) == \E i, j \in DOMAIN markdown : i # j /\ markdown[i].text = markdown[j].text

\* The thread as it was read is written with its new list.
Upsert(s) ==
  LET c == call[s] IN
  /\ At(s, "upsert") /\ Ends(s)
  /\ todos' = c.list
  /\ past' = [past EXCEPT !.lost = @ \/ \E t \in Slot \ {s} : call[t].pc \in {"patch", "upsert"},
                          !.kept = Kept(c),
                          !.renamed = @ \/ Renames(c),
                          !.alike = @ \/ (c.op = "plan" /\ HasTwins(c.markdown)),
                          !.stray = IF c.op # "plan" THEN @
                                    ELSE IF plans[c.plan] = c.markdown THEN @ \ {c.plan}
                                    ELSE @ \cup {c.plan}]
  /\ UNCHANGED <<plans, started>>

\* A person edits or removes a plan.
Rewrite(p, markdown) ==
  /\ started < MaxCalls /\ started' = started + 1
  /\ plans[p] # Absent /\ plans' = [plans EXCEPT ![p] = markdown]
  /\ past' = [past EXCEPT !.stray = @ \cup {p}]
  /\ UNCHANGED <<todos, call>>

Next ==
  \/ \E s \in Slot :
       \/ CreatePlan(s) \/ ChooseName(s) \/ WritePlan(s) \/ Abort(s) \/ syncTodosFromPlan(s)
       \/ WriteTodos(s) \/ setTodos(s) \/ patchPlanMarkdownForTodoStatusChanges(s) \/ clearTodos(s)
       \/ Upsert(s)
  \/ \E p \in Plan, markdown \in Drafts \cup {Absent} : Rewrite(p, markdown)
-----------------------------------------------------------------------------
Quiet == \A s \in Slot : At(s, "idle")

\* Ids are told apart, one todo at most is in progress, and the list is about one plan, unless
\* a todo was given another text.
ListIsSound ==
  /\ Cardinality(Active(todos)) <= 1
  /\ Cardinality({x.source.plan : x \in {y \in ToSet(todos) : y.source # NoSource}}) <= 1
  /\ ~past.renamed /\ ~past.alike => Cardinality(IdsOf(todos)) = Len(todos)

\* The todos of a plan stand for its lines, and, but for what a sync has kept, its boxes show
\* their status, when nobody is at work, unless the plan was written by somebody else or an
\* update met another one.
BoxesShowTodos ==
  Quiet /\ ~past.lost =>
    \A x \in ToSet(todos) :
      x.source # NoSource /\ x.source.plan \notin past.stray =>
        LET lines == plans[x.source.plan] IN
        /\ x.source.ordinal \in DOMAIN lines /\ lines[x.source.ordinal].text = x.source.text
        /\ x.id \notin past.kept => lines[x.source.ordinal].done = Done(x)

\* A refined plan keeps a task that it says again, with its id and status, unless a task that
\* is new stands on an earlier line, where the list has one that is on its way further down.
\* (Two tasks of one text, and todos with another text than their line, are not told apart.)
IsOnce(t, list) == Cardinality({i \in DOMAIN list : list[i].text = t}) = 1
IsDisplaced(x, list, planItems) ==
  \E i \in DOMAIN planItems :
    /\ planItems[i].text \notin {y.text : y \in ToSet(list)}
    /\ x.source.plan = planItems[i].source.plan /\ x.source.ordinal = i
    /\ \E j \in (i + 1) .. Len(planItems) : planItems[j].text = x.text
TasksAreKept ==
  \A s \in Slot :
    At(s, "sync") /\ call'[s].pc = "upsert" /\ ~past.renamed =>
      LET planItems == extractPlanTodos(call[s].plan, call[s].markdown)
          list == call'[s].list IN
      /\ IdsOf(todos) \subseteq IdsOf(list)
      /\ \A x \in ToSet(todos), y \in ToSet(planItems) :
           x.text = y.text /\ IsOnce(x.text, todos) /\ ~IsDisplaced(x, todos, planItems) =>
               \E z \in ToSet(list) : z.text = x.text /\ z.id = x.id /\ z.status = x.status

\* An update ticks the line of the task, unless the plan was written since its todos were made
\* of it.
TicksAreMeant ==
  \A s \in Slot :
    At(s, "patch") /\ call'[s].pc = "upsert" /\ ~past.lost =>
      \A p \in Plan \ past.stray : \A i \in DOMAIN plans[p] :
        plans'[p][i] # plans[p][i] =>
          \E x \in ToSet(call[s].list) :
            /\ x.source = [plan |-> p, ordinal |-> i, text |-> plans[p][i].text]
            /\ plans'[p][i].done = Done(x)

\* create_plan replaces a plan only if it was told to, or if two calls chose a name at once.
NamesAreFree ==
  \A s \in Slot :
    At(s, "write") /\ plans' # plans /\ call[s].own /\ ~past.met =>
      plans[call[s].plan] \in {Absent, plans'[call[s].plan]}

\* Plans and todos go together, but for what other writers, other texts and twins of a task do.
TodosFollowThePlan ==
  [][ListIsSound' /\ BoxesShowTodos' /\ TasksAreKept /\ TicksAreMeant /\ NamesAreFree]_todoVars
=============================================================================
