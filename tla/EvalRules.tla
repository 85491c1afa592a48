------------------------------- MODULE EvalRules -------------------------------
(***************************************************************************)
(* How tasks are gathered, placed and counted, how subscores make a grade, what a    *)
(* chat remembers and what a batch of runs is to the trainer.                        *)
(***************************************************************************)
EXTENDS Integers, Sequences, FiniteSets, SequencesExt, FiniteSetsExt

LOCAL Sum(f, S) == FoldSet(LAMBDA k, acc : acc + f[k], 0, S)
LOCAL Distinct(s) == Cardinality(Range(s)) = Len(s)

---------------------------------------------------------------------------
(* Tasksets.  A task: [slug, env, live, container, verifier]; `live` is the         *)
(* environment object it was made by, or "none", `verifier` <<>> or <<its row>>,      *)
(* which has runtime and env of its own or shares those of its task.                 *)

\* Taskset._scan_tasks: a task a module names twice is found twice.
ScanTasks(names) ==
  FlattenSeq([i \in 1..Len(names) |->
    CASE names[i].private -> <<>>
      [] ~names[i].private /\ names[i].is \in {"task", "list", "taskset"} -> names[i].tasks
      [] OTHER -> <<>>])
IndexBySlug(tasks) ==
  LET slugs == [i \in 1..Len(tasks) |-> tasks[i].slug] IN
  IF Distinct(slugs) THEN [ok |-> TRUE, tasks |-> tasks]
  ELSE [ok |-> FALSE, twice |-> {s \in Range(slugs) : Cardinality({i \in 1..Len(tasks) : slugs[i] = s}) > 1}]
Filter(tasks, slugs) == SelectSeq(tasks, LAMBDA t : t.slug \in slugs)
Exclude(tasks, slugs) == SelectSeq(tasks, LAMBDA t : t.slug \notin slugs)

\* _resolve_placement without a runtime= of the caller's.
SharesVerifier(task) == task.verifier # <<>> /\ task.verifier[1].env = task.env /\ ~task.verifier[1].configured
PlacedRows(tasks) ==
  tasks \o FlattenSeq([i \in 1..Len(tasks) |-> IF tasks[i].verifier # <<>> /\ ~SharesVerifier(tasks[i]) THEN tasks[i].verifier ELSE <<>>])
ResolvePlacement(platform, tasks) ==
  LET rows == PlacedRows(tasks) IN
  IF platform THEN [ok |-> TRUE, place |-> [r \in Range(rows) |-> <<"hud">>]]
  ELSE IF rows = <<>> \/ \E i \in 1..Len(rows) : ~rows[i].container /\ rows[i].live = "none" THEN [ok |-> FALSE]
  ELSE [ok |-> TRUE, place |-> [r \in Range(rows) |-> IF r.container THEN <<"docker">> ELSE <<"local", r.live>>]]

\* Taskset.run: task by task, `group` times each under one id.
Expanded(tasks, group) ==
  FlattenSeq([i \in 1..Len(tasks) |-> [k \in 1..group |-> [task |-> tasks[i], group |-> i]]])

---------------------------------------------------------------------------
(* Jobs.  A run: [slug, reward, gerror, raw, terror].                              *)

Graded(runs) == SelectSeq(runs, LAMBDA r : ~r.gerror /\ (r.raw \/ ~r.terror))
Errors(runs) == SelectSeq(runs, LAMBDA r : r.gerror \/ (r.terror /\ ~r.raw))
\* The mean, as a fraction.
Reward(runs) ==
  LET g == Graded(runs) IN
  IF g = <<>> THEN [num |-> 0, den |-> 1] ELSE [num |-> Sum([i \in 1..Len(g) |-> g[i].reward], 1..Len(g)), den |-> Len(g)]
Results(runs) == [s \in {runs[i].slug : i \in 1..Len(runs)} |-> SelectSeq(runs, LAMBDA r : r.slug = s)]

---------------------------------------------------------------------------
(* Chat.send.  What was said is numbered; a turn [runtime, starts, outcome].        *)

Message(role, n) == [role |-> role, of |-> n]
Send(chat, turn) ==
  LET asked == [chat EXCEPT !.messages = Append(@, Message("user", chat.turns + 1)), !.turns = @ + 1]
      opened == [asked EXCEPT !.jobs = IF @ = 0 THEN 1 ELSE @]
      ran == [opened EXCEPT !.prompts = Append(@, opened.messages), !.runs = @ + 1]
  IN CASE ~turn.runtime -> asked
       [] turn.runtime /\ turn.error -> ran
       [] OTHER -> [ran EXCEPT !.messages = Append(@, Message("assistant", ran.turns))]
Conversation(turns) == FoldLeft(Send, [messages |-> <<>>, turns |-> 0, jobs |-> 0, runs |-> 0, prompts |-> <<>>], turns)

---------------------------------------------------------------------------
(* Graders.  A subscore: [name, weight, value], the last two in tenths; a name is a  *)
(* base and the numbers put after it.                                              *)

\* The first free number behind the last one the name took.
Suffix(reserved, acc, name) ==
  LET last == IF name \in DOMAIN acc.usage THEN acc.usage[name] ELSE 0
      taken == acc.used \cup reserved
  IN CHOOSE k \in last + 1..last + Cardinality(taken) + 1 :
       Append(name, k) \notin taken /\ \A j \in last + 1..k - 1 : Append(name, j) \in taken
NameOne(names, acc, name) ==
  IF Cardinality({i \in 1..Len(names) : names[i] = name}) = 1 /\ name \notin acc.used
  THEN [acc EXCEPT !.used = @ \cup {name}, !.names = Append(@, name)]
  ELSE LET k == Suffix(Range(names), acc, name)
       IN [used |-> acc.used \cup {Append(name, k)}, names |-> Append(acc.names, Append(name, k)),
           usage |-> [m \in DOMAIN acc.usage \cup {name} |-> IF m = name THEN k ELSE acc.usage[m]]]
Unnamed == [used |-> {}, names |-> <<>>, usage |-> [m \in {} |-> 0]]
DedupeSubscoreNames(names) == FoldLeft(LAMBDA acc, name : NameOne(names, acc, name), Unnamed, names).names

\* combine: coroutines are awaited together, their results put where they stood;
\* then positive weights are made to sum to one.  The reward is num / den tenths.
Positive(items) == Sum([i \in 1..Len(items) |-> IF items[i].weight > 0 THEN items[i].weight ELSE 0], 1..Len(items))
Placeholder == [name |-> <<"placeholder">>, weight |-> 0, value |-> 0]
Resolve(items) ==
  LET pending == SelectSeq([i \in 1..Len(items) |-> i], LAMBDA i : items[i].kind = "awaited")
      results == [k \in 1..Len(pending) |-> items[pending[k]].score]
      resolved == [i \in 1..Len(items) |-> IF items[i].kind = "awaited" THEN Placeholder ELSE items[i].score]
  IN FoldLeft(LAMBDA acc, k : [acc EXCEPT ![pending[k]] = results[k]], resolved, [k \in 1..Len(pending) |-> k])
CombineSubscores(items) ==
  LET total == Positive(items)
      names == DedupeSubscoreNames([i \in 1..Len(items) |-> items[i].name])
      share(s) == s.weight * s.value * (IF s.weight > 0 THEN 10 ELSE total)
  IN IF items = <<>> \/ total <= 0 THEN [ok |-> FALSE]
     ELSE [ok |-> TRUE, den |-> 10 * total, num |-> Sum([i \in 1..Len(items) |-> share(items[i])], 1..Len(items)),
           subscores |-> [i \in 1..Len(items) |-> [items[i] EXCEPT !.name = names[i]]]]
Combine(items) ==
  IF \E i \in 1..Len(items) : items[i].kind = "awaited" /\ items[i].fails THEN [ok |-> FALSE]
  ELSE CombineSubscores(Resolve(items))
CombineAny(scores) == Max({scores[i].value : i \in 1..Len(scores)})
CombineAll(scores) == Min({scores[i].value : i \in 1..Len(scores)})

\* LLMJudgeGrader: the first "{" to the last "}" as JSON, or the words of the reply.
ParseVerdict(reply) ==
  IF reply.json \in {"MET", "UNMET", "odd"} THEN reply.json = "MET"
  ELSE reply.met /\ ~reply.unmet
\* _rubric_value, in tenths of what the weights sum to.
RubricValue(verdicts) ==
  LET met(v) == ParseVerdict(v.reply)
      weight(sign) == Sum([i \in 1..Len(verdicts) |-> IF sign * verdicts[i].weight > 0 THEN sign * verdicts[i].weight ELSE 0], 1..Len(verdicts))
      sum == Sum([i \in 1..Len(verdicts) |-> IF met(verdicts[i]) THEN verdicts[i].weight ELSE 0], 1..Len(verdicts))
      clamp(n, d) == [num |-> Max({0, Min({d, n})}), den |-> d]
  IN CASE weight(1) > 0 -> clamp(sum, weight(1))
       [] weight(1) = 0 /\ weight(-1) > 0 -> clamp(weight(-1) + sum, weight(-1))
       [] OTHER -> [num |-> 0, den |-> 1]
BashScore(end) == IF end.there /\ ~end.late /\ end.code = 0 THEN 10 ELSE 0

\* normalize and f1_score over words: articles go, the rest is a bag.
Tokenize(words) == SelectSeq(words, LAMBDA w : w # "the")
Times(s, w) == Cardinality({i \in 1..Len(s) : s[i] = w})
F1Score(answer, reference) ==
  LET p == Tokenize(answer)
      r == Tokenize(reference)
      common == Sum([w \in Range(p) |-> Min({Times(p, w), Times(r, w)})], Range(p))
  IN IF p = <<>> \/ r = <<>> \/ common = 0 THEN [num |-> 0, den |-> 1] ELSE [num |-> 2 * common, den |-> Len(p) + Len(r)]
ExactMatch(answer, expected) == Tokenize(answer) = Tokenize(expected)

---------------------------------------------------------------------------
(* Training.  An item is a trace id, an inline payload, or a run [steps, id,      *)
(* group, timeout]; `group` is 0 where it has none.                                *)

\* Trace.final and Trace.collect; a step without samples is 0.
Final(steps) == LET some == {i \in 1..Len(steps) : steps[i] # 0} IN IF some = {} THEN 0 ELSE steps[Max(some)]
Collect(steps) == SelectSeq(steps, LAMBDA s : s # 0)
RunToInput(run) ==
  LET turns == Collect(run.steps) IN
  CASE run.timeout -> [is |-> "refused", turns |-> <<>>]
    [] ~run.timeout /\ turns # <<>> -> [is |-> "payload", turns |-> turns]
    [] ~run.timeout /\ turns = <<>> /\ run.id -> [is |-> "trace", turns |-> <<>>]
    [] OTHER -> [is |-> "refused", turns |-> <<>>]
ToInput(item) == IF item.is = "run" THEN RunToInput(item) ELSE [is |-> item.is, turns |-> <<>>]
Keyed(items) == \A i \in 1..Len(items) : items[i].is = "run" /\ items[i].group # 0
\* _check_groups; {} or {size}.
CheckGroups(items, size) ==
  /\ \A k \in size : Len(items) % k = 0
  /\ Keyed(items) => \A k \in size : \A i \in 1..Len(items) : Cardinality({j \in 1..Len(items) : items[j].group = items[i].group}) = k
ForwardBackward(items, size) ==
  LET inputs == [i \in 1..Len(items) |-> ToInput(items[i])] IN
  IF (\E i \in 1..Len(items) : inputs[i].is = "refused") \/ ~CheckGroups(items, size) THEN [ok |-> FALSE]
  ELSE [ok |-> TRUE, inputs |-> inputs]
\* step: the optimizer only after the gradients were accepted, each once.
StepCalls(items, size, served) ==
  CASE ~ForwardBackward(items, size).ok -> <<>>
    [] ForwardBackward(items, size).ok /\ ~served -> <<"forward-backward">>
    [] OTHER -> <<"forward-backward", "optim-step">>

---------------------------------------------------------------------------
(* Properties.                                                                   *)

\* What a module or a file names is in the taskset once, in its order, or the
\* whole is refused: no row replaces another of the same slug, and what is
\* filtered out and what is left are the taskset.
NoTaskReplaced(names, slugs) ==
  LET found == ScanTasks(names)
      set == IndexBySlug(found)
  IN /\ set.ok <=> \A i, j \in 1..Len(found) : found[i].slug = found[j].slug => i = j
     /\ set.ok => /\ Len(Filter(found, slugs)) + Len(Exclude(found, slugs)) = Len(found)
                  /\ \A i \in 1..Len(found) : (found[i] \in Range(Filter(found, slugs))) # (found[i] \in Range(Exclude(found, slugs)))
     /\ ~set.ok => set.twice # {}

\* A row runs in its own environment, or the whole is refused: rows of two live
\* environments never share one, and a verifier that is another substrate's has a
\* place of its own.
PlacedAtHome(platform, tasks) ==
  LET r == ResolvePlacement(platform, tasks) IN
  r.ok /\ ~platform => \A i \in 1..Len(tasks) :
    /\ r.place[tasks[i]] = (IF tasks[i].container THEN <<"docker">> ELSE <<"local", tasks[i].live>>)
    /\ ~tasks[i].container => r.place[tasks[i]][2] # "none"
    /\ tasks[i].verifier # <<>> /\ ~SharesVerifier(tasks[i]) => tasks[i].verifier[1] \in DOMAIN r.place

\* Repeats of a task, and only they, are one group, side by side and in the order of the tasks.
GroupsInOrder(tasks, group) ==
  LET all == Expanded(tasks, group) IN
  /\ Len(all) = Len(tasks) * group
  /\ \A i \in 1..Len(all) : all[i].task = tasks[(i - 1) \div group + 1]
  /\ \A i, j \in 1..Len(all) : all[i].group = all[j].group <=> (i - 1) \div group = (j - 1) \div group

\* Every run counts once, in the reward or among the errors, and under its task;
\* the reward is none of the errors' and lies between its runs'.
CountedOnce(runs) ==
  LET m == Reward(runs) IN
  /\ Len(Graded(runs)) + Len(Errors(runs)) = Len(runs)
  /\ \A r \in Range(runs) : (r \in Range(Graded(runs))) # (r \in Range(Errors(runs)))
  /\ Graded(runs) # <<>> => /\ m.num <= m.den * Max({r.reward : r \in Range(Graded(runs))})
                            /\ m.num >= m.den * Min({r.reward : r \in Range(Graded(runs))})
  /\ \A r \in Range(runs) : r \in Range(Results(runs)[r.slug]) /\ \A s \in Range(Results(runs)[r.slug]) : s.slug = r.slug

\* A turn is put to the model with all that was said before it, each thing once
\* and in order; what a failed turn answered is not remembered, what it asked is.
HistoryKept(turns) ==
  LET end == Conversation(turns)
      answered(k) == turns[k].runtime /\ ~turns[k].error
      said(k) == FlattenSeq([i \in 1..k |-> <<Message("user", i)>> \o (IF answered(i) /\ i < k THEN <<Message("assistant", i)>> ELSE <<>>)])
      ran == {i \in 1..Len(turns) : turns[i].runtime}
  IN /\ Len(end.prompts) = Cardinality(ran) /\ end.jobs = (IF ran = {} THEN 0 ELSE 1)
     /\ \A k \in ran : end.prompts[Cardinality({i \in ran : i <= k})] = said(k)

\* No two of the given names are one, and one that was alone in its name keeps it.
NamesApart(names, given) ==
  /\ Len(given) = Len(names) /\ \A i, j \in 1..Len(given) : given[i] = given[j] => i = j
  /\ \A i \in 1..Len(names) : (\A j \in 1..Len(names) : names[j] = names[i] => i = j) => given[i] = names[i]

\* The subscores of a result are told apart by their names; the parts stand where they were given, awaited or not, and the reward
\* never leaves what they allow; a penalty of one that is met takes all of it.
SubscoresApart(items) ==
  LET r == Combine(items)
      scores == [i \in 1..Len(items) |-> items[i].score]
  IN r.ok =>
     /\ NamesApart([i \in 1..Len(items) |-> scores[i].name], [i \in 1..Len(items) |-> r.subscores[i].name])
     /\ \A i \in 1..Len(items) : r.subscores[i].value = scores[i].value
     /\ r.num <= 10 * r.den
     /\ (\E i \in 1..Len(items) : scores[i].weight <= -10 /\ scores[i].value = 10) => r.num <= 0
     /\ (\A i \in 1..Len(items) : scores[i].weight > 0) =>
          /\ r.num >= r.den * CombineAll(scores)
          /\ r.num <= r.den * CombineAny(scores)

\* A rubric is worth a whole at most and nothing at least; a judge that says of a
\* criterion what speaks for the answer never makes it less, and saying so of all
\* makes it whole: a verdict in words is read as it is in JSON.
Says(verdict) == [json |-> "none", met |-> TRUE, unmet |-> verdict = "UNMET"]
RubricMonotone(verdicts) ==
  LET v == RubricValue(verdicts)
      best(x) == [x EXCEPT !.reply = Says(IF x.weight > 0 THEN "MET" ELSE "UNMET")]
      all == RubricValue([i \in 1..Len(verdicts) |-> best(verdicts[i])])
  IN /\ v.num \in 0..v.den
     /\ \A i \in 1..Len(verdicts) :
          LET w == RubricValue([verdicts EXCEPT ![i] = best(@)]) IN w.num * v.den >= v.num * w.den
     /\ (\E i \in 1..Len(verdicts) : verdicts[i].weight # 0) => all.num = all.den

\* Two texts score one exactly where they are the same words, articles aside, in
\* any order, and alike from both sides; an exact match scores one unless empty.
F1Symmetric(answer, reference) ==
  LET f == F1Score(answer, reference)
      b == F1Score(reference, answer)
  IN /\ f = b /\ f.num <= f.den
     /\ f.num = f.den <=> Tokenize(answer) # <<>> /\ \A w \in Range(answer) \cup Range(reference) : w = "the" \/ Times(answer, w) = Times(reference, w)
     /\ ExactMatch(answer, reference) /\ Tokenize(answer) # <<>> => f.num = f.den

\* A batch reaches the trainer whole or not at all, its inputs in order; with
\* group ids and a size every group is full; no optimizer step follows a pass
\* that failed, and neither is sent twice.
BatchWhole(items, size, served) ==
  LET r == ForwardBackward(items, size)
      calls == StepCalls(items, size, served)
  IN /\ r.ok => /\ Len(r.inputs) = Len(items) /\ \A i \in 1..Len(items) : items[i].is # "run" => r.inputs[i].is = items[i].is
                /\ \A i \in 1..Len(items) : items[i].is = "run" =>
                     ~items[i].timeout /\ Final(items[i].steps) = (IF r.inputs[i].turns = <<>> THEN 0 ELSE Last(r.inputs[i].turns))
                /\ Keyed(items) => \A k \in size : \A i \in 1..Len(items) : Cardinality({j \in 1..Len(items) : items[j].group = items[i].group}) = k
     /\ Distinct(calls) /\ ("optim-step" \in Range(calls) => r.ok /\ served /\ calls[1] = "forward-backward")
=============================================================================
