------------------------------ MODULE ScreenRules ------------------------------
(***************************************************************************)
(* What the computer tools of Claude, OpenAI and Gemini do to a screen over RFB.  *)
(* A call becomes a program of the verbs of rfb.py; playing it may fail at any       *)
(* drain, at a key the keyboard does not know, or where the arguments are wrong.     *)
(* A coordinate is {} or {<<x, y>>}, keys a sequence of names.                        *)
(***************************************************************************)
EXTENDS Integers, Sequences, FiniteSets, SequencesExt, FiniteSetsExt

---------------------------------------------------------------------------
(* The pointer and the keyboard (asyncvnc): what is held is let go when its body  *)
(* ends, however it ends.                                                          *)

Still == [held |-> {}, at |-> <<0, 0>>, path |-> <<>>, typed |-> <<>>, drains |-> 0, failed |-> FALSE]
Item(do, what) == [do |-> do, what |-> what, at |-> <<0, 0>>, body |-> <<>>]
Drain == <<Item("drain", "none")>>
Raise == <<Item("raise", "none")>>
Set(do, what) == <<Item(do, what)>>
To(p) == <<[Item("move", "none") EXCEPT !.at = p]>>
Hold(what, body) == <<[Item("hold", what) EXCEPT !.body = body]>>

RECURSIVE Play(_, _, _)
Play(program, st, failAt) ==
  IF program = <<>> \/ st.failed THEN st
  ELSE LET item == Head(program)
           release(s) == [s EXCEPT !.held = @ \ {item.what}]
           next == CASE item.do = "move" -> [st EXCEPT !.at = item.at, !.path = Append(@, <<item.at, st.held>>)]
                     [] item.do = "drain" -> [st EXCEPT !.drains = @ + 1, !.failed = st.drains + 1 = failAt]
                     [] item.do = "down" -> [st EXCEPT !.held = @ \cup {item.what}]
                     [] item.do = "up" -> release(st)
                     [] item.do = "hold" /\ item.what # "unknown" ->
                          release(Play(item.body, [st EXCEPT !.held = @ \cup {item.what}, !.typed = Append(@, item.what)], failAt))
                     [] OTHER -> [st EXCEPT !.failed = TRUE]
       IN Play(Tail(program), next, failAt)

---------------------------------------------------------------------------
(* The verbs of RFBTool.                                                          *)

WithKeys(keys, body) == FoldRight(LAMBDA k, rest : Hold(k, rest), keys, body)
Times(n, program) == FlattenSeq([i \in 1..n |-> program])
MoveIf(at) == IF at = {} THEN <<>> ELSE To(CHOOSE p \in at : TRUE)
Move(at) == MoveIf(at) \o Drain
Click(at, button, count, keys) == MoveIf(at) \o WithKeys(keys, Times(count, Hold(button, <<>>))) \o Drain
MouseDown == Set("down", "left") \o Drain
MouseUp == Set("up", "left") \o Drain
Scroll(at, dy, keys) ==
  MoveIf(at) \o WithKeys(keys, IF dy > 0 THEN Times(dy, Hold("wheel-down", <<>>)) ELSE Times(-dy, Hold("wheel-up", <<>>))) \o Drain
\* A drag is made of small moves, so that no page takes it for a click.
Abs(n) == IF n < 0 THEN -n ELSE n
Steps(p, q) == Max({1, Min({24, Max({Abs(q[1] - p[1]), Abs(q[2] - p[2])}) \div 16})})
Glide(p, q) ==
  FlattenSeq([i \in 1..Steps(p, q) |->
    To(<<p[1] + ((q[1] - p[1]) * i) \div Steps(p, q), p[2] + ((q[2] - p[2]) * i) \div Steps(p, q)>>) \o Drain])
Drag(path, keys) ==
  IF Len(path) < 2 THEN Raise
  ELSE WithKeys(keys, To(path[1]) \o Drain
                        \o Hold("left", Drain \o FlattenSeq([k \in 1..Len(path) - 1 |-> Glide(path[k], path[k + 1])]))) \o Drain
\* type_text: a line break of either sort is Return once; a tab is Tab.
Newlines(text) == {i \in 1..Len(text) : text[i] \in {"cr", "lf"} /\ ~(text[i] = "cr" /\ i < Len(text) /\ text[i + 1] = "lf")}
TypeText(text) ==
  FlattenSeq([i \in 1..Len(text) |->
    CASE i \in Newlines(text) -> Hold("Return", <<>>)
      [] i \notin Newlines(text) /\ text[i] \in {"cr", "lf"} -> <<>>
      [] text[i] = "tab" -> Hold("Tab", <<>>)
      [] OTHER -> Hold(text[i], <<>>)]) \o Drain
PressKeys(keys, count) == Times(count, WithKeys(keys, <<>>)) \o Drain
HoldKey(key) == Hold(key, <<>>) \o Drain

---------------------------------------------------------------------------
(* The three tools.  args: [at, start, text, keys, chords, count, amount, direction, *)
(* button, clear, enter]; "" and {} where the model gave none.  A program with no     *)
(* screenshot after it is one that answers by text.                                   *)

\* RFBClient.screenshot_png: three tries, a new connection before each but the first.
Tries(outcomes) ==
  LET good == {i \in 1..3 : outcomes[i].shot}
      broken == {i \in 1..2 : ~outcomes[i].shot /\ ~outcomes[i].reconnects}
      first == IF good = {} THEN 4 ELSE Min(good)
  IN IF \E i \in broken : i < first THEN [ok |-> FALSE, tries |-> Min(broken)]
     ELSE [ok |-> good # {}, tries |-> IF first = 4 THEN 3 ELSE first]

Direction(args) == CASE args.direction = "down" -> args.amount [] args.direction = "up" -> -args.amount [] OTHER -> 0
Buttons == [left_click |-> <<"left", 1>>, right_click |-> <<"right", 1>>, middle_click |-> <<"middle", 1>>,
            double_click |-> <<"left", 2>>, triple_click |-> <<"left", 3>>]
Path(args) == FlattenSeq([i \in 1..2 |-> LET p == IF i = 1 THEN args.start ELSE args.at IN IF p = {} THEN <<>> ELSE <<CHOOSE q \in p : TRUE>>])
\* ClaudeComputerTool._dispatch.
ClaudeProgram(action, args) ==
  CASE action \in DOMAIN Buttons -> Click(args.at, Buttons[action][1], Buttons[action][2], args.keys)
    [] action = "mouse_move" -> IF args.at = {} THEN Raise ELSE Move(args.at)
    [] action = "left_mouse_down" -> MouseDown
    [] action = "left_mouse_up" -> MouseUp
    [] action = "type" -> TypeText(args.text)
    [] action = "key" -> IF args.chords = <<>> THEN Raise
                         ELSE Times(Min({args.count, 100}), FlattenSeq([i \in 1..Len(args.chords) |-> PressKeys(args.chords[i], 1)]))
    [] action = "hold_key" -> IF args.keys = <<>> THEN Raise ELSE HoldKey(args.keys[1])
    [] action = "scroll" -> Scroll(args.at, Direction(args), args.keys)
    [] action = "left_click_drag" -> Drag(Path(args), args.keys)
    [] action \in {"screenshot", "zoom", "wait", "cursor_position"} -> <<>>
    [] OTHER -> Raise
\* ClaudeComputerTool.execute and GeminiComputerTool.execute: an exception
\* becomes an error, without a screenshot; anything else ends in one.
Answered(end, shot) ==
  IF end.failed \/ ~shot THEN [state |-> end, error |-> TRUE, shot |-> FALSE] ELSE [state |-> end, error |-> FALSE, shot |-> shot]
Claude(action, args, st, failAt, shot) == Answered(Play(ClaudeProgram(action, args), st, failAt), shot)

\* GeminiComputerTool._dispatch.
Inset == 25
Clamp(v, screen) == Min({Max({v, Inset}), Max({screen[1], screen[2]}) - Inset})
Clamped(at, screen) == IF at = {} THEN <<0, 0>> ELSE LET p == CHOOSE q \in at : TRUE IN <<Clamp(p[1], screen), Clamp(p[2], screen)>>
GeminiProgram(action, args, screen) ==
  CASE action = "click_at" -> Click(args.at, "left", 1, <<>>)
    [] action = "hover_at" -> IF args.at = {} THEN <<>> ELSE Move(args.at)
    [] action = "type_text_at" ->
         (IF args.at = {} THEN <<>> ELSE Move(args.at) \o Click(args.at, "left", 1, <<>>))
           \o (IF args.clear THEN PressKeys(<<"Control", "a">>, 1) \o PressKeys(<<"Delete">>, 1) ELSE <<>>)
           \o (IF args.text = <<>> THEN <<>> ELSE TypeText(args.text))
           \o (IF args.enter THEN PressKeys(<<"Return">>, 1) ELSE <<>>)
    [] action = "scroll_at" -> Scroll(args.at, Direction(args), <<>>)
    [] action = "navigate" -> PressKeys(<<"Control", "l">>, 1) \o TypeText(args.text) \o PressKeys(<<"Return">>, 1)
    [] action = "key_combination" -> PressKeys(args.keys, 1)
    [] action = "drag_and_drop" -> Drag(<<Clamped(args.start, screen), Clamped(args.at, screen)>>, <<>>)
    [] action \in {"open_web_browser", "wait_5_seconds"} -> <<>>
    [] OTHER -> Raise
Gemini(action, args, screen, st, failAt, shot) == Answered(Play(GeminiProgram(action, args, screen), st, failAt), shot)

\* OpenAIComputerTool._dispatch, and _execute_one over the list of a call: the
\* first that fails ends it, and what is answered carries a screenshot either way.
OpenAIProgram(action, args) ==
  CASE action = "click" -> IF args.button \in {"left", "middle", "right"} THEN Click(args.at, args.button, 1, args.keys) ELSE Raise
    [] action = "double_click" -> Click(args.at, "left", 2, args.keys)
    [] action = "scroll" -> Scroll(args.at, Direction(args), args.keys)
    [] action = "type" -> TypeText(args.text)
    [] action = "move" -> IF args.at = {} THEN Raise ELSE Move(args.at)
    [] action = "keypress" -> IF args.keys = <<>> THEN Raise ELSE PressKeys(args.keys, 1)
    [] action = "drag" -> Drag(Path(args), args.keys)
    [] action \in {"screenshot", "wait", "response"} -> <<>>
    [] OTHER -> Raise
\* Mutant: an action that failed does not end the call.
ExecuteOne_Goes(acc, call, failAt) ==
  [state |-> Play(OpenAIProgram(call.action, call.args), [acc.state EXCEPT !.failed = FALSE], failAt), ran |-> acc.ran + 1]
ExecuteOne(acc, call, failAt) ==
  IF acc.state.failed THEN acc
  ELSE [state |-> Play(OpenAIProgram(call.action, call.args), acc.state, failAt), ran |-> acc.ran + 1]
OpenAI(calls, st, failAt, shot) ==
  LET end == FoldLeft(LAMBDA acc, c : ExecuteOne(acc, c, failAt), [state |-> st, ran |-> 0], calls) IN
  [state |-> end.state, ran |-> end.ran, error |-> end.state.failed \/ calls = <<>> \/ ~shot, shot |-> shot]

---------------------------------------------------------------------------
(* Properties.                                                                   *)

\* Whatever the call and wherever it breaks off, no key stays down and no button
\* but the one the model itself asked to hold; an error is not taken for a
\* success, and a success shows the screen.
Released(result, st) == result.state.held \subseteq st.held
NothingHeld(tool, action, args, st, failAt, shot) ==
  LET r == CASE tool = "claude" -> Claude(action, args, st, failAt, shot)
             [] tool = "gemini" -> Gemini(action, args, <<100, 80>>, st, failAt, shot)
             [] OTHER -> OpenAI(<<[action |-> action, args |-> args]>>, st, failAt, shot)
  IN /\ Released(r, IF action = "left_mouse_down" THEN [st EXCEPT !.held = {"left"}] ELSE st)
     /\ r.state.failed => r.error
     /\ ~r.error => r.shot
     /\ action = "left_mouse_down" /\ tool = "claude" /\ ~r.state.failed => "left" \in r.state.held

\* Of the actions of one call those before the first that fails are done, once
\* and in order, and none after it.
ActionsStop(calls, st, failAt, shot) ==
  LET r == OpenAI(calls, st, failAt, shot)
      whole == Play(FlattenSeq([i \in 1..r.ran |-> OpenAIProgram(calls[i].action, calls[i].args)]), st, failAt)
  IN /\ r.state = whole /\ Released(r, st)
     /\ r.ran < Len(calls) => r.state.failed
     /\ r.state.failed => \A k \in 1..r.ran - 1 :
          ~Play(FlattenSeq([i \in 1..k |-> OpenAIProgram(calls[i].action, calls[i].args)]), st, failAt).failed

\* A drag goes from its first point through every other to its last, the button
\* down from there on, and never leaves what they span.
DragWhole(path, keys) ==
  LET r == Play(Drag(path, keys), Still, 0)
      span(c) == Min({path[k][c] : k \in 1..Len(path)})..Max({path[k][c] : k \in 1..Len(path)})
      points == [i \in 1..Len(r.path) |-> r.path[i][1]]
  IN /\ points[1] = path[1] /\ points[Len(points)] = path[Len(path)] /\ r.held = {}
     /\ \A k \in 1..Len(path) : path[k] \in Range(points)
     /\ \A i \in 1..Len(points) : \A c \in 1..2 : points[i][c] \in span(c)
     /\ \A i \in 2..Len(points) : "left" \in r.path[i][2] /\ Range(keys) \subseteq r.path[i][2]

\* Text is typed as it is written: each character once and in order, each line
\* break, however it is spelt, once.
TypedOnce(text) ==
  LET typed == Play(TypeText(text), Still, 0).typed
      lf == SelectSeq([i \in 1..Len(text) |-> IF i \in Newlines(text) THEN "Return" ELSE IF text[i] = "tab" THEN "Tab" ELSE text[i]],
                      LAMBDA c : c \notin {"cr", "lf"})
  IN typed = lf /\ Cardinality({i \in 1..Len(typed) : typed[i] = "Return"})
                     = Cardinality({i \in 1..Len(text) : text[i] \in {"cr", "lf"}}) - Cardinality({i \in 1..Len(text) - 1 : text[i] = "cr" /\ text[i + 1] = "lf"})

\* Gemini's drags keep clear of the edges along the longer side of the screen.
\* (Along the shorter they may leave it: both are held to the longer.)
DragInset(start, at, screen) ==
  \A p \in {Clamped({start}, screen), Clamped({at}, screen)} : \A c \in 1..2 :
    p[c] >= Inset /\ (screen[c] = Max({screen[1], screen[2]}) => p[c] <= screen[c] - Inset)

\* A screenshot is given up only when three tries failed or no new connection
\* could be made, and nothing is tried after one that came.
ScreenshotTried(outcomes) ==
  LET r == Tries(outcomes) IN
  /\ r.ok => outcomes[r.tries].shot
  /\ \A i \in 1..r.tries - 1 : ~outcomes[i].shot /\ outcomes[i].reconnects
  /\ ~r.ok => (r.tries = 3 \/ ~outcomes[r.tries].reconnects)
=============================================================================
