----------------------------- MODULE MCLanguage -----------------------------
(***************************************************************************)
(* The language's execution: source programs compiled by backend.rs and    *)
(* executed by vm.rs.  The programs are enumerated by shape, with every    *)
(* way of leaving a block at every place where one can stand.              *)
(***************************************************************************)
EXTENDS Naturals, Sequences, FiniteSets

CONSTANTS Question,     \* which programs the run is about
          Compiled      \* their compiled programs

VARIABLES source, frames, resume, status, outcome, pending, shown, saved, conflicts
vmVars == <<source, frames, resume, status, outcome, pending, shown, saved, conflicts>>

Mark(v) == <<"mark", v>>
Leave == {Mark("x"), <<"return", "r">>, <<"raise", "E1">>, <<"raise", "E2">>,
          <<"break">>, <<"continue">>}
On(code) == [code |-> code, dynamic |-> FALSE]
OnIf(code) == [code |-> code, dynamic |-> TRUE]
Caught == <<"err">>

\* A try statement in a loop: every exit from the body, the clause and the finally block.
Clauses(e) == {<<>>, <<<<On("E1"), <<Caught, e>>>>>>,
               <<<<On("E2"), <<Mark("c")>>>>, <<On("none"), <<Caught, e>>>>>>,
               <<<<OnIf("E1"), <<Caught, e>>>>>>,
               <<<<On("E2"), <<Mark("c")>>>>, <<OnIf("E1"), <<Caught, e>>>>, <<On("none"), <<e>>>>>>}
Finals(e) == {<<>>, <<Mark("f"), e>>}
Tries == UNION {{<<"try", <<Mark("b"), e1>>, c, f>> : c \in Clauses(e2), f \in Finals(e3)} :
                  e1 \in Leave, e2 \in Leave, e3 \in Leave}

\* Two tries, one in the body, the clause or the finally block of the other.
Inner(e1, e2) == <<"try", <<e1>>, <<<<On("E1"), <<Mark("c")>>>>>>, <<Mark("f"), e2>>>>
Nests(e1, e2, e3) ==
  {<<"try", <<Inner(e1, e2), Mark("m")>>, <<<<On("none"), <<Caught, e3>>>>>>, <<Mark("g")>>>>,
   <<"try", <<e1>>, <<<<OnIf("E1"), <<Inner(e2, e3)>>>>>>, <<Mark("g")>>>>,
   <<"try", <<e1>>, <<>>, <<Inner(e2, e3), Mark("g")>>>>}
Nested == UNION {Nests(e1, e2, e3) : e1 \in Leave, e2 \in Leave, e3 \in Leave}

\* Loops over these, and what follows them.
InLoop == {<<<<loop, <<t, Mark("t")>>>>, Mark("z")>> : loop \in {"while"}, t \in Nested}
          \cup {<<<<loop, <<t, Mark("t")>>>>, Mark("z")>> : loop \in {"for"}, t \in Tries \cup Nested}

\* Without a loop: commits, failing requirements and the value of the statement itself.
Stop == {Mark("x"), <<"return", "r">>, <<"raise", "E1">>, <<"commit">>, <<"require">>}
Alone == UNION {{<<Mark("p"), t>> : t \in Nests(e1, e2, e3)} : e1 \in Stop, e2 \in Stop, e3 \in Stop}

\* Calls: the callee's try, the caller's try around it; a call too deep.
Callee(e1, e2) == <<"call", <<<<"try", <<e1>>, <<<<On("E2"), <<Caught>>>>>>, <<Mark("f"), e2>>>>>>>>
Calling == {<<<<"for", <<<<"try", <<Callee(e1, e2), Mark("m")>>,
                           <<<<On("E1"), <<Caught, e3>>>>>>, <<Mark("g")>>>>>>>>, Mark("z")>> :
              e1 \in (Stop \cup {<<"raise", "E2">>, <<"call", <<Mark("d")>>>>}), e2 \in Stop, e3 \in Leave}

\* Branches, short-circuit operators and recover, in loops, with what they leave by.
Branches(q, e1, e2) ==
  {<<"if", <<<<q, <<e1>>>>>>, <<e2>>>>, <<"if", <<<<"no", <<>>>>, <<q, <<e1>>>>>>, <<>>>>,
   <<"if", <<<<"yes", <<e1>>>>, <<q, <<e2>>>>>>, <<Mark("e")>>>>,
   <<"and", q, e1>>, <<"or", q, e2>>,
   <<"match", <<<<q, "any", <<e1>>>>, <<"yes", q, <<e2>>>>>>>>,
   <<"match", <<<<"no", "any", <<>>>>, <<q, "yes", <<e1>>>>, <<"any", "any", <<e2>>>>>>>>,
   <<"block", <<e1, e2>>>>, <<"block", <<>>>>,
   <<"recover", e1, <<<<On("E1"), <<e2>>>>>>>>,
   <<"recover", <<"call", <<e1>>>>, <<<<OnIf("E2"), <<e2>>>>, <<On("none"), <<Caught>>>>>>>>}
Branching == {<<<<loop, <<t, Mark("t")>>>>, Mark("z")>> : loop \in {"for", "while"},
                t \in UNION {Branches("first", e1, e2) : e1 \in Stop \cup {<<"raise", "E2">>}, e2 \in Leave}}
             \cup {<<t>> : t \in UNION {Branches(q, e1, e2) : q \in {"yes", "no"}, e1 \in Stop, e2 \in Stop}}
\* A while loop whose body ends by leaving, after a continue.
Turning == {<<<<"while", <<<<"if", <<<<"first", <<<<"continue">>>>>>>>, <<>>>>, e>>>>>> : e \in Leave}

\* The same for a for loop, where nothing follows the body.
Skipping == {<<<<"for", <<<<"if", <<<<"first", <<<<"continue">>>>>>>>, <<>>>>, e>>>>, Mark("z")>> :
               e \in {Mark("x"), <<"return", "r">>, <<"raise", "E1">>}}
\* Inside a finally block, an error that replaces a jump or a return is caught.
Catching == {<<<<"for", <<<<"try", <<e1>>, <<>>,
                 <<<<"try", <<<<"try", <<e2>>, <<>>, <<<<"raise", "E2">>>>>>>>,
                            <<<<On("E2"), <<Mark("c")>>>>>>, <<>>>>>>>>>>>>, Mark("z")>> :
               e1 \in Leave, e2 \in {Mark("x"), <<"return", "s">>, <<"raise", "E1">>, <<"break">>}}

All == InLoop \cup Alone \cup Calling \cup Branching \cup Turning

Progs == CASE Question = "all" -> All [] Question = "continue" -> Skipping
           [] Question = "finally" -> Catching

\* Every program is compiled once, when the model is set up.
Compiler == INSTANCE Codegen WITH Iterations <- 2
CompiledProgs ==
  LET CodeOf(p) == Compiler!CompileProgram(p)
  IN  [p \in Progs |-> CodeOf(p)]

Run == INSTANCE Vm WITH Programs <- Progs, Iterations <- 2, MaxFrames <- 2, MaxConflicts <- 1

Init == Run!Init
Next == Run!Next
Spec == Run!Spec
\* The compiled program yields the value or error its source means, publishes the committed
\* effects in source order each once although commits conflict and are replayed, and a
\* finally region is left only by running its finalizer (compile_try, jump_to, begin_raise).
BehavesAsWritten == Run!TypeOK /\ Run!RunsAsWritten /\ Run!PublishesInOrder /\ Run!FinalizersEnclose
\* Every program comes to an end: no jump of the generated code goes back except to its loop.
Ends == Run!Ends
\* continue in a for loop skips to the next iteration, whatever ends the body.
ContinueSkipsToNext == Run!RunsAsWritten
\* An error caught inside a finally block lets the interrupted control flow go on.
CaughtInFinallyGoesOn == Run!RunsAsWritten
==============================================================================
