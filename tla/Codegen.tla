------------------------------- MODULE Codegen -------------------------------
(***************************************************************************)
(* The task compiler's code generation for control flow (crates/compiler,  *)
(* backend.rs): blocks, short-circuit operators, if/elseif/else, match,    *)
(* while and for with break and continue, return, raise, failing require,  *)
(* try/catch/finally with static and conditional clauses, recover, calls   *)
(* of local functions and commit().  A source program is a sequence of     *)
(* statements (nested tuples, below); the result is the register program   *)
(* that module Vm executes.  Values are strings, because nothing here      *)
(* depends on arithmetic; addresses and loop counters are integers.        *)
(*                                                                         *)
(* Statements:  <<"mark", v>> (emit v), <<"err">> (emit the caught error), *)
(* <<"return", v>>, <<"raise", e>>, <<"require">> (one that fails),        *)
(* <<"break">>, <<"continue">>, <<"commit">>, <<"call", items>>,           *)
(* <<"and"|"or", cond, stmt>>, <<"block", items>>, <<"if", arms, else>>,   *)
(* <<"match", cases>>, <<"while", items>>, <<"for", items>>,               *)
(* <<"try", items, catches, finally>> and <<"recover", stmt, catches>>.    *)
(* An arm is <<cond, items>>, a case <<pattern, guard, items>> and a catch *)
(* <<[code, dynamic], items>>.                                             *)
(***************************************************************************)
EXTENDS Naturals, Sequences, SequencesExt, FiniteSetsExt

CONSTANT Iterations     \* elements of a for loop's list, turns of a while loop

Unit == "unit"
None == "none"          \* no error code: the clause catches everything
Empty == "empty"        \* the empty relation a binding holds before its value
NoValue == 9999         \* no register: an empty or an unreachable block

(***************************************************************************)
(* The compiler's state and the helpers that emit and patch instructions.  *)
(***************************************************************************)
NewCompiler == [code |-> <<>>, next |-> 0, returned |-> FALSE, loops |-> <<>>,
                i |-> 0, first |-> 0, err |-> 0]

Here(c) == Len(c.code) + 1

Put(c, ins) == [c EXCEPT !.code = Append(@, ins)]

\* A fresh register, loaded; its number is the compiler's old "next".
Load(c, v) == [Put(c, <<"Load", c.next, v>>) EXCEPT !.next = @ + 1]

MoveTo(c, dst, r) == IF r = NoValue THEN c ELSE Put(c, <<"Move", dst, r>>)

PatchFalse(c, at, target) ==
  IF at = 0 THEN c ELSE [c EXCEPT !.code[at] = [@ EXCEPT ![4] = target]]

PatchJumps(c, ats, target) ==
  IF ats = {} THEN c
  ELSE [c EXCEPT !.code = [n \in DOMAIN @ |-> IF n \in ats THEN <<"Jump", target>> ELSE @[n]]]

\* The parts of the state a construct restores when it ends.
Restore(c, old) == [c EXCEPT !.err = old.err, !.returned = old.returned]

RECURSIVE CompileExprForValue(_, _), CompileItems(_, _)

CompileItems(c, items) ==
  IF c.returned \/ items = <<>> THEN [c |-> c, r |-> NoValue]
  ELSE LET first == CompileExprForValue(c, Head(items))
       IN  IF Len(items) = 1 THEN first ELSE CompileItems(first.c, Tail(items))

CompileBranchItems(c, items) ==
  LET b == CompileItems([c EXCEPT !.returned = FALSE], items)
  IN  [c |-> Restore(b.c, c), r |-> b.r, returned |-> b.c.returned]

\* Mutant of CompileProgram: a program that falls off its end.
CompileProgramOpen(items) ==
  LET b == CompileItems(NewCompiler, items)
  IN  [code |-> b.c.code, registers |-> b.c.next]

\* A whole program: the value of the last item unless the code has returned.
CompileProgram(items) ==
  LET b == CompileItems(NewCompiler, items)
      done == IF b.c.returned THEN b.c
              ELSE Put(b.c, IF b.r = NoValue THEN <<"ReturnValue", Unit>> ELSE <<"Return", b.r>>)
  IN  [code |-> done.code, registers |-> done.next]

\* Conditions: constants, or whether the innermost loop is in its first turn.
CompileCondition(c, cond) ==
  CASE cond = "yes"   -> [c |-> Load(c, "true"), r |-> c.next]
    [] cond = "no"    -> [c |-> Load(c, "false"), r |-> c.next]
    [] cond = "first" -> [c |-> [Put(c, <<"Equal", c.next, c.i, c.first>>) EXCEPT !.next = @ + 1],
                          r |-> c.next]

\* && and || : "short" is the value of the result when the right side is skipped.
CompileAndOr(c, s) ==
  LET dst == c.next
      left == CompileCondition(Load(c, IF s[1] = "and" THEN "false" ELSE "true"), s[2])
      branch == Here(left.c)
      skip == branch + 1
      right == CompileExprForValue(
                 Put(Put(left.c, IF s[1] = "and" THEN <<"Branch", left.r, skip + 1, skip>>
                                 ELSE <<"Branch", left.r, skip, skip + 1>>),
                     <<"Jump", 0>>), s[3])
      done == Put([right.c EXCEPT !.returned = c.returned], <<"Move", dst, right.r>>)
  IN  [c |-> PatchJumps(done, {skip}, Here(done)), r |-> dst]

CompileIf(c, s) ==
  LET dst == c.next
      Arm(a, arm) ==
        LET test == CompileCondition(a.c, arm[1])
            at == Here(test.c)
            body == CompileBranchItems(Put(test.c, <<"Branch", test.r, at + 1, 0>>), arm[2])
            moved == MoveTo(body.c, dst, body.r)
            left == IF body.returned THEN moved ELSE Put(moved, <<"Jump", 0>>)
        IN  [returned |-> a.returned /\ body.returned,
             ends |-> IF body.returned THEN a.ends ELSE a.ends \cup {Here(moved)},
             branch |-> at,
             c |-> PatchFalse(left, a.branch, Here(a.c))]
      arms == FoldLeft(Arm, [c |-> Load([c EXCEPT !.returned = FALSE], Unit),
                             branch |-> 0, ends |-> {}, returned |-> TRUE], s[2])
      else == CompileBranchItems(arms.c, s[3])
      moved == MoveTo(else.c, dst, else.r)
      patched == PatchJumps(PatchFalse(moved, arms.branch, Here(arms.c)), arms.ends, Here(moved))
  IN  [c |-> [patched EXCEPT !.returned = \/ c.returned
                                          \/ s[3] # <<>> /\ arms.returned /\ else.returned],
       r |-> dst]

\* A case is <<pattern, guard, items>>; an exhaustive match ends in a case that accepts all.
CompileMatch(c, s) ==
  LET dst == c.next
      Case(a, case) ==
        LET Test(b, cond) ==
              LET t == CompileCondition(b.c, cond)
              IN  [c |-> Put(t.c, <<"Branch", t.r, Here(t.c) + 1, 0>>), failed |-> b.failed \cup {Here(t.c)}]
            pattern == IF case[1] = "any" THEN [c |-> a.c, failed |-> {}]
                       ELSE Test([c |-> a.c, failed |-> {}], case[1])
            guard == IF case[2] = "any" THEN pattern ELSE Test(pattern, case[2])
            body == CompileBranchItems(guard.c, case[3])
            moved == MoveTo(body.c, dst, body.r)
            left == IF body.returned THEN moved ELSE Put(moved, <<"Jump", 0>>)
        IN  [returned |-> a.returned /\ body.returned,
             ends |-> IF body.returned THEN a.ends ELSE a.ends \cup {Here(moved)},
             c |-> FoldSet(LAMBDA at, code : PatchFalse(code, at, Here(left)), left, guard.failed)]
      cases == FoldLeft(Case, [c |-> Load([c EXCEPT !.returned = FALSE], Unit),
                               ends |-> {}, returned |-> TRUE], s[2])
      exhaustive == Last(s[2])[1] = "any" /\ Last(s[2])[2] = "any"
      done == IF exhaustive THEN cases.c ELSE Put(cases.c, <<"RaiseCode", "E_MATCH">>)
  IN  [c |-> [PatchJumps(done, cases.ends, Here(done))
                EXCEPT !.returned = c.returned \/ (exhaustive /\ cases.returned)],
       r |-> dst]

CompileBlock(c, s) ==
  LET b == CompileItems(c, s[2])
  IN  IF b.r # NoValue THEN b ELSE [c |-> Load(b.c, Unit), r |-> b.c.next]

(***************************************************************************)
(* Loops.  The while loop counts its turns in a local, which its body      *)
(* increments first; the for loop walks a list by an index register.       *)
(***************************************************************************)
CompileLoopBody(c, items) ==
  LET b == CompileItems([c EXCEPT !.returned = FALSE,
                                  !.loops = Append(@, [brk |-> {}, cont |-> {}])], items)
  IN  [c |-> [b.c EXCEPT !.returned = c.returned, !.loops = Front(@)],
       brk |-> Last(b.c.loops).brk, cont |-> Last(b.c.loops).cont, returned |-> b.c.returned]

CompileWhile(c, s) ==
  LET dst == c.next
      i == c.next + 1
      cond == c.next + 2
      head == [Put(Load(Load(c, Unit), 0), <<"Less", cond, i, Iterations>>)
                 EXCEPT !.next = @ + 1, !.i = i, !.first = 1]
      start == Here(head) - 1
      branch == Here(head)
      body == CompileLoopBody(Put(Put(head, <<"Branch", cond, branch + 1, 0>>), <<"Add", i, i>>), s[2])
      done == IF body.returned THEN body.c ELSE Put(body.c, <<"Jump", start>>)
      end == Here(done)
      patched == PatchJumps(PatchJumps(PatchFalse(done, branch, end), body.brk, end), body.cont, start)
  IN  [c |-> [patched EXCEPT !.i = c.i, !.first = c.first], r |-> dst]

\* The increment is emitted only when control can fall off the end of the body.
ForIncrement(body, i, start) ==
  IF body.returned THEN body.c
  ELSE LET next == body.c.next
           added == Put([body.c EXCEPT !.next = @ + 1], <<"Add", next, i>>)
       IN  Put(Put(added, <<"Move", i, next>>), <<"Jump", start>>)

CompileFor(c, s) ==
  LET dst == c.next
      i == c.next + 1
      cond == c.next + 2
      head == [Put(Load(Load(c, Unit), 0), <<"Less", cond, i, Iterations>>)
                 EXCEPT !.next = @ + 1, !.i = i, !.first = 0]
      start == Here(head) - 1
      branch == Here(head)
      body == CompileLoopBody(Put(head, <<"Branch", cond, branch + 1, 0>>), s[2])
      increment == Here(body.c)
      done == ForIncrement(body, i, start)
      end == Here(done)
      patched == PatchJumps(PatchJumps(PatchFalse(done, branch, end), body.brk, end),
                            body.cont, increment)
  IN  [c |-> [patched EXCEPT !.i = c.i, !.first = c.first], r |-> dst]

CompileBreak(c) ==
  Load([Put(c, <<"Jump", 0>>) EXCEPT !.loops[Len(c.loops)].brk = @ \cup {Here(c)}], Empty)

CompileContinue(c) ==
  Load([Put(c, <<"Jump", 0>>) EXCEPT !.loops[Len(c.loops)].cont = @ \cup {Here(c)}], Empty)

(***************************************************************************)
(* try and recover.  One conditional clause makes the whole statement use  *)
(* a dispatcher behind a single catch-all handler, which raises the error  *)
(* again when no clause accepts it.                                        *)
(***************************************************************************)
IsStaticCatchCondition(catch) == ~catch[1].dynamic

HasDynamicCatch(catches) == \E k \in DOMAIN catches : ~IsStaticCatchCondition(catches[k])

\* One loaded register per handler: the clauses' own, or the dispatcher's.
HandlerRegisters(c, catches) ==
  IF HasDynamicCatch(catches) THEN Load(c, Empty)
  ELSE FoldLeft(LAMBDA acc, k : Load(acc, Empty), c, catches)

\* Code that ends a clause: past the statement, or through its finally block.  (After a
\* clause that returns, recover leaves out the Move, which is never reached.)
EndClause(a, body, dst, finally) ==
  LET moved == MoveTo(body.c, dst, body.r)
  IN  IF body.returned THEN [a EXCEPT !.c = moved]
      ELSE IF finally = <<>> THEN [a EXCEPT !.c = Put(moved, <<"Jump", 0>>),
                                            !.ends = @ \cup {Here(moved)}]
      ELSE [a EXCEPT !.c = Put(moved, <<"ExitTry">>)]

CompileStaticCatches(c, catches, dst, first, finally) ==
  LET Clause(a, catch) ==
        LET reg == first + Len(a.handlers)
            body == CompileBranchItems([a.c EXCEPT !.err = reg], catch[2])
        IN  [EndClause(a, body, dst, finally)
               EXCEPT !.handlers = Append(@, [code |-> catch[1].code, binding |-> reg,
                                              target |-> Here(a.c)])]
  IN  FoldLeft(Clause, [c |-> c, ends |-> {}, handlers |-> <<>>], catches)

CompileTryCatchDispatcher(c, catches, dst, error, finally) ==
  LET Clause(a, catch) ==
        IF a.all THEN a
        ELSE LET tested == IF catch[1].code = None THEN a.c
                           ELSE [Put(a.c, <<"IsCode", a.c.next, error, catch[1].code>>)
                                   EXCEPT !.next = @ + 1]
                 at == Here(tested)
                 branched == IF catch[1].code = None THEN tested
                             ELSE Put(tested, <<"Branch", a.c.next, at + 1, 0>>)
                 body == CompileBranchItems([branched EXCEPT !.err = error], catch[2])
                 ended == EndClause(a, body, dst, finally)
             IN  IF catch[1].code = None THEN [ended EXCEPT !.all = TRUE]
                 ELSE [ended EXCEPT !.c = PatchFalse(@, at, Here(ended.c))]
      clauses == FoldLeft(Clause, [c |-> c, ends |-> {}, all |-> FALSE], catches)
  IN  [c |-> IF clauses.all THEN clauses.c ELSE Put(clauses.c, <<"Raise", error>>),
       ends |-> clauses.ends,
       handlers |-> <<[code |-> None, binding |-> error, target |-> Here(c)]>>]

CompileCatches(c, catches, dst, first, finally) ==
  IF HasDynamicCatch(catches) THEN CompileTryCatchDispatcher(c, catches, dst, first, finally)
  ELSE CompileStaticCatches(c, catches, dst, first, finally)

CompileTry(c, s) ==
  LET dst == c.next
      started == HandlerRegisters(Load([c EXCEPT !.returned = FALSE], Unit), s[3])
      enter == Here(started)
      body == CompileBranchItems(Put(started, <<"EnterTry">>), s[2])
      moved == MoveTo(body.c, dst, body.r)
      catches == IF body.returned THEN CompileCatches(moved, s[3], dst, dst + 1, s[4])
                 ELSE CompileCatches(Put(moved, <<"ExitTry">>), s[3], dst, dst + 1, s[4])
      finally == IF s[4] = <<>> THEN 0 ELSE Here(catches.c)
      done == IF s[4] = <<>> THEN catches.c
              ELSE Put(CompileBranchItems(catches.c, s[4]).c, <<"EndFinally">>)
      end == Here(done)
      patched == [PatchJumps(done, catches.ends, end)
                    EXCEPT !.code[enter] = <<"EnterTry", catches.handlers, finally, end>>]
  IN  [c |-> Restore(patched, c), r |-> dst]

\* recover: an expression guarded by clauses that give it another value.
CompileRecover(c, s) ==
  LET dst == c.next
      started == HandlerRegisters(Load([c EXCEPT !.returned = FALSE], Empty), s[3])
      enter == Here(started)
      body == CompileExprForValue(Put(started, <<"EnterTry">>), s[2])
      catches == IF body.c.returned THEN CompileCatches(body.c, s[3], dst, dst + 1, <<>>)
                 ELSE CompileCatches(Put(Put(body.c, <<"Move", dst, body.r>>), <<"ExitTry">>),
                                     s[3], dst, dst + 1, <<>>)
      end == Here(catches.c)
      patched == [PatchJumps(catches.c, catches.ends, end)
                    EXCEPT !.code[enter] = <<"EnterTry", catches.handlers, 0, end>>]
  IN  [c |-> Restore(patched, c), r |-> dst]

(***************************************************************************)
(* One expression; the code after a return or a raise is never reached.    *)
(***************************************************************************)
CompileExprForValue(c, s) ==
  CASE s[1] = "mark"     -> [c |-> Put(Load(c, s[2]), <<"Emit", c.next>>), r |-> c.next]
    [] s[1] = "err"      -> [c |-> Put(c, <<"Emit", c.err>>), r |-> c.err]
    [] s[1] = "commit"   -> [c |-> [Put(c, <<"CommitValue", c.next>>) EXCEPT !.next = @ + 1],
                             r |-> c.next]
    [] s[1] = "call"     -> [c |-> [Put(c, <<"Call", c.next, CompileProgram(s[2])>>)
                                      EXCEPT !.next = @ + 1],
                             r |-> c.next]
    [] s[1] = "require"  -> [c |-> Load(Put(c, <<"Abort", "require">>), "true"), r |-> c.next]
    [] s[1] = "return"   -> [c |-> [Load(Put(c, <<"ReturnValue", s[2]>>), Unit)
                                      EXCEPT !.returned = TRUE], r |-> c.next]
    [] s[1] = "raise"    -> [c |-> [Load(Put(c, <<"RaiseCode", s[2]>>), Unit)
                                      EXCEPT !.returned = TRUE], r |-> c.next]
    [] s[1] = "break"    -> [c |-> CompileBreak(c), r |-> c.next]
    [] s[1] = "continue" -> [c |-> CompileContinue(c), r |-> c.next]
    [] s[1] \in {"and", "or"} -> CompileAndOr(c, s)
    [] s[1] = "if"       -> CompileIf(c, s)
    [] s[1] = "match"    -> CompileMatch(c, s)
    [] s[1] = "block"    -> CompileBlock(c, s)
    [] s[1] = "while"    -> CompileWhile(c, s)
    [] s[1] = "for"      -> CompileFor(c, s)
    [] s[1] = "try"      -> CompileTry(c, s)
    [] s[1] = "recover"  -> CompileRecover(c, s)
==============================================================================
