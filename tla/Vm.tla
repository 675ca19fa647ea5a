--------------------------------- MODULE Vm ---------------------------------
(***************************************************************************)
(* The register machine's control (crates/vm, vm.rs) executing a program   *)
(* compiled by module Codegen: frames, the try stack and the stack of      *)
(* finally blocks being run, raises, returns, calls, the suspension at a   *)
(* commit and the host that commits, or restores the machine's last saved  *)
(* state after a conflict (crates/runtime, task.rs).  One step is one      *)
(* instruction.                                                            *)
(*                                                                         *)
(* Meaning is the reference: what the language says the source does,       *)
(* defined on the source without registers, jumps or stacks.               *)
(***************************************************************************)
EXTENDS Codegen, FiniteSets

CONSTANTS Programs,      \* the source programs
          Compiled,      \* what CompileProgram makes of each
          MaxFrames,     \* max_call_depth
          MaxConflicts   \* bound: commits that conflict

VARIABLES source,    \* the program's source (never changes)
          frames,    \* the call stack, the running frame last
          resume,    \* pending_resume: the register that waits for the host's value
          status,    \* "running", "suspended" (to commit), "parked", "returned" or "done"
          outcome,   \* how and with which value the program ended
          pending,   \* effects of the running transaction
          shown,     \* effects that have been committed
          saved,     \* the machine's state at the last commit: what a conflict restores
          conflicts
vars == <<source, frames, resume, status, outcome, pending, shown, saved, conflicts>>

Resumed == "resumed"    \* the value the host resumes a commit with

Frame(program, return) ==
  [code |-> program.code, ip |-> 1, regs |-> [r \in 0 .. program.registers - 1 |-> Empty],
   ret |-> return, tries |-> <<>>, pend |-> <<>>]

Init ==
  /\ source \in Programs
  /\ frames = <<Frame(Compiled[source], NoValue)>>
  /\ resume = NoValue
  /\ status = "running"
  /\ outcome = <<"none", Unit>>
  /\ pending = <<>>
  /\ shown = <<>>
  /\ saved = frames
  /\ conflicts = 0

Top == Last(frames)
Ins == Top.code[Top.ip]
Next1(f) == [f EXCEPT !.ip = @ + 1]
At(op) == status = "running" /\ Ins[1] = op

\* The machine goes on with these frames.
Continue(fs) ==
  /\ frames' = fs
  /\ UNCHANGED <<source, resume, status, outcome, pending, shown, saved, conflicts>>
ContinueIn(f) == Continue(Append(Front(frames), f))

\* The program has ended without a commit of its running transaction.
End(how, v) ==
  /\ frames' = <<>>
  /\ status' = "done"
  /\ outcome' = <<how, v>>
  /\ pending' = <<>>
  /\ UNCHANGED <<source, resume, shown, saved, conflicts>>

(***************************************************************************)
(* Unwinding inside a frame.                                               *)
(***************************************************************************)
Outside(region, target) == target < region.start \/ target >= region.end

EnterFinally(f, region, how, v) ==
  [f EXCEPT !.pend = Append(@, [start |-> region.finally, end |-> region.end,
                                how |-> how, v |-> v]),
            !.ip = region.finally]

\* The stack without the entries above the topmost one that holds the target.
KeepEnclosing(stack, target) ==
  SubSeq(stack, 1, SelectLastInSeq(stack, LAMBDA region : ~Outside(region, target)))

\* Mutant of DiscardExitedFinally: blocks that are left stay pending.
DiscardNothing(f, target) == f

DiscardExitedFinally(f, target) == [f EXCEPT !.pend = KeepEnclosing(@, target)]

\* Mutant of JumpTo: the regions that are left stay on the stack.
JumpKeepsRegions(frame, target) == [DiscardExitedFinally(frame, target) EXCEPT !.ip = target]

\* jump_to: leaves regions until one holds the target or has a finally block to run.
JumpTo(frame, target) ==
  LET f == DiscardExitedFinally(frame, target)
      stop == SelectLastInSeq(f.tries, LAMBDA region : ~Outside(region, target) \/ region.finally # 0)
  IN  IF stop # 0 /\ Outside(f.tries[stop], target)
      THEN EnterFinally([f EXCEPT !.tries = SubSeq(@, 1, stop - 1)], f.tries[stop], "jump", target)
      ELSE [f EXCEPT !.tries = SubSeq(@, 1, stop), !.ip = target]

\* return_from_frame: the innermost finally block first, then the caller or the host.
ReturnFromFrame(v) ==
  LET f == [Top EXCEPT !.pend = <<>>]
      stop == SelectLastInSeq(f.tries, LAMBDA region : region.finally # 0)
      caller == frames[Len(frames) - 1]
  IN  IF stop # 0
      THEN ContinueIn(EnterFinally([f EXCEPT !.tries = SubSeq(@, 1, stop - 1)],
                                   f.tries[stop], "return", v))
      ELSE IF Len(frames) > 1
      THEN Continue(Append(SubSeq(frames, 1, Len(frames) - 2),
                           [caller EXCEPT !.regs[f.ret] = v]))
      ELSE /\ frames' = <<>>
           /\ status' = "returned"
           /\ outcome' = <<"return", v>>
           /\ UNCHANGED <<source, resume, pending, shown, saved, conflicts>>

MatchingHandler(catches, error) ==
  SelectInSeq(catches, LAMBDA h : h.code \in {None, error})

\* begin_raise in one frame whose region at "stop" handles or finalizes the error.
RaiseIn(f, stop, error) ==
  LET region == f.tries[stop]
      h == MatchingHandler(region.catches, error)
      below == [f EXCEPT !.tries = SubSeq(@, 1, stop - 1)]
      kept == IF region.finally = 0 THEN <<>> ELSE <<[region EXCEPT !.catches = <<>>]>>
  IN  IF h # 0
      THEN [DiscardExitedFinally(below, region.catches[h].target)
              EXCEPT !.regs[region.catches[h].binding] = error,
                     !.tries = @ \o kept,
                     !.ip = region.catches[h].target]
      ELSE EnterFinally(DiscardExitedFinally(below, region.finally), region, "raise", error)

\* begin_raise: the innermost frame with such a region; without one the task aborts.
BeginRaise(fs, error) ==
  LET Stop(f) == SelectLastInSeq(f.tries, LAMBDA region :
                   region.finally # 0 \/ MatchingHandler(region.catches, error) # 0)
      at == SelectLastInSeq(fs, LAMBDA f : Stop(f) # 0)
  IN  IF at = 0 THEN End("raise", error)
      ELSE Continue(Append(SubSeq(fs, 1, at - 1), RaiseIn(fs[at], Stop(fs[at]), error)))

(***************************************************************************)
(* The instructions.                                                       *)
(***************************************************************************)
Set(r, v) == ContinueIn([Next1(Top) EXCEPT !.regs[r] = v])
Bool(b) == IF b THEN "true" ELSE "false"

StepLoad == At("Load") /\ Set(Ins[2], Ins[3])
StepMove == At("Move") /\ Set(Ins[2], Top.regs[Ins[3]])
StepBinary ==
  \/ At("Add") /\ Set(Ins[2], Top.regs[Ins[3]] + 1)
  \/ At("Less") /\ Set(Ins[2], Bool(Top.regs[Ins[3]] < Ins[4]))
  \/ At("Equal") /\ Set(Ins[2], Bool(Top.regs[Ins[3]] = Ins[4]))
StepErrorCode == At("IsCode") /\ Set(Ins[2], Bool(Top.regs[Ins[3]] = Ins[4]))

StepBranch ==
  /\ At("Branch")
  /\ ContinueIn([Top EXCEPT !.ip = IF Top.regs[Ins[2]] = "true" THEN Ins[3] ELSE Ins[4]])

StepJump == At("Jump") /\ ContinueIn(JumpTo(Top, Ins[2]))

StepEnterTry ==
  /\ At("EnterTry")
  /\ ContinueIn([Next1(Top) EXCEPT !.tries = Append(@, [start |-> Top.ip + 1, catches |-> Ins[2],
                                                        finally |-> Ins[3], end |-> Ins[4]])])

\* ExitTry on an empty stack is RuntimeError::EmptyTryStack.
StepExitTry ==
  /\ At("ExitTry")
  /\ IF Top.tries = <<>> THEN End("error", "EmptyTryStack")
     ELSE LET region == Last(Top.tries)
              f == [Top EXCEPT !.tries = Front(@)]
          IN  ContinueIn(IF region.finally # 0 THEN EnterFinally(f, region, "normal", region.end)
                         ELSE [f EXCEPT !.ip = region.end])

\* EndFinally resumes what the block interrupted; with nothing pending it fails.
StepEndFinally ==
  /\ At("EndFinally")
  /\ IF Top.pend = <<>> THEN End("error", "EmptyTryStack")
     ELSE LET p == Last(Top.pend)
              f == [Top EXCEPT !.pend = Front(@)]
          IN  \/ p.how = "normal" /\ ContinueIn([f EXCEPT !.ip = p.v])
              \/ p.how = "jump" /\ ContinueIn(JumpTo(f, p.v))
              \/ p.how = "raise" /\ BeginRaise(Append(Front(frames), f), p.v)
              \/ p.how = "return" /\ ReturnFromFrame(p.v)

StepRaise ==
  \/ At("RaiseCode") /\ BeginRaise(frames, Ins[2])
  \/ At("Raise") /\ BeginRaise(frames, Top.regs[Ins[2]])

StepReturn ==
  \/ At("ReturnValue") /\ ReturnFromFrame(Ins[2])
  \/ At("Return") /\ ReturnFromFrame(Top.regs[Ins[2]])

StepCall ==
  /\ At("Call")
  /\ IF Len(frames) >= MaxFrames THEN End("error", "MaxCallDepthExceeded")
     ELSE Continue(Front(frames) \o <<Next1(Top), Frame(Ins[3], Ins[2])>>)

StepAbort == At("Abort") /\ End("abort", Ins[2])

StepEmit ==
  /\ At("Emit")
  /\ pending' = Append(pending, Top.regs[Ins[2]])
  /\ frames' = Append(Front(frames), Next1(Top))
  /\ UNCHANGED <<source, resume, status, outcome, shown, saved, conflicts>>

\* Mutant of StepCommitValue: the machine stops at the instruction.
StepCommitValueStays ==
  /\ At("CommitValue")
  /\ resume' = Ins[2]
  /\ status' = "suspended"
  /\ UNCHANGED <<source, frames, outcome, pending, shown, saved, conflicts>>

\* The machine stops behind the instruction and remembers the register to resume into.
StepCommitValue ==
  /\ At("CommitValue")
  /\ frames' = Append(Front(frames), Next1(Top))
  /\ resume' = Ins[2]
  /\ status' = "suspended"
  /\ UNCHANGED <<source, outcome, pending, shown, saved, conflicts>>

(***************************************************************************)
(* The host: a commit publishes the effects, a later resumption writes the *)
(* awaited register and saves the machine's state as the one to retry      *)
(* from; a conflict drops the effects and restores that state.             *)
(***************************************************************************)
HostCommits ==
  /\ status \in {"suspended", "returned"}
  /\ shown' = shown \o pending
  /\ pending' = <<>>
  /\ status' = IF status = "returned" THEN "done" ELSE "parked"
  /\ saved' = IF status = "returned" THEN saved ELSE frames
  /\ UNCHANGED <<source, frames, resume, outcome, conflicts>>

HostResumes ==
  /\ status = "parked"
  /\ status' = "running"
  /\ frames' = [frames EXCEPT ![Len(frames)].regs[resume] = Resumed]
  /\ resume' = NoValue
  /\ saved' = frames'
  /\ UNCHANGED <<source, outcome, pending, shown, conflicts>>

\* Mutant of HostConflicts: the effects of the failed attempt are kept.
HostConflictsKeepEffects ==
  /\ status \in {"suspended", "returned"}
  /\ conflicts < MaxConflicts
  /\ conflicts' = conflicts + 1
  /\ status' = "running"
  /\ outcome' = <<"none", Unit>>
  /\ frames' = saved
  /\ resume' = NoValue
  /\ UNCHANGED <<source, pending, shown, saved>>

HostConflicts ==
  /\ status \in {"suspended", "returned"}
  /\ conflicts < MaxConflicts
  /\ conflicts' = conflicts + 1
  /\ pending' = <<>>
  /\ status' = "running"
  /\ outcome' = <<"none", Unit>>
  /\ frames' = saved
  /\ resume' = NoValue
  /\ UNCHANGED <<source, shown, saved>>

Step ==
  \/ StepLoad \/ StepMove \/ StepBinary \/ StepErrorCode \/ StepBranch \/ StepJump
  \/ StepEnterTry \/ StepExitTry \/ StepEndFinally \/ StepRaise \/ StepReturn
  \/ StepCall \/ StepAbort \/ StepEmit \/ StepCommitValue

Next == Step \/ HostCommits \/ HostResumes \/ HostConflicts

\* run_until_host_response keeps stepping and the host answers every suspension.
Fairness == WF_vars(Step) /\ WF_vars(HostCommits) /\ WF_vars(HostResumes)

Spec == Init /\ [][Next]_vars /\ Fairness

(***************************************************************************)
(* The reference meaning of a source program: the effects in order, with   *)
(* the commits among them, and how control leaves it.                      *)
(***************************************************************************)
Result(out, how, v) == [out |-> out, how |-> how, v |-> v]
Prefixed(out, res) == [res EXCEPT !.out = out \o @]

RECURSIVE Eval(_, _), EvalLoop(_, _, _)

EvalItems(items, env) ==
  FoldLeft(LAMBDA acc, s : IF acc.how # "normal" THEN acc ELSE Prefixed(acc.out, Eval(s, env)),
           Result(<<>>, "normal", Unit), items)

Holds(cond, env) == cond = "yes" \/ (cond = "first" /\ env.first)

\* Turn after turn: break ends the loop, continue only its turn.
EvalLoop(items, turn, env) ==
  IF turn > Iterations THEN Result(<<>>, "normal", Unit)
  ELSE LET body == EvalItems(items, [env EXCEPT !.first = (turn = 1)])
       IN  CASE body.how \in {"normal", "continue"} ->
                  Prefixed(body.out, EvalLoop(items, turn + 1, env))
             [] body.how = "break" -> Result(body.out, "normal", Unit)
             [] OTHER -> body

\* The first clause that accepts the error replaces it by its own result.
EvalCatch(body, catches, env) ==
  LET k == IF body.how # "raise" THEN 0
           ELSE SelectInSeq(catches, LAMBDA catch : catch[1].code \in {None, body.v})
  IN  IF k = 0 THEN body ELSE Prefixed(body.out, EvalItems(catches[k][2], [env EXCEPT !.err = body.v]))

\* The finally block runs however control leaves, and replaces that only if it leaves itself.
EvalFinally(res, finally, env) ==
  LET last == EvalItems(finally, env)
  IN  CASE res.how \in {"abort", "error"} -> res
        [] last.how = "normal" -> [res EXCEPT !.out = @ \o last.out]
        [] OTHER -> Prefixed(res.out, last)

Eval(s, env) ==
  CASE s[1] = "mark"     -> Result(<<s[2]>>, "normal", s[2])
    [] s[1] = "err"      -> Result(<<env.err>>, "normal", env.err)
    [] s[1] = "commit"   -> Result(<<"commit">>, "normal", Resumed)
    [] s[1] = "require"  -> Result(<<>>, "abort", "require")
    [] s[1] \in {"return", "raise"} -> Result(<<>>, s[1], s[2])
    [] s[1] \in {"break", "continue"} -> Result(<<>>, s[1], Unit)
    [] s[1] = "and"      -> IF Holds(s[2], env) THEN Eval(s[3], env) ELSE Result(<<>>, "normal", "false")
    [] s[1] = "or"       -> IF Holds(s[2], env) THEN Result(<<>>, "normal", "true") ELSE Eval(s[3], env)
    [] s[1] = "if"       -> LET k == SelectInSeq(s[2], LAMBDA arm : Holds(arm[1], env))
                            IN  EvalItems(IF k = 0 THEN s[3] ELSE s[2][k][2], env)
    [] s[1] = "block"    -> EvalItems(s[2], env)
    [] s[1] = "match"    ->
         LET Accepts(cond) == cond = "any" \/ Holds(cond, env)
             k == SelectInSeq(s[2], LAMBDA case : Accepts(case[1]) /\ Accepts(case[2]))
         IN  IF k = 0 THEN Result(<<>>, "raise", "E_MATCH") ELSE EvalItems(s[2][k][3], env)
    [] s[1] \in {"while", "for"} -> EvalLoop(s[2], 1, env)
    [] s[1] = "try"      -> EvalFinally(EvalCatch(EvalItems(s[2], env), s[3], env), s[4], env)
    [] s[1] = "recover"  -> EvalCatch(Eval(s[2], env), s[3], env)
    [] s[1] = "call"     ->
         IF env.depth = MaxFrames THEN Result(<<>>, "error", "MaxCallDepthExceeded")
         ELSE LET res == EvalItems(s[2], [first |-> FALSE, err |-> Empty, depth |-> env.depth + 1])
              IN  IF res.how = "return" THEN [res EXCEPT !.how = "normal"] ELSE res

\* What the host publishes: everything when the program returns, else what was committed.
Published(res) ==
  LET last == SelectLastInSeq(res.out, LAMBDA e : e = "commit")
  IN  SelectSeq(IF res.how = "return" THEN res.out ELSE SubSeq(res.out, 1, last),
                LAMBDA e : e # "commit")

Meaning ==
  LET res == EvalItems(source, [first |-> FALSE, err |-> Empty, depth |-> 1])
      ended == IF res.how = "normal" THEN [res EXCEPT !.how = "return"] ELSE res
  IN  [shown |-> Published(ended), outcome |-> <<ended.how, ended.v>>]

(***************************************************************************)
(* Properties.                                                             *)
(***************************************************************************)
\* The instruction pointer of every frame stays inside its program, and the regions it
\* has entered belong to that program (ProgramCounterOutOfBounds never happens).
TypeOK ==
  /\ status \in {"running", "suspended", "parked", "returned", "done"}
  /\ Len(frames) <= MaxFrames
  /\ \A k \in DOMAIN frames :
        /\ frames[k].ip \in DOMAIN frames[k].code
        /\ \A n \in DOMAIN frames[k].tries : frames[k].tries[n].end <= Len(frames[k].code)

\* Compiled by backend.rs and run by vm.rs, with commits that may conflict and be replayed,
\* a program publishes exactly the effects and ends in exactly the way its source says.
RunsAsWritten ==
  status = "done" => [shown |-> shown, outcome |-> outcome] = Meaning

\* At every step the published effects are a prefix of those the source says: a conflict
\* (restore_state) neither repeats nor loses an effect of an earlier commit.
PublishesInOrder ==
  LET whole == EvalItems(source, [first |-> FALSE, err |-> Empty, depth |-> 1]).out
  IN  IsPrefix(shown, SelectSeq(whole, LAMBDA e : e # "commit"))

\* The two stacks of a frame agree with where it is: the blocks being finalized contain the
\* instruction pointer (jump_to and begin_raise discard the ones that are left), nested.
FinalizersEnclose ==
  \A k \in DOMAIN frames :
    LET f == frames[k] IN
    /\ \A n \in DOMAIN f.pend : ~Outside(f.pend[n], f.ip)
    /\ \A n \in DOMAIN f.pend : n > 1 => f.pend[n - 1].start < f.pend[n].start

\* Every program of the instance ends: break, continue and the finally blocks that override
\* a pending jump never send the machine round for ever.
Ends == <>(status = "done")
==============================================================================
