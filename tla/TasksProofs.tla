---------------------------- MODULE TasksProofs -----------------------------
(***************************************************************************)
(* The inductive invariant of Tasks and what follows from it: TasksExact,  *)
(* NoLostUpdate and the refinement of Segments, for any tasks, keys,       *)
(* responses, failures and bounds.                                         *)
(***************************************************************************)
EXTENDS Tasks, FiniteSetTheorems, SequenceTheorems, TLAPS

USE ZenonT(5), SMTT(20)

(* The types: as TypeOK, but without the bounds of the model.              *)
Emissions == Task \X Nat \X Nat
AnyVm == [segment : Nat, value : Nat]
Responses == Boundaries \cup {"retry", "abort", "none"}
Statuses == {"none", "running", "recording", "suspended", "completed",
             "cancelled", "failed", "forgotten"}
TaskState ==
    [vm : AnyVm, retry : AnyVm, base : [Key -> Nat] \cup {NoTx},
     writes : SUBSET Key, pending : Seq(Emissions), committed : Seq(Emissions),
     subscription : SUBSET Emissions, retries : Nat, response : Responses]

Typed ==
    /\ counter \in [Key -> Nat]
    /\ task \in [Task -> TaskState]
    /\ status \in [Task -> Statuses]
    /\ outcome \in [Task -> {"none", "completed", "suspended"}]
    /\ delivered \in [Task -> Nat]
    /\ effects \in Seq(Emissions)
    /\ published \in SUBSET Emissions
    /\ IsFiniteSet(published)
    /\ caps \in SUBSET Emissions
    /\ applied \in SUBSET Emissions

Distinct(s) == \A i, j \in DOMAIN s : i # j => s[i] # s[j]

(* What a thread holds for record_outcome was published and is not yet     *)
(* exposed.                                                                *)
Holds(t) ==
    /\ Distinct(task[t].committed)
    /\ \A e \in Elements(task[t].committed) :
          e[1] = t /\ e \in published /\ e \notin Elements(effects)

(* What a task has buffered in each status: the emission of the attempt    *)
(* under way, and effects committed but not recorded only while a thread   *)
(* has the task.                                                           *)
Buffered(t) ==
    LET here == task[t]
        clear == here.response = "none" /\ here.pending = <<>> /\ here.subscription = {}
    IN /\ status[t] # "running" => clear
       /\ \/ clear
          \/ /\ here.response \in Response[t]
             /\ here.pending = <<Emission(t)>>
             /\ here.subscription \subseteq {Emission(t)}
       /\ status[t] \notin {"running", "recording"} => here.committed = <<>>
       /\ status[t] = "running" /\ here.committed # <<>> => "commit" \in Response[t]
       /\ status[t] = "recording" => outcome[t] \in {"completed", "suspended"}

(* A task that may run again is at its checkpoint, which has the value it  *)
(* was resumed with and lies after every segment it published.             *)
Live(t) ==
    \/ status[t] \in {"none", "running", "suspended"}
    \/ status[t] = "recording" /\ outcome[t] = "suspended"

AtCheckpoint(t) ==
    Live(t) => /\ task[t].retry = task[t].vm
               /\ task[t].vm.value = delivered[t]
               /\ \A e \in published : e[1] = t => e[2] < task[t].vm.segment

OnePerSegment == \A e, f \in published : e[1] = f[1] /\ e[2] = f[2] => e = f

IInv ==
    /\ Typed
    /\ \A t \in Task : Holds(t) /\ Buffered(t) /\ AtCheckpoint(t)
    /\ Distinct(effects) /\ ExposedWasPublished /\ OnePerSegment
    /\ EffectsFollowWrites /\ CapabilitiesAccounted
-----------------------------------------------------------------------------
(* Sequences of emissions.                                                 *)

(* The elements of a concatenation are those of its parts.                 *)
LEMMA ElementsConcat ==
  ASSUME NEW S, NEW s \in Seq(S), NEW r \in Seq(S)
  PROVE  /\ s \o r \in Seq(S)
         /\ Elements(s \o r) = Elements(s) \cup Elements(r)
  <1>1. /\ s \o r \in Seq(S) /\ DOMAIN s = 1..Len(s) /\ DOMAIN r = 1..Len(r)
        /\ Len(s) \in Nat /\ Len(r) \in Nat
        /\ DOMAIN (s \o r) = 1..(Len(s) + Len(r))
        /\ \A i \in 1..(Len(s) + Len(r)) :
              (s \o r)[i] = IF i <= Len(s) THEN s[i] ELSE r[i - Len(s)]
    BY ConcatProperties, LenProperties
  <1>2. \A i \in DOMAIN s : i \in DOMAIN (s \o r) /\ (s \o r)[i] = s[i] BY <1>1
  <1>3. \A i \in DOMAIN r : Len(s) + i \in DOMAIN (s \o r) /\ (s \o r)[Len(s) + i] = r[i]
    BY <1>1
  <1>4. \A i \in DOMAIN (s \o r) : \/ i \in DOMAIN s /\ (s \o r)[i] = s[i]
                                   \/ i - Len(s) \in DOMAIN r /\ (s \o r)[i] = r[i - Len(s)]
    BY <1>1
  <1>5. Elements(s \o r) \subseteq Elements(s) \cup Elements(r) BY <1>4 DEF Elements
  <1>6. Elements(s) \subseteq Elements(s \o r) BY <1>2 DEF Elements
  <1>7. Elements(r) \subseteq Elements(s \o r) BY <1>3 DEF Elements
  <1> QED BY <1>1, <1>5, <1>6, <1>7

(* A concatenation of distinct elements that do not meet is distinct.      *)
LEMMA DistinctConcat ==
  ASSUME NEW S, NEW s \in Seq(S), NEW r \in Seq(S), Distinct(s), Distinct(r),
         Elements(s) \cap Elements(r) = {}
  PROVE  Distinct(s \o r)
  <1>1. /\ DOMAIN s = 1..Len(s) /\ DOMAIN r = 1..Len(r)
        /\ Len(s) \in Nat /\ Len(r) \in Nat
        /\ DOMAIN (s \o r) = 1..(Len(s) + Len(r))
        /\ \A i \in 1..(Len(s) + Len(r)) :
              (s \o r)[i] = IF i <= Len(s) THEN s[i] ELSE r[i - Len(s)]
    BY ConcatProperties, LenProperties
  <1>2. \A i \in DOMAIN s, j \in DOMAIN r : s[i] # r[j] BY DEF Elements
  <1>3. SUFFICES ASSUME NEW i \in DOMAIN (s \o r), NEW j \in DOMAIN (s \o r), i # j
                 PROVE  (s \o r)[i] # (s \o r)[j]
    BY DEF Distinct
  <1>4. \/ i \in DOMAIN s /\ (s \o r)[i] = s[i]
        \/ i - Len(s) \in DOMAIN r /\ (s \o r)[i] = r[i - Len(s)]
    BY <1>1
  <1>5. \/ j \in DOMAIN s /\ (s \o r)[j] = s[j]
        \/ j - Len(s) \in DOMAIN r /\ (s \o r)[j] = r[j - Len(s)]
    BY <1>1
  <1>6. i \in Int /\ j \in Int /\ (i - Len(s) # j - Len(s)) BY <1>1, <1>3
  <1> QED BY <1>2, <1>3, <1>4, <1>5, <1>6 DEF Distinct

LEMMA ElementsSmall ==
  ASSUME NEW x
  PROVE  Elements(<<x>>) = {x} /\ Elements(<<>>) = {} /\ Distinct(<<x>>) /\ Distinct(<<>>)
  BY DEF Elements, Distinct

(* One more element at the end.                                            *)
LEMMA ElementsAppend ==
  ASSUME NEW S, NEW s \in Seq(S), NEW x \in S
  PROVE  /\ s \o <<x>> \in Seq(S)
         /\ Elements(s \o <<x>>) = Elements(s) \cup {x}
         /\ Distinct(s) /\ x \notin Elements(s) => Distinct(s \o <<x>>)
  <1> DEFINE r == <<x>>
  <1>1. r \in Seq(S) OBVIOUS
  <1>2. Elements(r) = {x} /\ Distinct(r) BY ElementsSmall
  <1> HIDE DEF r
  <1>3. s \o r \in Seq(S) /\ Elements(s \o r) = Elements(s) \cup {x}
    BY <1>1, <1>2, ElementsConcat
  <1>4. ASSUME Distinct(s), x \notin Elements(s) PROVE Distinct(s \o r)
    BY <1>1, <1>2, <1>4, DistinctConcat
  <1> QED BY <1>3, <1>4 DEF r

-----------------------------------------------------------------------------
(* Facts about the state of one task.                                      *)

LEMMA FreshTyped ==
  /\ Fresh \in TaskState
  /\ Fresh.committed = <<>> /\ Fresh.pending = <<>> /\ Fresh.subscription = {}
  /\ Fresh.response = "none"
  BY DEF Fresh, TaskState, AnyVm, Responses

LEMMA EmissionTyped ==
  ASSUME Typed, NEW t \in Task
  PROVE  /\ task[t] \in TaskState
         /\ Emission(t) \in Emissions
         /\ Emission(t)[1] = t /\ Emission(t)[2] = task[t].vm.segment
  <1>1. task[t] \in TaskState BY DEF Typed
  <1>2. task[t].vm.segment \in Nat /\ task[t].retries \in Nat
    BY <1>1 DEF TaskState, AnyVm
  <1> QED BY <1>1, <1>2 DEF Emission, Emissions

(* A step that leaves the other tasks alone.                               *)
Alone(t) ==
    \A u \in Task \ {t} : /\ task'[u] = task[u] /\ status'[u] = status[u]
                          /\ outcome'[u] = outcome[u] /\ delivered'[u] = delivered[u]

(* The invariant after a step of t that publishes and exposes nothing, if  *)
(* it holds of t and t loses no committed effect and no capability without *)
(* failing.                                                                *)
LEMMA QuietStep ==
  ASSUME IInv, NEW t \in Task, Typed', Alone(t), UNCHANGED <<effects, published>>,
         (Holds(t) /\ Buffered(t) /\ AtCheckpoint(t))', status[t] # "failed",
         \/ task'[t].committed = task[t].committed
         \/ task[t].committed = <<>>
         \/ status'[t] = "failed" /\ ("commit" \in Response[t] \/ "dispatch" \in Fault[t]),
         applied \subseteq applied',
         \A c \in caps' : \/ c \in caps /\ c[1] # t
                          \/ c \in applied'
                          \/ c[1] = t /\ (c \in task'[t].subscription \/ status'[t] = "failed")
  PROVE  IInv'
  <1>1. ASSUME NEW u \in Task \ {t} PROVE (Holds(u) /\ Buffered(u) /\ AtCheckpoint(u))'
    <2>1. /\ task'[u] = task[u] /\ status'[u] = status[u] /\ outcome'[u] = outcome[u]
          /\ delivered'[u] = delivered[u] /\ effects' = effects /\ published' = published
      BY <1>1 DEF Alone
    <2>2. Holds(u)' BY <2>1 DEF IInv, Holds
    <2>3. Buffered(u)' BY <2>1 DEF IInv, Buffered, Emission
    <2>4. AtCheckpoint(u)' BY <2>1 DEF IInv, AtCheckpoint, Live
    <2> QED BY <2>2, <2>3, <2>4
  <1>2. (Distinct(effects) /\ ExposedWasPublished /\ OnePerSegment)'
    BY DEF IInv, Distinct, ExposedWasPublished, OnePerSegment
  <1>3. EffectsFollowWrites'
    <2>1. SUFFICES ASSUME NEW e \in published
                   PROVE  \/ e \in Elements(effects)
                          \/ e \in Elements(task'[e[1]].committed)
                          \/ status'[e[1]] = "failed" /\ ("commit" \in Response[e[1]]
                                                            \/ "dispatch" \in Fault[e[1]])
      BY DEF EffectsFollowWrites
    <2>2. e[1] \in Task BY DEF IInv, Typed, Emissions
    <2>3. \/ e \in Elements(effects)
          \/ e \in Elements(task[e[1]].committed)
          \/ status[e[1]] = "failed" /\ ("commit" \in Response[e[1]] \/ "dispatch" \in Fault[e[1]])
      BY DEF IInv, EffectsFollowWrites
    <2>4. CASE e[1] = t BY <2>3, <2>4, ElementsSmall
    <2>5. CASE e[1] # t BY <2>2, <2>3, <2>5 DEF Alone
    <2> QED BY <2>4, <2>5
  <1>4. CapabilitiesAccounted'
    <2>1. SUFFICES ASSUME NEW c \in caps'
                   PROVE  \/ c \in applied' \/ c \in task'[c[1]].subscription
                          \/ status'[c[1]] = "failed"
      BY DEF CapabilitiesAccounted
    <2>2. c[1] \in Task BY DEF Typed, Emissions
    <2>3. CASE c[1] = t BY <2>3
    <2>4. CASE c[1] # t
      <3>1. CASE c \in applied' BY <3>1
      <3>2. CASE c \in caps
        <4>1. c \in applied \/ c \in task[c[1]].subscription \/ status[c[1]] = "failed"
          BY <3>2 DEF IInv, CapabilitiesAccounted
        <4> QED BY <2>2, <2>4, <4>1 DEF Alone
      <3> QED BY <2>4, <3>1, <3>2
    <2> QED BY <2>3, <2>4
  <1> QED BY <1>1, <1>2, <1>3, <1>4 DEF IInv
(* Dropped leaves nothing behind of the task.                              *)
LEMMA DroppedStep ==
  ASSUME IInv, NEW t \in Task, Dropped(t), UNCHANGED delivered
  PROVE  /\ Alone(t) /\ task'[t] = Fresh /\ status'[t] = "failed"
         /\ task' \in [Task -> TaskState] /\ status' \in [Task -> Statuses]
         /\ outcome' = outcome
         /\ (Holds(t) /\ Buffered(t) /\ AtCheckpoint(t))'
  <1>1. Typed BY DEF IInv
  <1>2. /\ task'[t] = Fresh /\ status'[t] = "failed" /\ outcome' = outcome
        /\ task' \in [Task -> TaskState] /\ status' \in [Task -> Statuses]
        /\ \A u \in Task \ {t} : task'[u] = task[u] /\ status'[u] = status[u]
    BY <1>1, FreshTyped DEF Dropped, Typed, Statuses
  <1>3. Alone(t) BY <1>2 DEF Alone
  <1>4. Holds(t)'
    <2>1. task'[t].committed = <<>> BY <1>2, FreshTyped
    <2> QED BY <2>1, ElementsSmall DEF Holds
  <1>5. Buffered(t)' BY <1>2, FreshTyped DEF Buffered
  <1>6. AtCheckpoint(t)' BY <1>2 DEF AtCheckpoint, Live
  <1> QED BY <1>2, <1>3, <1>4, <1>5, <1>6

-----------------------------------------------------------------------------
(* The invariant holds at first and each action keeps it.                  *)

LEMMA InitInv == Init => IInv
  <1> SUFFICES ASSUME Init PROVE IInv OBVIOUS
  <1>1. Typed
    <2>1. IsFiniteSet(published) BY FS_EmptySet DEF Init
    <2> QED BY <2>1, FreshTyped DEF Init, Typed, Statuses
  <1>2. ASSUME NEW t \in Task PROVE Holds(t) /\ Buffered(t) /\ AtCheckpoint(t)
    <2>1. /\ task[t] = Fresh /\ status[t] = "none" /\ effects = <<>> /\ published = {}
          /\ delivered[t] = 0
      BY DEF Init
    <2>2. Holds(t) BY <2>1, FreshTyped, ElementsSmall DEF Holds
    <2>3. Buffered(t) BY <2>1, FreshTyped DEF Buffered
    <2>4. AtCheckpoint(t) BY <2>1 DEF AtCheckpoint, Fresh
    <2> QED BY <2>2, <2>3, <2>4
  <1>3. Distinct(effects) /\ ExposedWasPublished
    BY ElementsSmall DEF Init, ExposedWasPublished
  <1>4. OnePerSegment /\ EffectsFollowWrites /\ CapabilitiesAccounted
    BY DEF Init, OnePerSegment, EffectsFollowWrites, CapabilitiesAccounted
  <1> QED BY <1>1, <1>2, <1>3, <1>4 DEF IInv

LEMMA StutterInv == IInv /\ UNCHANGED vars => IInv'
  BY DEF IInv, vars, Typed, Holds, Buffered, AtCheckpoint, Live, Emission, Distinct,
         ExposedWasPublished, OnePerSegment, EffectsFollowWrites, CapabilitiesAccounted

LEMMA SubmitInv ==
  ASSUME IInv, NEW t \in Task, Submit(t)
  PROVE  IInv'
  <1>1. Typed /\ Holds(t) /\ Buffered(t) /\ AtCheckpoint(t) BY DEF IInv
  <1>2. task[t] \in TaskState BY <1>1 DEF Typed
  <1>3. /\ task'[t] = [task[t] EXCEPT !.base = counter]
        /\ status[t] = "none" /\ status'[t] = "running" /\ Alone(t)
    BY <1>1 DEF Submit, Alone, Typed
  <1>4. task'[t] \in TaskState /\ task' \in [Task -> TaskState]
    BY <1>1, <1>2, <1>3 DEF Submit, TaskState, Typed
  <1>5. Typed' BY <1>1, <1>4 DEF Submit, Typed, Statuses
  <1>6. /\ task'[t].committed = <<>> /\ task[t].committed = <<>>
        /\ task'[t].pending = <<>> /\ task'[t].subscription = {}
        /\ task'[t].response = "none"
        /\ task'[t].vm = task[t].vm /\ task'[t].retry = task[t].retry
    BY <1>1, <1>2, <1>3 DEF Buffered, TaskState
  <1>7. Holds(t)' BY <1>6, ElementsSmall DEF Holds
  <1>8. Buffered(t)' BY <1>3, <1>6 DEF Buffered
  <1>9. AtCheckpoint(t)' BY <1>1, <1>3, <1>6 DEF AtCheckpoint, Live, Submit
  <1>10. \A c \in caps' : \/ c \in caps /\ c[1] # t
                          \/ c \in applied'
                          \/ c[1] = t /\ (c \in task'[t].subscription \/ status'[t] = "failed")
    BY <1>3, <1>6, <1>1 DEF Submit, IInv, CapabilitiesAccounted, Buffered
  <1> QED BY <1>3, <1>5, <1>6, <1>7, <1>8, <1>9, <1>10, QuietStep DEF Submit
LEMMA RunVmInv ==
  ASSUME IInv, NEW t \in Task, NEW keys \in SUBSET Key, NEW subscribe,
         NEW response \in Response[t], RunVm(t, keys, subscribe, response)
  PROVE  IInv'
  <1>1. Typed /\ Holds(t) /\ Buffered(t) /\ AtCheckpoint(t) BY DEF IInv
  <1>2. task[t] \in TaskState /\ Emission(t) \in Emissions /\ Emission(t)[1] = t
    BY <1>1, EmissionTyped
  <1>3. <<Emission(t)>> \in Seq(Emissions) BY <1>2
  <1>4. /\ status[t] = "running" /\ status' = status /\ task[t].response = "none"
        /\ task'[t] = [task[t] EXCEPT !.writes = keys, !.pending = <<Emission(t)>>,
                          !.subscription = IF subscribe THEN {Emission(t)} ELSE {},
                          !.response = response]
        /\ Alone(t)
    BY <1>1 DEF RunVm, Alone, Typed
  <1>5. /\ task'[t].pending = <<Emission(t)>> /\ task'[t].committed = task[t].committed
        /\ task'[t].subscription = (IF subscribe THEN {Emission(t)} ELSE {})
        /\ task'[t].response = response /\ task'[t].writes = keys
        /\ task'[t].vm = task[t].vm /\ task'[t].retry = task[t].retry
        /\ task'[t].retries = task[t].retries /\ task'[t].base = task[t].base
    BY <1>2, <1>4 DEF TaskState
  <1>6. task'[t] \in TaskState
    <2>1. response \in Responses BY ResponseAssumption DEF Responses
    <2>2. (IF subscribe THEN {Emission(t)} ELSE {}) \in SUBSET Emissions BY <1>2
    <2> QED BY <1>2, <1>3, <1>4, <2>1, <2>2 DEF TaskState
  <1>7. task' \in [Task -> TaskState] BY <1>1, <1>6 DEF RunVm, Typed
  <1>8. Typed'
    <2>1. caps' \in SUBSET Emissions BY <1>1, <1>2 DEF RunVm, Typed
    <2> QED BY <1>1, <1>7, <2>1 DEF RunVm, Typed
  <1>9. Emission(t)' = Emission(t) BY <1>5 DEF Emission
  <1>10. Holds(t)' BY <1>1, <1>5 DEF Holds, RunVm
  <1>11. Buffered(t)'
    <2>1. task'[t].subscription \subseteq {Emission(t)} BY <1>5
    <2>2. status'[t] = "running" BY <1>4
    <2>3. "commit" \in Response[t] \/ task'[t].committed = <<>> BY <1>1, <1>4, <1>5 DEF Buffered
    <2> QED BY <1>5, <1>9, <2>1, <2>2, <2>3 DEF Buffered
  <1>12. AtCheckpoint(t)' BY <1>1, <1>4, <1>5 DEF AtCheckpoint, Live, RunVm
  <1>13. ASSUME NEW c \in caps'
         PROVE  \/ c \in caps /\ c[1] # t
                \/ c \in applied'
                \/ c[1] = t /\ (c \in task'[t].subscription \/ status'[t] = "failed")
    <2>1. task[t].subscription = {} BY <1>1, <1>4, ResponseAssumption DEF Buffered, Boundaries
    <2>2. CASE c \in caps
      BY <1>4, <2>1, <2>2 DEF RunVm, IInv, CapabilitiesAccounted
    <2>3. CASE c \notin caps
      BY <1>2, <1>5, <1>13, <2>3 DEF RunVm
    <2> QED BY <2>2, <2>3
  <1> QED BY <1>4, <1>5, <1>8, <1>10, <1>11, <1>12, <1>13, QuietStep DEF RunVm

(* A task that ends with an error while it runs, or as it is resumed, has  *)
(* lost effects only if it had passed a commit in the middle of its run.   *)
LEMMA DroppedInv ==
  ASSUME IInv, NEW t \in Task, Dropped(t), status[t] \in {"running", "suspended"},
         UNCHANGED <<counter, effects, published, applied, delivered>>, caps' \subseteq caps
  PROVE  IInv'
  <1>1. Typed /\ Buffered(t) BY DEF IInv
  <1>2. /\ Alone(t) /\ task'[t] = Fresh /\ status'[t] = "failed"
        /\ task' \in [Task -> TaskState] /\ status' \in [Task -> Statuses]
        /\ outcome' = outcome
        /\ (Holds(t) /\ Buffered(t) /\ AtCheckpoint(t))'
    BY DroppedStep
  <1>3. Typed' BY <1>1, <1>2 DEF Typed
  <1>4. task[t].committed = <<>> \/ "commit" \in Response[t] BY <1>1 DEF Buffered
  <1> QED BY <1>2, <1>3, <1>4, QuietStep

LEMMA RuntimeFailureInv ==
  ASSUME IInv, NEW t \in Task, RuntimeFailure(t)
  PROVE  IInv'
  BY DroppedInv DEF RuntimeFailure

LEMMA CommitFailureInv ==
  ASSUME IInv, NEW t \in Task, CommitFailure(t)
  PROVE  IInv'
  BY DroppedInv DEF CommitFailure

LEMMA ResumeFailureInv ==
  ASSUME IInv, NEW t \in Task, ResumeFailure(t)
  PROVE  IInv'
  BY DroppedInv DEF ResumeFailure

(* An attempt whose subscriptions are withdrawn leaves no capability       *)
(* behind.                                                                 *)
LEMMA Withdrawn ==
  ASSUME IInv, NEW t \in Task, caps' = caps \ task[t].subscription, applied' = applied,
         status[t] # "failed"
  PROVE  \A c \in caps' : \/ c \in caps /\ c[1] # t
                          \/ c \in applied'
  BY DEF IInv, CapabilitiesAccounted
LEMMA RetryInv ==
  ASSUME IInv, NEW t \in Task, Retry(t)
  PROVE  IInv'
  <1>1. Typed /\ Holds(t) /\ Buffered(t) /\ AtCheckpoint(t) BY DEF IInv
  <1>2. task[t] \in TaskState BY <1>1 DEF Typed
  <1>3. status[t] = "running" BY DEF Retry
  <1>4. CASE RetriesExceeded(t) BY <1>3, <1>4, DroppedInv DEF Retry
  <1>5. CASE ~ RetriesExceeded(t)
    <2>1. /\ status' = status /\ outcome' = outcome /\ caps' = caps \ task[t].subscription
          /\ task' = [task EXCEPT ![t] = RestoreCheckpoint(t)]
          /\ UNCHANGED <<counter, effects, published, applied, delivered>>
      BY <1>5 DEF Retry
    <2>2. Alone(t) /\ task'[t] = RestoreCheckpoint(t) BY <1>1, <2>1 DEF Alone, Typed
    <2>3. /\ task'[t].pending = <<>> /\ task'[t].committed = task[t].committed
          /\ task'[t].subscription = {} /\ task'[t].response = "none"
          /\ task'[t].vm = task[t].retry /\ task'[t].retry = task[t].retry
      BY <1>2, <2>2 DEF TaskState, RestoreCheckpoint
    <2>4. task'[t] \in TaskState
      <3>1. <<>> \in Seq(Emissions) /\ "none" \in Responses BY DEF Responses
      <3>2. counter \in [Key -> Nat] \cup {NoTx} /\ task[t].retries + 1 \in Nat
        BY <1>1, <1>2 DEF Typed, TaskState
      <3> QED BY <1>2, <2>2, <3>1, <3>2 DEF TaskState, RestoreCheckpoint
    <2>5. task' \in [Task -> TaskState] BY <1>1, <2>1, <2>2, <2>4 DEF Typed
    <2>6. Typed' BY <1>1, <2>1, <2>5 DEF Typed
    <2>7. Holds(t)' BY <1>1, <2>1, <2>3 DEF Holds
    <2>8. Buffered(t)' BY <1>1, <1>3, <2>1, <2>3 DEF Buffered
    <2>9. AtCheckpoint(t)' BY <1>1, <1>3, <2>1, <2>3 DEF AtCheckpoint, Live
    <2>10. \A c \in caps' : (c \in caps /\ c[1] # t) \/ c \in applied'
      BY <1>3, <2>1, Withdrawn
    <2> QED BY <1>3, <2>1, <2>2, <2>3, <2>6, <2>7, <2>8, <2>9, <2>10, QuietStep
  <1> QED BY <1>4, <1>5

LEMMA AbortInv ==
  ASSUME IInv, NEW t \in Task, Abort(t)
  PROVE  IInv'
  <1>1. Typed /\ Holds(t) /\ Buffered(t) /\ AtCheckpoint(t) BY DEF IInv
  <1>2. task[t] \in TaskState BY <1>1 DEF Typed
  <1>3. /\ status[t] = "running" /\ status'[t] = "recording" /\ outcome'[t] = "completed"
        /\ status' \in [Task -> Statuses] /\ outcome' \in [Task -> {"none", "completed", "suspended"}]
    BY <1>1 DEF Abort, Typed, Statuses
  <1>4. /\ task'[t] = [task[t] EXCEPT !.pending = <<>>, !.subscription = {}, !.writes = {},
                          !.base = NoTx, !.response = "none"]
        /\ Alone(t)
    BY <1>1 DEF Abort, Alone, Typed
  <1>5. /\ task'[t].pending = <<>> /\ task'[t].committed = task[t].committed
        /\ task'[t].subscription = {} /\ task'[t].response = "none"
    BY <1>2, <1>4 DEF TaskState
  <1>6. task'[t] \in TaskState
    <2>1. <<>> \in Seq(Emissions) /\ "none" \in Responses BY DEF Responses
    <2> QED BY <1>2, <1>4, <2>1 DEF TaskState
  <1>7. task' \in [Task -> TaskState] BY <1>1, <1>6 DEF Abort, Typed
  <1>8. Typed' BY <1>1, <1>3, <1>7 DEF Abort, Typed
  <1>9. Holds(t)' BY <1>1, <1>5 DEF Holds, Abort
  <1>10. Buffered(t)' BY <1>3, <1>5 DEF Buffered
  <1>11. AtCheckpoint(t)' BY <1>3 DEF AtCheckpoint, Live
  <1>12. \A c \in caps' : (c \in caps /\ c[1] # t) \/ c \in applied'
    BY <1>3, Withdrawn DEF Abort
  <1> QED BY <1>3, <1>4, <1>5, <1>8, <1>9, <1>10, <1>11, <1>12, QuietStep DEF Abort

LEMMA ResumeInv ==
  ASSUME IInv, NEW t \in Task, Resume(t)
  PROVE  IInv'
  <1>1. Typed /\ Holds(t) /\ Buffered(t) /\ AtCheckpoint(t) BY DEF IInv
  <1>2. task[t] \in TaskState /\ delivered[t] \in Nat BY <1>1 DEF Typed
  <1>3. /\ status[t] = "suspended" /\ status'[t] = "running"
        /\ status' \in [Task -> Statuses]
        /\ delivered'[t] = delivered[t] + 1 /\ delivered' \in [Task -> Nat]
    BY <1>1, <1>2 DEF Resume, Typed, Statuses
  <1>4. task'[t] = Resumed(t, delivered[t] + 1) /\ Alone(t)
    BY <1>1 DEF Resume, Alone, Typed
  <1>5. /\ task'[t].pending = task[t].pending /\ task'[t].committed = task[t].committed
        /\ task'[t].subscription = task[t].subscription
        /\ task'[t].response = task[t].response
        /\ task'[t].vm = task'[t].retry /\ task'[t].vm.value = delivered[t] + 1
        /\ task'[t].vm.segment = task[t].vm.segment
    BY <1>2, <1>4 DEF TaskState, AnyVm, Resumed
  <1>6. task'[t] \in TaskState
    <2>1. counter \in [Key -> Nat] \cup {NoTx} BY <1>1 DEF Typed
    <2>2. [task[t].vm EXCEPT !.value = delivered[t] + 1] \in AnyVm
      <3>1. task[t].vm \in AnyVm BY <1>2 DEF TaskState
      <3> QED BY <1>2, <3>1 DEF AnyVm
    <2>3. task'[t] = [task[t] EXCEPT !.vm = [task[t].vm EXCEPT !.value = delivered[t] + 1],
                          !.retry = [task[t].vm EXCEPT !.value = delivered[t] + 1],
                          !.base = counter]
      BY <1>2, <1>4 DEF Resumed, TaskState, AnyVm
    <2> QED BY <1>2, <2>1, <2>2, <2>3 DEF TaskState
  <1>7. task' \in [Task -> TaskState] BY <1>1, <1>4, <1>6 DEF Resume, Typed
  <1>8. Typed' BY <1>1, <1>3, <1>7 DEF Resume, Typed
  <1>9. Holds(t)' BY <1>1, <1>5 DEF Holds, Resume
  <1>10. Buffered(t)' BY <1>1, <1>3, <1>5 DEF Buffered
  <1>11. AtCheckpoint(t)' BY <1>1, <1>3, <1>5 DEF AtCheckpoint, Live, Resume
  <1>12. \A c \in caps' : (c \in caps /\ c[1] # t) \/ c \in applied'
    BY <1>1, <1>3 DEF IInv, CapabilitiesAccounted, Buffered, Resume
  <1> QED BY <1>3, <1>4, <1>5, <1>8, <1>9, <1>10, <1>11, <1>12, QuietStep DEF Resume

LEMMA ForgetInv ==
  ASSUME IInv, NEW t \in Task, Forget(t)
  PROVE  IInv'
  <1>1. Typed /\ Holds(t) /\ Buffered(t) BY DEF IInv
  <1>2. /\ status[t] \in {"completed", "cancelled"} /\ status'[t] = "forgotten"
        /\ status' \in [Task -> Statuses] /\ Alone(t)
        /\ UNCHANGED <<counter, task, outcome, effects, published, caps, applied, delivered>>
    BY <1>1 DEF Forget, Typed, Statuses, Alone
  <1>3. Typed' BY <1>1, <1>2 DEF Typed
  <1>4. Holds(t)' BY <1>1, <1>2 DEF Holds
  <1>5. Buffered(t)' BY <1>1, <1>2 DEF Buffered
  <1>6. AtCheckpoint(t)' BY <1>2 DEF AtCheckpoint, Live
  <1>7. \A c \in caps' : (c \in caps /\ c[1] # t) \/ c \in applied'
    BY <1>1, <1>2 DEF IInv, CapabilitiesAccounted, Buffered
  <1> QED BY <1>2, <1>3, <1>4, <1>5, <1>6, <1>7, QuietStep
LEMMA CancelInv ==
  ASSUME IInv, NEW ts \in SUBSET Task, Cancel(ts)
  PROVE  IInv'
  <1>1. Typed /\ \A t \in Task : Holds(t) /\ Buffered(t) /\ AtCheckpoint(t) BY DEF IInv
  <1>2. /\ \A t \in ts : /\ status[t] = "suspended" /\ status'[t] = "cancelled"
                         /\ task'[t] = Fresh
        /\ \A t \in Task \ ts : status'[t] = status[t] /\ task'[t] = task[t]
        /\ status' \in [Task -> Statuses] /\ task' \in [Task -> TaskState]
        /\ UNCHANGED <<counter, outcome, effects, published, caps, applied, delivered>>
    BY <1>1, FreshTyped DEF Cancel, Typed, Statuses
  <1>3. Typed' BY <1>1, <1>2 DEF Typed
  <1>4. ASSUME NEW t \in Task PROVE (Holds(t) /\ Buffered(t) /\ AtCheckpoint(t))'
    <2>1. CASE t \in ts
      <3>1. task'[t].committed = <<>> BY <1>2, <2>1, FreshTyped
      <3>2. Holds(t)' BY <3>1, ElementsSmall DEF Holds
      <3>3. Buffered(t)' BY <1>2, <2>1, FreshTyped DEF Buffered
      <3>4. AtCheckpoint(t)' BY <1>2, <2>1 DEF AtCheckpoint, Live
      <3> QED BY <3>2, <3>3, <3>4
    <2>2. CASE t \notin ts
      <3>1. Holds(t)' BY <1>1, <1>2, <2>2 DEF Holds
      <3>2. /\ task'[t] = task[t] /\ status'[t] = status[t] /\ outcome'[t] = outcome[t]
            /\ Buffered(t)
        BY <1>1, <1>2, <2>2
      <3>3. Buffered(t)' BY <3>2 DEF Buffered, Emission
      <3>4. AtCheckpoint(t)' BY <1>1, <1>2, <2>2 DEF AtCheckpoint, Live
      <3> QED BY <3>1, <3>3, <3>4
    <2> QED BY <2>1, <2>2
  <1>5. (Distinct(effects) /\ ExposedWasPublished /\ OnePerSegment)'
    BY <1>2 DEF IInv, Distinct, ExposedWasPublished, OnePerSegment
  <1>6. \A t \in ts : task[t].committed = <<>> /\ task[t].subscription = {}
    BY <1>1, <1>2 DEF Buffered
  <1>7. EffectsFollowWrites'
    <2>1. SUFFICES ASSUME NEW e \in published
                   PROVE  \/ e \in Elements(effects)
                          \/ e \in Elements(task'[e[1]].committed)
                          \/ status'[e[1]] = "failed" /\ ("commit" \in Response[e[1]]
                                                            \/ "dispatch" \in Fault[e[1]])
      BY <1>2 DEF EffectsFollowWrites
    <2>2. e[1] \in Task BY <1>1 DEF Typed, Emissions
    <2>3. \/ e \in Elements(effects)
          \/ e \in Elements(task[e[1]].committed)
          \/ status[e[1]] = "failed" /\ ("commit" \in Response[e[1]] \/ "dispatch" \in Fault[e[1]])
      BY DEF IInv, EffectsFollowWrites
    <2>4. CASE e[1] \in ts BY <1>2, <1>6, <2>3, <2>4, ElementsSmall
    <2>5. CASE e[1] \notin ts BY <1>2, <2>2, <2>3, <2>5
    <2> QED BY <2>4, <2>5
  <1>8. CapabilitiesAccounted'
    <2>1. SUFFICES ASSUME NEW c \in caps
                   PROVE  \/ c \in applied \/ c \in task'[c[1]].subscription
                          \/ status'[c[1]] = "failed"
      BY <1>2 DEF CapabilitiesAccounted
    <2>2. c[1] \in Task BY <1>1 DEF Typed, Emissions
    <2>3. c \in applied \/ c \in task[c[1]].subscription \/ status[c[1]] = "failed"
      BY DEF IInv, CapabilitiesAccounted
    <2> QED BY <1>2, <1>6, <2>2, <2>3
  <1> QED BY <1>3, <1>4, <1>5, <1>7, <1>8 DEF IInv
-----------------------------------------------------------------------------
(* Boundaries.                                                             *)

(* A task at a boundary has one emission, of a segment none of whose       *)
(* attempts was published.                                                 *)
LEMMA AtBoundary ==
  ASSUME IInv, NEW t \in Task, status[t] = "running", task[t].response \in Boundaries
  PROVE  /\ task[t].response \in Response[t]
         /\ task[t].pending = <<Emission(t)>> /\ Elements(task[t].pending) = {Emission(t)}
         /\ task[t].subscription \subseteq {Emission(t)}
         /\ Emission(t) \in Emissions /\ Emission(t)[1] = t
         /\ \A e \in published : e[1] = t => e[2] < task[t].vm.segment
         /\ Emission(t) \notin published
         /\ task[t] \in TaskState
  <1>1. Typed /\ Buffered(t) /\ AtCheckpoint(t) BY DEF IInv
  <1>2. /\ task[t] \in TaskState /\ Emission(t) \in Emissions
        /\ Emission(t)[1] = t /\ Emission(t)[2] = task[t].vm.segment
    BY <1>1, EmissionTyped
  <1>3. \A e \in published : e[1] = t => e[2] < task[t].vm.segment
    BY <1>1 DEF AtCheckpoint, Live
  <1>4. task[t].vm.segment \in Nat BY <1>2 DEF TaskState, AnyVm
  <1>5. task[t].response # "none" BY DEF Boundaries
  <1>6. /\ task[t].response \in Response[t] /\ task[t].pending = <<Emission(t)>>
        /\ task[t].subscription \subseteq {Emission(t)}
    BY <1>1, <1>5 DEF Buffered
  <1>7. Elements(task[t].pending) = {Emission(t)} BY <1>6, ElementsSmall
  <1>8. Emission(t) \notin published BY <1>2, <1>3, <1>4
  <1> QED BY <1>2, <1>3, <1>6, <1>7, <1>8

(* What does not depend on t after its emission was published.             *)
LEMMA PublishStep ==
  ASSUME IInv, NEW t \in Task, status[t] = "running", task[t].response \in Boundaries,
         Alone(t), UNCHANGED effects, published' = published \cup {Emission(t)}
  PROVE  /\ \A u \in Task \ {t} : (Holds(u) /\ Buffered(u) /\ AtCheckpoint(u))'
         /\ (Distinct(effects) /\ ExposedWasPublished /\ OnePerSegment)'
         /\ published' \in SUBSET Emissions /\ IsFiniteSet(published')
  <1>1. /\ Emission(t) \in Emissions /\ Emission(t)[1] = t
        /\ Emission(t)[2] = task[t].vm.segment
        /\ \A e \in published : e[1] = t => e[2] < task[t].vm.segment
        /\ task[t].vm.segment \in Nat
    <2>1. task[t] \in TaskState BY DEF IInv, Typed
    <2>2. task[t].vm.segment \in Nat BY <2>1 DEF TaskState, AnyVm
    <2> QED BY <2>2, AtBoundary DEF Emission
  <1>2. published \in SUBSET Emissions /\ IsFiniteSet(published) BY DEF IInv, Typed
  <1>3. ASSUME NEW u \in Task \ {t} PROVE (Holds(u) /\ Buffered(u) /\ AtCheckpoint(u))'
    <2>1. /\ task'[u] = task[u] /\ status'[u] = status[u] /\ outcome'[u] = outcome[u]
          /\ delivered'[u] = delivered[u] /\ effects' = effects
      BY <1>3 DEF Alone
    <2>2. Holds(u)' BY <2>1 DEF IInv, Holds
    <2>3. Buffered(u)' BY <2>1 DEF IInv, Buffered, Emission
    <2>4. AtCheckpoint(u)' BY <1>1, <2>1 DEF IInv, AtCheckpoint, Live
    <2> QED BY <2>2, <2>3, <2>4
  <1>4. (Distinct(effects) /\ ExposedWasPublished)'
    BY DEF IInv, Distinct, ExposedWasPublished
  <1>5. OnePerSegment'
    <2>1. SUFFICES ASSUME NEW e \in published', NEW f \in published',
                          e[1] = f[1], e[2] = f[2]
                   PROVE  e = f
      BY DEF OnePerSegment
    <2>2. CASE e \in published /\ f \in published BY <2>1, <2>2 DEF IInv, OnePerSegment
    <2>3. CASE e = Emission(t) /\ f \in published BY <1>1, <1>2, <2>1, <2>3
    <2>4. CASE f = Emission(t) /\ e \in published BY <1>1, <1>2, <2>1, <2>4
    <2> QED BY <2>1, <2>2, <2>3, <2>4
  <1>6. published' \in SUBSET Emissions /\ IsFiniteSet(published')
    BY <1>1, <1>2, FS_AddElement
  <1> QED BY <1>3, <1>4, <1>5, <1>6
(* A write that meets no conflict increments the newest counters.          *)
LEMMA WriteCounts ==
  ASSUME Typed, NEW t \in Task, Write(t)
  PROVE  /\ counter' = [k \in Key |-> IF k \in task[t].writes THEN counter[k] + 1 ELSE counter[k]]
         /\ counter' \in [Key -> Nat]
  <1>1. \A k \in task[t].writes : task[t].base[k] = counter[k] BY DEF Write, Conflict
  <1> QED BY <1>1 DEF Write, Typed

LEMMA FinishFields ==
  ASSUME NEW t \in Task, task[t] \in TaskState, task[t].pending = <<Emission(t)>>,
         Emission(t) \in Emissions, counter' \in [Key -> Nat]
  PROVE  LET next == FinishBoundary(t)
         IN /\ next \in TaskState
            /\ next.committed = task[t].committed \o <<Emission(t)>>
            /\ next.pending = <<>> /\ next.subscription = {} /\ next.response = "none"
            /\ task[t].response # "complete" =>
                 /\ next.retry = next.vm
                 /\ next.vm.segment = task[t].vm.segment + 1
                 /\ next.vm.value = task[t].vm.value
  <1> DEFINE kept == [task[t] EXCEPT !.committed = @ \o task[t].pending,
                         !.pending = <<>>, !.subscription = {}, !.writes = {},
                         !.response = "none"]
             next == FinishBoundary(t)
  <1>1. task[t].committed \o <<Emission(t)>> \in Seq(Emissions)
    <2>1. task[t].committed \in Seq(Emissions) BY DEF TaskState
    <2> QED BY <2>1, ElementsAppend
  <1>2. <<>> \in Seq(Emissions) /\ "none" \in Responses BY DEF Responses
  <1>3. kept \in TaskState BY <1>1, <1>2 DEF TaskState
  <1>4. /\ kept.committed = task[t].committed \o <<Emission(t)>>
        /\ kept.pending = <<>> /\ kept.subscription = {} /\ kept.response = "none"
        /\ kept.vm = task[t].vm
    BY DEF TaskState
  <1>5. /\ task[t].vm \in AnyVm /\ NextSegment(task[t].vm) \in AnyVm
        /\ NextSegment(task[t].vm).segment = task[t].vm.segment + 1
        /\ NextSegment(task[t].vm).value = task[t].vm.value
    <2>1. task[t].vm \in AnyVm BY DEF TaskState
    <2> QED BY <2>1 DEF AnyVm, NextSegment
  <1> HIDE DEF kept
  <1>6. CASE task[t].response = "complete"
    <2>1. next = [kept EXCEPT !.base = NoTx] BY <1>6 DEF FinishBoundary, kept
    <2>2. next \in TaskState BY <1>3, <2>1 DEF TaskState
    <2> QED BY <1>3, <1>4, <1>6, <2>1, <2>2 DEF TaskState
  <1>7. CASE task[t].response # "complete"
    <2>1. next = [kept EXCEPT !.vm = NextSegment(@), !.retry = NextSegment(task[t].vm),
                              !.base = counter']
      BY <1>7 DEF FinishBoundary, kept
    <2>2. next = [kept EXCEPT !.vm = NextSegment(task[t].vm), !.retry = NextSegment(task[t].vm),
                              !.base = counter']
      BY <1>4, <2>1
    <2>3. next \in TaskState BY <1>3, <1>5, <2>2 DEF TaskState
    <2>4. /\ next.committed = kept.committed /\ next.pending = kept.pending
          /\ next.subscription = kept.subscription /\ next.response = kept.response
          /\ next.vm = NextSegment(task[t].vm) /\ next.retry = NextSegment(task[t].vm)
      BY <1>3, <2>2 DEF TaskState
    <2> QED BY <1>4, <1>5, <2>3, <2>4
  <1> QED BY <1>6, <1>7

LEMMA AfterBoundaryInv ==
  ASSUME IInv, NEW t \in Task, status[t] = "running", task[t].response \in Boundaries,
         counter' \in [Key -> Nat], UNCHANGED <<effects, caps, delivered>>, AfterBoundary(t)
  PROVE  IInv'
  <1> DEFINE e0 == Emission(t)
  <1>1. Typed /\ Holds(t) /\ Buffered(t) /\ AtCheckpoint(t) BY DEF IInv
  <1>2. /\ task[t].response \in Response[t]
        /\ task[t].pending = <<e0>> /\ Elements(task[t].pending) = {e0}
        /\ task[t].subscription \subseteq {e0} /\ e0 \in Emissions /\ e0[1] = t
        /\ \A e \in published : e[1] = t => e[2] < task[t].vm.segment
        /\ e0 \notin published /\ task[t] \in TaskState
    BY AtBoundary
  <1>3. /\ task' = [task EXCEPT ![t] = FinishBoundary(t)]
        /\ published' = published \cup {e0} /\ applied' = applied \cup task[t].subscription
    BY <1>2 DEF AfterBoundary
  <1>4. /\ task'[t] \in TaskState
        /\ task'[t].committed = task[t].committed \o <<e0>>
        /\ task'[t].pending = <<>> /\ task'[t].subscription = {} /\ task'[t].response = "none"
        /\ task[t].response # "complete" =>
             /\ task'[t].retry = task'[t].vm
             /\ task'[t].vm.segment = task[t].vm.segment + 1
             /\ task'[t].vm.value = task[t].vm.value
    <2>1. task'[t] = FinishBoundary(t) BY <1>1, <1>3 DEF Typed
    <2> QED BY <1>2, <2>1, FinishFields
  <1>5. /\ status' \in [Task -> Statuses]
        /\ outcome' \in [Task -> {"none", "completed", "suspended"}]
        /\ \A u \in Task \ {t} : status'[u] = status[u] /\ outcome'[u] = outcome[u]
        /\ task[t].response = "commit" => status'[t] = "running"
        /\ task[t].response # "commit" =>
             /\ status'[t] = "recording"
             /\ outcome'[t] = IF task[t].response = "complete" THEN "completed" ELSE "suspended"
    <2>1. /\ status \in [Task -> Statuses] /\ outcome \in [Task -> {"none", "completed", "suspended"}]
          /\ status[t] = "running"
      BY <1>1 DEF Typed
    <2>2. CASE task[t].response = "commit"
      BY <2>1, <2>2 DEF AfterBoundary
    <2>3. CASE task[t].response # "commit"
      <3>1. /\ status' = [status EXCEPT ![t] = "recording"]
            /\ outcome' = [outcome EXCEPT ![t] = IF task[t].response = "complete"
                                                   THEN "completed" ELSE "suspended"]
        BY <2>3 DEF AfterBoundary
      <3>2. "recording" \in Statuses BY DEF Statuses
      <3> QED BY <2>1, <2>3, <3>1, <3>2
    <2> QED BY <2>2, <2>3
  <1>6. Alone(t) BY <1>1, <1>3, <1>5 DEF Alone, Typed
  <1>7. /\ \A u \in Task \ {t} : (Holds(u) /\ Buffered(u) /\ AtCheckpoint(u))'
        /\ (Distinct(effects) /\ ExposedWasPublished /\ OnePerSegment)'
        /\ published' \in SUBSET Emissions /\ IsFiniteSet(published')
    BY <1>3, <1>6, PublishStep
  <1>8. Typed'
    <2>1. task' \in [Task -> TaskState] BY <1>1, <1>3, <1>4 DEF Typed
    <2>2. applied' \in SUBSET Emissions BY <1>1, <1>2, <1>3 DEF Typed
    <2> QED BY <1>1, <1>5, <1>7, <2>1, <2>2 DEF Typed
  <1>9. /\ task'[t].committed \in Seq(Emissions)
        /\ Elements(task'[t].committed) = Elements(task[t].committed) \cup {e0}
        /\ Distinct(task'[t].committed)
        /\ e0 \notin Elements(task[t].committed) /\ e0 \notin Elements(effects)
    <2>1. task[t].committed \in Seq(Emissions) BY <1>2 DEF TaskState
    <2>2. e0 \notin Elements(task[t].committed) /\ e0 \notin Elements(effects)
      BY <1>1, <1>2 DEF Holds, IInv, ExposedWasPublished
    <2>3. Distinct(task[t].committed) BY <1>1 DEF Holds
    <2> HIDE DEF e0
    <2> QED BY <1>2, <1>4, <2>1, <2>2, <2>3, ElementsAppend
  <1>10. Holds(t)'
    <2>1. Distinct(task'[t].committed) BY <1>9
    <2>2. ASSUME NEW e \in Elements(task'[t].committed)
          PROVE  e[1] = t /\ e \in published' /\ e \notin Elements(effects)
      BY <1>1, <1>2, <1>3, <1>9, <2>2 DEF Holds
    <2> QED BY <2>1, <2>2 DEF Holds
  <1>11. Buffered(t)'
    BY <1>2, <1>4, <1>5 DEF Buffered
  <1>12. AtCheckpoint(t)'
    <2>1. SUFFICES ASSUME Live(t)' PROVE /\ task'[t].retry = task'[t].vm
                                        /\ task'[t].vm.value = delivered'[t]
                                        /\ \A e \in published' : e[1] = t => e[2] < task'[t].vm.segment
      BY DEF AtCheckpoint
    <2>2. task[t].response # "complete" BY <1>5, <2>1 DEF Live
    <2>3. task[t].vm.segment \in Nat /\ e0[2] = task[t].vm.segment
      <3>1. task[t].vm \in AnyVm BY <1>2 DEF TaskState
      <3> QED BY <3>1 DEF AnyVm, Emission
    <2>4. task[t].vm.value = delivered[t] BY <1>1 DEF AtCheckpoint, Live
    <2>5. \A e \in published : e[2] \in Nat BY <1>1 DEF Typed, Emissions
    <2> QED BY <1>2, <1>3, <1>4, <2>2, <2>3, <2>4, <2>5
  <1>13. EffectsFollowWrites'
    <2>1. SUFFICES ASSUME NEW e \in published'
                   PROVE  \/ e \in Elements(effects)
                          \/ e \in Elements(task'[e[1]].committed)
                          \/ status'[e[1]] = "failed" /\ ("commit" \in Response[e[1]]
                                                            \/ "dispatch" \in Fault[e[1]])
      BY DEF EffectsFollowWrites
    <2>2. CASE e = e0 BY <1>2, <1>9, <2>2
    <2>3. CASE e \in published
      <3>1. e[1] \in Task BY <1>1, <2>3 DEF Typed, Emissions
      <3>2. \/ e \in Elements(effects)
            \/ e \in Elements(task[e[1]].committed)
            \/ status[e[1]] = "failed" /\ ("commit" \in Response[e[1]] \/ "dispatch" \in Fault[e[1]])
        BY <2>3 DEF IInv, EffectsFollowWrites
      <3>3. CASE e[1] = t BY <1>9, <3>2, <3>3
      <3>4. CASE e[1] # t BY <1>6, <3>1, <3>2, <3>4 DEF Alone
      <3> QED BY <3>3, <3>4
    <2> QED BY <1>3, <2>2, <2>3
  <1>14. CapabilitiesAccounted'
    <2>1. SUFFICES ASSUME NEW c \in caps
                   PROVE  \/ c \in applied' \/ c \in task'[c[1]].subscription
                          \/ status'[c[1]] = "failed"
      BY DEF CapabilitiesAccounted
    <2>2. c[1] \in Task BY <1>1 DEF Typed, Emissions
    <2>3. c \in applied \/ c \in task[c[1]].subscription \/ status[c[1]] = "failed"
      BY DEF IInv, CapabilitiesAccounted
    <2>4. CASE c[1] = t BY <1>3, <2>3, <2>4
    <2>5. CASE c[1] # t BY <1>3, <1>6, <2>2, <2>3, <2>5 DEF Alone
    <2> QED BY <2>4, <2>5
  <1> HIDE DEF e0
  <1> QED BY <1>7, <1>8, <1>10, <1>11, <1>12, <1>13, <1>14 DEF IInv
LEMMA ReadOnlyBoundaryInv ==
  ASSUME IInv, NEW t \in Task, ReadOnlyBoundary(t)
  PROVE  IInv'
  <1>1. /\ status[t] = "running" /\ task[t].response \in Boundaries
        /\ UNCHANGED <<counter, effects, caps, delivered>> /\ counter \in [Key -> Nat]
    BY DEF ReadOnlyBoundary, IInv, Typed
  <1>2. CASE AfterBoundary(t) BY <1>1, <1>2, AfterBoundaryInv
  <1>3. CASE Dropped(t) /\ UNCHANGED <<published, applied>> BY <1>1, <1>3, DroppedInv
  <1> QED BY <1>2, <1>3 DEF ReadOnlyBoundary

LEMMA WriteBoundaryInv ==
  ASSUME IInv, NEW t \in Task, WriteBoundary(t)
  PROVE  IInv'
  <1>1. /\ status[t] = "running" /\ task[t].response \in Boundaries /\ Typed
        /\ UNCHANGED <<effects, caps, delivered>> /\ counter' \in [Key -> Nat]
    BY WriteCounts DEF WriteBoundary, IInv
  <1>2. CASE AfterBoundary(t) BY <1>1, <1>2, AfterBoundaryInv
  <1>3. CASE /\ "dispatch" \in Fault[t] /\ Dropped(t) /\ UNCHANGED applied
             /\ published' = published \cup Elements(task[t].pending)
    <2>1. published' = published \cup {Emission(t)} /\ Emission(t)[1] = t
      BY <1>1, <1>3, AtBoundary
    <2>2. /\ Alone(t) /\ task'[t] = Fresh /\ status'[t] = "failed"
          /\ task' \in [Task -> TaskState] /\ status' \in [Task -> Statuses]
          /\ outcome' = outcome
          /\ (Holds(t) /\ Buffered(t) /\ AtCheckpoint(t))'
      BY <1>1, <1>3, DroppedStep
    <2>3. /\ \A u \in Task \ {t} : (Holds(u) /\ Buffered(u) /\ AtCheckpoint(u))'
          /\ (Distinct(effects) /\ ExposedWasPublished /\ OnePerSegment)'
          /\ published' \in SUBSET Emissions /\ IsFiniteSet(published')
      BY <1>1, <2>1, <2>2, PublishStep
    <2>4. Typed' BY <1>1, <1>3, <2>2, <2>3 DEF Typed
    <2>5. EffectsFollowWrites'
      <3>1. SUFFICES ASSUME NEW e \in published'
                     PROVE  \/ e \in Elements(effects)
                            \/ e \in Elements(task'[e[1]].committed)
                            \/ status'[e[1]] = "failed" /\ ("commit" \in Response[e[1]]
                                                              \/ "dispatch" \in Fault[e[1]])
        BY <1>1 DEF EffectsFollowWrites
      <3>2. CASE e[1] = t BY <1>3, <2>2, <3>2
      <3>3. CASE e[1] # t
        <4>1. e \in published /\ e[1] \in Task BY <1>1, <2>1, <3>3 DEF Typed, Emissions
        <4>2. \/ e \in Elements(effects)
              \/ e \in Elements(task[e[1]].committed)
              \/ status[e[1]] = "failed" /\ ("commit" \in Response[e[1]] \/ "dispatch" \in Fault[e[1]])
          BY <4>1 DEF IInv, EffectsFollowWrites
        <4> QED BY <2>2, <3>3, <4>1, <4>2 DEF Alone
      <3> QED BY <3>2, <3>3
    <2>6. CapabilitiesAccounted'
      <3>1. SUFFICES ASSUME NEW c \in caps
                     PROVE  \/ c \in applied \/ c \in task'[c[1]].subscription
                            \/ status'[c[1]] = "failed"
        BY <1>1, <1>3 DEF CapabilitiesAccounted
      <3>2. c[1] \in Task BY <1>1 DEF Typed, Emissions
      <3>3. c \in applied \/ c \in task[c[1]].subscription \/ status[c[1]] = "failed"
        BY DEF IInv, CapabilitiesAccounted
      <3>4. CASE c[1] = t BY <2>2, <3>4
      <3>5. CASE c[1] # t BY <2>2, <3>2, <3>3, <3>5 DEF Alone
      <3> QED BY <3>4, <3>5
    <2> QED BY <2>2, <2>3, <2>4, <2>5, <2>6 DEF IInv
  <1> QED BY <1>2, <1>3 DEF WriteBoundary

(* record_outcome moves what the thread holds to the recorded effects.     *)
LEMMA RecordedEffects ==
  ASSUME IInv, NEW t \in Task, RecordOutcome(t)
  PROVE  /\ effects' \in Seq(Emissions) /\ Distinct(effects')
         /\ Elements(effects') = Elements(effects) \cup Elements(task[t].committed)
         /\ \A e \in Elements(task[t].committed) : e[1] = t /\ e \in published
  <1>1. Typed /\ Holds(t) /\ Distinct(effects) BY DEF IInv
  <1>2. task[t].committed \in Seq(Emissions) /\ effects \in Seq(Emissions)
    <2>1. task[t] \in TaskState BY <1>1 DEF Typed
    <2> QED BY <1>1, <2>1 DEF Typed, TaskState
  <1>3. effects' = effects \o task[t].committed BY DEF RecordOutcome, Emitted
  <1>4. /\ Elements(effects) \cap Elements(task[t].committed) = {}
        /\ Distinct(task[t].committed)
        /\ \A e \in Elements(task[t].committed) : e[1] = t /\ e \in published
    BY <1>1 DEF Holds
  <1>5. /\ effects \o task[t].committed \in Seq(Emissions)
        /\ Elements(effects \o task[t].committed) = Elements(effects) \cup Elements(task[t].committed)
    BY <1>2, ElementsConcat
  <1>6. Distinct(effects \o task[t].committed) BY <1>1, <1>2, <1>4, DistinctConcat
  <1> QED BY <1>3, <1>4, <1>5, <1>6

LEMMA RecordOutcomeInv ==
  ASSUME IInv, NEW t \in Task, RecordOutcome(t)
  PROVE  IInv'
  <1>1. Typed /\ Holds(t) /\ Buffered(t) /\ AtCheckpoint(t) BY DEF IInv
  <1>2. task[t] \in TaskState BY <1>1 DEF Typed
  <1>3. /\ effects' \in Seq(Emissions) /\ Distinct(effects')
        /\ Elements(effects') = Elements(effects) \cup Elements(task[t].committed)
        /\ \A e \in Elements(task[t].committed) : e[1] = t /\ e \in published
    BY RecordedEffects
  <1>4. /\ status[t] = "recording" /\ outcome[t] \in {"completed", "suspended"}
        /\ status' = [status EXCEPT ![t] = outcome[t]]
        /\ outcome' = [outcome EXCEPT ![t] = "none"]
        /\ task' = [task EXCEPT ![t] = IF outcome[t] = "suspended" THEN Saved(t) ELSE Fresh]
        /\ UNCHANGED <<counter, published, caps, applied, delivered>>
    BY <1>1 DEF RecordOutcome, Buffered
  <1>5. Saved(t) \in TaskState /\ Saved(t).committed = <<>> /\ Saved(t).vm = task[t].vm
        /\ Saved(t).retry = task[t].retry /\ Saved(t).pending = <<>>
        /\ Saved(t).subscription = {} /\ Saved(t).response = "none"
    <2>1. <<>> \in Seq(Emissions) OBVIOUS
    <2>2. Saved(t) \in TaskState BY <1>2, <2>1 DEF Saved, TaskState
    <2>3. task[t].pending = <<>> /\ task[t].subscription = {} /\ task[t].response = "none"
      BY <1>1, <1>4 DEF Buffered
    <2> QED BY <1>2, <2>2, <2>3 DEF Saved, TaskState
  <1>6. /\ Alone(t) /\ status'[t] = outcome[t] /\ outcome'[t] = "none"
        /\ task'[t] = IF outcome[t] = "suspended" THEN Saved(t) ELSE Fresh
    BY <1>1, <1>4 DEF Alone, Typed
  <1>7. Typed'
    <2>1. task' \in [Task -> TaskState] BY <1>1, <1>4, <1>5, FreshTyped DEF Typed
    <2>2. /\ status' \in [Task -> Statuses]
          /\ outcome' \in [Task -> {"none", "completed", "suspended"}]
      BY <1>1, <1>4 DEF Typed, Statuses
    <2> QED BY <1>1, <1>3, <1>4, <2>1, <2>2 DEF Typed
  <1>8. (Holds(t) /\ Buffered(t) /\ AtCheckpoint(t))'
    <2>1. task'[t].committed = <<>> BY <1>5, <1>6, FreshTyped
    <2>2. Holds(t)' BY <2>1, ElementsSmall DEF Holds
    <2>3. Buffered(t)' BY <1>4, <1>5, <1>6, <2>1, FreshTyped DEF Buffered
    <2>4. AtCheckpoint(t)'
      BY <1>1, <1>4, <1>5, <1>6 DEF AtCheckpoint, Live
    <2> QED BY <2>2, <2>3, <2>4
  <1>9. ASSUME NEW u \in Task \ {t} PROVE (Holds(u) /\ Buffered(u) /\ AtCheckpoint(u))'
    <2>1. /\ task'[u] = task[u] /\ status'[u] = status[u] /\ outcome'[u] = outcome[u]
          /\ delivered'[u] = delivered[u] /\ published' = published
      BY <1>4, <1>6, <1>9 DEF Alone
    <2>2. Holds(u)'
      <3>1. Holds(u) BY DEF IInv
      <3> QED BY <1>3, <1>9, <2>1, <3>1 DEF Holds
    <2>3. Buffered(u)' BY <2>1 DEF IInv, Buffered, Emission
    <2>4. AtCheckpoint(u)' BY <2>1 DEF IInv, AtCheckpoint, Live
    <2> QED BY <2>2, <2>3, <2>4
  <1>10. (ExposedWasPublished /\ OnePerSegment)'
    BY <1>3, <1>4 DEF IInv, ExposedWasPublished, OnePerSegment
  <1>11. EffectsFollowWrites'
    <2>1. SUFFICES ASSUME NEW e \in published
                   PROVE  \/ e \in Elements(effects')
                          \/ e \in Elements(task'[e[1]].committed)
                          \/ status'[e[1]] = "failed" /\ ("commit" \in Response[e[1]]
                                                            \/ "dispatch" \in Fault[e[1]])
      BY <1>4 DEF EffectsFollowWrites
    <2>2. e[1] \in Task BY <1>1 DEF Typed, Emissions
    <2>3. \/ e \in Elements(effects)
          \/ e \in Elements(task[e[1]].committed)
          \/ status[e[1]] = "failed" /\ ("commit" \in Response[e[1]] \/ "dispatch" \in Fault[e[1]])
      BY DEF IInv, EffectsFollowWrites
    <2>4. CASE e[1] = t BY <1>3, <1>4, <2>3, <2>4
    <2>5. CASE e[1] # t BY <1>3, <1>6, <2>2, <2>3, <2>5 DEF Alone
    <2> QED BY <2>4, <2>5
  <1>12. CapabilitiesAccounted'
    <2>1. SUFFICES ASSUME NEW c \in caps
                   PROVE  \/ c \in applied \/ c \in task'[c[1]].subscription
                          \/ status'[c[1]] = "failed"
      BY <1>4 DEF CapabilitiesAccounted
    <2>2. c[1] \in Task BY <1>1 DEF Typed, Emissions
    <2>3. c \in applied \/ c \in task[c[1]].subscription \/ status[c[1]] = "failed"
      BY DEF IInv, CapabilitiesAccounted
    <2>4. task[t].subscription = {} BY <1>1, <1>4 DEF Buffered
    <2>5. CASE c[1] = t BY <1>4, <2>3, <2>4, <2>5
    <2>6. CASE c[1] # t BY <1>6, <2>2, <2>3, <2>6 DEF Alone
    <2> QED BY <2>5, <2>6
  <1> QED BY <1>3, <1>7, <1>8, <1>9, <1>10, <1>11, <1>12 DEF IInv
LEMMA NextInv == IInv /\ [Next]_vars => IInv'
  <1> SUFFICES ASSUME IInv, [Next]_vars PROVE IInv' OBVIOUS
  <1>1. ASSUME NEW t \in Task, Submit(t) PROVE IInv' BY <1>1, SubmitInv
  <1>2. ASSUME NEW t \in Task, Step(t) PROVE IInv'
    <2>1. ASSUME NEW keys \in SUBSET Key, NEW subscribe \in Subscribing,
                 NEW response \in Response[t], RunVm(t, keys, subscribe, response)
          PROVE  IInv'
      BY <2>1, RunVmInv
    <2>2. CASE RuntimeFailure(t) BY <2>2, RuntimeFailureInv
    <2>3. CASE ReadOnlyBoundary(t) BY <2>3, ReadOnlyBoundaryInv
    <2>4. CASE WriteBoundary(t) BY <2>4, WriteBoundaryInv
    <2>5. CASE CommitFailure(t) BY <2>5, CommitFailureInv
    <2>6. CASE Retry(t) BY <2>6, RetryInv
    <2>7. CASE Abort(t) BY <2>7, AbortInv
    <2>8. CASE RecordOutcome(t) BY <2>8, RecordOutcomeInv
    <2> QED BY <1>2, <2>1, <2>2, <2>3, <2>4, <2>5, <2>6, <2>7, <2>8 DEF Step
  <1>3. ASSUME NEW t \in Task, Resume(t) PROVE IInv' BY <1>3, ResumeInv
  <1>4. ASSUME NEW t \in Task, ResumeFailure(t) PROVE IInv' BY <1>4, ResumeFailureInv
  <1>5. ASSUME NEW t \in Task, Forget(t) PROVE IInv' BY <1>5, ForgetInv
  <1>6. ASSUME NEW ts \in SUBSET Task, Cancel(ts) PROVE IInv' BY <1>6, CancelInv
  <1>7. CASE UNCHANGED vars BY <1>7, StutterInv
  <1> QED BY <1>1, <1>2, <1>3, <1>4, <1>5, <1>6, <1>7 DEF Next

(* The invariant says all that TasksExact does.                            *)
LEMMA InvExact == IInv => TasksExact
  <1> SUFFICES ASSUME IInv PROVE TasksExact OBVIOUS
  <1>1. SegmentsPublishOnce
    <2>1. DOMAIN effects = 1..Len(effects) BY DEF IInv, Typed
    <2> QED BY <2>1 DEF IInv, Distinct, OnePerSegment, SegmentsPublishOnce
  <1>2. ValueSurvivesRetry BY DEF IInv, AtCheckpoint, Live, ValueSurvivesRetry
  <1> QED BY <1>1, <1>2 DEF IInv, TasksExact

(* Whatever conflicts, retries, failures and cancellations happen, tasks   *)
(* expose what their boundaries published and nothing else, each segment   *)
(* at most once, a retried segment has the value of its resumption, and no *)
(* effect or capability goes astray unless its task failed (task.rs,       *)
(* task_manager.rs).                                                       *)
THEOREM TasksAlwaysExact == Spec => []TasksExact
  <1>1. Spec => []IInv BY InitInv, NextInv, PTL DEF Spec
  <1> QED BY <1>1, InvExact, PTL
-----------------------------------------------------------------------------
(* Segments.                                                               *)

Done == [t \in Task |-> Cardinality({e \in published : e[1] = t})]
Exposed == [t \in Task |-> Cardinality({i \in DOMAIN effects : effects[i][1] = t})]

(* A boundary that succeeds is one segment that happens.                   *)
LEMMA HappenStep ==
  ASSUME IInv, NEW t \in Task, NEW keys \in SUBSET Key,
         status[t] = "running", task[t].response \in Boundaries,
         counter' = [k \in Key |-> IF k \in keys THEN counter[k] + 1 ELSE counter[k]],
         published' = published \cup {Emission(t)}, UNCHANGED effects
  PROVE  Atomic!Happen(t, keys)
  <1> DEFINE Of(u) == {e \in published : e[1] = u}
             After(u) == {e \in published' : e[1] = u}
  <1>1. Emission(t)[1] = t /\ Emission(t) \notin published BY AtBoundary
  <1>2. \A u \in Task \ {t} : After(u) = Of(u) BY <1>1
  <1>3. After(t) = Of(t) \cup {Emission(t)} /\ Emission(t) \notin Of(t) BY <1>1
  <1>4. IsFiniteSet(Of(t))
    <2>1. IsFiniteSet(published) /\ Of(t) \subseteq published BY DEF IInv, Typed
    <2> QED BY <2>1, FS_Subset
  <1>5. Cardinality(After(t)) = Cardinality(Of(t)) + 1 BY <1>3, <1>4, FS_AddElement
  <1>6. Done' = [Done EXCEPT ![t] = @ + 1]
    <2>1. \A u \in Task : Done[u] = Cardinality(Of(u)) /\ Done'[u] = Cardinality(After(u))
      BY DEF Done
    <2>2. Done' \in [Task -> {Cardinality(After(u)) : u \in Task}] BY DEF Done
    <2> HIDE DEF Of, After
    <2>3. Done'[t] = Done[t] + 1 BY <1>5, <2>1
    <2>4. \A u \in Task \ {t} : Done'[u] = Done[u] BY <1>2, <2>1
    <2>5. DOMAIN Done = Task /\ DOMAIN Done' = Task BY DEF Done
    <2> QED BY <2>2, <2>3, <2>4, <2>5 DEF Done
  <1>7. Exposed' = Exposed BY DEF Exposed
  <1> QED BY <1>6, <1>7 DEF Atomic!Happen, Done, Exposed
(* What a sequence of distinct elements has at its places is as much as it *)
(* has elements.                                                           *)
LEMMA PlacesCount ==
  ASSUME NEW S, NEW s \in Seq(S), Distinct(s), NEW T, NEW I \in SUBSET DOMAIN s,
         \A e \in T : \E i \in I : s[i] = e, \A i \in I : s[i] \in T
  PROVE  Cardinality(T) = Cardinality(I)
  <1> DEFINE at == [i \in I |-> s[i]]
  <1>1. IsFiniteSet(I)
    <2>1. DOMAIN s = 1..Len(s) /\ Len(s) \in Nat BY LenProperties
    <2>2. IsFiniteSet(1..Len(s)) BY <2>1, FS_Interval
    <2> QED BY <2>1, <2>2, FS_Subset
  <1>2. at \in Bijection(I, T)
    <2>1. at \in [I -> T] OBVIOUS
    <2>2. \A i, j \in I : i # j => at[i] # at[j] BY DEF Distinct
    <2>3. \A e \in T : \E i \in I : at[i] = e OBVIOUS
    <2> HIDE DEF at
    <2> QED BY <2>1, <2>2, <2>3 DEF Bijection, Injection, Surjection, IsInjective
  <1> HIDE DEF at
  <1>3. ExistsBijection(I, T) BY <1>2 DEF ExistsBijection
  <1> QED BY <1>1, <1>3, FS_Bijection

(* record_outcome exposes every segment of t that has happened.            *)
LEMMA ExposeStep ==
  ASSUME IInv, NEW t \in Task, RecordOutcome(t)
  PROVE  Atomic!Expose(t)
  <1> DEFINE At(u) == {i \in DOMAIN effects : effects[i][1] = u}
             AtNext(u) == {i \in DOMAIN effects' : effects'[i][1] = u}
             Of == {e \in published : e[1] = t}
  <1>1. Typed /\ ExposedWasPublished /\ status[t] = "recording" BY DEF IInv, RecordOutcome
  <1>2. /\ effects' \in Seq(Emissions) /\ Distinct(effects')
        /\ Elements(effects') = Elements(effects) \cup Elements(task[t].committed)
        /\ \A e \in Elements(task[t].committed) : e[1] = t /\ e \in published
    BY RecordedEffects
  <1>3. Cardinality(AtNext(t)) = Cardinality(Of)
    <2>1. \A i \in AtNext(t) : effects'[i] \in Of
      BY <1>1, <1>2 DEF Elements, ExposedWasPublished
    <2>2. ASSUME NEW e \in Of PROVE \E i \in AtNext(t) : effects'[i] = e
      <3>1. e \in Elements(effects')
        BY <1>1, <1>2 DEF IInv, EffectsFollowWrites
      <3> QED BY <3>1 DEF Elements
    <2>3. AtNext(t) \in SUBSET DOMAIN effects' OBVIOUS
    <2> HIDE DEF AtNext, Of
    <2> QED BY <1>2, <2>1, <2>2, <2>3, PlacesCount
  <1>4. ASSUME NEW u \in Task \ {t} PROVE AtNext(u) = At(u)
    <2>1. effects \in Seq(Emissions) /\ task[t].committed \in Seq(Emissions)
      <3>1. task[t] \in TaskState BY <1>1 DEF Typed
      <3> QED BY <1>1, <3>1 DEF Typed, TaskState
    <2>2. effects' = effects \o task[t].committed BY DEF RecordOutcome, Emitted
    <2>3. /\ DOMAIN effects = 1..Len(effects) /\ Len(effects) \in Nat
          /\ DOMAIN task[t].committed = 1..Len(task[t].committed) /\ Len(task[t].committed) \in Nat
          /\ DOMAIN effects' = 1..(Len(effects) + Len(task[t].committed))
          /\ \A i \in 1..(Len(effects) + Len(task[t].committed)) :
                effects'[i] = IF i <= Len(effects) THEN effects[i]
                              ELSE task[t].committed[i - Len(effects)]
      BY <2>1, <2>2, ConcatProperties, LenProperties
    <2>4. \A i \in DOMAIN task[t].committed : task[t].committed[i][1] = t
      BY <1>2 DEF Elements
    <2>5. \A i \in DOMAIN effects : i \in DOMAIN effects' /\ effects'[i] = effects[i]
      BY <2>3
    <2>6. \A i \in DOMAIN effects' \ DOMAIN effects : effects'[i][1] = t
      <3>1. \A i \in DOMAIN effects' \ DOMAIN effects :
               /\ i - Len(effects) \in DOMAIN task[t].committed
               /\ effects'[i] = task[t].committed[i - Len(effects)]
        BY <2>3
      <3> QED BY <2>4, <3>1
    <2> QED BY <1>4, <2>5, <2>6
  <1>5. Exposed' = [Exposed EXCEPT ![t] = Done[t]]
    <2>1. /\ \A u \in Task : Exposed[u] = Cardinality(At(u)) /\ Exposed'[u] = Cardinality(AtNext(u))
          /\ Done[t] = Cardinality(Of)
      BY DEF Exposed, Done
    <2>2. Exposed' \in [Task -> {Cardinality(AtNext(u)) : u \in Task}] BY DEF Exposed
    <2> HIDE DEF At, AtNext, Of
    <2>3. Exposed'[t] = Done[t] BY <1>3, <2>1
    <2>4. \A u \in Task \ {t} : Exposed'[u] = Exposed[u] BY <1>4, <2>1
    <2>5. DOMAIN Exposed = Task /\ DOMAIN Exposed' = Task BY DEF Exposed
    <2> QED BY <2>2, <2>3, <2>4, <2>5 DEF Exposed
  <1>6. UNCHANGED <<counter, published>> BY DEF RecordOutcome
  <1>7. Done' = Done BY <1>6 DEF Done
  <1> QED BY <1>5, <1>6, <1>7 DEF Atomic!Expose, Done, Exposed

LEMMA AtomicInit == Init => Atomic!Init
  <1> SUFFICES ASSUME Init PROVE Atomic!Init OBVIOUS
  <1>1. effects = <<>> /\ published = {} /\ counter = [k \in Key |-> 0] BY DEF Init
  <1>2. \A t \in Task : {e \in published : e[1] = t} = {} BY <1>1
  <1>3. \A t \in Task : {i \in DOMAIN effects : effects[i][1] = t} = {} BY <1>1
  <1>4. Cardinality({}) = 0 BY FS_EmptySet
  <1> QED BY <1>1, <1>2, <1>3, <1>4 DEF Atomic!Init

(* Whatever leaves the counters, the published emissions and the effects   *)
(* alone is no step of the segments.                                       *)
LEMMA AtomicStutter ==
  UNCHANGED <<counter, published, effects>> => UNCHANGED Atomic!vars
  BY DEF Atomic!vars

LEMMA AtomicBoundary ==
  ASSUME IInv, NEW t \in Task, ReadOnlyBoundary(t) \/ WriteBoundary(t)
  PROVE  [Atomic!Next]_(Atomic!vars)
  <1>1. Typed /\ task[t] \in TaskState BY DEF IInv, Typed
  <1>2. /\ status[t] = "running" /\ task[t].response \in Boundaries /\ UNCHANGED effects
        /\ task[t].writes \in SUBSET Key
        /\ Elements(task[t].pending) = {Emission(t)}
    <2>1. status[t] = "running" /\ task[t].response \in Boundaries /\ UNCHANGED effects
      BY DEF ReadOnlyBoundary, WriteBoundary
    <2> QED BY <1>1, <2>1, AtBoundary DEF TaskState
  <1>3. CASE UNCHANGED <<counter, published>> BY <1>2, <1>3, AtomicStutter
  <1>4. CASE published' = published \cup {Emission(t)}
    <2>1. counter' = [k \in Key |-> IF k \in task[t].writes THEN counter[k] + 1 ELSE counter[k]]
      <3>1. CASE WriteBoundary(t) BY <1>1, <3>1, WriteCounts DEF WriteBoundary
      <3>2. CASE ReadOnlyBoundary(t) BY <1>1, <3>2 DEF ReadOnlyBoundary, Typed
      <3> QED BY <3>1, <3>2
    <2>2. Atomic!Happen(t, task[t].writes) BY <1>2, <1>4, <2>1, HappenStep
    <2> QED BY <1>2, <2>2 DEF Atomic!Next
  <1>5. \/ UNCHANGED <<counter, published>>
        \/ published' = published \cup {Emission(t)}
    BY <1>2 DEF ReadOnlyBoundary, WriteBoundary, AfterBoundary
  <1> QED BY <1>3, <1>4, <1>5

(* Only boundaries and record_outcome touch counters and what others see.  *)
LEMMA VisibleSteps ==
  ASSUME [Next]_vars
  PROVE  \/ UNCHANGED <<counter, published, effects>>
         \/ \E t \in Task : RecordOutcome(t) \/ ReadOnlyBoundary(t) \/ WriteBoundary(t)
  <1> DEFINE still == UNCHANGED <<counter, published, effects>>
  <1>1. ASSUME NEW t \in Task, Submit(t) \/ Resume(t) \/ ResumeFailure(t) \/ Forget(t)
        PROVE  still
    BY <1>1 DEF Submit, Resume, ResumeFailure, Forget
  <1>2. ASSUME NEW t \in Task, Step(t)
        PROVE  still \/ RecordOutcome(t) \/ ReadOnlyBoundary(t) \/ WriteBoundary(t)
    <2>1. ASSUME NEW keys \in SUBSET Key, NEW subscribe \in Subscribing,
                 NEW response \in Response[t], RunVm(t, keys, subscribe, response)
          PROVE  still
      BY <2>1 DEF RunVm
    <2>2. CASE RuntimeFailure(t) \/ CommitFailure(t)
      BY <2>2 DEF RuntimeFailure, CommitFailure
    <2>3. CASE Retry(t) \/ Abort(t) BY <2>3 DEF Retry, Abort
    <2> HIDE DEF still
    <2> QED BY <1>2, <2>1, <2>2, <2>3 DEF Step
  <1>3. ASSUME NEW ts \in SUBSET Task, Cancel(ts) PROVE still BY <1>3 DEF Cancel
  <1>4. CASE UNCHANGED vars BY <1>4 DEF vars
  <1> HIDE DEF still
  <1>5. CASE Next
    <2>1. (\E ts \in SUBSET Task : Cancel(ts)) => still BY <1>3
    <2>2. ASSUME NEW t \in Task,
                 \/ Submit(t) \/ Step(t) \/ (task[t].vm.segment < MaxSegment /\ Resume(t))
                 \/ ResumeFailure(t) \/ Forget(t)
          PROVE  still \/ RecordOutcome(t) \/ ReadOnlyBoundary(t) \/ WriteBoundary(t)
      BY <1>1, <1>2, <2>2
    <2>3. \/ \E ts \in SUBSET Task : Cancel(ts)
          \/ \E t \in Task :
               \/ Submit(t) \/ Step(t) \/ (task[t].vm.segment < MaxSegment /\ Resume(t))
               \/ ResumeFailure(t) \/ Forget(t)
      BY <1>5 DEF Next
    <2>4. still \/ \E t \in Task : RecordOutcome(t) \/ ReadOnlyBoundary(t) \/ WriteBoundary(t)
      BY <2>1, <2>2, <2>3
    <2> QED BY <2>4 DEF still
  <1> QED BY <1>4, <1>5 DEF still

LEMMA AtomicNext == IInv /\ [Next]_vars => [Atomic!Next]_(Atomic!vars)
  <1> SUFFICES ASSUME IInv, [Next]_vars PROVE [Atomic!Next]_(Atomic!vars) OBVIOUS
  <1>1. ASSUME NEW t \in Task, ReadOnlyBoundary(t) \/ WriteBoundary(t)
        PROVE  [Atomic!Next]_(Atomic!vars)
    BY <1>1, AtomicBoundary
  <1>2. ASSUME NEW t \in Task, RecordOutcome(t) PROVE [Atomic!Next]_(Atomic!vars)
    <2>1. Atomic!Expose(t) BY <1>2, ExposeStep
    <2> QED BY <2>1 DEF Atomic!Next
  <1>3. CASE UNCHANGED <<counter, published, effects>> BY <1>3, AtomicStutter
  <1>4. \/ UNCHANGED <<counter, published, effects>>
        \/ \E t \in Task : RecordOutcome(t) \/ ReadOnlyBoundary(t) \/ WriteBoundary(t)
    BY VisibleSteps
  <1> QED BY <1>1, <1>2, <1>3, <1>4

(* A published counter only ever goes up by one, whoever wrote it last:    *)
(* validation under the commit lock lets no draft on a stale snapshot      *)
(* through (commit_boundary_with_disposition).                             *)
THEOREM NoUpdateLost == Spec => NoLostUpdate
  <1>1. IInv /\ [Next]_vars => [\A k \in Key : counter'[k] # counter[k]
                                   => counter'[k] = counter[k] + 1]_vars
    <2> SUFFICES ASSUME IInv, Next, NEW k \in Key, counter'[k] # counter[k]
                 PROVE  counter'[k] = counter[k] + 1
      OBVIOUS
    <2>1. PICK t \in Task : WriteBoundary(t)
      BY VisibleSteps DEF ReadOnlyBoundary, RecordOutcome
    <2>2. Typed /\ Write(t) BY <2>1 DEF IInv, WriteBoundary
    <2> QED BY <2>2, WriteCounts
  <1> QED BY <1>1, InitInv, NextInv, PTL DEF Spec, NoLostUpdate

(* The tasks implement one-segment-at-a-time execution: a boundary that    *)
(* succeeds is a segment that happens at once on the newest counters, and  *)
(* record_outcome exposes exactly the segments that have happened.         *)
THEOREM TasksImplementSegments == Spec => SegmentsImplemented
  <1>1. Spec => ImplementsSegments
    BY InitInv, NextInv, AtomicInit, AtomicNext, PTL DEF Spec, ImplementsSegments, Atomic!Spec
  <1> QED BY <1>1, NoUpdateLost, PTL DEF SegmentsImplemented
=============================================================================
