------------------------- MODULE AutomationProofs -------------------------
(***************************************************************************)
(* Proofs about Automation for any versions of a definition, any runs and   *)
(* any faults: the execution has one holder, its actions are executed in    *)
(* the order of the definition, and waits are kept.  A cursor moves forward *)
(* in document order only, and what has been executed lies before it.       *)
(***************************************************************************)
EXTENDS Automation, SequenceTheorems, TLAPS

-----------------------------------------------------------------------------
(* Cursors: steps of the top level and of blocks, which have odd lengths. *)

CursorType == {c \in Seq(Nat) : Len(c) % 2 = 1}

\* An odd number is one or at least three.
LEMMA OddNumber ==
  ASSUME NEW n \in Nat, n % 2 = 1
  PROVE  n >= 1 /\ (n # 1 => n >= 3)
  OBVIOUS

\* A cursor has at least one number, one in a block at least three.
LEMMA CursorLength ==
  ASSUME NEW c \in CursorType
  PROVE  /\ c \in Seq(Nat) /\ Len(c) \in Nat /\ Len(c) >= 1
         /\ Len(c) # 1 => Len(c) >= 3
         /\ c # << >> /\ \A i \in 1..Len(c) : c[i] \in Nat
  <1>1. Len(c) \in Nat /\ Len(c) % 2 = 1 /\ c \in Seq(Nat)
    BY DEF CursorType
  <1>2. Len(c) >= 1 /\ (Len(c) # 1 => Len(c) >= 3)
    BY <1>1, OddNumber
  <1>3. \A i \in 1..Len(c) : c[i] \in Nat
    BY <1>1, ElementOfSeq
  <1>4. c # << >>
    BY <1>1, <1>2
  <1> QED
    BY <1>1, <1>2, <1>3, <1>4

\* The next step of the same block.
LEMMA BumpCursor ==
  ASSUME NEW c \in CursorType
  PROVE  /\ Bump(c) \in CursorType /\ Len(Bump(c)) = Len(c)
         /\ Bump(c)[Len(c)] = c[Len(c)] + 1
         /\ \A i \in 1..(Len(c) - 1) : Bump(c)[i] = c[i]
  <1>1. /\ c \in Seq(Nat) /\ Len(c) \in 1..Len(c) /\ Len(c) \in Nat
        /\ c[Len(c)] + 1 \in Nat
    BY CursorLength
  <1>2. Bump(c) = [c EXCEPT ![Len(c)] = c[Len(c)] + 1]
    BY DEF Bump
  <1>3. /\ Bump(c) \in Seq(Nat) /\ Len(Bump(c)) = Len(c)
        /\ \A j \in 1..Len(c) : Bump(c)[j] = IF j = Len(c) THEN c[Len(c)] + 1 ELSE c[j]
    BY <1>1, <1>2, ExceptSeq
  <1> QED
    BY <1>1, <1>3 DEF CursorType

\* The first step of a block of a branch.
LEMMA InnerCursor ==
  ASSUME NEW c \in CursorType, NEW b \in {0, 1}
  PROVE  /\ c \o <<b, 0>> \in CursorType /\ Len(c \o <<b, 0>>) = Len(c) + 2
         /\ \A i \in 1..Len(c) : (c \o <<b, 0>>)[i] = c[i]
  <1>1. c \in Seq(Nat) /\ Len(c) \in Nat /\ Len(c) % 2 = 1
    BY DEF CursorType
  <1>2. <<b, 0>> \in Seq(Nat) /\ Len(<<b, 0>>) = 2
    OBVIOUS
  <1>3. /\ c \o <<b, 0>> \in Seq(Nat) /\ Len(c \o <<b, 0>>) = Len(c) + 2
        /\ \A i \in 1..Len(c) : (c \o <<b, 0>>)[i] = c[i]
    BY <1>1, <1>2, ConcatProperties
  <1> QED
    BY <1>1, <1>3 DEF CursorType

\* The step after the branch of a block.
LEMMA OuterCursor ==
  ASSUME NEW c \in CursorType, Len(c) # 1
  PROVE  /\ Outer(c) \in CursorType /\ Len(Outer(c)) = Len(c) - 2
         /\ Outer(c)[Len(c) - 2] = c[Len(c) - 2] + 1
         /\ \A i \in 1..(Len(c) - 3) : Outer(c)[i] = c[i]
  <1> DEFINE d == SubSeq(c, 1, Len(c) - 2)
  <1>1. c \in Seq(Nat) /\ Len(c) \in Nat /\ Len(c) >= 3 /\ \A i \in 1..Len(c) : c[i] \in Nat
    BY CursorLength
  <1>2. Len(c) - 2 \in Nat /\ Len(c) - 2 >= 1 /\ (Len(c) - 2) % 2 = 1
    BY <1>1 DEF CursorType
  <1>3. /\ d \in Seq(Nat) /\ Len(d) = Len(c) - 2
        /\ \A i \in 1..(Len(c) - 2) : d[i] = c[i]
    BY <1>1, <1>2, SubSeqProperties
  <1>4. d \in CursorType
    BY <1>2, <1>3 DEF CursorType
  <1> HIDE DEF d
  <1>5. /\ Bump(d) \in CursorType /\ Len(Bump(d)) = Len(d)
        /\ Bump(d)[Len(d)] = d[Len(d)] + 1
        /\ \A i \in 1..(Len(d) - 1) : Bump(d)[i] = d[i]
    BY <1>4, BumpCursor
  <1>6. Outer(c) = Bump(d)
    BY DEF Outer, d
  <1>7. Len(d) \in 1..(Len(c) - 2) /\ \A i \in 1..(Len(c) - 3) : d[i] = c[i]
    BY <1>1, <1>2, <1>3
  <1>8. Len(d) - 1 = Len(c) - 3
    BY <1>1, <1>3
  <1> QED
    BY <1>3, <1>5, <1>6, <1>7, <1>8

\* What lies before a step lies before the next one, which it lies before itself.
LEMMA BeforeBump ==
  ASSUME NEW c \in CursorType
  PROVE  /\ Before(c, Bump(c))
         /\ \A a \in Seq(Nat) : Before(a, c) => Before(a, Bump(c))
  <1>1. Len(c) \in Nat /\ Len(c) >= 1 /\ c[Len(c)] \in Nat
    BY CursorLength
  <1>2. /\ Len(Bump(c)) = Len(c) /\ Bump(c)[Len(c)] = c[Len(c)] + 1
        /\ \A i \in 1..(Len(c) - 1) : Bump(c)[i] = c[i]
    BY BumpCursor
  <1>3. Before(c, Bump(c))
    BY <1>1, <1>2 DEF Before
  <1>4. ASSUME NEW a \in Seq(Nat), Before(a, c) PROVE Before(a, Bump(c))
    <2>1. PICK n \in 1..Len(c) : /\ \A i \in 1..(n - 1) : i <= Len(a) /\ a[i] = c[i]
                                 /\ n > Len(a) \/ a[n] < c[n]
      BY <1>4 DEF Before
    <2>2. n > Len(a) \/ a[n] \in Nat
      BY <1>1, ElementOfSeq
    <2>3. /\ \A i \in 1..(n - 1) : i <= Len(a) /\ a[i] = Bump(c)[i]
          /\ n > Len(a) \/ a[n] < Bump(c)[n]
      BY <1>1, <1>2, <2>1, <2>2
    <2> QED
      BY <1>2, <2>3 DEF Before
  <1> QED
    BY <1>3, <1>4

\* ... before the steps of its blocks,
LEMMA BeforeInner ==
  ASSUME NEW c \in CursorType, NEW b \in {0, 1}, NEW a, Before(a, c)
  PROVE  Before(a, c \o <<b, 0>>)
  <1>1. PICK n \in 1..Len(c) : /\ \A i \in 1..(n - 1) : i <= Len(a) /\ a[i] = c[i]
                               /\ n > Len(a) \/ a[n] < c[n]
    BY DEF Before
  <1>2. Len(c \o <<b, 0>>) = Len(c) + 2 /\ \A i \in 1..Len(c) : (c \o <<b, 0>>)[i] = c[i]
    BY InnerCursor
  <1>3. Len(c) \in Nat
    BY CursorLength
  <1> QED
    BY <1>1, <1>2, <1>3 DEF Before

\* ... and what lies before a step of a block lies before the step after its branch.
LEMMA BeforeOuter ==
  ASSUME NEW c \in CursorType, Len(c) # 1, NEW a \in Seq(Nat), Before(a, c)
  PROVE  Before(a, Outer(c))
  <1>1. PICK n \in 1..Len(c) : /\ \A i \in 1..(n - 1) : i <= Len(a) /\ a[i] = c[i]
                               /\ n > Len(a) \/ a[n] < c[n]
    BY DEF Before
  <1>2. /\ Len(Outer(c)) = Len(c) - 2
        /\ Outer(c)[Len(c) - 2] = c[Len(c) - 2] + 1
        /\ \A i \in 1..(Len(c) - 3) : Outer(c)[i] = c[i]
    BY OuterCursor
  <1>3. Len(c) \in Nat /\ Len(c) >= 3 /\ \A i \in 1..Len(c) : c[i] \in Nat
    BY CursorLength
  <1>4. CASE n < Len(c) - 2
    <2>1. n \in 1..Len(Outer(c)) /\ \A i \in 1..n : Outer(c)[i] = c[i]
      BY <1>2, <1>3, <1>4
    <2>2. \A i \in 1..(n - 1) : i <= Len(a) /\ a[i] = Outer(c)[i]
      BY <1>1, <2>1
    <2>3. n > Len(a) \/ a[n] < Outer(c)[n]
      BY <1>1, <2>1
    <2> QED
      BY <2>1, <2>2, <2>3 DEF Before
  <1>5. CASE n >= Len(c) - 2
    <2> DEFINE k == Len(c) - 2
    <2>1. k \in 1..Len(Outer(c))
      BY <1>2, <1>3
    <2>2. \A i \in 1..(k - 1) : i <= Len(a) /\ a[i] = Outer(c)[i]
      BY <1>1, <1>2, <1>3, <1>5
    <2>3. k > Len(a) \/ a[k] < Outer(c)[k]
      <3>1. CASE n = k
        <4>1. k > Len(a) \/ a[k] \in Nat
          BY <1>3, ElementOfSeq
        <4>2. k > Len(a) \/ a[k] < c[k]
          BY <1>1, <3>1
        <4>3. c[k] \in Nat /\ Outer(c)[k] = c[k] + 1
          BY <1>2, <1>3
        <4> QED
          BY <4>1, <4>2, <4>3
      <3>2. CASE n # k
        BY <1>1, <1>2, <1>3, <1>5, <3>2
      <3> QED
        BY <3>1, <3>2
    <2> QED
      BY <2>1, <2>2, <2>3 DEF Before
  <1> QED
    BY <1>1, <1>3, <1>4, <1>5

\* Of two steps at most one lies before the other.
LEMMA BeforeAsymmetric ==
  ASSUME NEW a \in Seq(Nat), NEW c \in Seq(Nat), Before(a, c)
  PROVE  ~Before(c, a)
  <1> SUFFICES ASSUME Before(c, a) PROVE FALSE
    OBVIOUS
  <1>1. PICK n \in 1..Len(c) : /\ \A i \in 1..(n - 1) : i <= Len(a) /\ a[i] = c[i]
                               /\ n > Len(a) \/ a[n] < c[n]
    BY DEF Before
  <1>2. PICK k \in 1..Len(a) : /\ \A i \in 1..(k - 1) : i <= Len(c) /\ c[i] = a[i]
                               /\ k > Len(c) \/ c[k] < a[k]
    BY DEF Before
  <1>3. /\ Len(a) \in Nat /\ \A i \in 1..Len(a) : a[i] \in Nat
        /\ Len(c) \in Nat /\ \A i \in 1..Len(c) : c[i] \in Nat
    BY ElementOfSeq
  <1>4. CASE n < k
    BY <1>1, <1>2, <1>3, <1>4
  <1>5. CASE n > k
    BY <1>1, <1>2, <1>3, <1>5
  <1>6. CASE n = k
    BY <1>1, <1>2, <1>3, <1>6
  <1> QED
    BY <1>3, <1>4, <1>5, <1>6

-----------------------------------------------------------------------------
(* Types. *)

USE ProgramsAssumption, BoundsAssumption

RowType ==
  /\ status \in {"absent", "running", "waiting", "retrying", "completed"}
  /\ cursor \in CursorType
  /\ snapshot \in Versions \cup {0}

\* A job is taken only while it has attempts left.
JobType ==
  /\ job \in [Keys -> {"none", "pending", "running", "succeeded", "failed"}]
  /\ attempts \in [Keys -> 0..MaxAttempts]
  /\ \A k \in Keys : job[k] \in {"none", "pending", "running"} => attempts[k] < MaxAttempts

TimeType == over \subseteq begun /\ begun \subseteq Waits

EnvType ==
  /\ version \in Versions /\ enabled \in BOOLEAN
  /\ event \in {"pending", "handling", "handled"}
  /\ faults \in 0..MaxFaults /\ switches \in 0..MaxSwitches

RunType ==
  /\ pc \in [Runners -> Labels]
  /\ at \in [Runners -> CursorType]
  /\ ver \in [Runners -> Versions] /\ on \in [Runners -> BOOLEAN]
  /\ via \in [Runners -> Keys \cup {Inline}]
  /\ had \in [Runners -> 0..(MaxAttempts - 1)]
  /\ \A r \in Runners : pc[r] \in {"persist_wait", "resume"} => at[r] \in Waits

ActsType == acts \in Seq(Versions \X Cursors)

TypeInv == RowType /\ JobType /\ TimeType /\ EnvType /\ RunType /\ ActsType

\* A kind of step that a run is at is one of its version.
LEMMA WalkingAt ==
  ASSUME TypeInv, NEW r \in Runners, NEW k \in {"action", "wait", "branch"}, Walking(r, {k})
  PROVE  /\ pc[r] = "walk" /\ at[r] \in DOMAIN Programs[ver[r]] /\ Programs[ver[r]][at[r]] = k
         /\ at[r] \in Cursors /\ (k = "wait" => at[r] \in Waits)
  <1>1. pc[r] = "walk" /\ Kind(r) = k
    BY DEF Walking
  <1>2. at[r] \in DOMAIN Programs[ver[r]] /\ Programs[ver[r]][at[r]] = k
    BY <1>1 DEF Kind, Program
  <1>3. ver[r] \in Versions
    BY DEF TypeInv, RunType
  <1> QED
    BY <1>1, <1>2, <1>3 DEF Cursors, Waits

\* Clock, definition, event and effects keep their types.
LEMMA EnvStep ==
  ASSUME TypeInv, [Next]_vars
  PROVE  TimeType' /\ EnvType' /\ ActsType'
  <1> USE DEF TypeInv, TimeType, EnvType, ActsType
  <1>1. CASE Publish \/ Switch
    <2>1. /\ UNCHANGED timeVars /\ acts' = acts /\ event' = event /\ faults' = faults
          /\ version' \in Versions /\ switches' \in 0..MaxSwitches
      BY <1>1 DEF Publish, Switch
    <2>2. enabled' \in BOOLEAN
      BY <1>1 DEF Publish, Switch
    <2> QED
      BY <2>1, <2>2 DEF timeVars
  <1>2. ASSUME NEW p \in Waits, Elapse(p) PROVE TimeType' /\ EnvType' /\ ActsType'
    BY <1>2 DEF Elapse, envVars
  <1>3. ASSUME NEW r \in Runners, Act(r) PROVE TimeType' /\ EnvType' /\ ActsType'
    <2>1. <<ver[r], at[r]>> \in Versions \X Cursors
      BY <1>3, WalkingAt DEF Act, RunType
    <2> QED
      BY <1>3, <2>1, AppendProperties DEF Act, MoveTo, envVars, timeVars
  <1>4. ASSUME NEW r \in Runners, WaitIsOver(r) \/ WaitBegins(r)
        PROVE  TimeType' /\ EnvType' /\ ActsType'
    <2>1. at[r] \in Waits
      BY <1>4, WalkingAt DEF WaitIsOver, WaitBegins
    <2> QED
      BY <1>4, <2>1 DEF WaitIsOver, WaitBegins, MoveTo, envVars
  <1>5. ASSUME NEW r \in Runners, Deliver(r) \/ Take(r) \/ ActFails(r) \/ Branch(r) \/ Leave(r)
        PROVE  TimeType' /\ EnvType' /\ ActsType'
    BY <1>5 DEF Deliver, Take, TakeJob, ActFails, Branch, Leave, MoveTo, envVars, timeVars
  <1>6. ASSUME NEW r \in Runners,
               \/ Peek(r) \/ Insert(r) \/ Check(r) \/ Update(r) \/ Remember(r)
               \/ PersistDone(r) \/ PersistError(r) \/ PersistWait(r) \/ Resume(r)
               \/ ReturnOk(r) \/ ReturnErr(r)
        PROVE  TimeType' /\ EnvType' /\ ActsType'
    BY <1>6 DEF Peek, Insert, Check, Update, Remember, PersistDone, PersistError, PersistWait,
      Store,
      Resume, ReturnOk, ReturnErr, Handled, envVars, timeVars
  <1>7. CASE Redeliver \/ \E R \in SUBSET Runners : Restart(R)
    BY <1>7 DEF Redeliver, Restart, envVars, timeVars
  <1>8. CASE UNCHANGED vars
    BY <1>8 DEF vars, envVars, timeVars
  <1> QED
    BY <1>1, <1>2, <1>3, <1>4, <1>5, <1>6, <1>7, <1>8 DEF Next, Run, Walk

\* The jobs and their attempts keep their types.
LEMMA JobStep ==
  ASSUME TypeInv, [Next]_vars
  PROVE  JobType'
  <1> USE DEF TypeInv, JobType
  <1>1. ASSUME NEW r \in Runners, NEW k \in Keys, TakeJob(r, k) PROVE JobType'
    BY <1>1 DEF TakeJob, Due
  <1>2. ASSUME NEW k \in Keys, job' = Enqueued(k), attempts' = attempts PROVE JobType'
    BY <1>2 DEF Enqueued
  <1>3. ASSUME NEW r \in Runners, Resume(r) PROVE JobType'
    <2>1. at[r] \in Keys
      BY <1>3 DEF Resume, RunType, Keys
    <2> QED
      BY <1>2, <1>3, <2>1 DEF Resume
  <1>4. ASSUME NEW r \in Runners, ReturnOk(r) PROVE JobType'
    BY <1>4 DEF ReturnOk
  <1>5. ASSUME NEW r \in Runners, ReturnErr(r) PROVE JobType'
    <2>1. had[r] + 1 \in 0..MaxAttempts /\ Retry \in Keys
      BY DEF RunType, Keys
    <2>2. CASE via[r] = Inline
      BY <1>2, <1>5, <2>1, <2>2 DEF ReturnErr, Failed
    <2>3. CASE via[r] # Inline
      <3>1. via[r] \in Keys
        BY <2>3 DEF RunType
      <3>2. /\ job' = [job EXCEPT ![via[r]] =
                              IF had[r] + 1 >= MaxAttempts THEN "failed" ELSE "pending"]
            /\ attempts' = [attempts EXCEPT ![via[r]] = had[r] + 1]
        BY <1>5, <2>3 DEF ReturnErr, Failed
      <3>3. \A k \in Keys : job'[k] \in {"none", "pending", "running"} => attempts'[k] < MaxAttempts
        BY <2>1, <3>1, <3>2
      <3> QED
        BY <2>1, <3>1, <3>2, <3>3
    <2> QED
      BY <2>2, <2>3
  <1>6. ASSUME NEW R \in SUBSET Runners, Restart(R) PROVE JobType'
    BY <1>6 DEF Restart
  <1>7. CASE job' = job /\ attempts' = attempts
    BY <1>7
  <1>8. \/ job' = job /\ attempts' = attempts
        \/ \E r \in Runners : Take(r) \/ Resume(r) \/ ReturnOk(r) \/ ReturnErr(r)
        \/ \E R \in SUBSET Runners : Restart(R)
    BY DEF Next, Run, Walk, vars, jobVars, Publish, Switch, Elapse, Redeliver, Deliver, Peek,
      Insert,
      Check, Update, Remember, Act, ActFails, WaitIsOver, WaitBegins, Branch, Leave, MoveTo,
      PersistDone, PersistError, PersistWait, Store
  <1> QED
    BY <1>1, <1>3, <1>4, <1>5, <1>6, <1>7, <1>8 DEF Take

\* The row of the execution keeps its type.
LEMMA RowStep ==
  ASSUME TypeInv, [Next]_vars
  PROVE  RowType'
  <1> USE DEF TypeInv, RowType
  <1>1. ASSUME NEW r \in Runners, Insert(r) \/ Update(r) \/ Remember(r) PROVE RowType'
    BY <1>1 DEF Insert, Update, Remember, Kept, RunType
  <1>2. ASSUME NEW r \in Runners, PersistDone(r) \/ PersistError(r) \/ PersistWait(r) PROVE RowType'
    <2>1. at[r] \in CursorType /\ Bump(at[r]) \in CursorType
      BY BumpCursor DEF RunType
    <2>2. <<0>> \in CursorType
      BY DEF CursorType
    <2> QED
      BY <1>2, <2>1, <2>2 DEF PersistDone, PersistError, PersistWait, Store, RetryCursor
  <1>3. CASE UNCHANGED rowVars
    BY <1>3 DEF rowVars
  <1>4. \/ UNCHANGED rowVars
        \/ \E r \in Runners :
             \/ Insert(r) \/ Update(r) \/ Remember(r)
             \/ PersistDone(r) \/ PersistError(r) \/ PersistWait(r)
    BY DEF Next, Run, Walk, vars, Publish, Switch, Elapse, Redeliver, Deliver, Take, TakeJob, Peek,
      Check,
      Act, ActFails, WaitIsOver, WaitBegins, Branch, Leave, MoveTo, Resume, ReturnOk, ReturnErr,
      Restart
  <1> QED
    BY <1>1, <1>2, <1>3, <1>4

\* So do the runners.
LEMMA RunStep ==
  ASSUME TypeInv, [Next]_vars
  PROVE  RunType'
  <1> USE DEF TypeInv, RunType
  <1>1. ASSUME NEW r \in Runners, Deliver(r) \/ Take(r) PROVE RunType'
    <2>1. PICK k \in Keys \cup {Inline} : Begin(r, k) /\ (k # Inline => Due(k))
      BY <1>1 DEF Deliver, Take, TakeJob
    <2>2. (IF k = Inline THEN 0 ELSE attempts[k]) \in 0..(MaxAttempts - 1)
      BY <2>1 DEF Due, JobType
    <2> QED
      BY <2>1, <2>2 DEF Begin, Goto, EnvType, Labels
  <1>2. ASSUME NEW R \in SUBSET Runners, Return(R) PROVE RunType'
    <2>1. <<0>> \in CursorType /\ 1 \in Versions
      BY DEF CursorType
    <2>2. /\ pc' \in [Runners -> Labels] /\ on' \in [Runners -> BOOLEAN]
          /\ via' \in [Runners -> Keys \cup {Inline}]
      BY <1>2 DEF Return, Labels
    <2>3. /\ at' \in [Runners -> CursorType] /\ ver' \in [Runners -> Versions]
          /\ had' \in [Runners -> 0..(MaxAttempts - 1)]
      BY <1>2, <2>1 DEF Return
    <2>4. \A r \in Runners : pc'[r] \in {"persist_wait", "resume"} => at'[r] \in Waits
      BY <1>2 DEF Return
    <2> QED
      BY <2>2, <2>3, <2>4
  <1>3. ASSUME NEW r \in Runners, Peek(r) \/ Insert(r) \/ Check(r) \/ Update(r) PROVE RunType'
    BY <1>3 DEF Peek, Insert, Check, Update, Goto, Labels
  <1>4. ASSUME NEW r \in Runners, Remember(r) PROVE RunType'
    BY <1>4 DEF Remember, Goto, Labels, Kept, RowType
  <1>5. ASSUME NEW r \in Runners, Walk(r) PROVE RunType'
    <2>1. PICK c \in CursorType : MoveTo(r, c)
      <3>1. at[r] \in CursorType
        OBVIOUS
      <3> QED
        BY <1>5, <3>1, BumpCursor, InnerCursor, OuterCursor DEF Walk, Act, ActFails, WaitIsOver,
          WaitBegins, Branch, Leave
    <2>2. PICK l \in {"walk", "persist_done", "persist_error", "persist_wait"} :
            pc' = [pc EXCEPT ![r] = l] /\ (l = "persist_wait" => WaitBegins(r))
      BY <1>5 DEF Walk, Act, ActFails, WaitIsOver, WaitBegins, Branch, Leave, Walking, Goto
    <2>3. l = "persist_wait" => at'[r] \in Waits
      BY <2>2, WalkingAt DEF MoveTo, WaitBegins
    <2>4. \A s \in Runners : pc'[s] \in {"persist_wait", "resume"} => at'[s] \in Waits
      BY <2>1, <2>2, <2>3 DEF MoveTo
    <2>5. pc' \in [Runners -> Labels] /\ at' \in [Runners -> CursorType]
      BY <2>1, <2>2 DEF MoveTo, Labels
    <2> QED
      BY <2>1, <2>4, <2>5 DEF MoveTo
  <1>6. ASSUME NEW r \in Runners, PersistDone(r) \/ PersistError(r) \/ PersistWait(r) \/ Resume(r)
        PROVE  RunType'
    BY <1>6 DEF PersistDone, PersistError, PersistWait, Store, Resume, Goto, Labels
  <1>7. CASE UNCHANGED runVars
    BY <1>7 DEF runVars
  <1> QED
    BY <1>1, <1>2, <1>3, <1>4, <1>5, <1>6, <1>7 DEF Next, Run, vars, Publish, Switch, Elapse,
      Redeliver,
      ReturnOk, ReturnErr, Restart

-----------------------------------------------------------------------------
(* At most one run holds the execution. *)

Holding == {"remember", "walk", "persist_done", "persist_error", "persist_wait"}

\* A step that lets no other run hold the execution.
LEMMA NoNewHolder ==
  ASSUME OneHolder, Holders' \subseteq Holders, status' = status
  PROVE  OneHolder'
  BY DEF OneHolder

\* A claim is made by one; whoever holds the execution lets it go by persisting its end.
LEMMA HolderStep ==
  ASSUME TypeInv, OneHolder, [Next]_vars
  PROVE  OneHolder'
  <1>1. ASSUME NEW r \in Runners, Insert(r) PROVE OneHolder'
    <2>1. CASE status = "absent"
      <3>1. Holders = {} /\ Holders' \subseteq {r} /\ status' = "running"
        BY <1>1, <2>1 DEF Insert, Goto, OneHolder, Holders, TypeInv, RunType
      <3> QED
        BY <3>1 DEF OneHolder
    <2>2. CASE status # "absent"
      <3>1. Holders' \subseteq Holders /\ status' = status
        BY <1>1, <2>2 DEF Insert, Goto, Holders, TypeInv, RunType
      <3> QED
        BY <3>1, NoNewHolder
    <2> QED
      BY <2>1, <2>2
  <1>2. ASSUME NEW r \in Runners, Update(r) PROVE OneHolder'
    <2>1. CASE Claimable
      <3>1. Holders = {} /\ Holders' \subseteq {r} /\ status' = "running"
        BY <1>2, <2>1 DEF Update, Claimable, Goto, OneHolder, Holders, TypeInv, RunType
      <3> QED
        BY <3>1 DEF OneHolder
    <2>2. CASE ~Claimable
      <3>1. Holders' \subseteq Holders /\ status' = status
        BY <1>2, <2>2 DEF Update, Goto, Holders, TypeInv, RunType
      <3> QED
        BY <3>1, NoNewHolder
    <2> QED
      BY <2>1, <2>2
  <1>3. ASSUME NEW r \in Runners,
  PersistDone(r) \/ PersistError(r) \/ PersistWait(r) PROVE OneHolder'
    <2>1. Holders = {r}
      BY <1>3 DEF PersistDone, PersistError, PersistWait, OneHolder, Holders
    <2>2. Holders' = {}
      BY <1>3, <2>1 DEF PersistDone, PersistError, PersistWait, Store, Goto, Holders, TypeInv,
        RunType
    <2> QED
      BY <2>2 DEF OneHolder
  <1>4. ASSUME NEW r \in Runners, Walk(r) \/ Remember(r) PROVE OneHolder'
    <2>1. r \in Holders /\ \A s \in Runners : s # r => pc'[s] = pc[s]
      BY <1>4 DEF Walk, Act, ActFails, WaitIsOver, WaitBegins, Branch, Leave, Walking, Remember,
        Goto,
        Holders, TypeInv, RunType
    <2>2. status' = status
      BY <1>4 DEF Walk, Act, ActFails, WaitIsOver, WaitBegins, Branch, Leave, MoveTo, Remember,
        rowVars
    <2> QED
      BY <2>1, <2>2, NoNewHolder DEF Holders
  <1>5. ASSUME NEW r \in Runners, Deliver(r) \/ Take(r) \/ Peek(r) \/ Check(r) \/ Resume(r)
        PROVE  OneHolder'
    <2>1. Holders' \subseteq Holders /\ status' = status
      BY <1>5 DEF Deliver, Take, TakeJob, Begin, Peek, Check, Resume, Goto, Holders, rowVars,
        TypeInv,
        RunType
    <2> QED
      BY <2>1, NoNewHolder
  <1>6. ASSUME NEW R \in SUBSET Runners, Return(R), UNCHANGED rowVars PROVE OneHolder'
    <2>1. Holders' \subseteq Holders /\ status' = status
      BY <1>6 DEF Return, Holders, rowVars
    <2> QED
      BY <2>1, NoNewHolder
  <1>7. CASE UNCHANGED <<rowVars, runVars>>
    BY <1>7, NoNewHolder DEF rowVars, runVars, Holders
  <1> QED
    BY <1>1, <1>2, <1>3, <1>4, <1>5, <1>6, <1>7 DEF Next, Run, vars, Publish, Switch, Elapse,
      Redeliver,
      ReturnOk, ReturnErr, Restart

-----------------------------------------------------------------------------
(* Where the execution is: what it has executed lies before. *)

\* The top-level actions before a cursor have been executed.
Passed(c) ==
  \A p \in DOMAIN Programs[snapshot] :
    Len(p) = 1 /\ p[1] < c[1] /\ Action(<<snapshot, p>>) =>
      \E i \in 1..Len(acts) : acts[i] = <<snapshot, p>>

\* A cursor in a block is under a branch of the top level.
Within(c) ==
  Len(c) # 1 => <<c[1]>> \in DOMAIN Programs[snapshot] /\ Programs[snapshot][<<c[1]>>] = "branch"

Reached(c) ==
  /\ \A i \in 1..Len(acts) : Before(acts[i][2], c)
  /\ Passed(c) /\ Within(c)

RowInv ==
  /\ status = "absent" => snapshot = 0
  /\ status \in {"waiting", "retrying", "completed"} => snapshot # 0
  /\ snapshot = 0 => acts = << >> /\ cursor = <<0>>

\* The cursor that the next holder will go on from, or one that has just claimed it.
CursorInv ==
  snapshot # 0 /\ (status \in {"waiting", "retrying"} \/ \E r \in Runners : pc[r] = "remember") =>
    Reached(cursor)

At(r) == Programs[snapshot][at[r]]

HolderInv ==
  \A r \in Runners : pc[r] \in Holding \ {"remember"} =>
    /\ snapshot # 0 /\ ver[r] = snapshot /\ Reached(at[r])
    /\ pc[r] = "persist_done" =>
         Len(at[r]) = 1 /\ (at[r] \in DOMAIN Programs[snapshot] => At(r) = "end")
    /\ pc[r] = "persist_wait" => at[r] \in DOMAIN Programs[snapshot] /\ At(r) = "wait"

OrderInv == RowInv /\ CursorInv /\ HolderInv /\ StepsInOrder

\* The actions executed are steps of a version.
LEMMA ActsAreCursors ==
  ASSUME TypeInv
  PROVE  /\ Len(acts) \in Nat
         /\ \A i \in 1..Len(acts) : acts[i] \in Versions \X Cursors /\ acts[i][2] \in Seq(Nat)
  <1>1. Len(acts) \in Nat /\ \A i \in 1..Len(acts) : acts[i] \in Versions \X Cursors
    BY ElementOfSeq DEF TypeInv, ActsType
  <1> QED
    BY <1>1

\* A cursor of one number is that of its number.
LEMMA TopCursor ==
  ASSUME NEW p \in Seq(Nat), NEW c \in Seq(Nat), Len(p) = 1, Len(c) = 1, p[1] = c[1]
  PROVE  p = c
  BY SeqEqual

\* A step of the top level is a cursor of one number.
LEMMA TopStep ==
  ASSUME NEW v \in Versions, NEW p \in DOMAIN Programs[v], Len(p) = 1
  PROVE  p \in Seq(Nat) /\ p[1] \in Nat
  <1>1. p \in Seq(Nat)
    BY DEF Cursors
  <1>2. 1 \in 1..Len(p)
    OBVIOUS
  <1> QED
    BY <1>1, <1>2, ElementOfSeq

\* The first place is not the last one of a longer cursor, nor within its last three.
LEMMA FirstPlace ==
  ASSUME NEW n \in Nat
  PROVE  /\ n >= 1 /\ n # 1 => 1 \in 1..(n - 1)
         /\ n >= 3 /\ n # 3 => 1 \in 1..(n - 3)
  OBVIOUS

\* Only a cursor of the top level has its first number changed by the next step.
LEMMA FirstOfBump ==
  ASSUME NEW c \in CursorType
  PROVE  /\ c \in Seq(Nat) /\ Len(c) \in Nat /\ Len(c) >= 1 /\ c[1] \in Nat
         /\ Len(Bump(c)) = Len(c) /\ Bump(c)[1] = (IF Len(c) = 1 THEN c[1] + 1 ELSE c[1])
  <1>1. c \in Seq(Nat) /\ Len(c) \in Nat /\ Len(c) >= 1 /\ c[1] \in Nat
    BY CursorLength
  <1>2. Len(c) # 1 => 1 \in 1..(Len(c) - 1)
    BY <1>1, FirstPlace
  <1> QED
    BY <1>1, <1>2, BumpCursor

\* Going on to the next step of the block, past anything but an action of the top level.
LEMMA ReachedBump ==
  ASSUME TypeInv, snapshot # 0, NEW c \in CursorType, Reached(c),
         Len(c) = 1 /\ c \in DOMAIN Programs[snapshot] => Programs[snapshot][c] # "action"
  PROVE  Reached(Bump(c))
  <1>1. \A i \in 1..Len(acts) : Before(acts[i][2], Bump(c))
    BY ActsAreCursors, BeforeBump DEF Reached
  <1>2. /\ c \in Seq(Nat) /\ Len(c) \in Nat /\ Len(c) >= 1 /\ c[1] \in Nat
        /\ Len(Bump(c)) = Len(c) /\ Bump(c)[1] = (IF Len(c) = 1 THEN c[1] + 1 ELSE c[1])
    BY FirstOfBump
  <1>3. snapshot \in Versions
    BY DEF TypeInv, RowType
  <1>4. Passed(Bump(c))
    <2> SUFFICES ASSUME NEW p \in DOMAIN Programs[snapshot], Len(p) = 1, p[1] < Bump(c)[1],
                        Action(<<snapshot, p>>)
                 PROVE  \E i \in 1..Len(acts) : acts[i] = <<snapshot, p>>
      BY DEF Passed
    <2>1. p \in Seq(Nat) /\ p[1] \in Nat
      BY <1>3, TopStep
    <2>2. CASE p[1] < c[1]
      BY <2>2 DEF Reached, Passed
    <2>3. CASE ~(p[1] < c[1])
      <3>1. Len(c) = 1 /\ p[1] = c[1]
        BY <1>2, <2>1, <2>3
      <3>2. p = c
        BY <1>2, <2>1, <3>1, TopCursor
      <3> QED
        BY <3>1, <3>2 DEF Action
    <2> QED
      BY <2>2, <2>3
  <1>5. Within(Bump(c))
    BY <1>2 DEF Reached, Within
  <1> QED
    BY <1>1, <1>4, <1>5 DEF Reached

\* Into a block of a branch.
LEMMA ReachedInner ==
  ASSUME TypeInv, NEW c \in CursorType, Reached(c), NEW b \in {0, 1},
         c \in DOMAIN Programs[snapshot], Programs[snapshot][c] = "branch"
  PROVE  Reached(c \o <<b, 0>>)
  <1> DEFINE d == c \o <<b, 0>>
  <1>1. \A i \in 1..Len(acts) : Before(acts[i][2], d)
    BY BeforeInner DEF Reached
  <1>2. /\ c \in Seq(Nat) /\ Len(c) \in Nat /\ Len(c) >= 1 /\ c[1] \in Nat
        /\ Len(d) = Len(c) + 2 /\ d[1] = c[1]
    BY CursorLength, InnerCursor
  <1> HIDE DEF d
  <1>3. Passed(d)
    BY <1>2 DEF Reached, Passed
  <1>4. Len(c) = 1 => c = <<c[1]>>
    <2>1. <<c[1]>> \in Seq(Nat) /\ Len(<<c[1]>>) = 1 /\ <<c[1]>>[1] = c[1]
      BY <1>2
    <2> QED
      BY <1>2, <2>1, TopCursor
  <1>5. Within(d)
    BY <1>2, <1>4 DEF Reached, Within
  <1> QED
    BY <1>1, <1>3, <1>5 DEF Reached, d

\* Out of a block: the branch it belongs to is not an action.
LEMMA ReachedOuter ==
  ASSUME TypeInv, snapshot # 0, NEW c \in CursorType, Reached(c), Len(c) # 1
  PROVE  Reached(Outer(c))
  <1>1. \A i \in 1..Len(acts) : Before(acts[i][2], Outer(c))
    BY ActsAreCursors, BeforeOuter DEF Reached
  <1>2. /\ c \in Seq(Nat) /\ Len(c) \in Nat /\ Len(c) >= 3 /\ c[1] \in Nat
        /\ Len(Outer(c)) = Len(c) - 2
        /\ Outer(c)[1] = (IF Len(c) = 3 THEN c[1] + 1 ELSE c[1])
    <2>1. c \in Seq(Nat) /\ Len(c) \in Nat /\ Len(c) >= 3 /\ c[1] \in Nat
      BY CursorLength
    <2>2. Len(c) # 3 => 1 \in 1..(Len(c) - 3)
      BY <2>1, FirstPlace
    <2>3. Len(c) = 3 => Len(c) - 2 = 1
      OBVIOUS
    <2> QED
      BY <2>1, <2>2, <2>3, OuterCursor
  <1>3. snapshot \in Versions
    BY DEF TypeInv, RowType
  <1>4. /\ <<c[1]>> \in Seq(Nat) /\ Len(<<c[1]>>) = 1 /\ <<c[1]>>[1] = c[1]
        /\ Programs[snapshot][<<c[1]>>] = "branch"
    BY <1>2 DEF Reached, Within
  <1>5. Passed(Outer(c))
    <2> SUFFICES ASSUME NEW p \in DOMAIN Programs[snapshot], Len(p) = 1, p[1] < Outer(c)[1],
                        Action(<<snapshot, p>>)
                 PROVE  \E i \in 1..Len(acts) : acts[i] = <<snapshot, p>>
      BY DEF Passed
    <2>1. p \in Seq(Nat) /\ p[1] \in Nat
      BY <1>3, TopStep
    <2>2. CASE p[1] < c[1]
      BY <2>2 DEF Reached, Passed
    <2>3. CASE ~(p[1] < c[1])
      <3>1. p[1] = c[1]
        BY <1>2, <2>1, <2>3
      <3>2. p = <<c[1]>>
        BY <1>4, <2>1, <3>1, TopCursor
      <3> QED
        BY <1>4, <3>2 DEF Action
    <2> QED
      BY <2>2, <2>3
  <1>6. Within(Outer(c))
    BY <1>2 DEF Reached, Within
  <1> QED
    BY <1>1, <1>5, <1>6 DEF Reached

\* A step that moves no holder.
LEMMA OrderFrame ==
  ASSUME OrderInv, UNCHANGED <<rowVars, acts>>,
         \A r \in Runners : pc'[r] \in Holding =>
           pc'[r] = pc[r] /\ at'[r] = at[r] /\ ver'[r] = ver[r]
  PROVE  OrderInv'
  <1> USE DEF rowVars
  <1>1. RowInv' /\ StepsInOrder'
    BY DEF OrderInv, RowInv, StepsInOrder
  <1>2. CursorInv'
    BY DEF OrderInv, CursorInv, Reached, Passed, Within, Holding
  <1>3. HolderInv'
    <2> SUFFICES ASSUME NEW r \in Runners, pc'[r] \in Holding \ {"remember"}
                 PROVE  /\ snapshot' # 0 /\ ver'[r] = snapshot' /\ Reached(at[r])'
                        /\ pc'[r] = "persist_done" =>
                             /\ Len(at'[r]) = 1
                             /\ at'[r] \in DOMAIN Programs[snapshot'] => At(r)' = "end"
                        /\ pc'[r] = "persist_wait" =>
                             at'[r] \in DOMAIN Programs[snapshot'] /\ At(r)' = "wait"
      BY DEF HolderInv
    <2>1. pc'[r] = pc[r] /\ at'[r] = at[r] /\ ver'[r] = ver[r]
      OBVIOUS
    <2>2. Reached(at[r]) => Reached(at[r])'
      BY <2>1 DEF Reached, Passed, Within
    <2> QED
      BY <2>1, <2>2 DEF OrderInv, HolderInv, At
  <1> QED
    BY <1>1, <1>2, <1>3 DEF OrderInv

\* A claim takes up the cursor that was persisted.
LEMMA ClaimOrder ==
  ASSUME TypeInv, OneHolder, OrderInv, NEW r \in Runners, Insert(r) \/ Update(r)
  PROVE  OrderInv'
  <1>1. /\ cursor' = cursor /\ snapshot' = snapshot /\ acts' = acts /\ at' = at /\ ver' = ver
        /\ \A s \in Runners : pc'[s] \in Holding \ {"remember"} => pc'[s] = pc[s]
    BY DEF Insert, Update, Goto, Holding, TypeInv, RunType
  <1>2. CASE status' = status
    <2>1. \A s \in Runners : pc'[s] \in Holding => pc'[s] = pc[s]
      BY <1>2 DEF Insert, Update, Claimable, Goto, Holding, TypeInv, RunType
    <2> QED
      BY <1>1, <1>2, <2>1, OrderFrame DEF rowVars
  <1>3. CASE status' # status
    <2>1. /\ status' = "running"
          /\ status = "absent" \/ status \in {"waiting", "retrying"}
      BY <1>3 DEF Insert, Update, Claimable
    <2>2. RowInv' /\ StepsInOrder'
      BY <1>1, <2>1 DEF OrderInv, RowInv, StepsInOrder
    <2>3. CursorInv'
      BY <1>1, <2>1 DEF OrderInv, RowInv, CursorInv, Reached, Passed, Within
    <2>4. HolderInv'
      <3> SUFFICES ASSUME NEW s \in Runners, pc'[s] \in Holding \ {"remember"}
                   PROVE  FALSE
        BY DEF HolderInv
      <3>1. s \in Holders
        BY <1>1 DEF Holders, Holding
      <3> QED
        BY <2>1, <3>1 DEF OneHolder
    <2> QED
      BY <2>2, <2>3, <2>4 DEF OrderInv
  <1> QED
    BY <1>2, <1>3

\* The run that claims first fixes the version, later ones go on with it.
LEMMA RememberOrder ==
  ASSUME TypeInv, OneHolder, OrderInv, NEW r \in Runners, Remember(r)
  PROVE  OrderInv'
  <1>1. /\ pc[r] = "remember" /\ pc' = [pc EXCEPT ![r] = "walk"]
        /\ status' = status /\ cursor' = cursor /\ acts' = acts
        /\ snapshot' = (IF snapshot = 0 THEN ver[r] ELSE snapshot)
        /\ ver' = [ver EXCEPT ![r] = snapshot'] /\ at' = [at EXCEPT ![r] = cursor]
    BY DEF Remember, Goto, Kept
  <1>2. /\ Holders = {r} /\ status = "running"
        /\ \A s \in Runners : pc'[s] \in Holding => s = r
    BY <1>1 DEF OneHolder, Holders, Holding, TypeInv, RunType
  <1>3. pc'[r] = "walk" /\ at'[r] = cursor /\ ver'[r] = snapshot' /\ snapshot' # 0
    BY <1>1 DEF TypeInv, RunType
  <1>4. CASE snapshot = 0
    <2>1. acts = << >> /\ cursor = <<0>>
      BY <1>4 DEF OrderInv, RowInv
    <2>2. StepsInOrder'
      BY <1>1, <1>2, <2>1 DEF StepsInOrder
    <2>3. snapshot' \in Versions
      BY <1>1, <1>4 DEF TypeInv, RunType
    <2>4. Reached(at[r])'
      <3>1. \A i \in 1..Len(acts') : Before(acts'[i][2], at'[r])
        BY <1>1, <2>1
      <3>2. Passed(at[r])'
        <4> SUFFICES ASSUME NEW p \in DOMAIN Programs[snapshot'], Len(p) = 1, p[1] < at'[r][1]
                     PROVE  FALSE
          BY DEF Passed
        <4>1. p[1] \in Nat
          BY <2>3, TopStep
        <4> QED
          BY <1>3, <2>1, <4>1
      <3>3. Within(at[r])'
        BY <1>3, <2>1 DEF Within
      <3> QED
        BY <3>1, <3>2, <3>3 DEF Reached
    <2>5. RowInv' /\ CursorInv'
      BY <1>1, <1>2, <1>3 DEF RowInv, CursorInv, Holding
    <2>6. HolderInv'
      BY <1>2, <1>3, <2>4 DEF HolderInv
    <2> QED
      BY <2>2, <2>5, <2>6 DEF OrderInv
  <1>5. CASE snapshot # 0
    <2>1. snapshot' = snapshot
      BY <1>1, <1>5
    <2>2. Reached(cursor)
      BY <1>1, <1>5 DEF OrderInv, CursorInv
    <2>3. Reached(at[r])'
      <3>1. at'[r] = cursor /\ acts' = acts /\ snapshot' = snapshot
        BY <1>1, <1>3, <2>1
      <3>2. Passed(at[r])'
        BY <2>2, <3>1 DEF Reached, Passed
      <3>3. Within(at[r])'
        BY <2>2, <3>1 DEF Reached, Within
      <3> QED
        BY <2>2, <3>1, <3>2, <3>3 DEF Reached
    <2>4. RowInv' /\ CursorInv' /\ StepsInOrder'
      BY <1>1, <1>2, <1>3, <2>1 DEF OrderInv, RowInv, CursorInv, StepsInOrder, Holding
    <2>5. HolderInv'
      BY <1>2, <1>3, <2>3 DEF HolderInv
    <2> QED
      BY <2>4, <2>5 DEF OrderInv
  <1> QED
    BY <1>4, <1>5

\* What a walking run knows.
LEMMA Walker ==
  ASSUME TypeInv, OneHolder, OrderInv, NEW r \in Runners, pc[r] = "walk"
  PROVE  /\ Holders = {r} /\ status = "running" /\ snapshot # 0
         /\ ver[r] = snapshot /\ snapshot \in Versions /\ at[r] \in CursorType /\ Reached(at[r])
  <1>1. Holders = {r} /\ status = "running"
    BY DEF OneHolder, Holders
  <1>2. snapshot # 0 /\ ver[r] = snapshot /\ Reached(at[r])
    BY DEF OrderInv, HolderInv, Holding
  <1> QED
    BY <1>1, <1>2 DEF TypeInv, RowType, RunType

\* A walking run moves without an action.
LEMMA MoveOrder ==
  ASSUME TypeInv, OneHolder, OrderInv, NEW r \in Runners, pc[r] = "walk",
         NEW l \in {"walk", "persist_done", "persist_error", "persist_wait"},
         pc' = [pc EXCEPT ![r] = l], NEW c, at' = [at EXCEPT ![r] = c], Reached(c),
         UNCHANGED <<rowVars, acts, ver>>,
         l = "persist_done" =>
           Len(c) = 1 /\ (c \in DOMAIN Programs[snapshot] => Programs[snapshot][c] = "end"),
         l = "persist_wait" => c \in DOMAIN Programs[snapshot] /\ Programs[snapshot][c] = "wait"
  PROVE  OrderInv'
  <1>1. Holders = {r} /\ status = "running" /\ snapshot # 0 /\ ver[r] = snapshot
    BY Walker
  <1>2. \A s \in Runners : pc'[s] \in Holding => s = r
    BY <1>1 DEF Holders, Holding, TypeInv, RunType
  <1>3. pc'[r] = l /\ at'[r] = c /\ ver' = ver /\ acts' = acts
        /\ status' = status /\ cursor' = cursor /\ snapshot' = snapshot
    BY DEF TypeInv, RunType, rowVars
  <1>4. Reached(at[r])'
    <2>1. (\A i \in 1..Len(acts) : Before(acts[i][2], c)) /\ Passed(c) /\ Within(c)
      BY DEF Reached
    <2>2. \A i \in 1..Len(acts') : Before(acts'[i][2], at'[r])
      BY <1>3, <2>1
    <2>3. Passed(at[r])'
      BY <1>3, <2>1 DEF Passed
    <2>4. Within(at[r])'
      BY <1>3, <2>1 DEF Within
    <2> QED
      BY <2>2, <2>3, <2>4 DEF Reached
  <1>5. RowInv' /\ StepsInOrder'
    <2>1. RowInv'
      BY <1>3 DEF OrderInv, RowInv
    <2>2. StepsInOrder /\ acts' = acts /\ status' = status /\ snapshot' = snapshot
      BY <1>3 DEF OrderInv
    <2>3. StepsInOrder'
      BY ONLY <2>2 DEF StepsInOrder
    <2> QED
      BY <2>1, <2>3
  <1>6. CursorInv'
    BY <1>1, <1>2, <1>3 DEF CursorInv, Holding
  <1>7. HolderInv'
    BY <1>1, <1>2, <1>3, <1>4 DEF HolderInv, At
  <1> QED
    BY <1>5, <1>6, <1>7 DEF OrderInv

\* A step that is not an action, of the version that is executed.
LEMMA WalkOrder ==
  ASSUME TypeInv, OneHolder, OrderInv, NEW r \in Runners,
         ActFails(r) \/ WaitIsOver(r) \/ WaitBegins(r) \/ Branch(r) \/ Leave(r)
  PROVE  OrderInv'
  <1>1. pc[r] = "walk" /\ UNCHANGED <<rowVars, acts, ver>>
    BY DEF ActFails, WaitIsOver, WaitBegins, Branch, Leave, Walking, MoveTo
  <1>2. /\ snapshot # 0 /\ ver[r] = snapshot /\ at[r] \in CursorType /\ Reached(at[r])
    BY <1>1, Walker
  <1>3. CASE ActFails(r)
    <2>1. pc' = [pc EXCEPT ![r] = "persist_error"] /\ at' = [at EXCEPT ![r] = at[r]]
      BY <1>3 DEF ActFails, Goto, MoveTo
    <2> QED
      BY <1>1, <1>2, <2>1, MoveOrder
  <1>4. CASE WaitBegins(r)
    <2>1. pc' = [pc EXCEPT ![r] = "persist_wait"] /\ at' = [at EXCEPT ![r] = at[r]]
      BY <1>4 DEF WaitBegins, Goto, MoveTo
    <2>2. at[r] \in DOMAIN Programs[snapshot] /\ Programs[snapshot][at[r]] = "wait"
      BY <1>2, <1>4, WalkingAt DEF WaitBegins
    <2> QED
      BY <1>1, <1>2, <2>1, <2>2, MoveOrder
  <1>5. CASE WaitIsOver(r)
    <2>1. pc' = [pc EXCEPT ![r] = "walk"] /\ at' = [at EXCEPT ![r] = Bump(at[r])]
      BY <1>1, <1>5 DEF WaitIsOver, MoveTo, TypeInv, RunType
    <2>2. Programs[snapshot][at[r]] = "wait"
      BY <1>2, <1>5, WalkingAt DEF WaitIsOver
    <2>3. Reached(Bump(at[r]))
      BY <1>2, <2>2, ReachedBump
    <2> QED
      BY <1>1, <2>1, <2>3, MoveOrder
  <1>6. CASE Branch(r)
    <2>1. PICK b \in {0, 1} : at' = [at EXCEPT ![r] = at[r] \o <<b, 0>>]
      BY <1>6 DEF Branch, MoveTo
    <2>2. pc' = [pc EXCEPT ![r] = "walk"]
      BY <1>1, <1>6 DEF Branch, TypeInv, RunType
    <2>3. at[r] \in DOMAIN Programs[snapshot] /\ Programs[snapshot][at[r]] = "branch"
      BY <1>2, <1>6, WalkingAt DEF Branch
    <2>4. Reached(at[r] \o <<b, 0>>)
      BY <1>2, <2>3, ReachedInner
    <2> QED
      BY <1>1, <2>1, <2>2, <2>4, MoveOrder
  <1>7. CASE Leave(r)
    <2>1. CASE Len(at[r]) = 1
      <3>1. pc' = [pc EXCEPT ![r] = "persist_done"] /\ at' = [at EXCEPT ![r] = at[r]]
        BY <1>7, <2>1 DEF Leave, Goto, MoveTo
      <3>2. at[r] \in DOMAIN Programs[snapshot] => Programs[snapshot][at[r]] \in {"end", "past"}
        BY <1>2, <1>7 DEF Leave, Walking, Kind, Program
      <3>3. at[r] \in DOMAIN Programs[snapshot] => Programs[snapshot][at[r]] = "end"
        BY <1>1, <3>2, Walker
      <3> QED
        BY <1>1, <1>2, <2>1, <3>1, <3>3, MoveOrder
    <2>2. CASE Len(at[r]) # 1
      <3>1. pc' = [pc EXCEPT ![r] = "walk"] /\ at' = [at EXCEPT ![r] = Outer(at[r])]
        BY <1>1, <1>7, <2>2 DEF Leave, MoveTo, TypeInv, RunType
      <3>2. Reached(Outer(at[r]))
        BY <1>2, <2>2, ReachedOuter
      <3> QED
        BY <1>1, <3>1, <3>2, MoveOrder
    <2> QED
      BY <2>1, <2>2
  <1> QED
    BY <1>3, <1>4, <1>5, <1>6, <1>7

\* An action: all that was executed lies before it, and it lies before the next step.
LEMMA ActOrder ==
  ASSUME TypeInv, OneHolder, OrderInv, NEW r \in Runners, Act(r)
  PROVE  OrderInv'
  <1> DEFINE c == at[r]
             a == <<ver[r], c>>
             n == Len(acts)
  <1>1. /\ pc[r] = "walk" /\ pc' = pc /\ ver' = ver /\ at' = [at EXCEPT ![r] = Bump(c)]
        /\ acts' = Append(acts, a)
        /\ status' = status /\ cursor' = cursor /\ snapshot' = snapshot
    BY DEF Act, Walking, MoveTo, rowVars
  <1>2. /\ Holders = {r} /\ status = "running" /\ snapshot # 0 /\ ver[r] = snapshot
        /\ snapshot \in Versions /\ c \in CursorType /\ Reached(c)
    BY <1>1, Walker
  <1>3. /\ c \in Cursors /\ c \in DOMAIN Programs[snapshot] /\ Programs[snapshot][c] = "action"
        /\ a \in Versions \X Cursors
    BY <1>2, WalkingAt DEF Act
  <1>4. /\ n \in Nat /\ Len(acts') = n + 1 /\ acts'[n + 1] = a
        /\ \A i \in 1..n : acts'[i] = acts[i]
    BY <1>1, <1>3, AppendProperties DEF TypeInv, ActsType
  <1>5. /\ \A i \in 1..n : acts[i] \in Versions \X Cursors /\ acts[i][2] \in Seq(Nat)
    BY ActsAreCursors
  <1>6. a[1] = snapshot /\ a[2] = c /\ c \in Seq(Nat)
    BY <1>2 DEF CursorType
  <1> HIDE DEF c, a, n
  <1>7. StepsInOrder'
    <2>1. ASSUME NEW i \in 1..(n + 1), NEW j \in 1..(n + 1), i < j
          PROVE  Before(acts'[i][2], acts'[j][2])
      <3>1. CASE j = n + 1
        <4>1. i \in 1..n
          BY <1>4, <2>1, <3>1
        <4> QED
          BY <1>2, <1>4, <1>6, <3>1, <4>1 DEF Reached, n
      <3>2. CASE j # n + 1
        <4>1. i \in 1..n /\ j \in 1..n
          BY <1>4, <2>1, <3>2
        <4> QED
          BY <1>4, <2>1, <4>1 DEF OrderInv, StepsInOrder, n
      <3> QED
        BY <3>1, <3>2
    <2>2. \A i \in 1..(n + 1) : acts'[i][1] = snapshot
      <3> SUFFICES ASSUME NEW i \in 1..(n + 1) PROVE acts'[i][1] = snapshot
        OBVIOUS
      <3>1. CASE i = n + 1
        BY <1>4, <1>6, <3>1
      <3>2. CASE i # n + 1
        <4>1. i \in 1..n
          BY <1>4, <3>2
        <4> QED
          BY <1>4, <4>1 DEF OrderInv, StepsInOrder, n
      <3> QED
        BY <3>1, <3>2
    <2> QED
      BY <1>1, <1>2, <1>4, <2>1, <2>2 DEF StepsInOrder
  <1>8. Reached(at[r])'
    <2>1. at'[r] = Bump(c)
      BY <1>1 DEF TypeInv, RunType, c
    <2>2. \A i \in 1..(n + 1) : Before(acts'[i][2], Bump(c))
      <3> SUFFICES ASSUME NEW i \in 1..(n + 1) PROVE Before(acts'[i][2], Bump(c))
        OBVIOUS
      <3>1. CASE i = n + 1
        BY <1>2, <1>4, <1>6, <3>1, BeforeBump
      <3>2. CASE i # n + 1
        <4>1. i \in 1..n
          BY <1>4, <3>2
        <4> QED
          BY <1>2, <1>4, <1>5, <4>1, BeforeBump DEF Reached, n
      <3> QED
        BY <3>1, <3>2
    <2>3. /\ Len(c) \in Nat /\ Len(c) >= 1 /\ c[1] \in Nat
          /\ Len(Bump(c)) = Len(c) /\ Bump(c)[1] = (IF Len(c) = 1 THEN c[1] + 1 ELSE c[1])
      BY <1>2, FirstOfBump
    <2>4. Passed(at[r])'
      <3> SUFFICES ASSUME NEW p \in DOMAIN Programs[snapshot], Len(p) = 1, p[1] < Bump(c)[1],
                          Action(<<snapshot, p>>)
                   PROVE  \E i \in 1..(n + 1) : acts'[i] = <<snapshot, p>>
        BY <1>1, <1>4, <2>1 DEF Passed
      <3>1. p \in Seq(Nat) /\ p[1] \in Nat
        BY <1>2, TopStep
      <3>2. CASE p[1] < c[1]
        <4>1. PICK i \in 1..n : acts[i] = <<snapshot, p>>
          BY <1>2, <3>2 DEF Reached, Passed, n
        <4>2. i \in 1..(n + 1)
          BY <1>4
        <4> QED
          BY <1>4, <4>1, <4>2
      <3>3. CASE ~(p[1] < c[1])
        <4>1. Len(c) = 1 /\ p[1] = c[1]
          BY <2>3, <3>1, <3>3
        <4>2. p = c
          BY <1>6, <3>1, <4>1, TopCursor
        <4>3. a = <<snapshot, p>> /\ n + 1 \in 1..(n + 1)
          BY <1>2, <1>4, <4>2 DEF a
        <4> QED
          BY <1>4, <4>3
      <3> QED
        BY <3>2, <3>3
    <2>5. Within(at[r])'
      BY <1>1, <1>2, <2>1, <2>3 DEF Reached, Within
    <2> QED
      BY <1>4, <2>1, <2>2, <2>4, <2>5 DEF Reached
  <1>9. \A s \in Runners : pc'[s] \in Holding => s = r
    BY <1>1, <1>2 DEF Holders, Holding
  <1>10. RowInv' /\ CursorInv'
    BY <1>1, <1>2, <1>9 DEF RowInv, OrderInv, CursorInv, Holding
  <1>11. HolderInv'
    BY <1>1, <1>2, <1>8, <1>9 DEF HolderInv
  <1> QED
    BY <1>7, <1>10, <1>11 DEF OrderInv

\* A run that has come to the end of the definition has executed each action of the
\* top level that precedes the End it stands at, or all of them.
LEMMA DoneOrder ==
  ASSUME TypeInv, OneHolder, OrderInv, NEW r \in Runners, PersistDone(r)
  PROVE  OrderInv'
  <1> DEFINE c == at[r]
  <1>1. /\ pc[r] = "persist_done" /\ pc' = [pc EXCEPT ![r] = "ok"]
        /\ status' = "completed" /\ snapshot' = snapshot /\ acts' = acts
    BY DEF PersistDone, Store, Goto
  <1>2. /\ snapshot # 0 /\ Reached(c) /\ Len(c) = 1
        /\ c \in DOMAIN Programs[snapshot] => Programs[snapshot][c] = "end"
    BY <1>1 DEF OrderInv, HolderInv, Holding, At
  <1>3. /\ \A s \in Runners : pc'[s] \notin Holding
        /\ snapshot \in Versions /\ c \in CursorType /\ c \in Seq(Nat)
    BY <1>1, <1>2 DEF OneHolder, Holders, Holding, TypeInv, RowType, RunType, CursorType
  <1> HIDE DEF c
  <1>4. c[1] \in Nat /\ c = <<c[1]>>
    <2>1. c[1] \in Nat
      BY <1>3, CursorLength
    <2>2. <<c[1]>> \in Seq(Nat) /\ Len(<<c[1]>>) = 1 /\ <<c[1]>>[1] = c[1]
      BY <2>1
    <2> QED
      BY <1>2, <1>3, <2>1, <2>2, TopCursor
  <1>5. ASSUME NEW p \in DOMAIN Programs[snapshot], Len(p) = 1, Action(<<snapshot, p>>)
        PROVE  \/ \E q \in DOMAIN Programs[snapshot] :
                    Len(q) = 1 /\ Before(q, p) /\ Programs[snapshot][q] = "end"
               \/ \E i \in 1..Len(acts) : acts[i] = <<snapshot, p>>
    <2>1. p \in Seq(Nat) /\ p[1] \in Nat
      BY <1>3, <1>5, TopStep
    <2>2. CASE p[1] < c[1]
      BY <1>2, <1>5, <2>2 DEF Reached, Passed
    <2>3. CASE ~(p[1] < c[1])
      <3>1. c[1] \in 0..p[1]
        BY <1>4, <2>1, <2>3
      <3>2. c \in DOMAIN Programs[snapshot] /\ Programs[snapshot][c] = "end"
        BY <1>2, <1>3, <1>4, <1>5, <3>1
      <3>3. p # c
        BY <1>5, <3>2 DEF Action
      <3>4. c[1] < p[1]
        BY <1>2, <1>3, <1>4, <1>5, <2>1, <2>3, <3>3, TopCursor
      <3>5. Before(c, p)
        BY <1>5, <3>4 DEF Before
      <3> QED
        BY <1>2, <3>2, <3>5
    <2> QED
      BY <2>2, <2>3
  <1>6. StepsInOrder'
    BY <1>1, <1>5 DEF OrderInv, StepsInOrder
  <1>7. RowInv' /\ CursorInv' /\ HolderInv'
    BY <1>1, <1>2, <1>3 DEF RowInv, CursorInv, HolderInv, Holding
  <1> QED
    BY <1>6, <1>7 DEF OrderInv

\* A run that fails at a step or begins a wait leaves a cursor to go on from.
LEMMA ParkOrder ==
  ASSUME TypeInv, OneHolder, OrderInv, NEW r \in Runners, PersistError(r) \/ PersistWait(r)
  PROVE  OrderInv'
  <1> DEFINE c == at[r]
  <1>1. /\ pc[r] \in {"persist_error", "persist_wait"}
        /\ status' \in {"waiting", "retrying"} /\ snapshot' = snapshot /\ acts' = acts
        /\ cursor' = (IF pc[r] = "persist_wait" THEN Bump(c) ELSE c)
        /\ pc'[r] \notin Holding /\ \A s \in Runners : s # r => pc'[s] = pc[s]
    BY DEF PersistError, PersistWait, RetryCursor, Store, Goto, Holding, TypeInv, RunType
  <1>2. /\ snapshot # 0 /\ Reached(c)
        /\ pc[r] = "persist_wait" =>
             c \in DOMAIN Programs[snapshot] /\ Programs[snapshot][c] = "wait"
    BY <1>1 DEF OrderInv, HolderInv, Holding, At
  <1>3. \A s \in Runners : pc'[s] \notin Holding
    BY <1>1 DEF OneHolder, Holders, Holding
  <1>4. c \in CursorType
    BY DEF TypeInv, RunType
  <1> HIDE DEF c
  <1>5. Reached(cursor')
    BY <1>1, <1>2, <1>4, ReachedBump
  <1>6. Reached(cursor)'
    BY <1>1, <1>5 DEF Reached, Passed, Within
  <1>7. RowInv' /\ StepsInOrder'
    BY <1>1, <1>2 DEF OrderInv, RowInv, StepsInOrder
  <1>8. CursorInv' /\ HolderInv'
    BY <1>3, <1>6 DEF CursorInv, HolderInv, Holding
  <1> QED
    BY <1>7, <1>8 DEF OrderInv

\* Every step keeps the order.
LEMMA OrderStep ==
  ASSUME TypeInv, OneHolder, OrderInv, [Next]_vars
  PROVE  OrderInv'
  <1>1. CASE \E r \in Runners : Insert(r) \/ Update(r)
    BY <1>1, ClaimOrder
  <1>2. CASE \E r \in Runners : Remember(r)
    BY <1>2, RememberOrder
  <1>3. CASE \E r \in Runners : Act(r)
    BY <1>3, ActOrder
  <1>4. CASE \E r \in Runners :
               ActFails(r) \/ WaitIsOver(r) \/ WaitBegins(r) \/ Branch(r) \/ Leave(r)
    BY <1>4, WalkOrder
  <1>5. CASE \E r \in Runners : PersistDone(r) \/ PersistError(r) \/ PersistWait(r)
    BY <1>5, DoneOrder, ParkOrder
  <1>6. ASSUME NEW r \in Runners,
               Deliver(r) \/ Take(r) \/ Peek(r) \/ Check(r) \/ Resume(r)
        PROVE  OrderInv'
    <2>1. /\ UNCHANGED <<rowVars, acts>>
          /\ \A s \in Runners : pc'[s] \in Holding =>
               pc'[s] = pc[s] /\ at'[s] = at[s] /\ ver'[s] = ver[s]
      BY <1>6 DEF Deliver, Take, TakeJob, Begin, Peek, Check, Resume, Goto, Holding, TypeInv,
        RunType
    <2> QED
      BY <2>1, OrderFrame
  <1>7. ASSUME NEW R \in SUBSET Runners, Return(R), UNCHANGED <<rowVars, acts>> PROVE OrderInv'
    <2>1. \A s \in Runners : pc'[s] \in Holding =>
            pc'[s] = pc[s] /\ at'[s] = at[s] /\ ver'[s] = ver[s]
      BY <1>7 DEF Return, Holding
    <2> QED
      BY <1>7, <2>1, OrderFrame
  <1>8. CASE UNCHANGED <<rowVars, acts, runVars>>
    BY <1>8, OrderFrame DEF runVars
  <1> QED
    BY <1>1, <1>2, <1>3, <1>4, <1>5, <1>6, <1>7, <1>8 DEF Next, Run, Walk, vars, Publish, Switch,
      Elapse, Redeliver, ReturnOk, ReturnErr, Restart

-----------------------------------------------------------------------------
(* Without faults one token goes round: the event, a pending job or a run. *)

Active(r) == pc[r] \notin {"idle", "ok"}

OneToken ==
  /\ event = "pending" => (\A r \in Runners : ~Active(r)) /\ (\A k \in Keys : job[k] # "pending")
  /\ \A k, l \in Keys : job[k] = "pending" /\ job[l] = "pending" => k = l
  /\ \A k \in Keys : \A r \in Runners : job[k] = "pending" => ~Active(r)
  /\ \A r, s \in Runners : Active(r) /\ Active(s) => r = s

\* The execution waits at p: nothing but the resumption of p can go on with it.
Parked(p) ==
  /\ event # "pending"
  /\ \A r \in Runners : Active(r) => pc[r] = "resume" /\ at[r] = p
  /\ \A k \in Keys : job[k] = "pending" => k = p

Waiting(p) ==
  /\ \A i \in 1..Len(acts) : Before(acts[i][2], p)
  /\ Parked(p) \/ \E r \in Runners : pc[r] = "persist_wait" /\ at[r] = p

WaitState == OneToken /\ \A p \in begun \ over : Waiting(p)

WaitInv == faults = 0 => WaitState

\* While a run is on its way, no wait is pending.
LEMMA NoWaits ==
  ASSUME WaitState, NEW r \in Runners, Active(r), pc[r] \notin {"resume", "persist_wait"}
  PROVE  begun \ over = {}
  BY DEF WaitState, OneToken, Waiting, Parked, Active

\* What a step that takes no token and gives none leaves.
LEMMA TokenFrame ==
  ASSUME OneToken,
         event' = event \/ event' # "pending",
         \A k \in Keys : job'[k] = "pending" => job[k] = "pending",
         \A r \in Runners : Active(r)' => Active(r)
  PROVE  OneToken'
  BY DEF OneToken

\* The token passes from the event or from a job to a run.
LEMMA BeginWaits ==
  ASSUME TypeInv, WaitState, NEW r \in Runners, Deliver(r) \/ Take(r)
  PROVE  WaitState'
  <1>1. CASE Deliver(r)
    <2>1. /\ event = "pending" /\ event' = "handling" /\ job' = job
          /\ begun' = begun /\ over' = over
          /\ \A s \in Runners : s # r => pc'[s] = pc[s]
      BY <1>1 DEF Deliver, Begin, Goto, jobVars, timeVars, TypeInv, RunType
    <2>2. OneToken'
      BY <2>1 DEF WaitState, OneToken, Active
    <2>3. begun \ over = {}
      BY <2>1 DEF WaitState, OneToken, Waiting, Parked, Active
    <2> QED
      BY <2>1, <2>2, <2>3 DEF WaitState
  <1>2. ASSUME NEW k \in Keys, TakeJob(r, k) PROVE WaitState'
    <2>1. /\ job[k] = "pending"
          /\ k \in Waits => k \in over
          /\ job' = [job EXCEPT ![k] = "running"] /\ event' = event
          /\ begun' = begun /\ over' = over
          /\ \A s \in Runners : s # r => pc'[s] = pc[s]
      BY <1>2 DEF TakeJob, Due, Begin, Goto, timeVars, TypeInv, RunType
    <2>2. event # "pending" /\ \A s \in Runners : ~Active(s)
      BY <2>1 DEF WaitState, OneToken
    <2>3. \A l \in Keys : job'[l] # "pending"
      BY <2>1 DEF WaitState, OneToken, TypeInv, JobType
    <2>4. OneToken'
      BY <2>1, <2>2, <2>3 DEF OneToken, Active
    <2>5. begun \ over = {}
      BY <2>1, <2>2 DEF WaitState, Waiting, Parked, Active, TypeInv, TimeType
    <2> QED
      BY <2>1, <2>4, <2>5 DEF WaitState
  <1> QED
    BY <1>1, <1>2 DEF Take

\* A run goes on, or ends in Ok, and comes to no wait that is not over.
LEMMA RunWaits ==
  ASSUME TypeInv, WaitState, NEW r \in Runners,
         \/ Peek(r) \/ Insert(r) \/ Check(r) \/ Update(r) \/ Remember(r)
         \/ Act(r) \/ ActFails(r) \/ WaitIsOver(r) \/ Branch(r) \/ Leave(r)
         \/ PersistDone(r) \/ PersistError(r)
  PROVE  WaitState'
  <1>1. /\ Active(r) /\ pc[r] \notin {"resume", "persist_wait"}
        /\ event' = event /\ job' = job
        /\ \A s \in Runners : s # r => pc'[s] = pc[s]
    BY DEF Peek, Insert, Check, Update, Remember, Act, ActFails, WaitIsOver, Branch, Leave, Walking,
      MoveTo, PersistDone, PersistError, Store, Goto, jobVars, Active, TypeInv, RunType
  <1>2. \/ begun' = begun /\ over' = over
        \/ begun' = begun \cup {at[r]} /\ over' = over \cup {at[r]}
    BY DEF Peek, Insert, Check, Update, Remember, Act, ActFails, WaitIsOver, Branch, Leave,
      PersistDone, PersistError, Store, timeVars
  <1>3. OneToken'
    BY <1>1, TokenFrame DEF WaitState, Active
  <1>4. begun \ over = {}
    BY <1>1, NoWaits
  <1>5. begun' \ over' = {}
    BY <1>2, <1>4
  <1> QED
    BY <1>3, <1>5 DEF WaitState

\* A run comes to a wait: all that was executed lies before it.
LEMMA ComeWaits ==
  ASSUME TypeInv, OneHolder, OrderInv, WaitState, NEW r \in Runners, WaitBegins(r)
  PROVE  WaitState'
  <1>1. /\ pc[r] = "walk" /\ pc' = [pc EXCEPT ![r] = "persist_wait"]
        /\ at' = [at EXCEPT ![r] = at[r]] /\ event' = event /\ job' = job /\ acts' = acts
        /\ begun' = begun \cup {at[r]} /\ over' = over
    BY DEF WaitBegins, Walking, Goto, MoveTo, jobVars
  <1>2. begun \ over = {}
    BY <1>1, NoWaits DEF Active
  <1>3. OneToken'
    BY <1>1, TokenFrame DEF WaitState, Active, TypeInv, RunType
  <1>4. pc'[r] = "persist_wait" /\ at'[r] = at[r]
    BY <1>1 DEF TypeInv, RunType
  <1>5. \A i \in 1..Len(acts) : Before(acts[i][2], at[r])
    BY <1>1, Walker DEF Reached
  <1>6. Waiting(at[r])'
    BY <1>1, <1>4, <1>5 DEF Waiting
  <1>7. \A p \in begun' \ over' : p = at[r]
    BY <1>1, <1>2
  <1>8. \A p \in begun' \ over' : Waiting(p)'
    BY <1>4, <1>6, <1>7
  <1> QED
    BY <1>3, <1>8 DEF WaitState

\* The run parks the execution, and enqueues the resumption.
LEMMA ParkWaits ==
  ASSUME TypeInv, WaitState, NEW r \in Runners, PersistWait(r) \/ Resume(r)
  PROVE  WaitState'
  <1>1. /\ begun' = begun /\ over' = over /\ acts' = acts /\ at' = at /\ event' = event
        /\ pc[r] \in {"persist_wait", "resume"} /\ at[r] \in Waits /\ at[r] \in Keys
        /\ pc' = [pc EXCEPT ![r] = IF pc[r] = "resume" THEN "ok" ELSE "resume"]
        /\ job' = (IF pc[r] = "resume" THEN Enqueued(at[r]) ELSE job)
    BY DEF PersistWait, Resume, Store, Goto, timeVars, jobVars, TypeInv, RunType, Keys
  <1>2. event # "pending" /\ \A s \in Runners : Active(s) => s = r
    BY <1>1 DEF WaitState, OneToken, Active
  <1>3. \A k \in Keys : job[k] # "pending"
    BY <1>1 DEF WaitState, OneToken, Active
  <1>4. \A s \in Runners : Active(s)' => s = r /\ pc'[s] = "resume"
    BY <1>1, <1>2 DEF Active, TypeInv, RunType
  <1>5. \A k \in Keys : job'[k] = "pending" => k = at[r] /\ pc[r] = "resume"
    BY <1>1, <1>3 DEF Enqueued, TypeInv, JobType
  <1>6. pc[r] = "resume" => \A s \in Runners : ~Active(s)'
    BY <1>1, <1>4 DEF Active, TypeInv, RunType
  <1>7. OneToken'
    BY <1>1, <1>2, <1>4, <1>5, <1>6 DEF OneToken
  <1>8. ASSUME NEW p \in begun \ over PROVE Waiting(p)'
    <2>1. at[r] = p /\ \A i \in 1..Len(acts) : Before(acts[i][2], p)
      BY <1>1, <1>2 DEF WaitState, Waiting, Parked, Active
    <2>2. Parked(p)'
      BY <1>1, <1>2, <1>4, <1>5, <2>1 DEF Parked
    <2> QED
      BY <1>1, <2>1, <2>2 DEF Waiting
  <1> QED
    BY <1>1, <1>7, <1>8 DEF WaitState

\* A run that returned Ok has given its token away, one that failed gives it to a retry.
LEMMA ReturnWaits ==
  ASSUME TypeInv, WaitState, NEW r \in Runners, ReturnOk(r) \/ ReturnErr(r)
  PROVE  WaitState'
  <1>1. /\ begun' = begun /\ over' = over /\ acts' = acts
        /\ event' = event \/ event' = "handled"
        /\ pc' = [s \in Runners |-> IF s = r THEN "idle" ELSE pc[s]]
        /\ \A s \in Runners : s # r => at'[s] = at[s]
    BY DEF ReturnOk, ReturnErr, Handled, Return, timeVars
  <1>2. \A s \in Runners : Active(s)' => Active(s) /\ s # r
    BY <1>1 DEF Active
  <1>3. CASE ReturnOk(r)
    <2>1. \A k \in Keys : job'[k] = "pending" => job[k] = "pending"
      BY <1>3 DEF ReturnOk, TypeInv, JobType
    <2>2. OneToken'
      BY <1>1, <1>2, <2>1, TokenFrame DEF WaitState
    <2>3. ASSUME NEW p \in begun \ over PROVE Waiting(p)'
      <3>1. CASE Parked(p)
        <4>1. Parked(p)'
          BY <1>1, <1>2, <2>1, <3>1 DEF Parked
        <4> QED
          BY <1>1, <4>1 DEF WaitState, Waiting
      <3>2. CASE \E s \in Runners : pc[s] = "persist_wait" /\ at[s] = p
        <4>1. PICK s \in Runners : pc[s] = "persist_wait" /\ at[s] = p
          BY <3>2
        <4>2. s # r
          BY <1>3, <4>1 DEF ReturnOk
        <4> QED
          BY <1>1, <4>1, <4>2 DEF WaitState, Waiting
      <3> QED
        BY <3>1, <3>2 DEF WaitState, Waiting
    <2> QED
      BY <1>1, <2>2, <2>3 DEF WaitState
  <1>4. CASE ReturnErr(r)
    <2>1. Active(r) /\ pc[r] \notin {"resume", "persist_wait"}
      BY <1>4 DEF ReturnErr, Active
    <2>2. event' # "pending" /\ \A s \in Runners : ~Active(s)'
      BY <1>1, <1>2, <2>1 DEF WaitState, OneToken
    <2>3. \A k \in Keys : job[k] # "pending"
      BY <2>1 DEF WaitState, OneToken
    <2>4. \A k \in Keys : job'[k] = "pending" => k = (IF via[r] = Inline THEN Retry ELSE via[r])
      BY <1>4, <2>3 DEF ReturnErr, Failed, Enqueued, TypeInv, JobType
    <2>5. OneToken'
      BY <2>2, <2>4 DEF OneToken
    <2>6. begun \ over = {}
      BY <2>1, NoWaits
    <2> QED
      BY <1>1, <2>5, <2>6 DEF WaitState
  <1> QED
    BY <1>3, <1>4

\* Every step keeps the waits, as long as nothing is restarted or redelivered.
LEMMA WaitStep ==
  ASSUME TypeInv, OneHolder, OrderInv, WaitInv, [Next]_vars
  PROVE  WaitInv'
  <1> SUFFICES ASSUME faults' = 0 PROVE WaitState'
    BY DEF WaitInv
  <1>1. faults \in Nat
    BY DEF TypeInv, EnvType
  <1>2. CASE Redeliver \/ \E R \in SUBSET Runners : Restart(R)
    BY <1>1, <1>2 DEF Redeliver, Restart
  <1>3. CASE ~(Redeliver \/ \E R \in SUBSET Runners : Restart(R))
    <2>1. faults' = faults
      BY <1>3 DEF Next, Run, Walk, vars, Publish, Switch, Elapse, Deliver, Take, TakeJob, Peek,
        Insert,
        Check, Update, Remember, Act, ActFails, WaitIsOver, WaitBegins, Branch, Leave, MoveTo,
        PersistDone, PersistError, PersistWait, Store, Resume, ReturnOk, ReturnErr
    <2>2. WaitState
      BY <2>1 DEF WaitInv
    <2>3. CASE /\ UNCHANGED <<event, job, pc, at, acts, begun>>
               /\ over \subseteq over'
      BY <2>2, <2>3 DEF WaitState, OneToken, Waiting, Parked, Active
    <2>4. CASE Publish \/ Switch \/ (\E p \in Waits : Elapse(p)) \/ UNCHANGED vars
      BY <2>3, <2>4 DEF Publish, Switch, Elapse, vars, jobVars, timeVars, runVars
    <2> QED
      BY <1>3, <2>2, <2>4, BeginWaits, RunWaits, ComeWaits, ParkWaits, ReturnWaits DEF Next, Run,
        Walk
  <1> QED
    BY <1>2, <1>3

-----------------------------------------------------------------------------
(* The theorems. *)

IInv == TypeInv /\ OneHolder /\ OrderInv /\ WaitInv

\* The invariant holds at first.
LEMMA InitInv ==
  ASSUME Init
  PROVE  IInv
  <1>1. TypeInv
    <2>1. <<0>> \in Seq(Nat) /\ Len(<<0>>) = 1
      OBVIOUS
    <2>2. <<0>> \in CursorType
      BY <2>1 DEF CursorType
    <2>3. RowType /\ TimeType /\ EnvType
      BY <2>2 DEF Init, RowType, TimeType, EnvType
    <2>4. JobType /\ RunType /\ ActsType
      BY <2>2 DEF Init, JobType, RunType, ActsType, Labels
    <2> QED
      BY <2>3, <2>4 DEF TypeInv
  <1>2. OneHolder
    BY DEF Init, OneHolder, Holders
  <1>3. RowInv /\ CursorInv /\ HolderInv /\ StepsInOrder
    BY DEF Init, RowInv, CursorInv, HolderInv, StepsInOrder, Holding
  <1>4. WaitInv
    BY DEF Init, WaitInv, WaitState, OneToken, Active
  <1> QED
    BY <1>1, <1>2, <1>3, <1>4 DEF IInv, OrderInv

\* Of every state that can be reached: types, one holder, the order of the steps, waits.
THEOREM Inductive == Spec => []IInv
  <1>1. Init => IInv
    BY InitInv
  <1>2. IInv /\ [Next]_vars => IInv'
    <2> SUFFICES ASSUME IInv, [Next]_vars PROVE IInv'
      OBVIOUS
    <2>1. TypeInv'
      BY EnvStep, JobStep, RowStep, RunStep DEF IInv, TypeInv
    <2> QED
      BY <2>1, HolderStep, OrderStep, WaitStep DEF IInv
  <1> QED
    BY <1>1, <1>2, PTL DEF Spec

\* Every variable keeps its type, for any definition and any runs: cursors are not
\* empty, and no job is tried more often than the definition allows.
THEOREM TypeCorrect == Spec => []TypeOK
  <1>1. IInv => TypeOK
    <2> SUFFICES ASSUME IInv PROVE TypeOK
      OBVIOUS
    <2>1. \A c \in CursorType : c \in Seq(Nat) \ {<< >>}
      BY CursorLength
    <2>2. at \in [Runners -> Seq(Nat) \ {<< >>}] /\ cursor \in Seq(Nat) \ {<< >>}
      BY <2>1 DEF IInv, TypeInv, RunType, RowType
    <2>3. had \in [Runners -> 0..MaxAttempts]
      BY DEF IInv, TypeInv, RunType
    <2> QED
      BY <2>2, <2>3 DEF IInv, TypeInv, RowType, JobType, TimeType, EnvType, RunType, ActsType,
        TypeOK
  <1> QED
    BY <1>1, Inductive, PTL

\* However many deliveries, retries and resumptions compete, restarts included, at most
\* one of them holds the execution.
THEOREM HeldOnce == Spec => []OneHolder
  <1>1. IInv => OneHolder
    BY DEF IInv
  <1> QED
    BY <1>1, Inductive, PTL

\* No action is executed twice or out of the order of the definition, all are of the
\* version the execution started with, and one that is completed has skipped none.
THEOREM OrderKept == Spec => []StepsInOrder
  <1>1. IInv => StepsInOrder
    BY DEF IInv, OrderInv
  <1> QED
    BY <1>1, Inductive, PTL

\* Without restarts and redeliveries no action is executed before the waits that
\* precede it are over.
THEOREM WaitsHold == Spec => []WaitsKept
  <1>1. IInv => WaitsKept
    <2> SUFFICES ASSUME IInv, faults = 0, NEW p \in begun \ over, NEW i \in 1..Len(acts)
                 PROVE  ~Before(p, acts[i][2])
      BY DEF WaitsKept
    <2>1. Before(acts[i][2], p)
      BY DEF IInv, WaitInv, WaitState, Waiting
    <2>2. p \in Seq(Nat)
      BY DEF IInv, TypeInv, TimeType, Waits, Cursors
    <2>3. acts[i][2] \in Seq(Nat)
      BY ActsAreCursors DEF IInv
    <2> QED
      BY <2>1, <2>2, <2>3, BeforeAsymmetric
  <1> QED
    BY <1>1, Inductive, PTL

=============================================================================
