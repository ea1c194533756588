---------------------------- MODULE PlatformProofs ----------------------------
(***************************************************************************)
(* Proofs about the outbox, and about the services of a platform that live  *)
(* on it, one section for each.  A theorem is about the specification of    *)
(* its part, for any values of the constants; in MCPlatform each behaviour  *)
(* of the composition is a behaviour of every service.                      *)
(***************************************************************************)
EXTENDS Outbox, PlatformParts, FunctionTheorems, FiniteSetTheorems, WellFoundedInduction, TLAPS

-----------------------------------------------------------------------------
(* The outbox, for any sets of events, handlers and dispatchers and any     *)
(* batch size (Outbox).  The invariant follows each event through a batch:  *)
(* which handlers a dispatcher is done with, and how many calls there can   *)
(* have been by then.                                                       *)


\* Dispatcher d has called h for e in its open transaction.
Done(d, e, h) == e \in marked[d] \/ (IsCurrent(d, e) /\ h \notin todo[d])

\* Locked rows are pending, and locked once.
LockInv ==
  /\ \A d \in Dispatchers : \A e \in batch[d] : row[e] = "pending"
  /\ \A c, d \in Dispatchers : \A e \in batch[c] : e \in batch[d] => c = d

CalledInv ==
  \A d \in Dispatchers, h \in Handlers : \A e \in batch[d] :
    Done(d, e, h) => tries[e][h] > 0

\* One call more than faults is possible only for a row that is published or that
\* a dispatcher is done with.
CountInv ==
  \A e \in Events, h \in Handlers :
    /\ tries[e][h] <= 1 + faults
    /\ row[e] \in {"none", "open"} => tries[e][h] = 0
    /\ row[e] = "pending" /\ e \notin Locked => tries[e][h] <= faults
    /\ \A d \in Dispatchers : e \in batch[d] /\ ~Done(d, e, h) => tries[e][h] <= faults

IInv == TypeOK /\ LockInv /\ CalledInv /\ CountInv /\ EveryHandlerCalled

-----------------------------------------------------------------------------
(* The initial states and the steps. *)

\* The invariant holds at first.
LEMMA InitIInv == Init => IInv
  BY BoundsAssumption
    DEF Init, IInv, TypeOK, LockInv, CalledInv, CountInv, EveryHandlerCalled, Locked, Done

\* A mutation moves rows that no dispatcher has seen.
LEMMA MutationStep == ASSUME IInv, NEW e \in Events, Mutation(e) PROVE IInv'
  <1>1. /\ row[e] \in {"none", "open"}
        /\ row' = [row EXCEPT ![e] = row'[e]]
        /\ row'[e] \in {"none", "open", "pending"}
        /\ UNCHANGED <<batch, marked, todo, faults, tries, ok, heard>>
    BY DEF Mutation, Write, CommitWrite, Rollback, txVars, histVars, IInv, TypeOK
  <1>2. TypeOK'
    BY <1>1 DEF IInv, TypeOK
  <1>3. LockInv'
    BY <1>1 DEF IInv, TypeOK, LockInv
  <1>4. CalledInv'
    BY <1>1 DEF IInv, CalledInv, Done, IsCurrent
  <1>5. CountInv'
    BY <1>1 DEF IInv, TypeOK, CountInv, Done, IsCurrent, Locked
  <1>6. EveryHandlerCalled'
    BY <1>1 DEF IInv, TypeOK, EveryHandlerCalled
  <1> QED
    BY <1>2, <1>3, <1>4, <1>5, <1>6 DEF IInv

\* A new batch holds only rows nobody had locked, with no handler called yet.
LEMMA SelectStep == ASSUME IInv, NEW d \in Dispatchers, Select(d) PROVE IInv'
  <1> DEFINE New == Oldest(Available, MaxBatch)
  <1>1. /\ batch[d] = {} /\ marked[d] = {}
        /\ batch' = [batch EXCEPT ![d] = New] /\ todo' = [todo EXCEPT ![d] = Handlers]
        /\ UNCHANGED <<row, marked, faults, tries, ok, heard>>
    BY DEF Select, histVars, IInv, TypeOK
  <1>2. New \subseteq Events /\ \A e \in New : row[e] = "pending" /\ e \notin Locked
    BY DEF Oldest, Available
  <1> HIDE DEF New
  <1>3. TypeOK'
    BY <1>1, <1>2 DEF IInv, TypeOK
  <1>4. \A c \in Dispatchers : c # d => batch'[c] = batch[c]
    BY <1>1 DEF IInv, TypeOK
  <1>5. batch'[d] = New
    BY <1>1 DEF IInv, TypeOK
  <1>6. LockInv'
    <2>1. \A c \in Dispatchers : \A e \in batch'[c] : row'[e] = "pending"
      BY <1>1, <1>2, <1>4, <1>5 DEF IInv, LockInv
    <2>2. \A c \in Dispatchers : \A e \in batch[c] : e \notin New
      BY <1>2 DEF Locked
    <2>3. \A b, c \in Dispatchers : \A e \in batch'[b] : e \in batch'[c] => b = c
      BY <1>4, <1>5, <2>2 DEF IInv, LockInv
    <2> QED
      BY <2>1, <2>3 DEF LockInv
  <1>7. \A c \in Dispatchers, e \in Events, h \in Handlers :
          /\ c # d => (Done(c, e, h)' <=> Done(c, e, h))
          /\ ~Done(d, e, h)'
    BY <1>1, <1>4, <1>5 DEF IInv, TypeOK, Done, IsCurrent
  <1>8. CalledInv'
    BY <1>1, <1>2, <1>4, <1>5, <1>7 DEF IInv, TypeOK, CalledInv
  <1>9. CountInv'
    BY <1>1, <1>2, <1>4, <1>5, <1>7 DEF IInv, CountInv, Locked
  <1> QED
    BY <1>1, <1>3, <1>6, <1>8, <1>9 DEF IInv, EveryHandlerCalled

\* A call is counted while its dispatcher was not done with the handler.
LEMMA HandleStep ==
  ASSUME IInv, NEW d \in Dispatchers, NEW h \in Handlers, NEW good \in BOOLEAN,
         Handle(d, h, good)
  PROVE  IInv'
  <1>1. PICK e \in Events :
          /\ IsCurrent(d, e)
          /\ tries' = [tries EXCEPT ![e][h] = @ + 1]
          /\ ok' = [ok EXCEPT ![e] = IF good THEN @ \cup {h} ELSE @]
          /\ heard' = heard \cup {x \in {e} : h = Realtime /\ d \in Serving}
    BY DEF Handle
  <1>2. /\ h \in todo[d] /\ todo' = [todo EXCEPT ![d] = @ \ {h}]
        /\ UNCHANGED <<row, batch, marked, faults>>
    BY DEF Handle
  <1>3. e \in batch[d] /\ ~Done(d, e, h) /\ row[e] = "pending"
    BY <1>1, <1>2 DEF Done, IsCurrent, IInv, LockInv
  <1>4. \A f \in Events, g \in Handlers :
          tries'[f][g] = IF f = e /\ g = h THEN tries[f][g] + 1 ELSE tries[f][g]
    BY <1>1 DEF IInv, TypeOK
  <1>5. tries' \in [Events -> [Handlers -> Nat]]
    BY <1>1 DEF IInv, TypeOK
  <1>6. TypeOK'
    <2>1. ok' \in [Events -> SUBSET Handlers] /\ heard' \subseteq Events
      <3>1. (IF good THEN ok[e] \cup {h} ELSE ok[e]) \in SUBSET Handlers
        BY DEF IInv, TypeOK
      <3>2. {x \in {e} : h = Realtime /\ d \in Serving} \subseteq Events
        OBVIOUS
      <3> QED
        BY <1>1, <3>1, <3>2 DEF IInv, TypeOK
    <2>2. todo' \in [Dispatchers -> SUBSET Handlers]
      BY <1>2 DEF IInv, TypeOK
    <2> QED
      BY <1>2, <1>5, <2>1, <2>2 DEF IInv, TypeOK
  <1>7. \A c \in Dispatchers, f \in Events, g \in Handlers :
          /\ c # d \/ f # e \/ g # h => (f \in batch[c] => (Done(c, f, g)' <=> Done(c, f, g)))
          /\ Done(d, e, h)'
    <2>1. \A c \in Dispatchers, f \in Events : IsCurrent(c, f)' <=> IsCurrent(c, f)
      BY <1>2 DEF IsCurrent
    <2>2. \A f \in Events : IsCurrent(d, f) => f = e
      BY <1>1, EventsAssumption DEF IsCurrent
    <2> QED
      BY <1>1, <1>2, <2>1, <2>2 DEF IInv, TypeOK, Done
  <1>8. CalledInv'
    BY <1>2, <1>4, <1>7, RealtimeAssumption DEF IInv, TypeOK, CalledInv
  <1>9. CountInv'
    <2>1. tries[e][h] <= faults
      BY <1>3 DEF IInv, CountInv
    <2>2. \A c \in Dispatchers : e \in batch[c] => c = d
      BY <1>3 DEF IInv, LockInv
    <2>3. e \in Locked
      BY <1>3 DEF Locked
    <2> QED
      BY <1>2, <1>3, <1>4, <1>7, <2>1, <2>2, <2>3 DEF IInv, TypeOK, CountInv, Locked
  <1>10. EveryHandlerCalled'
    BY <1>2, <1>4 DEF IInv, TypeOK, EveryHandlerCalled
  <1>11. LockInv'
    BY <1>2 DEF IInv, LockInv
  <1> QED
    BY <1>6, <1>8, <1>9, <1>10, <1>11 DEF IInv

\* A row is marked when every handler has been called for it.
LEMMA MarkStep == ASSUME IInv, NEW d \in Dispatchers, Mark(d) PROVE IInv'
  <1>1. PICK e \in Events : IsCurrent(d, e) /\ marked' = [marked EXCEPT ![d] = @ \cup {e}]
    BY DEF Mark
  <1>2. /\ todo[d] = {} /\ todo' = [todo EXCEPT ![d] = Handlers]
        /\ UNCHANGED <<row, batch, faults, tries, ok, heard>>
    BY DEF Mark, Published, histVars
  <1>3. TypeOK'
    BY <1>1, <1>2 DEF IInv, TypeOK, IsCurrent
  <1>4. \A c \in Dispatchers, f \in Events, h \in Handlers : f \in batch[c] =>
          (Done(c, f, h)' <=> Done(c, f, h))
    <2>1. \A f \in Events : IsCurrent(d, f) => f = e
      BY <1>1, EventsAssumption DEF IsCurrent
    <2>2. \A c \in Dispatchers \ {d} : marked'[c] = marked[c] /\ todo'[c] = todo[c]
      BY <1>1, <1>2 DEF IInv, TypeOK
    <2>3. marked'[d] = marked[d] \cup {e} /\ todo'[d] = Handlers
      BY <1>1, <1>2 DEF IInv, TypeOK
    <2> QED
      BY <1>1, <1>2, <2>1, <2>2, <2>3 DEF Done, IsCurrent
  <1> QED
    BY <1>2, <1>3, <1>4
    DEF IInv, TypeOK, LockInv, CalledInv, CountInv, EveryHandlerCalled, Locked

\* What is committed as published has been given to every handler.
LEMMA CommitBatchStep == ASSUME IInv, NEW d \in Dispatchers, CommitBatch(d) PROVE IInv'
  <1>1. /\ marked[d] = batch[d]
        /\ row' = [e \in Events |-> IF e \in marked[d] THEN "published" ELSE row[e]]
        /\ batch' = [batch EXCEPT ![d] = {}] /\ marked' = [marked EXCEPT ![d] = {}]
        /\ todo' = [todo EXCEPT ![d] = {}]
        /\ UNCHANGED <<faults, tries, ok, heard>>
    BY DEF CommitBatch, Release, histVars
  <1>2. TypeOK'
    BY <1>1 DEF IInv, TypeOK
  <1>3. /\ batch'[d] = {}
        /\ \A c \in Dispatchers \ {d} : /\ batch'[c] = batch[c] /\ marked'[c] = marked[c]
                                        /\ todo'[c] = todo[c]
    BY <1>1 DEF IInv, TypeOK
  <1>4. \A c \in Dispatchers, e \in Events, h \in Handlers :
          e \in batch'[c] => c # d /\ e \in batch[c] /\ e \notin batch[d]
                             /\ (Done(c, e, h)' <=> Done(c, e, h))
    BY <1>3 DEF IInv, LockInv, Done, IsCurrent
  <1>5. LockInv'
    BY <1>1, <1>4 DEF IInv, TypeOK, LockInv
  <1>6. CalledInv'
    BY <1>1, <1>2, <1>4 DEF IInv, TypeOK, CalledInv
  <1>7. CountInv'
    BY <1>1, <1>3, <1>4 DEF IInv, TypeOK, CountInv, Locked
  <1>8. EveryHandlerCalled'
    BY <1>1 DEF IInv, TypeOK, EveryHandlerCalled, CalledInv, Done
  <1> QED
    BY <1>2, <1>5, <1>6, <1>7, <1>8 DEF IInv

\* A fault gives the batch back and allows one call more.
LEMMA FaultStep == ASSUME IInv, NEW d \in Dispatchers, Fault(d) PROVE IInv'
  <1>1. /\ batch' = [batch EXCEPT ![d] = {}] /\ marked' = [marked EXCEPT ![d] = {}]
        /\ todo' = [todo EXCEPT ![d] = {}]
        /\ faults' = faults + 1 /\ faults' <= MaxFaults
        /\ UNCHANGED <<row, tries, ok, heard>>
    BY BoundsAssumption DEF Fault, Release, histVars, IInv, TypeOK
  <1>2. TypeOK'
    BY <1>1 DEF IInv, TypeOK
  <1>3. /\ batch'[d] = {}
        /\ \A c \in Dispatchers \ {d} : /\ batch'[c] = batch[c] /\ marked'[c] = marked[c]
                                        /\ todo'[c] = todo[c]
    BY <1>1 DEF IInv, TypeOK
  <1>4. \A c \in Dispatchers, e \in Events, h \in Handlers :
          e \in batch'[c] => c # d /\ e \in batch[c] /\ (Done(c, e, h)' <=> Done(c, e, h))
    BY <1>3 DEF Done, IsCurrent
  <1>5. LockInv'
    BY <1>1, <1>4 DEF IInv, LockInv
  <1>6. CalledInv'
    BY <1>1, <1>2, <1>4 DEF IInv, TypeOK, CalledInv
  <1>7. CountInv'
    BY <1>1 DEF IInv, TypeOK, CountInv
  <1> QED
    BY <1>1, <1>2, <1>5, <1>6, <1>7 DEF IInv, EveryHandlerCalled

-----------------------------------------------------------------------------
(* The theorems. *)

\* It holds in every state that can be reached.
LEMMA Inductive == Spec => []IInv
  <1>1. IInv /\ [Next]_vars => IInv'
    <2> SUFFICES ASSUME IInv, [Next]_vars PROVE IInv'
      OBVIOUS
    <2>1. CASE UNCHANGED vars
      BY <2>1 DEF vars, txVars, histVars, IInv, TypeOK, LockInv, CalledInv, CountInv,
                  EveryHandlerCalled, Locked, Done, IsCurrent
    <2>2. CASE \E e \in Events : Mutation(e)
      BY <2>2, MutationStep
    <2>3. CASE \E d \in Dispatchers : Dispatch(d) \/ Fault(d)
      BY <2>3, SelectStep, HandleStep, MarkStep, CommitBatchStep, FaultStep DEF Dispatch
    <2> QED
      BY <2>1, <2>2, <2>3 DEF Next
  <1> QED
    BY InitIInv, <1>1, PTL DEF Spec

\* Every variable keeps its type.
THEOREM TypeCorrect == Spec => []TypeOK
  <1>1. IInv => TypeOK
    BY DEF IInv
  <1> QED
    BY <1>1, Inductive, PTL

\* Handlers see events of committed mutations only.
THEOREM CommittedOnly == Spec => []OnlyCommitted
  <1>1. IInv => OnlyCommitted
    BY DEF IInv, TypeOK, CountInv, OnlyCommitted
  <1> QED
    BY <1>1, Inductive, PTL

\* Delivery is at least once to every handler, through any crash.
THEOREM AtLeastOnce == Spec => []EveryHandlerCalled
  <1>1. IInv => EveryHandlerCalled
    BY DEF IInv
  <1> QED
    BY <1>1, Inductive, PTL

\* Without faults delivery is at most once, however many dispatchers run.
THEOREM AtMostOncePerFault == Spec => []DuplicatesOnlyFromFaults
  <1>1. IInv => DuplicatesOnlyFromFaults
    BY DEF IInv, CountInv, DuplicatesOnlyFromFaults
  <1> QED
    BY <1>1, Inductive, PTL

\* No dispatcher delivers a published event again.
THEOREM PublishedStays == Spec => PublishedIsOver
  <1> DEFINE Over == \A e \in Events : row[e] = "published" =>
                       row'[e] = "published" /\ tries'[e] = tries[e]
  <1>1. IInv /\ [Next]_vars => [Over]_vars
    <2> SUFFICES ASSUME IInv, Next PROVE Over
      BY DEF vars
    <2>1. ASSUME NEW e \in Events, Mutation(e) PROVE Over
      BY <2>1 DEF Mutation, Write, CommitWrite, Rollback, histVars, IInv, TypeOK
    <2>2. ASSUME NEW d \in Dispatchers, Select(d) \/ Mark(d) \/ Fault(d) PROVE Over
      BY <2>2 DEF Select, Mark, Fault, histVars
    <2>3. ASSUME NEW d \in Dispatchers, CommitBatch(d) PROVE Over
      BY <2>3 DEF CommitBatch, histVars, IInv, TypeOK
    <2>4. ASSUME NEW d \in Dispatchers, NEW h \in Handlers, NEW good \in BOOLEAN,
                 Handle(d, h, good)
          PROVE  Over
      BY <2>4 DEF Handle, IsCurrent, IInv, TypeOK, LockInv
    <2> QED
      BY <2>1, <2>2, <2>3, <2>4 DEF Next, Dispatch
  <1> QED
    BY Inductive, <1>1, PTL DEF Spec, PublishedIsOver

\* A set of natural numbers that is not empty has a least element.
LEMMA LeastNat ==
  ASSUME NEW S \in SUBSET Nat, S # {}
  PROVE  \E x \in S : \A y \in S : x <= y
  <1> DEFINE less == OpToRel(<, Nat)
  <1>1. \A x, y \in Nat : x < y => <<x, y>> \in less
    BY DEF OpToRel
  <1>2. IsWellFoundedOn(less, Nat)
    BY NatLessThanWellFounded
  <1> HIDE DEF less
  <1>3. PICK x \in S : \A y \in S : ~(<<y, x>> \in less)
    BY <1>2, WFMin
  <1>4. ASSUME NEW y \in S PROVE x <= y
    <2>1. x \in Nat /\ y \in Nat /\ ~(y < x)
      BY <1>1, <1>3
    <2> QED
      BY <2>1
  <1> QED
    BY <1>4

-----------------------------------------------------------------------------
(* Chains of automations (Chains). *)

ChainRows == [name : STRING, depth : Nat, counted : BOOLEAN, parent : Nat, done : BOOLEAN]
ChainFrame == [rows : SUBSET Nat, at : Nat \ {0}, held : BOOLEAN]
ChainSteps == {"idle", "change", "dispatch", "next", "claim", "remember", "act", "persist", "settle",
          "failed"}
ChainTable(T, V) == T \in [DOMAIN T -> V]

ChainTypeInv ==
  /\ outbox \in Seq(ChainRows)
  /\ ChainTable(runs, {"running", "retrying", "completed"})
  /\ ChainTable(retries, Nat) /\ ChainTable(cmade, Nat)
  /\ stack \in [Chain!Callers -> Seq(ChainFrame)] /\ cpc \in [Chain!Callers -> ChainSteps]
  /\ fails \in Nat /\ hurt \subseteq Nat

\* The place of a call in its nth frame: an inner dispatch is at work above one that is
\* not the last.
ChainPlace(c, n) == IF n < Len(stack[c]) THEN "below" ELSE cpc[c]
\* It is about an automation.
ChainEngaged(c, n) == ChainPlace(c, n) # "next"
ChainWants(n, e) == n \in DOMAIN Automations /\ Chain!matches_event(Automations[n], outbox[e])

\* A frame has its events, and what it is about wants the first of them; the job of a
\* loop lies at the bottom.
ChainFrameOk(c, n) ==
  /\ stack[c][n].rows \subseteq Chain!Events
  /\ ChainEngaged(c, n) => stack[c][n].rows # {} /\ ChainWants(stack[c][n].at, Chain!Min(stack[c][n].rows))
  /\ stack[c][n].held => \A e \in stack[c][n].rows : ~outbox[e].done
  /\ ~stack[c][n].held => n = 1 /\ c \in Pollers /\ ChainEngaged(c, n)
ChainFrameInv == \A c \in Chain!Callers : \A n \in DOMAIN stack[c] : ChainFrameOk(c, n)

\* Only a dispatch, or nothing, needs no frame.
ChainPlaceInv ==
  \A c \in Chain!Callers :
    /\ cpc[c] \in {"idle", "change"} => stack[c] = << >>
    /\ stack[c] = << >> => cpc[c] \in {"idle", "change", "dispatch"}
    /\ cpc[c] = "change" => c \in Writers

\* Dispatchers have different events, loops different jobs.
ChainApartInv ==
  \A c, k \in Chain!Callers : \A n \in DOMAIN stack[c], m \in DOMAIN stack[k] :
    c # k \/ n # m =>
      /\ stack[c][n].held /\ stack[k][m].held => stack[c][n].rows \cap stack[k][m].rows = {}
      /\ ~stack[c][n].held /\ ~stack[k][m].held => Chain!RunOf(stack[c][n]) # Chain!RunOf(stack[k][m])

\* An event of a counted change is one deeper than the one that led to it.
ChainDepthInv ==
  \A e \in Chain!Events :
    IF outbox[e].counted
      THEN /\ outbox[e].parent \in Chain!Events /\ outbox[e].parent < e
           /\ outbox[e].depth = outbox[outbox[e].parent].depth + 1
      ELSE outbox[e].depth = 0

\* Whatever has run was below its limit.
ChainLimitInv ==
  \A run \in DOMAIN runs \cup DOMAIN retries :
    \E n \in DOMAIN Automations, e \in Chain!Events : run = <<Automations[n], e>> /\ ChainWants(n, e)

\* What a run has come to is what its call has done.
ChainRunOk(c, n) ==
  LET frame == stack[c][n]
      run == Chain!RunOf(frame)
      place == ChainPlace(c, n)
  IN
  /\ ~frame.held => run \in DOMAIN retries
  /\ ChainEngaged(c, n) /\ run[2] \notin hurt =>
       /\ frame.held => run \notin DOMAIN retries
       /\ place = "claim" => Chain!Status(run) = IF frame.held THEN "absent" ELSE "retrying"
       /\ place \in {"remember", "act", "persist"} =>
            Chain!Status(run) = "running" /\ run \notin DOMAIN cmade
       /\ place = "failed" => Chain!Status(run) = "retrying"
       /\ place \in {"dispatch", "below", "settle"} => Chain!Status(run) = "running"
ChainRunInv == \A c \in Chain!Callers : \A n \in DOMAIN stack[c] : ChainRunOk(c, n)

\* An action that was carried out was so once, and is not tried again.
ChainMadeInv ==
  \A run \in DOMAIN cmade :
    run[2] \notin hurt => cmade[run] = 1 /\ Chain!Status(run) \in {"running", "completed"}

\* A job that nobody has is one of a run that has failed.
ChainTaken(run) == \E k \in Pollers : stack[k] # << >> /\ ~stack[k][1].held /\ Chain!RunOf(stack[k][1]) = run
ChainJobInv ==
  \A run \in DOMAIN retries : run[2] \notin hurt => Chain!Status(run) = "retrying" \/ ChainTaken(run)

\* A dispatcher has carried out the automations before its place, or left a job; those
\* that follow have not begun.
ChainCarried(run) == Chain!Status(run) = "completed" \/ run \in DOMAIN retries
ChainUnbegun(run) == run \notin DOMAIN runs /\ run \notin DOMAIN retries
ChainPassedOk(c, n, e, i) ==
  IF e = Chain!Min(stack[c][n].rows)
    THEN /\ i < stack[c][n].at /\ ChainWants(i, e) => ChainCarried(<<Automations[i], e>>)
         /\ i > stack[c][n].at \/ (i = stack[c][n].at /\ ~ChainEngaged(c, n)) =>
              ChainUnbegun(<<Automations[i], e>>)
    ELSE ChainUnbegun(<<Automations[i], e>>)
ChainPassedInv ==
  \A c \in Chain!Callers : \A n \in DOMAIN stack[c] :
    stack[c][n].held =>
      \A e \in stack[c][n].rows \ hurt : \A i \in DOMAIN Automations : ChainPassedOk(c, n, e, i)

\* Nor has one of an event that waits; of a published one all are carried out.
ChainWaitingOk(e, i) ==
  IF outbox[e].done THEN ChainWants(i, e) => ChainCarried(<<Automations[i], e>>) ELSE ChainUnbegun(<<Automations[i], e>>)
ChainWaitingInv == \A e \in Chain!Events \ (Chain!Locked \cup hurt) : \A i \in DOMAIN Automations : ChainWaitingOk(e, i)

ChainIInv ==
  /\ ChainTypeInv /\ ChainFrameInv /\ ChainPlaceInv /\ ChainApartInv /\ ChainDepthInv /\ ChainLimitInv
  /\ ChainRunInv /\ ChainMadeInv /\ ChainJobInv /\ ChainPassedInv /\ ChainWaitingInv

ChainBusy == ChainSteps \ {"idle", "change", "next"}

\* What the assumption says of the constants.
LEMMA ChainConstants ==
  /\ Automations \in Seq(STRING) /\ \A m, n \in DOMAIN Automations : Automations[m] = Automations[n] => m = n
  /\ DOMAIN Automations = 1..Len(Automations) /\ Len(Automations) \in Nat
  /\ \A n \in DOMAIN Automations : Automations[n] \in Chain!Names
  /\ Changed \in STRING /\ DepthLimit \in [Chain!Names -> Nat]
  /\ Effects \in [Chain!Names -> Seq([name : STRING, counted : BOOLEAN])]
  /\ \A c \in Writers : c \notin Pollers
  BY ChainsAre DEF Chain!ChainsAssumption, Chain!Names

\* The least event of a frame is one of its events.
LEMMA ChainMinIs ==
  ASSUME NEW S \in SUBSET Nat, S # {}
  PROVE  Chain!Min(S) \in S /\ \A y \in S : Chain!Min(S) <= y
  BY LeastNat DEF Chain!Min

\* The innermost frame of a call.
LEMMA ChainTopIs ==
  ASSUME ChainTypeInv, NEW c \in Chain!Callers, stack[c] # << >>
  PROVE  /\ Len(stack[c]) \in Nat \ {0} /\ DOMAIN stack[c] = 1..Len(stack[c])
         /\ Len(stack[c]) \in DOMAIN stack[c]
         /\ Chain!Top(c) = stack[c][Len(stack[c])] /\ Chain!Top(c) \in ChainFrame
  <1>1. stack[c] \in Seq(ChainFrame)
    BY DEF ChainTypeInv
  <1> QED
    BY <1>1 DEF Chain!Top, Chain!Last

\* What it is to change the innermost frame.
LEMMA ChainSetTopIs ==
  ASSUME ChainTypeInv, NEW c \in Chain!Callers, stack[c] # << >>, NEW frame \in ChainFrame,
         Chain!SetTop(c, frame)
  PROVE  /\ stack' \in [Chain!Callers -> Seq(ChainFrame)]
         /\ \A k \in Chain!Callers : Len(stack'[k]) = Len(stack[k]) /\ DOMAIN stack'[k] = DOMAIN stack[k]
         /\ \A k \in Chain!Callers : \A n \in DOMAIN stack[k] :
              stack'[k][n] = IF k = c /\ n = Len(stack[c]) THEN frame ELSE stack[k][n]
         /\ \A k \in Chain!Callers : stack'[k] = << >> <=> stack[k] = << >>
  <1> DEFINE t == Len(stack[c])
  <1> DEFINE s == [stack[c] EXCEPT ![t] = frame]
  <1>1. \A k \in Chain!Callers : stack[k] \in Seq(ChainFrame)
    BY DEF ChainTypeInv
  <1>2. s \in Seq(ChainFrame) /\ Len(s) = Len(stack[c]) /\ DOMAIN s = DOMAIN stack[c] /\ s # << >>
    BY <1>1, ChainTopIs
  <1>3. \A n \in DOMAIN stack[c] : s[n] = IF n = t THEN frame ELSE stack[c][n]
    OBVIOUS
  <1>4. stack' = [stack EXCEPT ![c] = s] /\ stack \in [Chain!Callers -> Seq(ChainFrame)]
    BY DEF Chain!SetTop, ChainTypeInv
  <1> HIDE DEF s
  <1> QED
    BY <1>1, <1>2, <1>3, <1>4

\* What it is to take up another frame.
LEMMA ChainPushIs ==
  ASSUME ChainTypeInv, NEW c \in Chain!Callers, NEW frame \in ChainFrame, Chain!Push(c, frame)
  PROVE  /\ stack' \in [Chain!Callers -> Seq(ChainFrame)]
         /\ \A k \in Chain!Callers \ {c} : stack'[k] = stack[k]
         /\ Len(stack'[c]) = Len(stack[c]) + 1 /\ stack'[c] # << >>
         /\ DOMAIN stack'[c] = DOMAIN stack[c] \cup {Len(stack[c]) + 1}
         /\ \A n \in DOMAIN stack[c] :
              stack'[c][n] = stack[c][n] /\ n <= Len(stack[c]) /\ n \in Nat
         /\ stack'[c][Len(stack[c]) + 1] = frame /\ Len(stack[c]) \in Nat
         /\ Len(stack[c]) + 1 \notin DOMAIN stack[c]
         /\ stack[c] # << >> => Len(stack[c]) \in DOMAIN stack[c]
  <1> DEFINE s == Append(stack[c], frame)
  <1>1. \A k \in Chain!Callers : stack[k] \in Seq(ChainFrame)
    BY DEF ChainTypeInv
  <1>2. /\ s \in Seq(ChainFrame) /\ Len(s) = Len(stack[c]) + 1 /\ s # << >>
        /\ DOMAIN s = DOMAIN stack[c] \cup {Len(stack[c]) + 1}
    BY <1>1
  <1>3. /\ \A n \in DOMAIN stack[c] : s[n] = stack[c][n] /\ n <= Len(stack[c]) /\ n \in Nat
        /\ s[Len(stack[c]) + 1] = frame /\ Len(stack[c]) \in Nat
        /\ Len(stack[c]) + 1 \notin DOMAIN stack[c]
        /\ stack[c] # << >> => Len(stack[c]) \in DOMAIN stack[c]
    BY <1>1
  <1>4. stack' = [stack EXCEPT ![c] = s] /\ stack \in [Chain!Callers -> Seq(ChainFrame)]
    BY DEF Chain!Push, ChainTypeInv
  <1> HIDE DEF s
  <1> QED
    BY <1>1, <1>2, <1>3, <1>4

\* What it is to leave the innermost frame.
LEMMA ChainPopIs ==
  ASSUME ChainTypeInv, NEW c \in Chain!Callers, stack[c] # << >>, Chain!Pop(c)
  PROVE  /\ stack' \in [Chain!Callers -> Seq(ChainFrame)]
         /\ \A k \in Chain!Callers \ {c} : stack'[k] = stack[k]
         /\ stack'[c] = Chain!Front(stack[c])
         /\ Len(stack'[c]) = Len(stack[c]) - 1
         /\ DOMAIN stack'[c] = DOMAIN stack[c] \ {Len(stack[c])}
         /\ \A n \in DOMAIN stack'[c] : stack'[c][n] = stack[c][n] /\ n < Len(stack[c])
         /\ stack'[c] = << >> <=> Len(stack[c]) = 1
         /\ stack'[c] = << >> => DOMAIN stack'[c] = {}
  <1> DEFINE s == Chain!Front(stack[c])
  <1>1. \A k \in Chain!Callers : stack[k] \in Seq(ChainFrame)
    BY DEF ChainTypeInv
  <1>2. /\ s \in Seq(ChainFrame) /\ Len(s) = Len(stack[c]) - 1
        /\ DOMAIN s = DOMAIN stack[c] \ {Len(stack[c])}
        /\ \A n \in DOMAIN s : s[n] = stack[c][n] /\ n < Len(stack[c])
    BY <1>1, ChainTopIs DEF Chain!Front
  <1>3. s = << >> <=> Len(stack[c]) = 1
    <2>1. s \in Seq(ChainFrame) => (s = << >> <=> Len(s) = 0)
      <3> HIDE DEF s
      <3> QED
        OBVIOUS
    <2> QED
      BY <1>1, <1>2, <2>1, ChainTopIs
  <1>4. stack' = [stack EXCEPT ![c] = s] /\ stack \in [Chain!Callers -> Seq(ChainFrame)]
    BY DEF Chain!Pop, ChainTypeInv
  <1>5. s = << >> => DOMAIN s = {}
    OBVIOUS
  <1> HIDE DEF s
  <1> QED
    BY <1>1, <1>2, <1>3, <1>4, <1>5 DEF Chain!Front

\* What is locked, frame by frame.
LEMMA ChainLockedIs ==
  \A e : e \in Chain!Locked <=> \E c \in Chain!Callers : \E n \in DOMAIN stack[c] :
                             stack[c][n].held /\ e \in stack[c][n].rows
  <1>1. \A f : f \in Chain!Held <=> \E c \in Chain!Callers : \E n \in DOMAIN stack[c] :
                                f = <<c, n>> /\ stack[c][n].held
    BY DEF Chain!Held, Chain!Frames
  <1>2. \A e : e \in Chain!Locked <=> \E f \in Chain!Held : e \in stack[f[1]][f[2]].rows
    BY DEF Chain!Locked
  <1>3. ASSUME NEW e, e \in Chain!Locked
        PROVE  \E c \in Chain!Callers : \E n \in DOMAIN stack[c] : stack[c][n].held /\ e \in stack[c][n].rows
    <2>1. PICK f \in Chain!Held : e \in stack[f[1]][f[2]].rows
      BY <1>2, <1>3
    <2>2. PICK c \in Chain!Callers : \E n \in DOMAIN stack[c] : f = <<c, n>> /\ stack[c][n].held
      BY <1>1, <2>1
    <2>3. PICK n \in DOMAIN stack[c] : f = <<c, n>> /\ stack[c][n].held
      BY <2>2
    <2>4. f[1] = c /\ f[2] = n
      BY <2>3
    <2> QED
      BY <2>1, <2>3, <2>4
  <1>4. ASSUME NEW e, NEW c \in Chain!Callers, NEW n \in DOMAIN stack[c],
               stack[c][n].held, e \in stack[c][n].rows
        PROVE  e \in Chain!Locked
    <2>1. <<c, n>> \in Chain!Held /\ <<c, n>>[1] = c /\ <<c, n>>[2] = n
      BY <1>1, <1>4
    <2> QED
      BY <1>2, <1>4, <2>1
  <1> QED
    BY <1>3, <1>4

\* The same in the next state.
LEMMA ChainLockedNext ==
  \A e : e \in Chain!Locked' <=> \E c \in Chain!Callers : \E n \in DOMAIN stack'[c] :
                              stack'[c][n].held /\ e \in stack'[c][n].rows
  <1>1. \A f : f \in Chain!Held' <=> \E c \in Chain!Callers : \E n \in DOMAIN stack'[c] :
                                 f = <<c, n>> /\ stack'[c][n].held
    BY DEF Chain!Held, Chain!Frames
  <1>2. \A e : e \in Chain!Locked' <=> \E f \in Chain!Held' : e \in stack'[f[1]][f[2]].rows
    BY DEF Chain!Locked
  <1>3. ASSUME NEW e, e \in Chain!Locked'
        PROVE  \E c \in Chain!Callers : \E n \in DOMAIN stack'[c] : stack'[c][n].held /\ e \in stack'[c][n].rows
    <2>1. PICK f \in Chain!Held' : e \in stack'[f[1]][f[2]].rows
      BY <1>2, <1>3
    <2>2. PICK c \in Chain!Callers : \E n \in DOMAIN stack'[c] : f = <<c, n>> /\ stack'[c][n].held
      BY <1>1, <2>1
    <2>3. PICK n \in DOMAIN stack'[c] : f = <<c, n>> /\ stack'[c][n].held
      BY <2>2
    <2>4. f[1] = c /\ f[2] = n
      BY <2>3
    <2> QED
      BY <2>1, <2>3, <2>4
  <1>4. ASSUME NEW e, NEW c \in Chain!Callers, NEW n \in DOMAIN stack'[c],
               stack'[c][n].held, e \in stack'[c][n].rows
        PROVE  e \in Chain!Locked'
    <2>1. <<c, n>> \in Chain!Held' /\ <<c, n>>[1] = c /\ <<c, n>>[2] = n
      BY <1>1, <1>4
    <2> QED
      BY <1>2, <1>4, <2>1
  <1> QED
    BY <1>3, <1>4

\* A frame that is about an automation has a run of its own, as long as none of its
\* handlers waited too long.
LEMMA ChainAlone ==
  ASSUME ChainIInv, NEW c \in Chain!Callers, NEW n \in DOMAIN stack[c],
         NEW k \in Chain!Callers, NEW m \in DOMAIN stack[k], c # k \/ n # m,
         ChainEngaged(c, n), ChainEngaged(k, m), Chain!RunOf(stack[c][n]) = Chain!RunOf(stack[k][m]),
         Chain!Min(stack[c][n].rows) \notin hurt
  PROVE  FALSE
  <1> DEFINE f == stack[c][n]
             g == stack[k][m]
  <1>1. f \in ChainFrame /\ g \in ChainFrame
    BY DEF ChainIInv, ChainTypeInv
  <1>2. f.rows # {} /\ g.rows # {} /\ f.rows \in SUBSET Nat /\ g.rows \in SUBSET Nat
    BY <1>1 DEF ChainIInv, ChainFrameInv, ChainFrameOk, ChainFrame
  <1>3. Chain!Min(f.rows) \in f.rows /\ Chain!Min(g.rows) \in g.rows /\ Chain!Min(f.rows) = Chain!Min(g.rows)
    BY <1>2, ChainMinIs DEF Chain!RunOf
  <1>4. CASE f.held /\ g.held
    BY <1>3, <1>4 DEF ChainIInv, ChainApartInv
  <1>5. CASE ~f.held /\ ~g.held
    BY <1>5 DEF ChainIInv, ChainApartInv
  <1>6. CASE f.held /\ ~g.held
    BY <1>6 DEF ChainIInv, ChainRunInv, ChainRunOk, Chain!RunOf
  <1>7. CASE ~f.held /\ g.held
    BY <1>3, <1>7 DEF ChainIInv, ChainRunInv, ChainRunOk, Chain!RunOf
  <1> QED
    BY <1>1, <1>4, <1>5, <1>6, <1>7 DEF ChainFrame

\* What a call is about while it is at work on an automation.
LEMMA ChainAtWork ==
  ASSUME ChainIInv, NEW c \in Chain!Callers, stack[c] # << >>, cpc[c] \in ChainBusy
  PROVE  /\ Len(stack[c]) \in DOMAIN stack[c] /\ Chain!Top(c) = stack[c][Len(stack[c])]
         /\ Chain!Top(c) \in ChainFrame /\ ChainEngaged(c, Len(stack[c])) /\ ChainPlace(c, Len(stack[c])) = cpc[c]
         /\ Chain!Top(c).rows # {} /\ Chain!Event(c) \in Chain!Top(c).rows /\ Chain!Event(c) \in Chain!Events
         /\ Chain!Event(c) \in Nat /\ Chain!Top(c).at \in DOMAIN Automations /\ ChainWants(Chain!Top(c).at, Chain!Event(c))
         /\ Chain!Run(c) = Chain!RunOf(Chain!Top(c)) /\ Chain!Run(c) = <<Automations[Chain!Top(c).at], Chain!Event(c)>>
         /\ Chain!Run(c)[2] = Chain!Event(c)
         /\ ChainFrameOk(c, Len(stack[c])) /\ ChainRunOk(c, Len(stack[c]))
  <1>1. /\ Len(stack[c]) \in DOMAIN stack[c] /\ Chain!Top(c) = stack[c][Len(stack[c])]
        /\ Chain!Top(c) \in ChainFrame /\ Len(stack[c]) \in Nat
    BY ChainTopIs DEF ChainIInv
  <1>2. ChainPlace(c, Len(stack[c])) = cpc[c]
    BY <1>1 DEF ChainPlace
  <1>3. ChainEngaged(c, Len(stack[c]))
    BY <1>2 DEF ChainEngaged, ChainBusy
  <1>4. ChainFrameOk(c, Len(stack[c])) /\ ChainRunOk(c, Len(stack[c]))
    BY <1>1 DEF ChainIInv, ChainFrameInv, ChainRunInv
  <1>5. Chain!Top(c).rows # {} /\ ChainWants(Chain!Top(c).at, Chain!Event(c)) /\ Chain!Top(c).rows \subseteq Chain!Events
    BY <1>1, <1>3, <1>4 DEF ChainFrameOk, Chain!Event
  <1>6. Chain!Event(c) \in Chain!Top(c).rows /\ Chain!Event(c) \in Nat
    <2>1. Chain!Top(c).rows \in SUBSET Nat
      BY <1>1 DEF ChainFrame
    <2> QED
      BY <1>5, <2>1, ChainMinIs DEF Chain!Event
  <1> QED
    BY <1>1, <1>2, <1>3, <1>4, <1>5, <1>6 DEF ChainWants, Chain!Run, Chain!RunOf, Chain!Event

\* The outbox as it was, with further events.
ChainGrown ==
  /\ outbox' \in Seq(ChainRows) /\ Chain!Events \subseteq Chain!Events'
  /\ \A e \in Chain!Events : outbox'[e] = outbox[e]
  /\ \A e \in Chain!Events' \ Chain!Events : ~outbox'[e].done /\ \A f \in Chain!Events : f < e
  /\ \A e \in Chain!Events' \ Chain!Events :
       IF outbox'[e].counted
         THEN /\ outbox'[e].parent \in Chain!Events
              /\ outbox'[e].depth = outbox[outbox'[e].parent].depth + 1
         ELSE outbox'[e].depth = 0

\* An outbox that stays has not lost anything.
LEMMA ChainStays ==
  ASSUME ChainTypeInv, UNCHANGED outbox
  PROVE  ChainGrown
  BY DEF ChainTypeInv, ChainGrown, Chain!Events

\* What automations want of old events stays the same.
LEMMA ChainGrownIs ==
  ASSUME ChainTypeInv, ChainDepthInv, ChainGrown
  PROVE  /\ \A n : \A e \in Chain!Events : ChainWants(n, e)' <=> ChainWants(n, e)
         /\ ChainDepthInv'
  <1>1. \A n : \A e \in Chain!Events : ChainWants(n, e)' <=> ChainWants(n, e)
    BY DEF ChainWants, Chain!matches_event, ChainGrown
  <1>2. ChainDepthInv'
    BY DEF ChainDepthInv, ChainGrown
  <1> QED
    BY <1>1, <1>2

\* A step that leaves the frames alone, and changes the place of a call.
LEMMA ChainWithinStep ==
  ASSUME ChainIInv, NEW c \in Chain!Callers, NEW l \in ChainSteps, Chain!Goto(c, l), ChainGrown,
         UNCHANGED stack,
         stack[c] # << >> => cpc[c] \in ChainBusy /\ l \in ChainBusy,
         stack[c] = << >> => l \in {"idle", "dispatch"}
  PROVE  /\ ChainFrameInv' /\ ChainPlaceInv' /\ ChainApartInv' /\ ChainDepthInv' /\ cpc' \in [Chain!Callers -> ChainSteps]
         /\ \A k \in Chain!Callers : \A n \in DOMAIN stack[k] : ChainEngaged(k, n)' <=> ChainEngaged(k, n)
         /\ \A k \in Chain!Callers : \A n \in DOMAIN stack[k] :
              ChainPlace(k, n)' = IF k = c /\ n = Len(stack[c]) THEN l ELSE ChainPlace(k, n)
         /\ \A e : e \in Chain!Locked' <=> e \in Chain!Locked
         /\ \A run : ChainTaken(run)' <=> ChainTaken(run)
         /\ \A n : \A e \in Chain!Events : ChainWants(n, e)' <=> ChainWants(n, e)
  <1>1. /\ \A k \in Chain!Callers : cpc'[k] = IF k = c THEN l ELSE cpc[k]
        /\ cpc' \in [Chain!Callers -> ChainSteps]
    BY DEF ChainIInv, ChainTypeInv, Chain!Goto, ChainBusy
  <1>2. \A k \in Chain!Callers : \A n \in DOMAIN stack[k] :
          n \in 1..Len(stack[k]) /\ Len(stack[k]) \in Nat /\ stack[k] # << >>
    BY DEF ChainIInv, ChainTypeInv
  <1>3. \A k \in Chain!Callers : \A n \in DOMAIN stack[k] :
          ChainPlace(k, n)' = IF k = c /\ n = Len(stack[c]) THEN l ELSE ChainPlace(k, n)
    BY <1>1, <1>2 DEF ChainPlace
  <1>4. stack[c] # << >> => ChainPlace(c, Len(stack[c])) = cpc[c]
    BY ChainAtWork
  <1>5. \A k \in Chain!Callers : \A n \in DOMAIN stack[k] : ChainEngaged(k, n)' <=> ChainEngaged(k, n)
    BY <1>2, <1>3, <1>4 DEF ChainEngaged, ChainBusy
  <1>6. ChainDepthInv' /\ \A n : \A e \in Chain!Events : ChainWants(n, e)' <=> ChainWants(n, e)
    BY ChainGrownIs DEF ChainIInv
  <1>7. ChainFrameInv'
    <2>1. ASSUME NEW k \in Chain!Callers, NEW n \in DOMAIN stack[k] PROVE ChainFrameOk(k, n)'
      <3>1. ChainFrameOk(k, n) /\ stack[k][n] \in ChainFrame
        BY DEF ChainIInv, ChainFrameInv, ChainTypeInv
      <3>2. stack[k][n].rows # {} => Chain!Min(stack[k][n].rows) \in Chain!Events
        BY <3>1, ChainMinIs DEF ChainFrameOk, ChainFrame
      <3> QED
        BY <1>5, <1>6, <3>1, <3>2 DEF ChainFrameOk, ChainGrown
    <2> QED
      BY <2>1 DEF ChainFrameInv
  <1>8. ChainPlaceInv'
    BY <1>1 DEF ChainIInv, ChainPlaceInv, ChainBusy
  <1>9. ChainApartInv'
    BY DEF ChainIInv, ChainApartInv, Chain!RunOf
  <1>10. \A e : e \in Chain!Locked' <=> e \in Chain!Locked
    BY ChainLockedIs, ChainLockedNext
  <1>11. \A run : ChainTaken(run)' <=> ChainTaken(run)
    BY DEF ChainTaken, Chain!RunOf
  <1> QED
    BY <1>1, <1>3, <1>5, <1>6, <1>7, <1>8, <1>9, <1>10, <1>11

\* A run that has none of the frames but that of c.
LEMMA ChainOthersApart ==
  ASSUME ChainIInv, NEW c \in Chain!Callers, stack[c] # << >>, cpc[c] \in ChainBusy,
         NEW k \in Chain!Callers, NEW n \in DOMAIN stack[k], k # c \/ n # Len(stack[c])
  PROVE  /\ ChainEngaged(k, n) /\ Chain!RunOf(stack[k][n])[2] \notin hurt => Chain!RunOf(stack[k][n]) # Chain!Run(c)
         /\ ~Chain!Top(c).held /\ ~stack[k][n].held => Chain!RunOf(stack[k][n]) # Chain!Run(c)
         /\ Chain!Top(c).held /\ stack[k][n].held => Chain!Event(c) \notin stack[k][n].rows
  <1>1. ChainEngaged(k, n) /\ Chain!RunOf(stack[k][n])[2] \notin hurt => Chain!RunOf(stack[k][n]) # Chain!Run(c)
    <2>1. SUFFICES ASSUME ChainEngaged(k, n), Chain!Event(c) \notin hurt, Chain!RunOf(stack[k][n]) = Chain!Run(c)
                   PROVE  FALSE
      BY ChainAtWork
    <2>2. Chain!Min(stack[c][Len(stack[c])].rows) \notin hurt
      BY <2>1, ChainAtWork DEF Chain!Event
    <2> QED
      BY <2>1, <2>2, ChainAtWork, ChainAlone
  <1>2. ~Chain!Top(c).held /\ ~stack[k][n].held => Chain!RunOf(stack[k][n]) # Chain!Run(c)
    BY ChainAtWork DEF ChainIInv, ChainApartInv
  <1>3. Chain!Top(c).held /\ stack[k][n].held => Chain!Event(c) \notin stack[k][n].rows
    BY ChainAtWork DEF ChainIInv, ChainApartInv
  <1> QED
    BY <1>1, <1>2, <1>3

\* A step of a call within an automation, which changes what there is of that run only.
LEMMA ChainWorkStep ==
  ASSUME ChainIInv, NEW c \in Chain!Callers, stack[c] # << >>, cpc[c] \in ChainBusy,
         NEW l \in ChainBusy, Chain!Goto(c, l),
         NEW r, r = Chain!Run(c),
         ChainGrown, UNCHANGED <<stack, retries>>, ChainTypeInv',
         DOMAIN runs' \subseteq DOMAIN runs \cup {r},
         \A run : run # r => Chain!Status(run)' = Chain!Status(run),
         \A run : run # r => (run \in DOMAIN cmade' <=> run \in DOMAIN cmade),
         \A run \in DOMAIN cmade : run # r => cmade'[run] = cmade[run],
         hurt \subseteq hurt', hurt' \subseteq hurt \cup {Chain!Event(c)},
         Chain!Event(c) \notin hurt' =>
           /\ l = "claim" => Chain!Status(r)' = IF Chain!Top(c).held THEN "absent" ELSE "retrying"
           /\ l \in {"remember", "act", "persist"} =>
                Chain!Status(r)' = "running" /\ r \notin DOMAIN cmade'
           /\ l = "failed" => Chain!Status(r)' = "retrying"
           /\ l \in {"dispatch", "settle"} => Chain!Status(r)' = "running"
           /\ r \in DOMAIN cmade' =>
                cmade'[r] = 1 /\ Chain!Status(r)' \in {"running", "completed"}
  PROVE  ChainIInv'
  <1> DEFINE t == Len(stack[c])
  <1>2. r[2] = Chain!Event(c) /\ r = Chain!RunOf(stack[c][t]) /\ stack[c][t] = Chain!Top(c)
    BY ChainAtWork
  <1>3. /\ ChainFrameInv' /\ ChainPlaceInv' /\ ChainApartInv' /\ ChainDepthInv'
        /\ \A k \in Chain!Callers : \A n \in DOMAIN stack[k] : ChainEngaged(k, n)' <=> ChainEngaged(k, n)
        /\ \A k \in Chain!Callers : \A n \in DOMAIN stack[k] :
             ChainPlace(k, n)' = IF k = c /\ n = t THEN l ELSE ChainPlace(k, n)
        /\ \A e : e \in Chain!Locked' <=> e \in Chain!Locked
        /\ \A run : ChainTaken(run)' <=> ChainTaken(run)
    BY ChainWithinStep DEF ChainBusy
  <1>4. \A run : run # r => (ChainCarried(run)' <=> ChainCarried(run)) /\ (ChainUnbegun(run) => ChainUnbegun(run)')
    BY DEF ChainCarried, ChainUnbegun
  <1>5. /\ \A n : \A e \in Chain!Events : ChainWants(n, e)' <=> ChainWants(n, e)
        /\ Chain!Events \subseteq Chain!Events'
    BY ChainGrownIs DEF ChainIInv, ChainGrown
  <1>6. r \in DOMAIN retries => ChainCarried(r)'
    BY DEF ChainCarried
  <1>7. ChainLimitInv'
    <2>1. \E n \in DOMAIN Automations, e \in Chain!Events : r = <<Automations[n], e>> /\ ChainWants(n, e)
      BY ChainAtWork
    <2> QED
      BY <1>5, <2>1 DEF ChainIInv, ChainLimitInv
  <1>8. ChainRunInv'
    <2>1. ASSUME NEW k \in Chain!Callers, NEW n \in DOMAIN stack[k], k # c \/ n # t PROVE ChainRunOk(k, n)'
      <3>1. ChainRunOk(k, n)
        BY DEF ChainIInv, ChainRunInv
      <3>2. (ChainEngaged(k, n) /\ Chain!RunOf(stack[k][n])[2] \notin hurt) => Chain!RunOf(stack[k][n]) # r
        BY <2>1, ChainOthersApart
      <3> QED
        BY <1>3, <2>1, <3>1, <3>2 DEF ChainRunOk, Chain!RunOf
    <2>2. ChainRunOk(c, t)'
      BY <1>2, <1>3, ChainAtWork DEF ChainRunOk, ChainBusy, ChainSteps, Chain!RunOf
    <2> QED
      BY <2>1, <2>2 DEF ChainRunInv
  <1>9. ChainMadeInv'
    BY <1>2 DEF ChainIInv, ChainMadeInv
  <1>10. ChainJobInv'
    <2>2. r \in DOMAIN retries /\ r[2] \notin hurt => ChainTaken(r)
      BY <1>2, ChainAtWork DEF ChainRunOk, ChainTaken, ChainIInv, ChainFrameOk
    <2> QED
      BY <1>3, <2>2 DEF ChainIInv, ChainJobInv
  <1>11. ChainPassedInv'
    <2>1. ASSUME NEW k \in Chain!Callers, NEW n \in DOMAIN stack[k], stack[k][n].held,
                 NEW e \in stack[k][n].rows \ hurt, NEW i \in DOMAIN Automations, e \notin hurt'
          PROVE  ChainPassedOk(k, n, e, i)'
      <3>1. ChainPassedOk(k, n, e, i) /\ e \in Chain!Events
        BY <2>1 DEF ChainIInv, ChainPassedInv, ChainFrameInv, ChainFrameOk
      <3>2. CASE <<Automations[i], e>> # r
        BY <1>3, <1>4, <1>5, <3>1, <3>2 DEF ChainPassedOk
      <3>3. CASE <<Automations[i], e>> = r
        <4>1. e = Chain!Event(c) /\ i = Chain!Top(c).at
          BY <3>3, ChainAtWork, ChainConstants
        <4>2. CASE k = c /\ n = t
          <5>1. ChainEngaged(k, n)
            BY <4>2, ChainAtWork
          <5>2. ChainEngaged(k, n)'
            BY <1>3, <5>1
          <5>3. i = stack[k][n].at /\ i \in Nat
            BY <4>1, <4>2, ChainAtWork, ChainConstants
          <5>4. e = Chain!Min(stack[k][n].rows)
            BY <4>1, <4>2, ChainAtWork DEF Chain!Event
          <5> QED
            BY <5>2, <5>3, <5>4 DEF ChainPassedOk
        <4>3. CASE k # c \/ n # t
          <5>1. r \in DOMAIN retries
            BY <2>1, <4>1, <4>3, ChainAtWork, ChainOthersApart DEF ChainRunOk, ChainFrame
          <5> QED
            BY <1>3, <1>5, <1>6, <3>1, <3>3, <5>1 DEF ChainPassedOk, ChainUnbegun
        <4> QED
          BY <4>2, <4>3
      <3> QED
        BY <3>2, <3>3
    <2> QED
      BY <2>1 DEF ChainPassedInv
  <1>12. ChainWaitingInv'
    <2>1. ASSUME NEW e \in Chain!Events \ (Chain!Locked \cup hurt), NEW i \in DOMAIN Automations PROVE ChainWaitingOk(e, i)'
      <3>1. ChainWaitingOk(e, i) /\ outbox'[e] = outbox[e]
        BY DEF ChainIInv, ChainWaitingInv, ChainGrown
      <3>2. CASE <<Automations[i], e>> # r
        BY <1>4, <1>5, <3>1, <3>2 DEF ChainWaitingOk
      <3>3. CASE <<Automations[i], e>> = r
        <4>1. r \in DOMAIN retries
          BY <3>3, ChainAtWork, ChainLockedIs DEF ChainFrame, ChainRunOk
        <4> QED
          BY <1>5, <1>6, <3>1, <3>3, <4>1 DEF ChainWaitingOk, ChainUnbegun
      <3> QED
        BY <3>2, <3>3
    <2>2. ASSUME NEW e \in Chain!Events' \ Chain!Events, NEW i \in DOMAIN Automations PROVE ChainWaitingOk(e, i)'
      <3>1. <<Automations[i], e>> \notin DOMAIN runs \cup DOMAIN retries /\ <<Automations[i], e>> # r
        BY <2>2, ChainAtWork DEF ChainIInv, ChainLimitInv
      <3> QED
        BY <2>2, <3>1 DEF ChainWaitingOk, ChainUnbegun, ChainGrown
    <2> QED
      BY <1>3, <2>1, <2>2 DEF ChainWaitingInv
  <1> QED
    BY <1>3, <1>7, <1>8, <1>9, <1>10, <1>11, <1>12 DEF ChainIInv


\* A run that is absent, or to be retried, is claimed.
LEMMA ChainClaimStep ==
  ASSUME ChainIInv, NEW c \in Chain!Callers, Chain!Claim(c),
         Chain!Status(Chain!Run(c)) \in {"absent", "retrying"}
  PROVE  ChainIInv'
  <1>1. cpc[c] \in ChainBusy /\ stack[c] # << >> /\ "remember" \in ChainBusy
    BY DEF Chain!Claim, ChainBusy, ChainSteps, ChainIInv, ChainPlaceInv
  <1>2. PICK r : r = Chain!Run(c)
    BY Zenon
  <1>3. /\ Chain!Goto(c, "remember") /\ UNCHANGED <<outbox, stack, retries, cmade, hurt, fails>>
        /\ runs' = Chain!With(runs, r, "running")
    BY <1>2 DEF Chain!Claim, Chain!SetStatus
  <1>4. /\ DOMAIN runs' = DOMAIN runs \cup {r}
        /\ \A run : Chain!Status(run)' = IF run = r THEN "running" ELSE Chain!Status(run)
        /\ ChainTable(runs', {"running", "retrying", "completed"})
    BY <1>3 DEF Chain!With, Chain!Status, ChainTable, ChainIInv, ChainTypeInv
  <1>5. ChainTypeInv' /\ ChainGrown
    BY <1>3, <1>4, ChainStays DEF ChainIInv, ChainTypeInv, Chain!Goto, ChainSteps
  <1>6. Chain!Event(c) \notin hurt => r \notin DOMAIN cmade
    BY <1>1, <1>2, ChainAtWork DEF Chain!Claim, ChainIInv, ChainMadeInv
  <1> QED
    BY <1>1, <1>2, <1>3, <1>4, <1>5, <1>6, ChainWorkStep

\* Remember preserves the invariant.
LEMMA ChainRememberStep ==
  ASSUME ChainIInv, NEW c \in Chain!Callers, Chain!Remember(c)
  PROVE  ChainIInv'
  <1>1. cpc[c] \in ChainBusy /\ stack[c] # << >> /\ "act" \in ChainBusy
    BY DEF Chain!Remember, ChainBusy, ChainSteps, ChainIInv, ChainPlaceInv
  <1>2. PICK r : r = Chain!Run(c)
    BY Zenon
  <1>3. Chain!Goto(c, "act") /\ UNCHANGED <<outbox, runs, retries, stack, fails, cmade, hurt>>
    BY DEF Chain!Remember
  <1>4. ChainTypeInv' /\ ChainGrown /\ \A run : Chain!Status(run)' = Chain!Status(run)
    BY <1>3, ChainStays DEF ChainIInv, ChainTypeInv, Chain!Goto, ChainSteps, Chain!Status
  <1>5. Chain!Event(c) \notin hurt => Chain!Status(r) = "running" /\ r \notin DOMAIN cmade
    BY <1>1, <1>2, ChainAtWork DEF Chain!Remember, ChainRunOk
  <1> QED
    BY <1>1, <1>2, <1>3, <1>4, <1>5, ChainWorkStep

\* ActFails preserves the invariant.
LEMMA ChainActFailsStep ==
  ASSUME ChainIInv, NEW c \in Chain!Callers, Chain!ActFails(c)
  PROVE  ChainIInv'
  <1>1. cpc[c] \in ChainBusy /\ stack[c] # << >> /\ "persist" \in ChainBusy
    BY DEF Chain!ActFails, ChainBusy, ChainSteps, ChainIInv, ChainPlaceInv
  <1>2. PICK r : r = Chain!Run(c)
    BY Zenon
  <1>3. Chain!Goto(c, "persist") /\ UNCHANGED <<outbox, runs, retries, stack, cmade, hurt>> /\ fails' = fails + 1
    BY DEF Chain!ActFails
  <1>4. ChainTypeInv' /\ ChainGrown /\ \A run : Chain!Status(run)' = Chain!Status(run)
    BY <1>3, ChainStays DEF ChainIInv, ChainTypeInv, Chain!Goto, ChainSteps, Chain!Status
  <1>5. Chain!Event(c) \notin hurt => Chain!Status(r) = "running" /\ r \notin DOMAIN cmade
    BY <1>1, <1>2, ChainAtWork DEF Chain!ActFails, ChainRunOk
  <1> QED
    BY <1>1, <1>2, <1>3, <1>4, <1>5, ChainWorkStep

\* Persist preserves the invariant.
LEMMA ChainPersistStep ==
  ASSUME ChainIInv, NEW c \in Chain!Callers, Chain!Persist(c)
  PROVE  ChainIInv'
  <1>1. cpc[c] \in ChainBusy /\ stack[c] # << >> /\ "failed" \in ChainBusy
    BY DEF Chain!Persist, ChainBusy, ChainSteps, ChainIInv, ChainPlaceInv
  <1>2. PICK r : r = Chain!Run(c)
    BY Zenon
  <1>3. /\ Chain!Goto(c, "failed") /\ UNCHANGED <<outbox, stack, retries, cmade, hurt, fails>>
        /\ runs' = Chain!With(runs, r, "retrying")
    BY <1>2 DEF Chain!Persist, Chain!SetStatus
  <1>4. /\ DOMAIN runs' = DOMAIN runs \cup {r}
        /\ \A run : Chain!Status(run)' = IF run = r THEN "retrying" ELSE Chain!Status(run)
        /\ ChainTable(runs', {"running", "retrying", "completed"})
    BY <1>3 DEF Chain!With, Chain!Status, ChainTable, ChainIInv, ChainTypeInv
  <1>5. ChainTypeInv' /\ ChainGrown
    BY <1>3, <1>4, ChainStays DEF ChainIInv, ChainTypeInv, Chain!Goto, ChainSteps
  <1>6. Chain!Event(c) \notin hurt => r \notin DOMAIN cmade
    BY <1>1, <1>2, ChainAtWork DEF Chain!Persist, ChainRunOk
  <1> QED
    BY <1>1, <1>2, <1>3, <1>4, <1>5, <1>6, ChainWorkStep

\* What an action makes: events of the depth that it leads to.
LEMMA ChainActStep ==
  ASSUME ChainIInv, NEW c \in Chain!Callers, Chain!Act(c)
  PROVE  ChainIInv'
  <1>1. cpc[c] \in ChainBusy /\ stack[c] # << >> /\ "dispatch" \in ChainBusy
    BY DEF Chain!Act, ChainBusy, ChainSteps, ChainIInv, ChainPlaceInv
  <1>2. PICK r : r = Chain!Run(c)
    BY Zenon
  <1>3. PICK o : o = Chain!Event(c)
    BY Zenon
  <1> DEFINE events == Effects[r[1]]
             more == [n \in DOMAIN events |->
                        Chain!Row(events[n].name, Chain!depth_after(outbox[o], events[n].counted),
                            events[n].counted, o)]
  <1>4. /\ Chain!Goto(c, "dispatch") /\ UNCHANGED <<runs, stack, retries, hurt, fails>>
        /\ cmade' = Chain!With(cmade, r, IF r \in DOMAIN cmade THEN cmade[r] + 1 ELSE 1)
        /\ outbox' = outbox \o more
    <2>1. Chain!Goto(c, "dispatch") /\ UNCHANGED <<runs, stack, retries, hurt, fails>>
      BY DEF Chain!Act
    <2>2. cmade' = Chain!With(cmade, r, IF r \in DOMAIN cmade THEN cmade[r] + 1 ELSE 1)
      BY <1>2 DEF Chain!Act
    <2>3. outbox' = outbox \o more
      BY <1>2, <1>3 DEF Chain!Act
    <2> QED
      BY <2>1, <2>2, <2>3
  <1>5. o \in Chain!Events /\ o \in Nat /\ r[1] \in Chain!Names
    BY <1>1, <1>2, <1>3, ChainAtWork, ChainConstants
  <1>6. events \in Seq([name : STRING, counted : BOOLEAN]) /\ outbox \in Seq(ChainRows)
    BY <1>5, ChainConstants DEF ChainIInv, ChainTypeInv
  <1>7. outbox[o] \in ChainRows
    <2>1. outbox \in Seq(ChainRows) /\ o \in DOMAIN outbox
      BY <1>5 DEF ChainIInv, ChainTypeInv, Chain!Events
    <2> HIDE DEF events, more
    <2> QED
      BY <2>1
  <1>8. \A n \in DOMAIN events :
          /\ more[n] \in ChainRows /\ ~more[n].done
          /\ IF more[n].counted
               THEN more[n].parent = o /\ more[n].depth = outbox[o].depth + 1
               ELSE more[n].depth = 0
    <2>1. ASSUME NEW n \in DOMAIN events
          PROVE  /\ more[n] \in ChainRows /\ ~more[n].done
                 /\ IF more[n].counted
                      THEN more[n].parent = o /\ more[n].depth = outbox[o].depth + 1
                      ELSE more[n].depth = 0
      <3>1. events[n] \in [name : STRING, counted : BOOLEAN]
        <4> DEFINE S == [name : STRING, counted : BOOLEAN]
        <4>1. events \in Seq(S)
          BY <1>6
        <4> HIDE DEF S, events
        <4>2. events[n] \in S
          BY <2>1, <4>1
        <4> QED
          BY <4>2 DEF S
      <3> DEFINE a == events[n].name
                 b == events[n].counted
                 d == IF b THEN outbox[o].depth + 1 ELSE 0
      <3>2. a \in STRING /\ b \in BOOLEAN
        BY <3>1
      <3>3. outbox[o].depth \in Nat
        BY <1>7 DEF ChainRows
      <3>4. more[n] = [name |-> a, depth |-> d, counted |-> b, parent |-> o, done |-> FALSE]
        BY DEF Chain!Row, Chain!depth_after
      <3>5. d \in Nat /\ (b => d = outbox[o].depth + 1) /\ (~b => d = 0)
        BY <3>2, <3>3
      <3> HIDE DEF a, b, d, more
      <3>6. more[n] \in ChainRows
        BY <1>5, <3>2, <3>4, <3>5 DEF ChainRows
      <3>7. more[n].counted = b /\ more[n].parent = o /\ more[n].depth = d /\ ~more[n].done
        BY <3>4
      <3> QED
        BY <3>2, <3>5, <3>6, <3>7
    <2> QED
      BY <2>1
  <1>9. more \in Seq(ChainRows) /\ DOMAIN more = DOMAIN events
    <2>1. DOMAIN more = DOMAIN events /\ DOMAIN events = 1..Len(events) /\ Len(events) \in Nat
      BY <1>6
    <2>2. more \in [1..Len(events) -> ChainRows]
      <3>1. more = [n \in DOMAIN events |-> more[n]]
        OBVIOUS
      <3> HIDE DEF more, events
      <3> QED
        BY <1>8, <2>1, <3>1
    <2> HIDE DEF more, events
    <2> QED
      BY <2>1, <2>2
  <1> HIDE DEF more, events
  <1>10. /\ outbox' \in Seq(ChainRows) /\ Chain!Events \subseteq Chain!Events'
         /\ \A e \in Chain!Events : outbox'[e] = outbox[e]
         /\ \A e \in Chain!Events' \ Chain!Events :
              /\ \A f \in Chain!Events : f < e
              /\ e - Len(outbox) \in DOMAIN more /\ outbox'[e] = more[e - Len(outbox)]
    BY <1>4, <1>6, <1>9 DEF Chain!Events
  <1>11. ChainGrown
    BY <1>5, <1>8, <1>9, <1>10 DEF ChainGrown
  <1>12. /\ DOMAIN cmade' = DOMAIN cmade \cup {r}
         /\ \A run \in DOMAIN cmade : run # r => cmade'[run] = cmade[run]
         /\ r \notin DOMAIN cmade => cmade'[r] = 1
         /\ ChainTable(cmade', Nat)
    BY <1>4 DEF Chain!With, ChainTable, ChainIInv, ChainTypeInv
  <1>13. ChainTypeInv' /\ \A run : Chain!Status(run)' = Chain!Status(run)
    <2>1. cpc' \in [Chain!Callers -> ChainSteps]
      BY <1>4 DEF ChainIInv, ChainTypeInv, Chain!Goto, ChainSteps
    <2>2. \A run : Chain!Status(run)' = Chain!Status(run)
      BY <1>4 DEF Chain!Status
    <2> QED
      BY <1>4, <1>10, <1>12, <2>1, <2>2 DEF ChainIInv, ChainTypeInv
  <1>14. Chain!Event(c) \notin hurt => Chain!Status(r) = "running" /\ r \notin DOMAIN cmade
    BY <1>1, <1>2, ChainAtWork DEF Chain!Act, ChainRunOk
  <1>15. PICK l : l = "dispatch"
    OBVIOUS
  <1>16. Chain!Goto(c, l) /\ l \in ChainBusy
    BY <1>1, <1>4, <1>15
  <1>17. /\ DOMAIN runs' \subseteq DOMAIN runs \cup {r}
         /\ \A run : run # r => (run \in DOMAIN cmade' <=> run \in DOMAIN cmade)
         /\ \A run \in DOMAIN cmade : run # r => cmade'[run] = cmade[run]
         /\ hurt \subseteq hurt' /\ hurt' \subseteq hurt \cup {Chain!Event(c)}
         /\ UNCHANGED <<stack, retries>>
    BY <1>4, <1>12
  <1>18. Chain!Event(c) \notin hurt' =>
           /\ l \notin {"claim", "remember", "act", "persist", "failed"}
           /\ Chain!Status(r)' = "running"
           /\ r \in DOMAIN cmade' => cmade'[r] = 1
    BY <1>4, <1>12, <1>13, <1>14, <1>15
  <1> QED
    BY <1>1, <1>2, <1>11, <1>13, <1>16, <1>17, <1>18, ChainWorkStep

\* A call at work on an automation that has waited too long.
LEMMA ChainWaitedStep ==
  ASSUME ChainIInv, NEW c \in Chain!Callers, Chain!WaitedTooLong(c), stack[c] # << >>
  PROVE  ChainIInv'
  <1>1. cpc[c] \in ChainBusy
    BY DEF Chain!WaitedTooLong, Chain!Waiting, ChainBusy, ChainSteps
  <1>2. PICK r : r = Chain!Run(c)
    BY Zenon
  <1>3. PICK l \in ChainBusy : l = Chain!TimeOut(cpc[c])
    BY <1>1 DEF Chain!TimeOut, ChainBusy, ChainSteps
  <1>4. /\ Chain!Goto(c, l) /\ UNCHANGED <<outbox, runs, retries, stack, fails, cmade>>
        /\ hurt' = IF cpc[c] = "dispatch" THEN hurt ELSE hurt \cup {Chain!Event(c)}
    BY <1>3 DEF Chain!WaitedTooLong
  <1>5. ChainTypeInv' /\ ChainGrown /\ \A run : Chain!Status(run)' = Chain!Status(run)
    BY <1>1, <1>4, ChainStays, ChainAtWork DEF ChainIInv, ChainTypeInv, Chain!Goto, ChainBusy,
      Chain!Status
  <1>6. Chain!Event(c) \notin hurt' =>
          /\ cpc[c] = "dispatch" /\ l = "settle" /\ Chain!Status(r) = "running"
          /\ r \in DOMAIN cmade => cmade[r] = 1
    BY <1>1, <1>2, <1>3, <1>4, ChainAtWork DEF ChainRunOk, Chain!TimeOut, ChainIInv, ChainMadeInv
  <1> QED
    BY <1>1, <1>2, <1>4, <1>5, <1>6, ChainWorkStep

\* A call begins, or ends, that is at work on nothing.
LEMMA ChainBareStep ==
  ASSUME ChainIInv, NEW c \in Chain!Callers, stack[c] = << >>, NEW l \in {"idle", "dispatch"},
         Chain!Goto(c, l),
         ChainGrown, UNCHANGED <<stack, runs, retries, fails, cmade, hurt>>
  PROVE  ChainIInv'
  <1>1. /\ ChainFrameInv' /\ ChainPlaceInv' /\ ChainApartInv' /\ ChainDepthInv' /\ cpc' \in [Chain!Callers -> ChainSteps]
        /\ \A k \in Chain!Callers : \A n \in DOMAIN stack[k] : ChainEngaged(k, n)' <=> ChainEngaged(k, n)
        /\ \A k \in Chain!Callers : \A n \in DOMAIN stack[k] :
             ChainPlace(k, n)' = IF k = c /\ n = Len(stack[c]) THEN l ELSE ChainPlace(k, n)
        /\ \A e : e \in Chain!Locked' <=> e \in Chain!Locked
        /\ \A run : ChainTaken(run)' <=> ChainTaken(run)
    BY ChainWithinStep DEF ChainSteps
  <1>2. \A run : /\ Chain!Status(run)' = Chain!Status(run) /\ (ChainCarried(run)' <=> ChainCarried(run))
                 /\ (ChainUnbegun(run)' <=> ChainUnbegun(run))
    BY DEF Chain!Status, ChainCarried, ChainUnbegun
  <1>3. /\ \A n : \A e \in Chain!Events : ChainWants(n, e)' <=> ChainWants(n, e)
        /\ Chain!Events \subseteq Chain!Events'
    BY ChainGrownIs DEF ChainIInv, ChainGrown
  <1>4. ChainTypeInv'
    BY <1>1 DEF ChainIInv, ChainTypeInv, ChainGrown
  <1>5. ChainLimitInv'
    BY <1>3 DEF ChainIInv, ChainLimitInv
  <1>6. ChainRunInv'
    <2>1. ASSUME NEW k \in Chain!Callers, NEW n \in DOMAIN stack[k] PROVE ChainRunOk(k, n)'
      <3>1. ChainRunOk(k, n) /\ (k = c => DOMAIN stack[k] = {})
        BY DEF ChainIInv, ChainRunInv
      <3> QED
        BY <1>1, <1>2, <3>1 DEF ChainRunOk, Chain!RunOf
    <2> QED
      BY <2>1 DEF ChainRunInv
  <1>7. ChainMadeInv' /\ ChainJobInv'
    BY <1>1, <1>2 DEF ChainIInv, ChainMadeInv, ChainJobInv
  <1>8. ChainPassedInv'
    <2>1. ASSUME NEW k \in Chain!Callers, NEW n \in DOMAIN stack[k], stack[k][n].held,
                 NEW e \in stack[k][n].rows \ hurt, NEW i \in DOMAIN Automations
          PROVE  ChainPassedOk(k, n, e, i)'
      <3>1. ChainPassedOk(k, n, e, i) /\ e \in Chain!Events
        BY <2>1 DEF ChainIInv, ChainPassedInv, ChainFrameInv, ChainFrameOk
      <3> QED
        BY <1>1, <1>2, <1>3, <3>1 DEF ChainPassedOk
    <2> QED
      BY <2>1 DEF ChainPassedInv
  <1>9. ChainWaitingInv'
    <2>1. ASSUME NEW e \in Chain!Events \ (Chain!Locked \cup hurt), NEW i \in DOMAIN Automations PROVE ChainWaitingOk(e, i)'
      <3>1. ChainWaitingOk(e, i) /\ outbox'[e] = outbox[e]
        BY DEF ChainIInv, ChainWaitingInv, ChainGrown
      <3> QED
        BY <1>2, <1>3, <3>1 DEF ChainWaitingOk
    <2>2. ASSUME NEW e \in Chain!Events' \ Chain!Events, NEW i \in DOMAIN Automations PROVE ChainWaitingOk(e, i)'
      <3>1. <<Automations[i], e>> \notin DOMAIN runs \cup DOMAIN retries
        BY <2>2 DEF ChainIInv, ChainLimitInv
      <3> QED
        BY <2>2, <3>1 DEF ChainWaitingOk, ChainUnbegun, ChainGrown
    <2> QED
      BY <1>1, <2>1, <2>2 DEF ChainWaitingInv
  <1> QED
    BY <1>1, <1>4, <1>5, <1>6, <1>7, <1>8, <1>9 DEF ChainIInv

\* A change by a user adds an event that nobody has begun with.
LEMMA ChainChangeStep ==
  ASSUME ChainIInv, NEW r \in Writers, Chain!Change(r)
  PROVE  ChainIInv'
  <1> DEFINE new == Chain!Row(Changed, 0, FALSE, 0)
  <1>1. r \in Chain!Callers /\ stack[r] = << >>
    BY DEF Chain!Change, Chain!Callers, ChainIInv, ChainPlaceInv
  <1>2. new \in ChainRows /\ ~new.done /\ ~new.counted /\ new.depth = 0
    BY ChainConstants DEF Chain!Row, ChainRows
  <1> HIDE DEF new
  <1>3. outbox' = Append(outbox, new) /\ outbox \in Seq(ChainRows)
    BY DEF Chain!Change, new, ChainIInv, ChainTypeInv
  <1>4. /\ outbox' \in Seq(ChainRows) /\ Chain!Events' = Chain!Events \cup {Len(outbox) + 1}
        /\ \A e \in Chain!Events : outbox'[e] = outbox[e] /\ e < Len(outbox) + 1
        /\ outbox'[Len(outbox) + 1] = new
    BY <1>2, <1>3 DEF Chain!Events
  <1>5. ChainGrown
    BY <1>2, <1>4 DEF ChainGrown
  <1> QED
    BY <1>1, <1>5, ChainBareStep DEF Chain!Change

\* Tick preserves the invariant.
LEMMA ChainTickStep == ASSUME ChainIInv, NEW l \in Pollers, Chain!Tick(l) PROVE ChainIInv'
  <1>1. l \in Chain!Callers /\ stack[l] = << >>
    BY DEF Chain!Tick, Chain!Callers, ChainIInv, ChainPlaceInv
  <1>2. ChainGrown
    BY ChainStays DEF Chain!Tick, ChainIInv
  <1> QED
    BY <1>1, <1>2, ChainBareStep DEF Chain!Tick

\* A dispatcher that finds nothing: the mutation is over, or the run of which it was part
\* goes on.
LEMMA ChainNoneStep ==
  ASSUME ChainIInv, NEW c \in Chain!Callers, cpc[c] = "dispatch",
         Chain!Goto(c, Chain!After(stack[c])),
         UNCHANGED <<outbox, runs, retries, stack, fails, cmade, hurt>>
  PROVE  ChainIInv'
  <1>1. ChainGrown
    BY ChainStays DEF ChainIInv
  <1>2. CASE stack[c] = << >>
    BY <1>1, <1>2, ChainBareStep DEF Chain!After
  <1>3. CASE stack[c] # << >>
    <2>1. cpc[c] \in ChainBusy /\ "settle" \in ChainBusy /\ Chain!Goto(c, "settle")
      BY <1>3 DEF ChainBusy, ChainSteps, Chain!After
    <2>2. PICK r : r = Chain!Run(c)
      OBVIOUS
    <2>3. ChainTypeInv' /\ \A run : Chain!Status(run)' = Chain!Status(run)
      BY <2>1 DEF ChainIInv, ChainTypeInv, Chain!Goto, ChainSteps, Chain!Status
    <2>4. Chain!Event(c) \notin hurt => Chain!Status(r) = "running"
      BY <1>3, <2>1, <2>2, ChainAtWork DEF ChainRunOk
    <2>5. Chain!Event(c) \notin hurt /\ r \in DOMAIN cmade => cmade[r] = 1
      BY <1>3, <2>1, <2>2, ChainAtWork DEF ChainIInv, ChainMadeInv
    <2> QED
      BY <1>1, <1>3, <2>1, <2>2, <2>3, <2>4, <2>5, ChainWorkStep
  <1> QED
    BY <1>2, <1>3

\* A call that has waited too long for a connection.
LEMMA ChainWaitedTooStep ==
  ASSUME ChainIInv, NEW c \in Chain!Callers, Chain!WaitedTooLong(c)
  PROVE  ChainIInv'
  <1>1. CASE stack[c] # << >>
    BY <1>1, ChainWaitedStep
  <1>2. CASE stack[c] = << >>
    <2>1. cpc[c] = "dispatch"
      BY <1>2 DEF ChainIInv, ChainPlaceInv, Chain!WaitedTooLong, Chain!Waiting
    <2>2. ChainGrown
      BY ChainStays DEF Chain!WaitedTooLong, ChainIInv
    <2> QED
      BY <1>2, <2>1, <2>2, ChainBareStep DEF Chain!WaitedTooLong
  <1> QED
    BY <1>1, <1>2

\* A dispatcher turns to something else.
LEMMA ChainTurnIs ==
  ASSUME ChainIInv, NEW c \in Chain!Callers, stack[c] # << >>, NEW frame \in ChainFrame,
         NEW l \in {"next", "claim"},
         Chain!Top(c).held, frame.held, frame.rows \subseteq Chain!Top(c).rows, Chain!SetTop(c, frame), Chain!Goto(c, l)
  PROVE  /\ \A k \in Chain!Callers : DOMAIN stack'[k] = DOMAIN stack[k]
         /\ Len(stack[c]) \in DOMAIN stack[c] /\ Chain!Top(c) = stack[c][Len(stack[c])]
         /\ Chain!Top(c) \in ChainFrame
         /\ stack'[c][Len(stack[c])] = frame /\ ChainPlace(c, Len(stack[c]))' = l
         /\ \A k \in Chain!Callers : \A n \in DOMAIN stack[k] :
              k # c \/ n # Len(stack[c]) =>
                /\ stack'[k][n] = stack[k][n] /\ ChainPlace(k, n)' = ChainPlace(k, n)
                /\ ChainEngaged(k, n)' <=> ChainEngaged(k, n)
                /\ stack[k][n].held => stack[k][n].rows \cap Chain!Top(c).rows = {}
         /\ \A e : e \in Chain!Locked <=> e \in Chain!Locked' \/ e \in Chain!Top(c).rows
         /\ \A e \in frame.rows : e \in Chain!Locked'
         /\ \A e \in Chain!Locked' : e \in Chain!Top(c).rows => e \in frame.rows
         /\ \A run : ChainTaken(run)' <=> ChainTaken(run)
         /\ stack' \in [Chain!Callers -> Seq(ChainFrame)] /\ cpc' \in [Chain!Callers -> ChainSteps]
         /\ ChainPlaceInv' /\ ChainApartInv'
  <1> DEFINE t == Len(stack[c])
  <1>1. /\ t \in Nat \ {0} /\ t \in DOMAIN stack[c] /\ Chain!Top(c) = stack[c][t] /\ Chain!Top(c) \in ChainFrame
    BY ChainTopIs DEF ChainIInv
  <1>2. /\ stack' \in [Chain!Callers -> Seq(ChainFrame)]
        /\ \A k \in Chain!Callers : Len(stack'[k]) = Len(stack[k]) /\ DOMAIN stack'[k] = DOMAIN stack[k]
        /\ \A k \in Chain!Callers : \A n \in DOMAIN stack[k] :
             stack'[k][n] = IF k = c /\ n = t THEN frame ELSE stack[k][n]
        /\ \A k \in Chain!Callers : stack'[k] = << >> <=> stack[k] = << >>
    BY ChainSetTopIs DEF ChainIInv
  <1>3. /\ \A k \in Chain!Callers : cpc'[k] = IF k = c THEN l ELSE cpc[k]
        /\ cpc' \in [Chain!Callers -> ChainSteps]
    BY DEF ChainIInv, ChainTypeInv, Chain!Goto, ChainSteps
  <1>4. \A k \in Chain!Callers : \A n \in DOMAIN stack[k] : n \in 1..Len(stack[k]) /\ Len(stack[k]) \in Nat
    BY DEF ChainIInv, ChainTypeInv
  <1>5. \A k \in Chain!Callers : \A n \in DOMAIN stack[k] :
          ChainPlace(k, n)' = IF k = c /\ n = t THEN l ELSE ChainPlace(k, n)
    BY <1>2, <1>3, <1>4 DEF ChainPlace
  <1>6. \A k \in Chain!Callers : \A n \in DOMAIN stack[k] :
          k # c \/ n # t => (ChainEngaged(k, n)' <=> ChainEngaged(k, n))
    BY <1>5 DEF ChainEngaged
  <1>7. \A k \in Chain!Callers : \A n \in DOMAIN stack[k] :
          k # c \/ n # t => (stack[k][n].held => stack[k][n].rows \cap Chain!Top(c).rows = {})
    BY <1>1 DEF ChainIInv, ChainApartInv
  <1>8. \A e : e \in Chain!Locked <=> e \in Chain!Locked' \/ e \in Chain!Top(c).rows
    BY <1>1, <1>2, ChainLockedIs, ChainLockedNext
  <1>9. \A e \in frame.rows : e \in Chain!Locked'
    BY <1>1, <1>2, ChainLockedNext
  <1>10. \A e \in Chain!Locked' : e \in Chain!Top(c).rows => e \in frame.rows
    BY <1>1, <1>2, <1>7, ChainLockedNext
  <1>11. \A run : ChainTaken(run)' <=> ChainTaken(run)
    <2>1. \A k \in Pollers : stack[k] # << >> =>
            /\ 1 \in DOMAIN stack[k] /\ k \in Chain!Callers
            /\ stack'[k][1].held <=> stack[k][1].held
            /\ ~stack[k][1].held => stack'[k][1] = stack[k][1]
      <3>1. \A k \in Pollers : stack[k] # << >> => k \in Chain!Callers /\ 1 \in DOMAIN stack[k]
        BY ChainTopIs DEF Chain!Callers, ChainIInv
      <3> QED
        BY <1>1, <1>2, <3>1
    <2> QED
      BY <1>2, <2>1 DEF ChainTaken, Chain!RunOf, Chain!Callers
  <1>12. ChainPlaceInv'
    BY <1>2, <1>3 DEF ChainIInv, ChainPlaceInv
  <1>13. ChainApartInv'
    <2>1. ASSUME NEW k \in Chain!Callers, NEW j \in Chain!Callers,
                 NEW n \in DOMAIN stack'[k], NEW m \in DOMAIN stack'[j], k # j \/ n # m
          PROVE  /\ stack'[k][n].held /\ stack'[j][m].held =>
                      stack'[k][n].rows \cap stack'[j][m].rows = {}
                 /\ ~stack'[k][n].held /\ ~stack'[j][m].held =>
                      Chain!RunOf(stack'[k][n]) # Chain!RunOf(stack'[j][m])
      <3>1. /\ stack[k][n].held /\ stack[j][m].held =>
                 stack[k][n].rows \cap stack[j][m].rows = {}
            /\ ~stack[k][n].held /\ ~stack[j][m].held =>
                 Chain!RunOf(stack[k][n]) # Chain!RunOf(stack[j][m])
        BY <1>2, <2>1 DEF ChainIInv, ChainApartInv
      <3>2. CASE k = c /\ n = t
        <4>1. stack'[k][n] = frame /\ stack'[j][m] = stack[j][m] /\ stack[k][n] = Chain!Top(c)
          BY <1>1, <1>2, <2>1, <3>2
        <4> QED
          BY <3>1, <4>1
      <3>3. CASE j = c /\ m = t
        <4>1. stack'[j][m] = frame /\ stack'[k][n] = stack[k][n] /\ stack[j][m] = Chain!Top(c)
          BY <1>1, <1>2, <2>1, <3>3
        <4> QED
          BY <3>1, <4>1
      <3>4. CASE ~(k = c /\ n = t) /\ ~(j = c /\ m = t)
        <4>1. stack'[k][n] = stack[k][n] /\ stack'[j][m] = stack[j][m]
          BY <1>2, <3>4
        <4> QED
          BY <3>1, <4>1
      <3> QED
        BY <3>2, <3>3, <3>4
    <2> QED
      BY <2>1 DEF ChainApartInv, Chain!RunOf
  <1> QED
    BY <1>1, <1>2, <1>3, <1>5, <1>6, <1>7, <1>8, <1>9, <1>10, <1>11, <1>12, <1>13

\* A dispatcher comes back from an automation.
LEMMA ChainOnStep ==
  ASSUME ChainIInv, NEW c \in Chain!Callers, stack[c] # << >>, cpc[c] \in ChainBusy,
         Chain!Top(c).held,
         NEW a \in Nat \ {0}, Chain!SetTop(c, [Chain!Top(c) EXCEPT !.at = a]),
         Chain!Goto(c, "next"),
         UNCHANGED <<outbox, cmade, fails>>,
         NEW r, r = Chain!Run(c), NEW o, o = Chain!Event(c),
         ChainTable(runs, {"running", "retrying", "completed"})', ChainTable(retries, Nat)',
         DOMAIN runs' \subseteq DOMAIN runs \cup {r},
         DOMAIN retries \subseteq DOMAIN retries', DOMAIN retries' \subseteq DOMAIN retries \cup {r},
         \A run : run # r => Chain!Status(run)' = Chain!Status(run),
         hurt \subseteq hurt', hurt' \subseteq hurt \cup {o},
         o \notin hurt' =>
           /\ a = Chain!Top(c).at + 1 /\ ChainCarried(r)'
           /\ r \in DOMAIN retries' => Chain!Status(r)' = "retrying"
           /\ r \in DOMAIN cmade => Chain!Status(r)' \in {"running", "completed"}
  PROVE  ChainIInv'
  <1> DEFINE t == Len(stack[c])
             frame == [Chain!Top(c) EXCEPT !.at = a]
  <1>1. /\ t \in DOMAIN stack[c] /\ Chain!Top(c) = stack[c][t] /\ Chain!Top(c) \in ChainFrame
        /\ r = <<Automations[Chain!Top(c).at], o>> /\ o \in Chain!Events /\ o \in Nat /\ o = Chain!Min(Chain!Top(c).rows)
        /\ Chain!Top(c).at \in DOMAIN Automations /\ o \in Chain!Top(c).rows /\ ChainWants(Chain!Top(c).at, o)
        /\ ChainFrameOk(c, t)
    BY ChainAtWork DEF Chain!Event
  <1>2. /\ frame \in ChainFrame /\ frame.held /\ frame.rows = Chain!Top(c).rows /\ frame.at = a
    BY <1>1 DEF ChainFrame
  <1> HIDE DEF frame
  <1>3. Chain!SetTop(c, frame)
    BY DEF frame
  <1>4. /\ \A k \in Chain!Callers : DOMAIN stack'[k] = DOMAIN stack[k]
        /\ stack'[c][t] = frame /\ ChainPlace(c, t)' = "next"
        /\ \A k \in Chain!Callers : \A n \in DOMAIN stack[k] :
             k # c \/ n # t =>
               /\ stack'[k][n] = stack[k][n] /\ ChainPlace(k, n)' = ChainPlace(k, n)
               /\ ChainEngaged(k, n)' <=> ChainEngaged(k, n)
               /\ stack[k][n].held => stack[k][n].rows \cap Chain!Top(c).rows = {}
        /\ \A e : e \in Chain!Locked' <=> e \in Chain!Locked
        /\ \A run : ChainTaken(run)' <=> ChainTaken(run)
        /\ stack' \in [Chain!Callers -> Seq(ChainFrame)] /\ cpc' \in [Chain!Callers -> ChainSteps]
        /\ ChainPlaceInv' /\ ChainApartInv'
    <2>1. /\ \A e : e \in Chain!Locked <=> e \in Chain!Locked' \/ e \in Chain!Top(c).rows
          /\ \A e \in frame.rows : e \in Chain!Locked'
      BY <1>2, <1>3, ChainTurnIs
    <2> QED
      BY <1>2, <1>3, <2>1, ChainTurnIs
  <1>5. ~ChainEngaged(c, t)'
    BY <1>4 DEF ChainEngaged
  <1>6. ChainGrown /\ Chain!Events' = Chain!Events
    BY ChainStays DEF ChainIInv, Chain!Events
  <1>7. (\A n : \A e \in Chain!Events : ChainWants(n, e)' <=> ChainWants(n, e)) /\ ChainDepthInv'
    BY <1>6, ChainGrownIs DEF ChainIInv
  <1>8. \A run : run # r => (ChainCarried(run)' <=> ChainCarried(run)) /\ (ChainUnbegun(run) => ChainUnbegun(run)')
    BY DEF ChainCarried, ChainUnbegun
  <1>9. ChainTypeInv'
    BY <1>1, <1>4 DEF ChainIInv, ChainTypeInv
  <1>10. ChainLimitInv'
    BY <1>1, <1>6, <1>7 DEF ChainIInv, ChainLimitInv
  <1>11. ChainFrameInv'
    <2>1. ASSUME NEW k \in Chain!Callers, NEW n \in DOMAIN stack[k], k # c \/ n # t PROVE ChainFrameOk(k, n)'
      <3>1. ChainFrameOk(k, n) /\ stack[k][n] \in ChainFrame
        BY DEF ChainIInv, ChainFrameInv, ChainTypeInv
      <3>2. stack[k][n].rows # {} => Chain!Min(stack[k][n].rows) \in Chain!Events
        BY <3>1, ChainMinIs DEF ChainFrameOk, ChainFrame
      <3> QED
        BY <1>4, <1>6, <1>7, <2>1, <3>1, <3>2 DEF ChainFrameOk
    <2>2. ChainFrameOk(c, t)'
      BY <1>1, <1>2, <1>4, <1>5, <1>6 DEF ChainFrameOk
    <2> QED
      BY <1>4, <2>1, <2>2 DEF ChainFrameInv
  <1>12. ChainRunInv'
    <2>1. ASSUME NEW k \in Chain!Callers, NEW n \in DOMAIN stack[k], k # c \/ n # t PROVE ChainRunOk(k, n)'
      <3>1. ChainRunOk(k, n)
        BY DEF ChainIInv, ChainRunInv
      <3>2. (ChainEngaged(k, n) /\ Chain!RunOf(stack[k][n])[2] \notin hurt) => Chain!RunOf(stack[k][n]) # r
        BY <2>1, ChainOthersApart
      <3> QED
        BY <1>4, <2>1, <3>1, <3>2 DEF ChainRunOk, Chain!RunOf
    <2>2. ChainRunOk(c, t)'
      BY <1>2, <1>4, <1>5 DEF ChainRunOk
    <2> QED
      BY <1>4, <2>1, <2>2 DEF ChainRunInv
  <1>13. ChainMadeInv'
    BY <1>1 DEF ChainIInv, ChainMadeInv
  <1>14. ChainJobInv'
    <2>1. r[2] = o
      BY <1>1
    <2>2. ASSUME NEW run \in DOMAIN retries', run[2] \notin hurt'
          PROVE  Chain!Status(run)' = "retrying" \/ ChainTaken(run)'
      <3>1. CASE run = r
        BY <2>1, <2>2, <3>1
      <3>2. CASE run # r
        <4>1. Chain!Status(run) = "retrying" \/ ChainTaken(run)
          BY <2>2, <3>2 DEF ChainIInv, ChainJobInv
        <4>2. Chain!Status(run)' = Chain!Status(run) /\ (ChainTaken(run)' <=> ChainTaken(run))
          BY <1>4, <3>2
        <4> QED
          BY <4>1, <4>2
      <3> QED
        BY <3>1, <3>2
    <2> QED
      BY <2>2 DEF ChainJobInv
  <1>15. ChainPassedInv'
    <2>1. ASSUME NEW k \in Chain!Callers, NEW n \in DOMAIN stack[k], stack'[k][n].held,
                 NEW e \in stack'[k][n].rows \ hurt', NEW i \in DOMAIN Automations
          PROVE  ChainPassedOk(k, n, e, i)'
      <3>1. stack[k][n].held /\ e \in stack[k][n].rows /\ e \notin hurt
        BY <1>1, <1>2, <1>4, <2>1
      <3>2. ChainPassedOk(k, n, e, i) /\ e \in Chain!Events
        BY <2>1, <3>1 DEF ChainIInv, ChainPassedInv, ChainFrameInv, ChainFrameOk
      <3>3. i \in Nat /\ Chain!Top(c).at \in Nat
        BY <1>1, ChainConstants
      <3>4. CASE k # c \/ n # t
        <4>1. <<Automations[i], e>> # r
          BY <1>1, <1>4, <3>1, <3>4
        <4> QED
          BY <1>4, <1>7, <1>8, <3>2, <3>4, <4>1 DEF ChainPassedOk
      <3>5. CASE k = c /\ n = t /\ e # o
        <4>1. <<Automations[i], e>> # r
          BY <1>1, <3>5
        <4> QED
          BY <1>1, <1>2, <1>4, <1>8, <3>2, <3>5, <4>1 DEF ChainPassedOk
      <3>6. CASE k = c /\ n = t /\ e = o
        <4>1. a = Chain!Top(c).at + 1 /\ ChainCarried(r)'
          BY <2>1, <3>6, Zenon
        <4>2. i = Chain!Top(c).at <=> <<Automations[i], e>> = r
          <5>1. i \in DOMAIN Automations /\ Chain!Top(c).at \in DOMAIN Automations /\ e = o
            BY <1>1, <2>1, <3>6
          <5>2. Automations[i] = Automations[Chain!Top(c).at] => i = Chain!Top(c).at
            BY <5>1, ChainConstants
          <5>3. r = <<Automations[Chain!Top(c).at], o>>
            BY <1>1
          <5> QED
            BY <5>1, <5>2, <5>3
        <4>3. /\ stack'[k][n] = frame /\ stack[k][n] = Chain!Top(c) /\ ~ChainEngaged(k, n)' /\ ChainEngaged(k, n)
              /\ e = Chain!Min(frame.rows)
          BY <1>1, <1>2, <1>4, <1>5, <3>6, ChainAtWork
        <4>4. CASE i = Chain!Top(c).at
          BY <1>2, <3>3, <4>1, <4>2, <4>3, <4>4 DEF ChainPassedOk
        <4>5. CASE i # Chain!Top(c).at
          <5>1. <<Automations[i], e>> # r
            BY <4>2, <4>5
          <5>2. /\ i < Chain!Top(c).at /\ ChainWants(i, e) => ChainCarried(<<Automations[i], e>>)
                /\ i > Chain!Top(c).at => ChainUnbegun(<<Automations[i], e>>)
            BY <1>2, <3>2, <4>3 DEF ChainPassedOk
          <5>3. /\ i < Chain!Top(c).at + 1 /\ ChainWants(i, e)' => ChainCarried(<<Automations[i], e>>)'
                /\ i > Chain!Top(c).at => ChainUnbegun(<<Automations[i], e>>)'
            BY <1>7, <1>8, <3>2, <3>3, <4>5, <5>1, <5>2
          <5> QED
            BY <1>2, <3>3, <4>1, <4>3, <4>5, <5>3 DEF ChainPassedOk
        <4> QED
          BY <4>4, <4>5
      <3> QED
        BY <3>4, <3>5, <3>6
    <2> QED
      BY <1>4, <2>1 DEF ChainPassedInv
  <1>16. ChainWaitingInv'
    <2>1. ASSUME NEW e \in Chain!Events \ (Chain!Locked \cup hurt), NEW i \in DOMAIN Automations PROVE ChainWaitingOk(e, i)'
      <3>1. ChainWaitingOk(e, i)
        BY DEF ChainIInv, ChainWaitingInv
      <3>2. o \in Chain!Locked
        BY <1>1, ChainLockedIs
      <3>3. <<Automations[i], e>> # r
        BY <1>1, <2>1, <3>2
      <3> QED
        BY <1>7, <1>8, <3>1, <3>3 DEF ChainWaitingOk
    <2> QED
      BY <1>4, <1>6, <2>1 DEF ChainWaitingInv
  <1> QED
    BY <1>4, <1>7, <1>9, <1>10, <1>11, <1>12, <1>13, <1>14, <1>15, <1>16 DEF ChainIInv

\* A dispatcher that looks for its next automation.
LEMMA ChainNextIs ==
  ASSUME ChainIInv, NEW c \in Chain!Callers, cpc[c] = "next"
  PROVE  /\ stack[c] # << >> /\ Len(stack[c]) \in DOMAIN stack[c]
         /\ Chain!Top(c) = stack[c][Len(stack[c])] /\ Chain!Top(c) \in ChainFrame /\ Chain!Top(c).held
         /\ Chain!Top(c).rows \subseteq Chain!Events /\ ~ChainEngaged(c, Len(stack[c]))
         /\ ChainFrameOk(c, Len(stack[c]))
         /\ Chain!Top(c).rows # {} => /\ Chain!Event(c) = Chain!Min(Chain!Top(c).rows) /\ Chain!Event(c) \in Chain!Top(c).rows
                                      /\ Chain!Event(c) \in Nat /\ Chain!Event(c) \in Chain!Events
  <1>1. stack[c] # << >>
    BY DEF ChainIInv, ChainPlaceInv
  <1>2. /\ Len(stack[c]) \in DOMAIN stack[c] /\ Chain!Top(c) = stack[c][Len(stack[c])]
        /\ Chain!Top(c) \in ChainFrame /\ Len(stack[c]) \in Nat
    BY <1>1, ChainTopIs DEF ChainIInv
  <1>3. ~ChainEngaged(c, Len(stack[c]))
    BY <1>2 DEF ChainEngaged, ChainPlace
  <1>4. ChainFrameOk(c, Len(stack[c]))
    BY <1>2 DEF ChainIInv, ChainFrameInv
  <1>5. Chain!Top(c).rows \subseteq Chain!Events /\ Chain!Top(c).held
    BY <1>2, <1>3, <1>4 DEF ChainFrameOk, ChainFrame
  <1>6. Chain!Top(c).rows # {} => Chain!Event(c) \in Chain!Top(c).rows /\ Chain!Event(c) \in Nat
    <2>1. Chain!Top(c).rows \in SUBSET Nat
      BY <1>2 DEF ChainFrame
    <2> QED
      BY <2>1, ChainMinIs DEF Chain!Event
  <1> QED
    BY <1>1, <1>2, <1>3, <1>4, <1>5, <1>6 DEF Chain!Event

\* The next automation that wants the event has not begun.
LEMMA ChainTriggerStep ==
  ASSUME ChainIInv, NEW c \in Chain!Callers, Chain!Trigger(c)
  PROVE  ChainIInv'
  <1> DEFINE t == Len(stack[c])
  <1>1. PICK o : o = Chain!Event(c)
    BY Zenon
  <1>2. PICK a : a = Chain!Min(Chain!Triggered(c))
    OBVIOUS
  <1> DEFINE frame == [Chain!Top(c) EXCEPT !.at = a]
  <1>3. /\ cpc[c] = "next" /\ Chain!Top(c).rows # {} /\ Chain!SetTop(c, frame) /\ Chain!Goto(c, "claim")
        /\ UNCHANGED <<outbox, runs, retries, fails, cmade, hurt>>
    BY <1>2 DEF Chain!Trigger
  <1>4. /\ stack[c] # << >> /\ t \in DOMAIN stack[c] /\ Chain!Top(c) = stack[c][t] /\ Chain!Top(c) \in ChainFrame
        /\ Chain!Top(c).held /\ o = Chain!Min(Chain!Top(c).rows) /\ o \in Chain!Top(c).rows /\ o \in Nat /\ o \in Chain!Events
        /\ ~ChainEngaged(c, t) /\ ChainFrameOk(c, t)
    BY <1>1, <1>3, ChainNextIs
  <1>5. \A n : n \in Chain!Triggered(c) <=> n \in DOMAIN Automations /\ n >= Chain!Top(c).at /\ ChainWants(n, o)
    BY <1>1 DEF Chain!Triggered, ChainWants
  <1>6. a \in Chain!Triggered(c) /\ \A n \in Chain!Triggered(c) : a <= n
    <2>1. Chain!Triggered(c) \in SUBSET Nat /\ Chain!Triggered(c) # {}
      BY ChainConstants DEF Chain!Trigger, Chain!Triggered
    <2> QED
      BY <1>2, <2>1, ChainMinIs
  <1>7. /\ a \in DOMAIN Automations /\ a \in Nat \ {0} /\ a >= Chain!Top(c).at /\ ChainWants(a, o)
        /\ Chain!Top(c).at \in Nat
    BY <1>4, <1>5, <1>6, ChainConstants DEF ChainFrame
  <1>8. /\ frame \in ChainFrame /\ frame.held /\ frame.rows = Chain!Top(c).rows /\ frame.at = a
    BY <1>4, <1>7 DEF ChainFrame
  <1> HIDE DEF frame
  <1>9. /\ \A k \in Chain!Callers : DOMAIN stack'[k] = DOMAIN stack[k]
        /\ stack'[c][t] = frame /\ ChainPlace(c, t)' = "claim"
        /\ \A k \in Chain!Callers : \A n \in DOMAIN stack[k] :
             k # c \/ n # t =>
               /\ stack'[k][n] = stack[k][n] /\ ChainPlace(k, n)' = ChainPlace(k, n)
               /\ ChainEngaged(k, n)' <=> ChainEngaged(k, n)
        /\ \A e : e \in Chain!Locked' <=> e \in Chain!Locked
        /\ \A run : ChainTaken(run)' <=> ChainTaken(run)
        /\ stack' \in [Chain!Callers -> Seq(ChainFrame)] /\ cpc' \in [Chain!Callers -> ChainSteps]
        /\ ChainPlaceInv' /\ ChainApartInv'
    <2>1. /\ \A e : e \in Chain!Locked <=> e \in Chain!Locked' \/ e \in Chain!Top(c).rows
          /\ \A e \in frame.rows : e \in Chain!Locked'
      BY <1>3, <1>4, <1>8, ChainTurnIs
    <2> QED
      BY <1>3, <1>4, <1>8, <2>1, ChainTurnIs
  <1>10. ChainEngaged(c, t)'
    BY <1>9 DEF ChainEngaged
  <1>11. ChainGrown /\ Chain!Events' = Chain!Events
    BY <1>3, ChainStays DEF ChainIInv, Chain!Events
  <1>12. (\A n : \A e \in Chain!Events : ChainWants(n, e)' <=> ChainWants(n, e)) /\ ChainDepthInv'
    BY <1>11, ChainGrownIs DEF ChainIInv
  <1>13. \A run : /\ Chain!Status(run)' = Chain!Status(run) /\ (ChainCarried(run)' <=> ChainCarried(run))
                  /\ (ChainUnbegun(run)' <=> ChainUnbegun(run))
    BY <1>3 DEF Chain!Status, ChainCarried, ChainUnbegun
  <1>14. ChainTypeInv' /\ ChainLimitInv' /\ ChainMadeInv' /\ ChainJobInv'
    BY <1>3, <1>9, <1>11, <1>12, <1>13 DEF ChainIInv, ChainTypeInv, ChainLimitInv, ChainMadeInv,
      ChainJobInv
  <1>15. ChainFrameInv'
    <2>1. ASSUME NEW k \in Chain!Callers, NEW n \in DOMAIN stack[k], k # c \/ n # t PROVE ChainFrameOk(k, n)'
      <3>1. ChainFrameOk(k, n) /\ stack[k][n] \in ChainFrame
        BY DEF ChainIInv, ChainFrameInv, ChainTypeInv
      <3>2. stack[k][n].rows # {} => Chain!Min(stack[k][n].rows) \in Chain!Events
        BY <3>1, ChainMinIs DEF ChainFrameOk, ChainFrame
      <3> QED
        BY <1>3, <1>9, <1>11, <1>12, <2>1, <3>1, <3>2 DEF ChainFrameOk
    <2>2. ChainFrameOk(c, t)'
      BY <1>3, <1>4, <1>7, <1>8, <1>9, <1>11, <1>12 DEF ChainFrameOk
    <2> QED
      BY <1>9, <2>1, <2>2 DEF ChainFrameInv
  <1>16. ChainPassedOk(c, t, o, a) \/ o \in hurt
    BY <1>4, <1>7 DEF ChainIInv, ChainPassedInv
  <1>17. ChainRunInv'
    <2>1. ASSUME NEW k \in Chain!Callers, NEW n \in DOMAIN stack[k], k # c \/ n # t PROVE ChainRunOk(k, n)'
      <3>1. ChainRunOk(k, n)
        BY DEF ChainIInv, ChainRunInv
      <3> QED
        BY <1>3, <1>9, <1>13, <2>1, <3>1 DEF ChainRunOk, Chain!RunOf
    <2>2. PICK r : r = <<Automations[a], o>>
      OBVIOUS
    <2>3. r = Chain!RunOf(frame) /\ r[2] = o
      BY <1>4, <1>8, <2>2 DEF Chain!RunOf
    <2>4. o \notin hurt => ChainUnbegun(r)
      BY <1>4, <1>7, <1>16, <2>2 DEF ChainPassedOk
    <2>5. o \notin hurt => r \notin DOMAIN retries' /\ r \notin DOMAIN runs'
      BY <1>3, <2>4 DEF ChainUnbegun
    <2>6. Chain!RunOf(stack[c][t])' = r
      BY <1>9, <2>3 DEF Chain!RunOf
    <2>7. ChainRunOk(c, t)'
      BY <1>3, <1>8, <1>9, <2>3, <2>5, <2>6 DEF ChainRunOk, Chain!Status
    <2> QED
      BY <1>9, <2>1, <2>7 DEF ChainRunInv
  <1>18. ChainPassedInv'
    <2>1. ASSUME NEW k \in Chain!Callers, NEW n \in DOMAIN stack[k], stack'[k][n].held,
                 NEW e \in stack'[k][n].rows \ hurt, NEW i \in DOMAIN Automations
          PROVE  ChainPassedOk(k, n, e, i)'
      <3>1. stack[k][n].held /\ e \in stack[k][n].rows
        BY <1>4, <1>8, <1>9, <2>1
      <3>2. ChainPassedOk(k, n, e, i) /\ e \in Chain!Events /\ i \in Nat
        BY <2>1, <3>1, ChainConstants DEF ChainIInv, ChainPassedInv, ChainFrameInv, ChainFrameOk
      <3>3. CASE k # c \/ n # t
        BY <1>9, <1>12, <1>13, <3>2, <3>3 DEF ChainPassedOk
      <3>4. CASE k = c /\ n = t /\ e # o
        BY <1>4, <1>8, <1>9, <1>13, <3>2, <3>4 DEF ChainPassedOk
      <3>5. CASE k = c /\ n = t /\ e = o
        <4>1. /\ i < Chain!Top(c).at /\ ChainWants(i, e) => ChainCarried(<<Automations[i], e>>)
              /\ i > Chain!Top(c).at \/ i = Chain!Top(c).at => ChainUnbegun(<<Automations[i], e>>)
          BY <1>4, <3>2, <3>5 DEF ChainPassedOk
        <4>2. i < a /\ ChainWants(i, e) => i < Chain!Top(c).at
          BY <1>5, <1>6, <1>7, <3>2, <3>5
        <4>3. /\ stack'[k][n] = frame /\ e = Chain!Min(frame.rows) /\ ChainEngaged(k, n)'
          BY <1>4, <1>8, <1>9, <1>10, <3>5
        <4>4. i > a => i > Chain!Top(c).at
          BY <1>7, <3>2
        <4>5. /\ i < a /\ ChainWants(i, e)' => ChainCarried(<<Automations[i], e>>)'
              /\ i > a => ChainUnbegun(<<Automations[i], e>>)'
          BY <1>12, <1>13, <3>2, <4>1, <4>2, <4>4
        <4> QED
          BY <1>8, <4>3, <4>5 DEF ChainPassedOk
      <3> QED
        BY <3>3, <3>4, <3>5
    <2> QED
      BY <1>3, <1>9, <2>1 DEF ChainPassedInv
  <1>19. ChainWaitingInv'
    BY <1>3, <1>9, <1>11, <1>12, <1>13 DEF ChainIInv, ChainWaitingInv, ChainWaitingOk
  <1> QED
    BY <1>9, <1>12, <1>14, <1>15, <1>17, <1>18, <1>19 DEF ChainIInv

\* An event is published when there is no other automation that wants it.
LEMMA ChainPublishedStep ==
  ASSUME ChainIInv, NEW c \in Chain!Callers, Chain!Published(c)
  PROVE  ChainIInv'
  <1> DEFINE t == Len(stack[c])
  <1>1. PICK o : o = Chain!Event(c)
    BY Zenon
  <1> DEFINE frame == [Chain!Top(c) EXCEPT !.rows = @ \ {o}, !.at = 1]
  <1>2. /\ cpc[c] = "next" /\ Chain!Top(c).rows # {} /\ Chain!SetTop(c, frame) /\ Chain!Triggered(c) = {}
        /\ UNCHANGED <<runs, retries, cpc, fails, cmade, hurt>>
        /\ outbox' = [outbox EXCEPT ![o].done = TRUE]
    BY <1>1 DEF Chain!Published
  <1>3. Chain!Goto(c, "next")
    BY <1>2 DEF Chain!Goto, ChainIInv, ChainTypeInv
  <1>4. /\ stack[c] # << >> /\ t \in DOMAIN stack[c] /\ Chain!Top(c) = stack[c][t] /\ Chain!Top(c) \in ChainFrame
        /\ Chain!Top(c).held /\ o = Chain!Min(Chain!Top(c).rows) /\ o \in Chain!Top(c).rows /\ o \in Nat /\ o \in Chain!Events
        /\ ~ChainEngaged(c, t) /\ ChainFrameOk(c, t)
    BY <1>1, <1>2, ChainNextIs
  <1>5. \A n \in DOMAIN Automations : ChainWants(n, o) => ~(n >= Chain!Top(c).at)
    BY <1>1, <1>2 DEF Chain!Triggered, ChainWants
  <1>6. /\ frame \in ChainFrame /\ frame.held /\ frame.rows = Chain!Top(c).rows \ {o} /\ frame.at = 1
    <2>1. Chain!Top(c).rows \ {o} \in SUBSET Nat
      BY <1>4 DEF ChainFrame
    <2>2. PICK rows : rows = Chain!Top(c).rows \ {o}
      OBVIOUS
    <2>3. frame = [Chain!Top(c) EXCEPT !.rows = rows, !.at = 1]
      BY <2>2
    <2> HIDE DEF frame
    <2>4. rows \in SUBSET Nat
      BY <2>1, <2>2
    <2>6. Chain!Top(c).held \in BOOLEAN
      BY <1>4 DEF ChainFrame
    <2>7. frame = [rows |-> rows, at |-> 1, held |-> Chain!Top(c).held]
      BY <1>4, <2>3 DEF ChainFrame
    <2>8. frame.rows = rows /\ frame.at = 1 /\ frame.held = Chain!Top(c).held
      BY <2>7
    <2>5. frame \in ChainFrame /\ frame.rows = rows /\ frame.at = 1 /\ frame.held = Chain!Top(c).held
      BY <2>4, <2>6, <2>7, <2>8 DEF ChainFrame
    <2> QED
      BY <1>4, <2>2, <2>5
  <1> HIDE DEF frame
  <1>7. /\ \A k \in Chain!Callers : DOMAIN stack'[k] = DOMAIN stack[k]
        /\ stack'[c][t] = frame /\ ChainPlace(c, t)' = "next"
        /\ \A k \in Chain!Callers : \A n \in DOMAIN stack[k] :
             k # c \/ n # t =>
               /\ stack'[k][n] = stack[k][n] /\ ChainPlace(k, n)' = ChainPlace(k, n)
               /\ ChainEngaged(k, n)' <=> ChainEngaged(k, n)
               /\ stack[k][n].held => stack[k][n].rows \cap Chain!Top(c).rows = {}
        /\ \A e : e \in Chain!Locked => e \in Chain!Locked' \/ e = o
        /\ \A run : ChainTaken(run)' <=> ChainTaken(run)
        /\ stack' \in [Chain!Callers -> Seq(ChainFrame)] /\ cpc' \in [Chain!Callers -> ChainSteps]
        /\ ChainPlaceInv' /\ ChainApartInv'
    <2>1. /\ \A e : e \in Chain!Locked <=> e \in Chain!Locked' \/ e \in Chain!Top(c).rows
          /\ \A e \in frame.rows : e \in Chain!Locked'
      BY <1>2, <1>3, <1>4, <1>6, ChainTurnIs
    <2> QED
      BY <1>2, <1>3, <1>4, <1>6, <2>1, ChainTurnIs
  <1>8. ~ChainEngaged(c, t)'
    BY <1>7 DEF ChainEngaged
  <1>9. /\ Chain!Events' = Chain!Events /\ outbox' \in Seq(ChainRows) /\ outbox'[o].done
        /\ \A e \in Chain!Events : /\ e # o => outbox'[e] = outbox[e]
                                   /\ outbox'[e].name = outbox[e].name
                                   /\ outbox'[e].depth = outbox[e].depth
                                   /\ outbox'[e].counted = outbox[e].counted
                                   /\ outbox'[e].parent = outbox[e].parent
    <2>1. outbox \in Seq(ChainRows) /\ o \in DOMAIN outbox
      BY <1>4 DEF ChainIInv, ChainTypeInv, Chain!Events
    <2>2. outbox[o] \in ChainRows
      <3> HIDE DEF ChainRows
      <3> QED
        BY <2>1
    <2> DEFINE line == [outbox[o] EXCEPT !.done = TRUE]
    <2>3. /\ line \in ChainRows /\ line.done /\ line.name = outbox[o].name /\ line.depth = outbox[o].depth
          /\ line.counted = outbox[o].counted /\ line.parent = outbox[o].parent
      BY <2>2 DEF ChainRows
    <2> HIDE DEF line
    <2>4. outbox' = [outbox EXCEPT ![o] = line]
      BY <1>2 DEF line
    <2>5. outbox' \in Seq(ChainRows) /\ DOMAIN outbox' = DOMAIN outbox
      BY <2>1, <2>3, <2>4
    <2> QED
      BY <2>1, <2>3, <2>4, <2>5 DEF Chain!Events
  <1>10. \A n : \A e \in Chain!Events : ChainWants(n, e)' <=> ChainWants(n, e)
    BY <1>9 DEF ChainWants, Chain!matches_event
  <1>11. ChainDepthInv'
    BY <1>9 DEF ChainIInv, ChainDepthInv
  <1>12. \A run : /\ Chain!Status(run)' = Chain!Status(run) /\ (ChainCarried(run)' <=> ChainCarried(run))
                  /\ (ChainUnbegun(run)' <=> ChainUnbegun(run))
    BY <1>2 DEF Chain!Status, ChainCarried, ChainUnbegun
  <1>13. ChainTypeInv' /\ ChainLimitInv' /\ ChainMadeInv' /\ ChainJobInv'
    BY <1>2, <1>7, <1>9, <1>10, <1>12 DEF ChainIInv, ChainTypeInv, ChainLimitInv, ChainMadeInv,
      ChainJobInv
  <1>14. ChainFrameInv'
    <2>1. ASSUME NEW k \in Chain!Callers, NEW n \in DOMAIN stack[k], k # c \/ n # t PROVE ChainFrameOk(k, n)'
      <3>1. ChainFrameOk(k, n) /\ stack[k][n] \in ChainFrame
        BY DEF ChainIInv, ChainFrameInv, ChainTypeInv
      <3>2. stack[k][n].rows # {} => Chain!Min(stack[k][n].rows) \in Chain!Events
        BY <3>1, ChainMinIs DEF ChainFrameOk, ChainFrame
      <3>3. stack[k][n].held => o \notin stack[k][n].rows
        BY <1>4, <1>7, <2>1
      <3>4. stack'[k][n] = stack[k][n] /\ (ChainEngaged(k, n)' <=> ChainEngaged(k, n))
        BY <1>7, <2>1
      <3> QED
        BY <1>9, <1>10, <3>1, <3>2, <3>3, <3>4 DEF ChainFrameOk
    <2>2. ChainFrameOk(c, t)'
      <3>1. \A e \in frame.rows : e \in Chain!Events /\ ~outbox'[e].done
        BY <1>4, <1>6, <1>9 DEF ChainFrameOk
      <3> QED
        BY <1>6, <1>7, <1>8, <1>9, <3>1 DEF ChainFrameOk
    <2> QED
      BY <1>7, <2>1, <2>2 DEF ChainFrameInv
  <1>15. ChainRunInv'
    <2>1. ASSUME NEW k \in Chain!Callers, NEW n \in DOMAIN stack[k], k # c \/ n # t PROVE ChainRunOk(k, n)'
      <3>1. ChainRunOk(k, n)
        BY DEF ChainIInv, ChainRunInv
      <3> QED
        BY <1>2, <1>7, <1>12, <2>1, <3>1 DEF ChainRunOk, Chain!RunOf
    <2>2. ChainRunOk(c, t)'
      BY <1>6, <1>7, <1>8 DEF ChainRunOk
    <2> QED
      BY <1>7, <2>1, <2>2 DEF ChainRunInv
  <1>16. ChainPassedInv'
    <2>1. ASSUME NEW k \in Chain!Callers, NEW n \in DOMAIN stack[k], stack'[k][n].held,
                 NEW e \in stack'[k][n].rows \ hurt, NEW i \in DOMAIN Automations
          PROVE  ChainPassedOk(k, n, e, i)'
      <3>1. stack[k][n].held /\ e \in stack[k][n].rows
        BY <1>4, <1>6, <1>7, <2>1
      <3>2. ChainPassedOk(k, n, e, i) /\ e \in Chain!Events /\ i \in Nat
        BY <2>1, <3>1, ChainConstants DEF ChainIInv, ChainPassedInv, ChainFrameInv, ChainFrameOk
      <3>3. CASE k # c \/ n # t
        BY <1>7, <1>10, <1>12, <3>2, <3>3 DEF ChainPassedOk
      <3>4. CASE k = c /\ n = t
        <4>1. e # o /\ stack'[k][n] = frame
          BY <1>6, <1>7, <2>1, <3>4
        <4>2. ChainUnbegun(<<Automations[i], e>>)'
          BY <1>4, <1>12, <3>2, <3>4, <4>1 DEF ChainPassedOk
        <4>3. ~(i < 1)
          BY <2>1, ChainConstants
        <4> QED
          BY <1>6, <4>1, <4>2, <4>3 DEF ChainPassedOk
      <3> QED
        BY <3>3, <3>4
    <2> QED
      BY <1>2, <1>7, <2>1 DEF ChainPassedInv
  <1>17. ChainWaitingInv'
    <2>1. ASSUME NEW e \in Chain!Events, e \notin Chain!Locked', e \notin hurt, NEW i \in DOMAIN Automations
          PROVE  ChainWaitingOk(e, i)'
      <3>1. CASE e # o
        <4>1. ChainWaitingOk(e, i)
          BY <1>7, <2>1, <3>1 DEF ChainIInv, ChainWaitingInv
        <4> QED
          BY <1>9, <1>10, <1>12, <3>1, <4>1 DEF ChainWaitingOk
      <3>2. CASE e = o
        <4>1. ChainPassedOk(c, t, o, i)
          BY <1>4, <2>1, <3>2 DEF ChainIInv, ChainPassedInv
        <4>2. ChainWants(i, o) => i < Chain!Top(c).at
          BY <1>4, <1>5, ChainConstants DEF ChainFrame
        <4>3. ChainWants(i, o) => ChainCarried(<<Automations[i], o>>)
          BY <1>4, <4>1, <4>2 DEF ChainPassedOk
        <4> QED
          BY <1>9, <1>10, <1>12, <3>2, <4>3 DEF ChainWaitingOk
      <3> QED
        BY <3>1, <3>2
    <2> QED
      BY <1>2, <1>9, <2>1 DEF ChainWaitingInv
  <1> QED
    BY <1>7, <1>11, <1>13, <1>14, <1>15, <1>16, <1>17 DEF ChainIInv

\* The frames, when a call leaves its innermost one.
LEMMA ChainPopTurn ==
  ASSUME ChainIInv, NEW c \in Chain!Callers, stack[c] # << >>, Chain!Pop(c),
         Chain!Goto(c, Chain!After(Chain!Front(stack[c]))),
         UNCHANGED outbox
  PROVE  /\ \A k \in Chain!Callers : \A n \in DOMAIN stack'[k] :
              /\ n \in DOMAIN stack[k] /\ stack'[k][n] = stack[k][n] /\ (k # c \/ n # Len(stack[c]))
              /\ ChainEngaged(k, n)' <=> ChainEngaged(k, n)
              /\ ChainPlace(k, n)' = ChainPlace(k, n) \/ (ChainPlace(k, n) = "below" /\ ChainPlace(k, n)' = "settle")
         /\ \A e : e \in Chain!Locked' => e \in Chain!Locked
         /\ \A e : e \in Chain!Locked => e \in Chain!Locked' \/ (Chain!Top(c).held /\ e \in Chain!Top(c).rows)
         /\ \A run : ChainTaken(run)' => ChainTaken(run)
         /\ \A run : ChainTaken(run) => ChainTaken(run)' \/ (~Chain!Top(c).held /\ run = Chain!Run(c))
         /\ stack' \in [Chain!Callers -> Seq(ChainFrame)] /\ cpc' \in [Chain!Callers -> ChainSteps]
         /\ ChainFrameInv' /\ ChainPlaceInv' /\ ChainApartInv' /\ ChainDepthInv'
         /\ ChainGrown /\ Chain!Events' = Chain!Events /\ \A n : \A e \in Chain!Events : ChainWants(n, e)' <=> ChainWants(n, e)
  <1> DEFINE t == Len(stack[c])
             l == IF t = 1 THEN "idle" ELSE "settle"
  <1>1. /\ t \in Nat \ {0} /\ t \in DOMAIN stack[c] /\ Chain!Top(c) = stack[c][t] /\ Chain!Top(c) \in ChainFrame
        /\ DOMAIN stack[c] = 1..t
    BY ChainTopIs DEF ChainIInv
  <1>2. /\ stack' \in [Chain!Callers -> Seq(ChainFrame)]
        /\ \A k \in Chain!Callers \ {c} : stack'[k] = stack[k]
        /\ stack'[c] = Chain!Front(stack[c])
        /\ Len(stack'[c]) = t - 1
        /\ DOMAIN stack'[c] = DOMAIN stack[c] \ {t}
        /\ \A n \in DOMAIN stack'[c] : stack'[c][n] = stack[c][n] /\ n < t
        /\ stack'[c] = << >> <=> t = 1
    BY ChainPopIs DEF ChainIInv
  <1>3. l = Chain!After(Chain!Front(stack[c])) /\ l \in ChainSteps
    BY <1>2 DEF Chain!After, ChainSteps
  <1>4. /\ \A k \in Chain!Callers : cpc'[k] = IF k = c THEN l ELSE cpc[k]
        /\ cpc' \in [Chain!Callers -> ChainSteps]
    BY <1>3 DEF ChainIInv, ChainTypeInv, Chain!Goto
  <1>5. \A k \in Chain!Callers : \A n \in DOMAIN stack[k] : n \in 1..Len(stack[k]) /\ Len(stack[k]) \in Nat
    BY DEF ChainIInv, ChainTypeInv
  <1>6. \A k \in Chain!Callers : \A n \in DOMAIN stack'[k] :
          /\ n \in DOMAIN stack[k] /\ stack'[k][n] = stack[k][n] /\ (k # c \/ n # t)
          /\ ChainPlace(k, n)' = ChainPlace(k, n) \/ (ChainPlace(k, n) = "below" /\ ChainPlace(k, n)' = "settle")
    <2>1. ASSUME NEW k \in Chain!Callers \ {c}, NEW n \in DOMAIN stack'[k]
          PROVE  /\ n \in DOMAIN stack[k] /\ stack'[k][n] = stack[k][n] /\ (k # c \/ n # t)
                 /\ ChainPlace(k, n)' = ChainPlace(k, n)
      BY <1>2, <1>4, <2>1 DEF ChainPlace
    <2>2. ASSUME NEW n \in DOMAIN stack'[c]
          PROVE  /\ n \in DOMAIN stack[c] /\ stack'[c][n] = stack[c][n] /\ n # t
                 /\ ChainPlace(c, n)' = ChainPlace(c, n) \/ (ChainPlace(c, n) = "below" /\ ChainPlace(c, n)' = "settle")
      BY <1>1, <1>2, <1>4, <2>2 DEF ChainPlace
    <2> QED
      BY <2>1, <2>2
  <1>7. \A k \in Chain!Callers : \A n \in DOMAIN stack'[k] : ChainEngaged(k, n)' <=> ChainEngaged(k, n)
    BY <1>6 DEF ChainEngaged
  <1>8. \A k \in Chain!Callers : \A n \in DOMAIN stack[k] : k # c \/ n # t => n \in DOMAIN stack'[k]
    BY <1>2
  <1>9. \A e : e \in Chain!Locked' => e \in Chain!Locked
    BY <1>6, ChainLockedIs, ChainLockedNext
  <1>10. \A e : e \in Chain!Locked => e \in Chain!Locked' \/ (Chain!Top(c).held /\ e \in Chain!Top(c).rows)
    BY <1>1, <1>6, <1>8, ChainLockedIs, ChainLockedNext
  <1>11. \A k \in Chain!Callers : stack'[k] # << >> =>
           stack[k] # << >> /\ 1 \in DOMAIN stack'[k] /\ stack'[k][1] = stack[k][1]
    <2>1. \A k \in Chain!Callers : stack'[k] # << >> => stack[k] # << >> /\ 1 \in DOMAIN stack[k]
      BY <1>2, ChainTopIs DEF ChainIInv
    <2> QED
      BY <1>1, <1>2, <1>6, <2>1
  <1>12. \A run : ChainTaken(run)' => ChainTaken(run)
    BY <1>11 DEF ChainTaken, Chain!RunOf, Chain!Callers
  <1>13. \A run : ChainTaken(run) => ChainTaken(run)' \/ (~Chain!Top(c).held /\ run = Chain!Run(c))
    <2>1. ASSUME NEW run, NEW k \in Pollers, stack[k] # << >>, ~stack[k][1].held, Chain!RunOf(stack[k][1]) = run
          PROVE  ChainTaken(run)' \/ (~Chain!Top(c).held /\ run = Chain!Run(c))
      <3>1. k \in Chain!Callers
        BY DEF Chain!Callers
      <3>2. CASE stack'[k] # << >>
        BY <1>11, <2>1, <3>1, <3>2 DEF ChainTaken, Chain!RunOf
      <3>3. CASE stack'[k] = << >>
        <4>1. k = c /\ t = 1
          BY <1>2, <2>1, <3>1, <3>3
        <4> QED
          BY <1>1, <2>1, <4>1 DEF Chain!Run
      <3> QED
        BY <3>2, <3>3
    <2> QED
      BY <2>1 DEF ChainTaken
  <1>14. ChainGrown /\ Chain!Events' = Chain!Events
    BY ChainStays DEF ChainIInv, Chain!Events
  <1>15. (\A n : \A e \in Chain!Events : ChainWants(n, e)' <=> ChainWants(n, e)) /\ ChainDepthInv'
    BY <1>14, ChainGrownIs DEF ChainIInv
  <1>16. ChainFrameInv'
    <2>1. ASSUME NEW k \in Chain!Callers, NEW n \in DOMAIN stack'[k] PROVE ChainFrameOk(k, n)'
      <3>1. ChainFrameOk(k, n) /\ stack[k][n] \in ChainFrame
        BY <1>6, <2>1 DEF ChainIInv, ChainFrameInv, ChainTypeInv
      <3>2. stack[k][n].rows # {} => Chain!Min(stack[k][n].rows) \in Chain!Events
        BY <3>1, ChainMinIs DEF ChainFrameOk, ChainFrame
      <3> QED
        BY <1>6, <1>7, <1>14, <1>15, <2>1, <3>1, <3>2 DEF ChainFrameOk
    <2> QED
      BY <2>1 DEF ChainFrameInv
  <1>17. ChainPlaceInv'
    BY <1>2, <1>4 DEF ChainIInv, ChainPlaceInv
  <1>18. ChainApartInv'
    <2>1. ASSUME NEW k \in Chain!Callers, NEW j \in Chain!Callers,
                 NEW n \in DOMAIN stack'[k], NEW m \in DOMAIN stack'[j], k # j \/ n # m
          PROVE  /\ stack'[k][n].held /\ stack'[j][m].held =>
                      stack'[k][n].rows \cap stack'[j][m].rows = {}
                 /\ ~stack'[k][n].held /\ ~stack'[j][m].held =>
                      Chain!RunOf(stack'[k][n]) # Chain!RunOf(stack'[j][m])
      <3>1. /\ n \in DOMAIN stack[k] /\ m \in DOMAIN stack[j]
            /\ stack'[k][n] = stack[k][n] /\ stack'[j][m] = stack[j][m]
        BY <1>6, <2>1
      <3> QED
        BY <2>1, <3>1 DEF ChainIInv, ChainApartInv
    <2> QED
      BY <2>1 DEF ChainApartInv, Chain!RunOf
  <1> QED
    BY <1>2, <1>4, <1>6, <1>7, <1>9, <1>10, <1>12, <1>13, <1>14, <1>15, <1>16, <1>17, <1>18

\* A dispatcher commits when all its events are published.
LEMMA ChainCommitStep ==
  ASSUME ChainIInv, NEW c \in Chain!Callers, Chain!Commit(c)
  PROVE  ChainIInv'
  <1>1. /\ cpc[c] = "next" /\ Chain!Top(c).rows = {} /\ Chain!Pop(c) /\ Chain!Goto(c, Chain!After(Chain!Front(stack[c])))
        /\ UNCHANGED <<outbox, runs, retries, fails, cmade, hurt>>
    BY DEF Chain!Commit
  <1>2. stack[c] # << >> /\ Chain!Top(c).held
    BY <1>1, ChainNextIs
  <1>3. /\ \A k \in Chain!Callers : \A n \in DOMAIN stack'[k] :
             /\ n \in DOMAIN stack[k] /\ stack'[k][n] = stack[k][n]
             /\ ChainEngaged(k, n)' <=> ChainEngaged(k, n)
             /\ ChainPlace(k, n)' = ChainPlace(k, n) \/ (ChainPlace(k, n) = "below" /\ ChainPlace(k, n)' = "settle")
        /\ \A e : e \in Chain!Locked' <=> e \in Chain!Locked
        /\ \A run : ChainTaken(run)' <=> ChainTaken(run)
        /\ stack' \in [Chain!Callers -> Seq(ChainFrame)] /\ cpc' \in [Chain!Callers -> ChainSteps]
        /\ ChainFrameInv' /\ ChainPlaceInv' /\ ChainApartInv' /\ ChainDepthInv'
        /\ Chain!Events' = Chain!Events /\ \A n : \A e \in Chain!Events : ChainWants(n, e)' <=> ChainWants(n, e)
    <2>1. UNCHANGED outbox
      BY <1>1
    <2>2. \A e : e \in Chain!Locked => e \in Chain!Locked' \/ (Chain!Top(c).held /\ e \in Chain!Top(c).rows)
      BY <1>1, <1>2, <2>1, ChainPopTurn
    <2>3. \A run : ChainTaken(run) => ChainTaken(run)' \/ (~Chain!Top(c).held /\ run = Chain!Run(c))
      BY <1>1, <1>2, <2>1, ChainPopTurn
    <2> QED
      BY <1>1, <1>2, <2>1, <2>2, <2>3, ChainPopTurn
  <1>4. \A run : /\ Chain!Status(run)' = Chain!Status(run) /\ (ChainCarried(run)' <=> ChainCarried(run))
                 /\ (ChainUnbegun(run)' <=> ChainUnbegun(run))
    BY <1>1 DEF Chain!Status, ChainCarried, ChainUnbegun
  <1>5. ChainTypeInv' /\ ChainLimitInv' /\ ChainMadeInv' /\ ChainJobInv'
    BY <1>1, <1>3, <1>4 DEF ChainIInv, ChainTypeInv, ChainLimitInv, ChainMadeInv, ChainJobInv
  <1>6. ChainRunInv'
    <2>1. ASSUME NEW k \in Chain!Callers, NEW n \in DOMAIN stack'[k] PROVE ChainRunOk(k, n)'
      <3>1. ChainRunOk(k, n)
        BY <1>3 DEF ChainIInv, ChainRunInv
      <3>2. /\ stack'[k][n] = stack[k][n] /\ (ChainEngaged(k, n)' <=> ChainEngaged(k, n))
            /\ ChainPlace(k, n)' = ChainPlace(k, n) \/ (ChainPlace(k, n) = "below" /\ ChainPlace(k, n)' = "settle")
        BY <1>3, <2>1
      <3> QED
        BY <1>1, <1>4, <3>1, <3>2 DEF ChainRunOk, Chain!RunOf
    <2> QED
      BY <2>1 DEF ChainRunInv
  <1>7. ChainPassedInv'
    <2>1. ASSUME NEW k \in Chain!Callers, NEW n \in DOMAIN stack'[k], stack'[k][n].held,
                 NEW e \in stack'[k][n].rows \ hurt, NEW i \in DOMAIN Automations
          PROVE  ChainPassedOk(k, n, e, i)'
      <3>1. n \in DOMAIN stack[k] /\ stack[k][n].held /\ e \in stack[k][n].rows
        BY <1>3, <2>1
      <3>2. ChainPassedOk(k, n, e, i) /\ e \in Chain!Events
        BY <2>1, <3>1 DEF ChainIInv, ChainPassedInv, ChainFrameInv, ChainFrameOk
      <3> QED
        BY <1>3, <1>4, <2>1, <3>2 DEF ChainPassedOk
    <2> QED
      BY <1>1, <2>1 DEF ChainPassedInv
  <1>8. ChainWaitingInv'
    BY <1>1, <1>3, <1>4 DEF ChainIInv, ChainWaitingInv, ChainWaitingOk
  <1> QED
    BY <1>3, <1>5, <1>6, <1>7, <1>8 DEF ChainIInv

\* The job of a loop is over.
LEMMA ChainOverStep ==
  ASSUME ChainIInv, NEW c \in Chain!Callers, stack[c] # << >>, cpc[c] \in ChainBusy,
         ~Chain!Top(c).held,
         Chain!Pop(c), Chain!Goto(c, "idle"), UNCHANGED <<outbox, cmade, fails, hurt>>,
         NEW r, r = Chain!Run(c), NEW o, o = Chain!Event(c),
         ChainTable(runs, {"running", "retrying", "completed"})', ChainTable(retries, Nat)',
         DOMAIN runs' \subseteq DOMAIN runs \cup {r},
         DOMAIN retries' \subseteq DOMAIN retries, DOMAIN retries \subseteq DOMAIN retries' \cup {r},
         \A run : run # r => Chain!Status(run)' = Chain!Status(run),
         o \notin hurt =>
           /\ ChainCarried(r)'
           /\ r \in DOMAIN retries' => Chain!Status(r)' = "retrying"
           /\ r \in DOMAIN cmade => Chain!Status(r)' \in {"running", "completed"}
  PROVE  ChainIInv'
  <1> DEFINE t == Len(stack[c])
  <1>1. /\ t \in DOMAIN stack[c] /\ Chain!Top(c) = stack[c][t] /\ Chain!Top(c) \in ChainFrame
        /\ r = <<Automations[Chain!Top(c).at], o>> /\ o \in Chain!Events /\ Chain!Top(c).at \in DOMAIN Automations
        /\ ChainWants(Chain!Top(c).at, o) /\ ChainFrameOk(c, t) /\ ChainRunOk(c, t) /\ r = Chain!RunOf(Chain!Top(c))
    BY ChainAtWork
  <1>2. r[2] = o /\ t = 1 /\ r \in DOMAIN retries
    BY <1>1 DEF ChainFrameOk, ChainRunOk
  <1>3. Chain!After(Chain!Front(stack[c])) = "idle"
    BY <1>2, ChainPopIs DEF ChainIInv, Chain!After
  <1>4. /\ \A k \in Chain!Callers : \A n \in DOMAIN stack'[k] :
             /\ n \in DOMAIN stack[k] /\ stack'[k][n] = stack[k][n] /\ (k # c \/ n # t)
             /\ ChainEngaged(k, n)' <=> ChainEngaged(k, n)
             /\ ChainPlace(k, n)' = ChainPlace(k, n) \/ (ChainPlace(k, n) = "below" /\ ChainPlace(k, n)' = "settle")
        /\ \A e : e \in Chain!Locked' <=> e \in Chain!Locked
        /\ \A run : run # r => (ChainTaken(run)' <=> ChainTaken(run))
        /\ stack' \in [Chain!Callers -> Seq(ChainFrame)] /\ cpc' \in [Chain!Callers -> ChainSteps]
        /\ ChainFrameInv' /\ ChainPlaceInv' /\ ChainApartInv' /\ ChainDepthInv'
        /\ Chain!Events' = Chain!Events /\ \A n : \A e \in Chain!Events : ChainWants(n, e)' <=> ChainWants(n, e)
    <2>1. UNCHANGED outbox /\ Chain!Goto(c, Chain!After(Chain!Front(stack[c])))
      BY <1>3
    <2>2. \A e : e \in Chain!Locked => e \in Chain!Locked' \/ (Chain!Top(c).held /\ e \in Chain!Top(c).rows)
      BY <2>1, ChainPopTurn
    <2>3. \A run : ChainTaken(run) => ChainTaken(run)' \/ (~Chain!Top(c).held /\ run = Chain!Run(c))
      BY <2>1, ChainPopTurn
    <2> QED
      BY <2>1, <2>2, <2>3, ChainPopTurn
  <1>5. \A run : run # r => (ChainCarried(run)' <=> ChainCarried(run)) /\ (ChainUnbegun(run) => ChainUnbegun(run)')
    BY DEF ChainCarried, ChainUnbegun
  <1>6. ~ChainUnbegun(r)
    BY <1>2 DEF ChainUnbegun
  <1>7. ChainTypeInv'
    BY <1>4 DEF ChainIInv, ChainTypeInv
  <1>8. ChainLimitInv'
    BY <1>1, <1>4 DEF ChainIInv, ChainLimitInv
  <1>9. ChainMadeInv'
    BY <1>2 DEF ChainIInv, ChainMadeInv
  <1>10. ChainJobInv'
    <2>1. ASSUME NEW run \in DOMAIN retries', run[2] \notin hurt
          PROVE  Chain!Status(run)' = "retrying" \/ ChainTaken(run)'
      <3>1. CASE run = r
        BY <1>2, <2>1, <3>1
      <3>2. CASE run # r
        <4>1. Chain!Status(run) = "retrying" \/ ChainTaken(run)
          BY <2>1, <3>2 DEF ChainIInv, ChainJobInv
        <4>2. Chain!Status(run)' = Chain!Status(run) /\ (ChainTaken(run)' <=> ChainTaken(run))
          BY <1>4, <3>2
        <4> QED
          BY <4>1, <4>2
      <3> QED
        BY <3>1, <3>2
    <2> QED
      BY <2>1 DEF ChainJobInv
  <1>11. ChainRunInv'
    <2>1. ASSUME NEW k \in Chain!Callers, NEW n \in DOMAIN stack'[k] PROVE ChainRunOk(k, n)'
      <3>1. /\ n \in DOMAIN stack[k] /\ stack'[k][n] = stack[k][n] /\ (k # c \/ n # t)
            /\ (ChainEngaged(k, n)' <=> ChainEngaged(k, n))
            /\ ChainPlace(k, n)' = ChainPlace(k, n) \/ (ChainPlace(k, n) = "below" /\ ChainPlace(k, n)' = "settle")
        BY <1>4, <2>1
      <3>2. ChainRunOk(k, n)
        BY <3>1 DEF ChainIInv, ChainRunInv
      <3>3. /\ ChainEngaged(k, n) /\ Chain!RunOf(stack[k][n])[2] \notin hurt => Chain!RunOf(stack[k][n]) # r
            /\ ~stack[k][n].held => Chain!RunOf(stack[k][n]) # r
        BY <3>1, ChainOthersApart
      <3> QED
        BY <3>1, <3>2, <3>3 DEF ChainRunOk, Chain!RunOf
    <2> QED
      BY <2>1 DEF ChainRunInv
  <1>12. ChainPassedInv'
    <2>1. ASSUME NEW k \in Chain!Callers, NEW n \in DOMAIN stack'[k], stack'[k][n].held,
                 NEW e \in stack'[k][n].rows \ hurt, NEW i \in DOMAIN Automations
          PROVE  ChainPassedOk(k, n, e, i)'
      <3>1. n \in DOMAIN stack[k] /\ stack[k][n].held /\ e \in stack[k][n].rows
        BY <1>4, <2>1
      <3>2. ChainPassedOk(k, n, e, i) /\ e \in Chain!Events
        BY <2>1, <3>1 DEF ChainIInv, ChainPassedInv, ChainFrameInv, ChainFrameOk
      <3>3. CASE <<Automations[i], e>> # r
        BY <1>4, <1>5, <2>1, <3>2, <3>3 DEF ChainPassedOk
      <3>4. CASE <<Automations[i], e>> = r
        <4>1. e = o
          BY <1>1, <3>4
        <4>2. ChainCarried(<<Automations[i], e>>)' /\ ~ChainUnbegun(<<Automations[i], e>>)
          BY <1>6, <2>1, <3>4, <4>1
        <4> QED
          BY <1>4, <2>1, <3>2, <4>2 DEF ChainPassedOk
      <3> QED
        BY <3>3, <3>4
    <2> QED
      BY <2>1 DEF ChainPassedInv
  <1>13. ChainWaitingInv'
    <2>1. ASSUME NEW e \in Chain!Events \ (Chain!Locked \cup hurt), NEW i \in DOMAIN Automations PROVE ChainWaitingOk(e, i)'
      <3>1. ChainWaitingOk(e, i)
        BY DEF ChainIInv, ChainWaitingInv
      <3>2. CASE <<Automations[i], e>> # r
        BY <1>4, <1>5, <3>1, <3>2 DEF ChainWaitingOk
      <3>3. CASE <<Automations[i], e>> = r
        <4>1. e = o
          BY <1>1, <3>3
        <4>2. ChainCarried(<<Automations[i], e>>)' /\ ~ChainUnbegun(<<Automations[i], e>>)
          BY <1>6, <2>1, <3>3, <4>1
        <4> QED
          BY <3>1, <4>2 DEF ChainWaitingOk
      <3> QED
        BY <3>2, <3>3
    <2> QED
      BY <1>4, <2>1 DEF ChainWaitingInv
  <1> QED
    BY <1>4, <1>7, <1>8, <1>9, <1>10, <1>11, <1>12, <1>13 DEF ChainIInv

\* The frames, when a call takes up something new.
LEMMA ChainPushTurn ==
  ASSUME ChainIInv, NEW c \in Chain!Callers, cpc[c] = "dispatch" \/ stack[c] = << >>,
         NEW frame \in ChainFrame, NEW l \in {"next", "claim"}, Chain!Push(c, frame),
         Chain!Goto(c, l),
         UNCHANGED outbox, NEW u, u = Len(stack[c]) + 1
  PROVE  /\ u \in DOMAIN stack'[c] /\ stack'[c][u] = frame
         /\ ChainPlace(c, u)' = l
         /\ stack[c] = << >> => u = 1
         /\ \A k \in Chain!Callers : \A n \in DOMAIN stack'[k] :
              k # c \/ n # u =>
                /\ n \in DOMAIN stack[k] /\ stack'[k][n] = stack[k][n]
                /\ ChainEngaged(k, n)' <=> ChainEngaged(k, n)
                /\ ChainPlace(k, n)' = ChainPlace(k, n) \/ (ChainPlace(k, n) = "dispatch" /\ ChainPlace(k, n)' = "below")
         /\ \A e : e \in Chain!Locked' <=> e \in Chain!Locked \/ (frame.held /\ e \in frame.rows)
         /\ \A run : ChainTaken(run) => ChainTaken(run)'
         /\ stack' \in [Chain!Callers -> Seq(ChainFrame)] /\ cpc' \in [Chain!Callers -> ChainSteps] /\ ChainPlaceInv'
         /\ ChainDepthInv' /\ Chain!Events' = Chain!Events
         /\ \A n : \A e \in Chain!Events : ChainWants(n, e)' <=> ChainWants(n, e)
         /\ \A k \in Chain!Callers : \A n \in DOMAIN stack'[k] :
              k # c \/ n # u => ChainFrameOk(k, n)'
  <1>1. /\ stack' \in [Chain!Callers -> Seq(ChainFrame)]
        /\ \A k \in Chain!Callers \ {c} : stack'[k] = stack[k]
        /\ Len(stack'[c]) = u /\ stack'[c] # << >> /\ u \in Nat
        /\ DOMAIN stack'[c] = DOMAIN stack[c] \cup {u}
        /\ \A n \in DOMAIN stack[c] :
             stack'[c][n] = stack[c][n] /\ n <= Len(stack[c]) /\ n \in Nat
        /\ stack'[c][u] = frame /\ Len(stack[c]) \in Nat /\ u \notin DOMAIN stack[c]
        /\ stack[c] # << >> => Len(stack[c]) \in DOMAIN stack[c]
    BY ChainPushIs DEF ChainIInv
  <1>2. /\ \A k \in Chain!Callers : cpc'[k] = IF k = c THEN l ELSE cpc[k]
        /\ cpc' \in [Chain!Callers -> ChainSteps]
    BY DEF ChainIInv, ChainTypeInv, Chain!Goto, ChainSteps
  <1>3. ChainPlace(c, u)' = l /\ u \in DOMAIN stack'[c]
    BY <1>1, <1>2 DEF ChainPlace
  <1>4. stack[c] = << >> => u = 1 /\ DOMAIN stack[c] = {}
    OBVIOUS
  <1>5. \A k \in Chain!Callers : \A n \in DOMAIN stack'[k] :
          k # c \/ n # u =>
            /\ n \in DOMAIN stack[k] /\ stack'[k][n] = stack[k][n]
            /\ ChainPlace(k, n)' = ChainPlace(k, n) \/ (ChainPlace(k, n) = "dispatch" /\ ChainPlace(k, n)' = "below")
    <2>1. ASSUME NEW k \in Chain!Callers \ {c}, NEW n \in DOMAIN stack'[k]
          PROVE  /\ n \in DOMAIN stack[k] /\ stack'[k][n] = stack[k][n]
                 /\ ChainPlace(k, n)' = ChainPlace(k, n)
      BY <1>1, <1>2, <2>1 DEF ChainPlace
    <2>2. ASSUME NEW n \in DOMAIN stack'[c], n # u
          PROVE  /\ n \in DOMAIN stack[c] /\ stack'[c][n] = stack[c][n]
                 /\ ChainPlace(c, n)' = ChainPlace(c, n) \/ (ChainPlace(c, n) = "dispatch" /\ ChainPlace(c, n)' = "below")
      BY <1>1, <1>2, <1>4, <2>2 DEF ChainPlace
    <2> QED
      BY <2>1, <2>2
  <1>6. \A k \in Chain!Callers : \A n \in DOMAIN stack'[k] :
          k # c \/ n # u => (ChainEngaged(k, n)' <=> ChainEngaged(k, n))
    BY <1>5 DEF ChainEngaged
  <1>7. \A k \in Chain!Callers : \A n \in DOMAIN stack[k] : n \in DOMAIN stack'[k] /\ (k # c \/ n # u)
    BY <1>1
  <1>8. \A e : e \in Chain!Locked' <=> e \in Chain!Locked \/ (frame.held /\ e \in frame.rows)
    <2>1. ASSUME NEW e, e \in Chain!Locked' PROVE e \in Chain!Locked \/ (frame.held /\ e \in frame.rows)
      <3>1. PICK k \in Chain!Callers : \E n \in DOMAIN stack'[k] : stack'[k][n].held /\ e \in stack'[k][n].rows
        BY <2>1, ChainLockedNext
      <3>2. PICK n \in DOMAIN stack'[k] : stack'[k][n].held /\ e \in stack'[k][n].rows
        BY <3>1
      <3>3. CASE k = c /\ n = u
        BY <1>1, <3>2, <3>3
      <3>4. CASE k # c \/ n # u
        BY <1>5, <3>2, <3>4, ChainLockedIs
      <3> QED
        BY <3>3, <3>4
    <2>2. ASSUME NEW e, e \in Chain!Locked PROVE e \in Chain!Locked'
      BY <1>5, <1>7, <2>2, ChainLockedIs, ChainLockedNext
    <2>3. ASSUME NEW e, frame.held, e \in frame.rows PROVE e \in Chain!Locked'
      BY <1>1, <1>3, <2>3, ChainLockedNext
    <2> QED
      BY <2>1, <2>2, <2>3
  <1>9. \A run : ChainTaken(run) => ChainTaken(run)'
    <2>1. \A k \in Chain!Callers : stack[k] # << >> =>
            stack'[k] # << >> /\ 1 \in DOMAIN stack[k] /\ stack'[k][1] = stack[k][1]
      <3>1. \A k \in Chain!Callers : stack[k] # << >> => stack'[k] # << >> /\ 1 \in DOMAIN stack[k]
        BY <1>1, ChainTopIs DEF ChainIInv
      <3> QED
        BY <1>5, <1>7, <3>1
    <2> QED
      BY <2>1 DEF ChainTaken, Chain!RunOf, Chain!Callers
  <1>10. ChainGrown /\ Chain!Events' = Chain!Events
    BY ChainStays DEF ChainIInv, Chain!Events
  <1>11. (\A n : \A e \in Chain!Events : ChainWants(n, e)' <=> ChainWants(n, e)) /\ ChainDepthInv'
    BY <1>10, ChainGrownIs DEF ChainIInv
  <1>12. ASSUME NEW k \in Chain!Callers, NEW n \in DOMAIN stack'[k], k # c \/ n # u PROVE ChainFrameOk(k, n)'
    <2>1. /\ n \in DOMAIN stack[k] /\ stack'[k][n] = stack[k][n]
          /\ ChainEngaged(k, n)' <=> ChainEngaged(k, n)
      BY <1>5, <1>6, <1>12
    <2>2. ChainFrameOk(k, n) /\ stack[k][n] \in ChainFrame
      BY <2>1 DEF ChainIInv, ChainFrameInv, ChainTypeInv
    <2>3. stack[k][n].rows # {} => Chain!Min(stack[k][n].rows) \in Chain!Events
      BY <2>2, ChainMinIs DEF ChainFrameOk, ChainFrame
    <2> QED
      BY <1>10, <1>11, <2>1, <2>2, <2>3 DEF ChainFrameOk
  <1>13. ChainPlaceInv'
    BY <1>1, <1>2 DEF ChainIInv, ChainPlaceInv
  <1> QED
    BY <1>1, <1>2, <1>3, <1>4, <1>5, <1>6, <1>8, <1>9, <1>10, <1>11, <1>12, <1>13

\* The rest of the invariant, when a call has taken up something new.
LEMMA ChainTakenUp ==
  ASSUME ChainIInv, NEW c \in Chain!Callers, cpc[c] = "dispatch" \/ stack[c] = << >>,
         NEW frame \in ChainFrame, NEW l \in {"next", "claim"}, Chain!Push(c, frame),
         Chain!Goto(c, l),
         UNCHANGED <<outbox, runs, retries, fails, cmade, hurt>>, NEW u, u = Len(stack[c]) + 1,
         ChainFrameOk(c, u)', ChainRunOk(c, u)',
         \A k \in Chain!Callers : \A n \in DOMAIN stack[k] :
           /\ frame.held /\ stack[k][n].held => frame.rows \cap stack[k][n].rows = {}
           /\ ~frame.held /\ ~stack[k][n].held => Chain!RunOf(frame) # Chain!RunOf(stack[k][n]),
         frame.held => \A e \in frame.rows \ hurt : \A i \in DOMAIN Automations :
                          ChainPassedOk(c, u, e, i)'
  PROVE  ChainIInv'
  <1>2. /\ u \in DOMAIN stack'[c] /\ stack'[c][u] = frame
        /\ \A k \in Chain!Callers : \A n \in DOMAIN stack'[k] :
             k # c \/ n # u =>
               /\ n \in DOMAIN stack[k] /\ stack'[k][n] = stack[k][n]
               /\ ChainEngaged(k, n)' <=> ChainEngaged(k, n)
               /\ ChainPlace(k, n)' = ChainPlace(k, n) \/ (ChainPlace(k, n) = "dispatch" /\ ChainPlace(k, n)' = "below")
               /\ ChainFrameOk(k, n)'
        /\ \A e : e \in Chain!Locked => e \in Chain!Locked'
        /\ \A run : ChainTaken(run) => ChainTaken(run)'
        /\ stack' \in [Chain!Callers -> Seq(ChainFrame)] /\ cpc' \in [Chain!Callers -> ChainSteps] /\ ChainPlaceInv'
        /\ ChainDepthInv' /\ Chain!Events' = Chain!Events
        /\ \A n : \A e \in Chain!Events : ChainWants(n, e)' <=> ChainWants(n, e)
    <2>1. UNCHANGED outbox
      OBVIOUS
    <2>2. \A e : e \in Chain!Locked' <=> e \in Chain!Locked \/ (frame.held /\ e \in frame.rows)
      BY <2>1, ChainPushTurn
    <2> QED
      BY <2>1, <2>2, ChainPushTurn
  <1>3. \A run : /\ Chain!Status(run)' = Chain!Status(run) /\ (ChainCarried(run)' <=> ChainCarried(run))
                 /\ (ChainUnbegun(run)' <=> ChainUnbegun(run))
    BY DEF Chain!Status, ChainCarried, ChainUnbegun
  <1>4. ChainTypeInv' /\ ChainLimitInv' /\ ChainMadeInv' /\ ChainJobInv'
    BY <1>2, <1>3 DEF ChainIInv, ChainTypeInv, ChainLimitInv, ChainMadeInv, ChainJobInv
  <1>5. ChainFrameInv'
    BY <1>2 DEF ChainFrameInv
  <1>6. ChainApartInv'
    <2>1. ASSUME NEW k \in Chain!Callers, NEW j \in Chain!Callers,
                 NEW n \in DOMAIN stack'[k], NEW m \in DOMAIN stack'[j], k # j \/ n # m
          PROVE  /\ stack'[k][n].held /\ stack'[j][m].held =>
                      stack'[k][n].rows \cap stack'[j][m].rows = {}
                 /\ ~stack'[k][n].held /\ ~stack'[j][m].held =>
                      Chain!RunOf(stack'[k][n]) # Chain!RunOf(stack'[j][m])
      <3>1. CASE k = c /\ n = u
        <4>1. stack'[k][n] = frame /\ m \in DOMAIN stack[j] /\ stack'[j][m] = stack[j][m]
          BY <1>2, <2>1, <3>1
        <4> QED
          BY <4>1
      <3>2. CASE j = c /\ m = u
        <4>1. stack'[j][m] = frame /\ n \in DOMAIN stack[k] /\ stack'[k][n] = stack[k][n]
          BY <1>2, <2>1, <3>2
        <4> QED
          BY <4>1
      <3>3. CASE ~(k = c /\ n = u) /\ ~(j = c /\ m = u)
        <4>1. /\ n \in DOMAIN stack[k] /\ m \in DOMAIN stack[j]
              /\ stack'[k][n] = stack[k][n] /\ stack'[j][m] = stack[j][m]
          BY <1>2, <2>1, <3>3
        <4> QED
          BY <2>1, <4>1 DEF ChainIInv, ChainApartInv
      <3> QED
        BY <3>1, <3>2, <3>3
    <2> QED
      BY <2>1 DEF ChainApartInv, Chain!RunOf
  <1>7. ChainRunInv'
    <2>1. ASSUME NEW k \in Chain!Callers, NEW n \in DOMAIN stack'[k], k # c \/ n # u PROVE ChainRunOk(k, n)'
      <3>1. /\ n \in DOMAIN stack[k] /\ stack'[k][n] = stack[k][n]
            /\ ChainEngaged(k, n)' <=> ChainEngaged(k, n)
            /\ ChainPlace(k, n)' = ChainPlace(k, n) \/ (ChainPlace(k, n) = "dispatch" /\ ChainPlace(k, n)' = "below")
        BY <1>2, <2>1
      <3>2. ChainRunOk(k, n)
        BY <3>1 DEF ChainIInv, ChainRunInv
      <3> QED
        BY <1>3, <3>1, <3>2 DEF ChainRunOk, Chain!RunOf
    <2> QED
      BY <2>1 DEF ChainRunInv
  <1>8. ChainPassedInv'
    <2>1. ASSUME NEW k \in Chain!Callers, NEW n \in DOMAIN stack'[k], stack'[k][n].held,
                 NEW e \in stack'[k][n].rows \ hurt, NEW i \in DOMAIN Automations, k # c \/ n # u
          PROVE  ChainPassedOk(k, n, e, i)'
      <3>1. n \in DOMAIN stack[k] /\ stack[k][n].held /\ e \in stack[k][n].rows
        BY <1>2, <2>1
      <3>2. ChainPassedOk(k, n, e, i) /\ e \in Chain!Events
        BY <2>1, <3>1 DEF ChainIInv, ChainPassedInv, ChainFrameInv, ChainFrameOk
      <3> QED
        BY <1>2, <1>3, <2>1, <3>2 DEF ChainPassedOk
    <2> QED
      BY <1>2, <2>1 DEF ChainPassedInv
  <1>9. ChainWaitingInv'
    BY <1>2, <1>3 DEF ChainIInv, ChainWaitingInv, ChainWaitingOk
  <1> QED
    BY <1>2, <1>4, <1>5, <1>6, <1>7, <1>8, <1>9 DEF ChainIInv

\* A dispatcher takes events that nobody has begun with.
LEMMA ChainDispatchStep ==
  ASSUME ChainIInv, NEW c \in Chain!Callers, Chain!Dispatch(c)
  PROVE  ChainIInv'
  <1> DEFINE taken == {e \in Chain!Pending : Chain!Cardinality({x \in Chain!Pending : x < e}) < RowsTaken}
  <1>1. CASE taken = {}
    <2>1. /\ cpc[c] = "dispatch" /\ Chain!Goto(c, Chain!After(stack[c]))
          /\ UNCHANGED <<outbox, runs, retries, stack, fails, cmade, hurt>>
      BY <1>1 DEF Chain!Dispatch
    <2> QED
      BY <2>1, ChainNoneStep
  <1>2. CASE taken # {}
    <2>1. PICK u : u = Len(stack[c]) + 1
      OBVIOUS
    <2> DEFINE frame == [rows |-> taken, at |-> 1, held |-> TRUE]
    <2>2. /\ cpc[c] = "dispatch" /\ Chain!Goto(c, "next") /\ Chain!Push(c, frame)
          /\ UNCHANGED <<outbox, runs, retries, fails, cmade, hurt>>
      BY <1>2 DEF Chain!Dispatch
    <2>3. \A e \in taken : e \in Chain!Events /\ ~outbox[e].done /\ e \notin Chain!Locked
      BY DEF Chain!Pending
    <2>4. taken \in SUBSET Nat
      BY <2>3 DEF ChainIInv, ChainTypeInv, Chain!Events
    <2> HIDE DEF taken
    <2>5. frame \in ChainFrame /\ frame.rows = taken /\ frame.at = 1 /\ frame.held
      BY <2>4 DEF ChainFrame
    <2> HIDE DEF frame
    <2>6. /\ stack'[c][u] = frame /\ ChainPlace(c, u)' = "next"
          /\ \A n : \A e \in Chain!Events : ChainWants(n, e)' <=> ChainWants(n, e)
          /\ Chain!Events' = Chain!Events
      BY <2>1, <2>2, <2>5, ChainPushTurn
    <2>7. ~ChainEngaged(c, u)'
      BY <2>6 DEF ChainEngaged
    <2>8. ChainFrameOk(c, u)' /\ ChainRunOk(c, u)'
      BY <2>2, <2>3, <2>5, <2>6, <2>7 DEF ChainFrameOk, ChainRunOk
    <2>9. \A k \in Chain!Callers : \A n \in DOMAIN stack[k] :
            stack[k][n].held => frame.rows \cap stack[k][n].rows = {}
      BY <2>3, <2>5, ChainLockedIs
    <2>10. ASSUME NEW e \in frame.rows \ hurt, NEW i \in DOMAIN Automations PROVE ChainPassedOk(c, u, e, i)'
      <3>1. ChainWaitingOk(e, i)
        BY <2>3, <2>5, <2>10 DEF ChainIInv, ChainWaitingInv
      <3>2. ChainUnbegun(<<Automations[i], e>>)'
        BY <2>2, <2>3, <2>5, <2>10, <3>1 DEF ChainWaitingOk, ChainUnbegun
      <3>3. ~(i < 1)
        BY <2>10, ChainConstants
      <3> QED
        BY <2>5, <2>6, <3>2, <3>3 DEF ChainPassedOk
    <2> QED
      BY <2>1, <2>2, <2>5, <2>8, <2>9, <2>10, ChainTakenUp
  <1> QED
    BY <1>1, <1>2

\* A loop takes the job of a run that has failed, and that no other loop has.
LEMMA ChainTakeJobStep ==
  ASSUME ChainIInv, NEW l \in Pollers, Chain!TakeJob(l)
  PROVE  ChainIInv'
  <1> DEFINE Place0(run) == CHOOSE n \in DOMAIN Automations : Automations[n] = run[1]
  <1>1. PICK run \in DOMAIN retries :
          /\ \A k \in Pollers : stack[k] # << >> /\ ~stack[k][1].held => Chain!RunOf(stack[k][1]) # run
          /\ Chain!Push(l, [rows |-> {run[2]}, held |-> FALSE, at |-> Place0(run)])
    BY DEF Chain!TakeJob
  <1>2. PICK m \in DOMAIN Automations : \E e \in Chain!Events : run = <<Automations[m], e>> /\ ChainWants(m, e)
    BY DEF ChainIInv, ChainLimitInv
  <1>3. PICK o \in Chain!Events : run = <<Automations[m], o>> /\ ChainWants(m, o)
    BY <1>2
  <1>4. Place0(run) = m /\ run[2] = o /\ m \in Nat \ {0} /\ o \in Nat
    <2>1. run[1] = Automations[m] /\ run[2] = o
      BY <1>3
    <2>2. \A n \in DOMAIN Automations : Automations[n] = run[1] <=> n = m
      BY <2>1, ChainConstants
    <2>3. m \in Nat \ {0} /\ o \in Nat
      BY ChainConstants DEF ChainIInv, ChainTypeInv, Chain!Events
    <2> QED
      BY <2>1, <2>2, <2>3
  <1> HIDE DEF Place0
  <1> DEFINE frame == [rows |-> {o}, held |-> FALSE, at |-> m]
  <1>5. /\ Chain!Push(l, frame) /\ Chain!Goto(l, "claim") /\ l \in Chain!Callers /\ stack[l] = << >>
        /\ UNCHANGED <<outbox, runs, retries, fails, cmade, hurt>>
    BY <1>1, <1>4 DEF Chain!TakeJob, Chain!Callers, ChainIInv, ChainPlaceInv
  <1>6. /\ frame \in ChainFrame /\ frame.rows = {o} /\ frame.at = m /\ ~frame.held
    BY <1>4 DEF ChainFrame
  <1> HIDE DEF frame
  <1>7. Chain!Min(frame.rows) = o /\ Chain!RunOf(frame) = run
    <2>1. Chain!Min({o}) \in {o}
      BY <1>4, ChainMinIs
    <2> QED
      BY <1>3, <1>6, <2>1 DEF Chain!RunOf
  <1>8. PICK u : u = Len(stack[l]) + 1
    OBVIOUS
  <1>9. /\ stack'[l][u] = frame /\ ChainPlace(l, u)' = "claim" /\ u = 1
        /\ \A n : \A e \in Chain!Events : ChainWants(n, e)' <=> ChainWants(n, e)
        /\ Chain!Events' = Chain!Events
    BY <1>5, <1>6, <1>8, ChainPushTurn
  <1>10. ChainFrameOk(l, u)'
    BY <1>3, <1>6, <1>7, <1>9 DEF ChainFrameOk, ChainEngaged
  <1>11. ~ChainTaken(run)
    BY <1>1 DEF ChainTaken
  <1>12. o \notin hurt => Chain!Status(run) = "retrying"
    BY <1>4, <1>11 DEF ChainIInv, ChainJobInv
  <1>13. ChainRunOk(l, u)'
    <2>1. Chain!RunOf(stack[l][u])' = run
      BY <1>7, <1>9 DEF Chain!RunOf
    <2>2. run \in DOMAIN retries' /\ (run[2] \notin hurt' => run \in DOMAIN runs' /\ runs'[run] = "retrying")
      BY <1>4, <1>5, <1>12 DEF Chain!Status
    <2> QED
      BY <1>6, <1>9, <2>1, <2>2 DEF ChainRunOk, Chain!Status
  <1>14. \A k \in Chain!Callers : \A n \in DOMAIN stack[k] :
           ~stack[k][n].held => Chain!RunOf(frame) # Chain!RunOf(stack[k][n])
    <2>1. ASSUME NEW k \in Chain!Callers, NEW n \in DOMAIN stack[k], ~stack[k][n].held
          PROVE  n = 1 /\ k \in Pollers /\ stack[k] # << >>
      BY <2>1 DEF ChainIInv, ChainFrameInv, ChainFrameOk
    <2> QED
      BY <1>7, <1>11, <2>1 DEF ChainTaken
  <1> QED
    BY <1>5, <1>6, <1>8, <1>10, <1>13, <1>14, ChainTakenUp

\* A run completes.
LEMMA ChainSettleStep ==
  ASSUME ChainIInv, NEW c \in Chain!Callers, Chain!Settle(c)
  PROVE  ChainIInv'
  <1>1. cpc[c] = "settle" /\ cpc[c] \in ChainBusy /\ stack[c] # << >>
    BY DEF Chain!Settle, ChainBusy, ChainSteps, ChainIInv, ChainPlaceInv
  <1>2. PICK r : r = Chain!Run(c)
    BY Zenon
  <1>3. PICK o : o = Chain!Event(c)
    BY Zenon
  <1>4. /\ runs' = Chain!With(runs, r, "completed") /\ UNCHANGED <<outbox, fails, cmade, hurt>>
        /\ retries' = IF Chain!Top(c).held THEN retries ELSE [run \in DOMAIN retries \ {r} |-> retries[run]]
        /\ Chain!Return(c)
    BY <1>2 DEF Chain!Settle, Chain!SetStatus, Chain!ReturnOk
  <1>5. /\ DOMAIN runs' = DOMAIN runs \cup {r}
        /\ \A run : Chain!Status(run)' = IF run = r THEN "completed" ELSE Chain!Status(run)
        /\ ChainTable(runs', {"running", "retrying", "completed"})
    BY <1>4 DEF Chain!With, Chain!Status, ChainTable, ChainIInv, ChainTypeInv
  <1>6. ChainCarried(r)'
    <2>1. Chain!Status(r)' = "completed"
      BY <1>5
    <2> QED
      BY <2>1 DEF ChainCarried
  <1>7. /\ DOMAIN retries' \subseteq DOMAIN retries /\ DOMAIN retries \subseteq DOMAIN retries' \cup {r}
        /\ ChainTable(retries', Nat)
        /\ Chain!Top(c).held => retries' = retries
        /\ ~Chain!Top(c).held => r \notin DOMAIN retries'
    BY <1>4 DEF ChainTable, ChainIInv, ChainTypeInv
  <1>8. CASE Chain!Top(c).held
    <2>1. Chain!Top(c).at + 1 \in Nat \ {0}
      BY <1>1, ChainAtWork DEF ChainFrame
    <2>2. PICK a \in Nat \ {0} : a = Chain!Top(c).at + 1
      BY <2>1
    <2>3. Chain!SetTop(c, [Chain!Top(c) EXCEPT !.at = a]) /\ Chain!Goto(c, "next")
      BY <1>4, <1>8, <2>2 DEF Chain!Return
    <2>4. o \notin hurt => r \notin DOMAIN retries
      BY <1>1, <1>2, <1>3, <1>8, ChainAtWork DEF ChainRunOk
    <2>5. \A run : run # r => Chain!Status(run)' = Chain!Status(run)
      BY <1>5
    <2>6. Chain!Status(r)' = "completed"
      BY <1>5
    <2> QED
      BY <1>1, <1>2, <1>3, <1>4, <1>5, <1>6, <1>7, <1>8, <2>2, <2>3, <2>4, <2>5, <2>6, ChainOnStep
        DEF ChainTable
  <1>9. CASE ~Chain!Top(c).held
    <2>1. Chain!Pop(c) /\ Chain!Goto(c, "idle")
      BY <1>4, <1>9 DEF Chain!Return
    <2>2. \A run : run # r => Chain!Status(run)' = Chain!Status(run)
      BY <1>5
    <2>3. Chain!Status(r)' = "completed"
      BY <1>5
    <2> QED
      BY <1>1, <1>2, <1>3, <1>4, <1>5, <1>6, <1>7, <1>9, <2>1, <2>2, <2>3,
        ChainOverStep DEF ChainTable
  <1> QED
    BY <1>8, <1>9

\* A run that is somebody's, or over, is left alone: that cannot be, unless a handler of its
\* event has waited too long.
LEMMA ChainSkipStep ==
  ASSUME ChainIInv, NEW c \in Chain!Callers, Chain!Claim(c),
         Chain!Status(Chain!Run(c)) \notin {"absent", "retrying"}
  PROVE  ChainIInv'
  <1>1. cpc[c] = "claim" /\ cpc[c] \in ChainBusy /\ stack[c] # << >>
    BY DEF Chain!Claim, ChainBusy, ChainSteps, ChainIInv, ChainPlaceInv
  <1>2. PICK r : r = Chain!Run(c)
    BY Zenon
  <1>3. PICK o : o = Chain!Event(c)
    BY Zenon
  <1>4. /\ UNCHANGED <<outbox, runs, fails, cmade, hurt>> /\ Chain!Return(c)
        /\ retries' = IF Chain!Top(c).held THEN retries ELSE [run \in DOMAIN retries \ {r} |-> retries[run]]
    BY <1>2 DEF Chain!Claim, Chain!ReturnOk
  <1>5. o \in hurt
    BY <1>1, <1>2, <1>3, ChainAtWork DEF ChainRunOk
  <1>6. /\ DOMAIN retries' \subseteq DOMAIN retries /\ DOMAIN retries \subseteq DOMAIN retries' \cup {r}
        /\ ChainTable(retries', Nat) /\ ChainTable(runs', {"running", "retrying", "completed"})
        /\ Chain!Top(c).held => retries' = retries
    BY <1>4 DEF ChainTable, ChainIInv, ChainTypeInv
  <1>7. \A run : Chain!Status(run)' = Chain!Status(run)
    BY <1>4 DEF Chain!Status
  <1>8. CASE Chain!Top(c).held
    <2>1. Chain!Top(c).at + 1 \in Nat \ {0}
      BY <1>1, ChainAtWork DEF ChainFrame
    <2>2. PICK a \in Nat \ {0} : a = Chain!Top(c).at + 1
      BY <2>1
    <2>3. Chain!SetTop(c, [Chain!Top(c) EXCEPT !.at = a]) /\ Chain!Goto(c, "next")
      BY <1>4, <1>8, <2>2 DEF Chain!Return
    <2> QED
      BY <1>1, <1>2, <1>3, <1>4, <1>5, <1>6, <1>7, <1>8, <2>3, ChainOnStep DEF ChainTable
  <1>9. CASE ~Chain!Top(c).held
    <2>1. Chain!Pop(c) /\ Chain!Goto(c, "idle")
      BY <1>4, <1>9 DEF Chain!Return
    <2> QED
      BY <1>1, <1>2, <1>3, <1>4, <1>5, <1>6, <1>7, <1>9, <2>1, ChainOverStep DEF ChainTable
  <1> QED
    BY <1>8, <1>9

\* A run that has failed has a job that retries it.
LEMMA ChainFailedStep ==
  ASSUME ChainIInv, NEW c \in Chain!Callers, Chain!Failed(c)
  PROVE  ChainIInv'
  <1>1. cpc[c] = "failed" /\ cpc[c] \in ChainBusy /\ stack[c] # << >>
    BY DEF Chain!Failed, ChainBusy, ChainSteps, ChainIInv, ChainPlaceInv
  <1>2. PICK r : r = Chain!Run(c)
    BY Zenon
  <1>3. PICK o : o = Chain!Event(c)
    BY Zenon
  <1>4. /\ UNCHANGED <<outbox, runs, fails, cmade, hurt>> /\ Chain!Return(c)
        /\ retries' = Chain!With(retries, r, IF Chain!Top(c).held THEN 0 ELSE retries[r] + 1)
    BY <1>2 DEF Chain!Failed, Chain!ReturnErr
  <1>5. \A run : Chain!Status(run)' = Chain!Status(run)
    BY <1>4 DEF Chain!Status
  <1>6. ~Chain!Top(c).held => r \in DOMAIN retries
    BY <1>1, <1>2, ChainAtWork DEF ChainRunOk
  <1>7. /\ DOMAIN retries' = DOMAIN retries \cup {r} /\ ChainTable(runs', {"running", "retrying", "completed"})
        /\ ChainTable(retries', Nat)
    <2>1. (IF Chain!Top(c).held THEN 0 ELSE retries[r] + 1) \in Nat
      BY <1>6 DEF ChainIInv, ChainTypeInv, ChainTable
    <2>2. PICK v \in Nat : v = IF Chain!Top(c).held THEN 0 ELSE retries[r] + 1
      BY <2>1
    <2>3. retries' = Chain!With(retries, r, v)
      BY <1>4, <2>2
    <2> QED
      BY <1>4, <2>3 DEF Chain!With, ChainTable, ChainIInv, ChainTypeInv
  <1>8. ChainCarried(r)'
    BY <1>7 DEF ChainCarried
  <1>9. o \notin hurt => Chain!Status(r) = "retrying" /\ r \notin DOMAIN cmade
    BY <1>1, <1>2, <1>3, ChainAtWork DEF ChainRunOk, ChainIInv, ChainMadeInv
  <1>10. CASE Chain!Top(c).held
    <2>1. Chain!Top(c).at + 1 \in Nat \ {0}
      BY <1>1, ChainAtWork DEF ChainFrame
    <2>2. PICK a \in Nat \ {0} : a = Chain!Top(c).at + 1
      BY <2>1
    <2>3. Chain!SetTop(c, [Chain!Top(c) EXCEPT !.at = a]) /\ Chain!Goto(c, "next")
      BY <1>4, <1>10, <2>2 DEF Chain!Return
    <2> QED
      BY <1>1, <1>2, <1>3, <1>4, <1>5, <1>7, <1>8, <1>9, <1>10, <2>2, <2>3,
        ChainOnStep DEF ChainTable
  <1>11. CASE ~Chain!Top(c).held
    <2>1. Chain!Pop(c) /\ Chain!Goto(c, "idle")
      BY <1>4, <1>11 DEF Chain!Return
    <2> QED
      BY <1>1, <1>2, <1>3, <1>4, <1>5, <1>6, <1>7, <1>8, <1>9, <1>11, <2>1,
        ChainOverStep DEF ChainTable
  <1> QED
    BY <1>10, <1>11

\* A retry that could not be enqueued.
LEMMA ChainNotEnqueuedStep ==
  ASSUME ChainIInv, NEW c \in Chain!Callers, Chain!NotEnqueued(c)
  PROVE  ChainIInv'
  <1>1. cpc[c] = "failed" /\ cpc[c] \in ChainBusy /\ stack[c] # << >> /\ Chain!Top(c).held
    BY DEF Chain!NotEnqueued, ChainBusy, ChainSteps, ChainIInv, ChainPlaceInv
  <1>2. PICK r : r = Chain!Run(c)
    BY Zenon
  <1>3. PICK o : o = Chain!Event(c)
    BY Zenon
  <1>4. PICK a \in Nat \ {0} : a = Len(Automations) + 1
    BY ChainConstants
  <1>5. /\ Chain!SetTop(c, [Chain!Top(c) EXCEPT !.at = a]) /\ Chain!Goto(c, "next") /\ hurt' = hurt \cup {o}
        /\ UNCHANGED <<outbox, runs, retries, fails, cmade>>
    BY <1>3, <1>4 DEF Chain!NotEnqueued
  <1>6. \A run : Chain!Status(run)' = Chain!Status(run)
    BY <1>5 DEF Chain!Status
  <1>7. ChainTable(runs', {"running", "retrying", "completed"}) /\ ChainTable(retries', Nat)
    BY <1>5 DEF ChainTable, ChainIInv, ChainTypeInv
  <1> QED
    BY <1>1, <1>2, <1>3, <1>5, <1>6, <1>7, ChainOnStep DEF ChainTable

\* The invariant holds at first.
LEMMA ChainInitStep == Chain!Init => ChainIInv
  <1> SUFFICES ASSUME Chain!Init PROVE ChainIInv
    OBVIOUS
  <1>1. /\ \A c \in Chain!Callers : stack[c] = << >> /\ DOMAIN stack[c] = {}
        /\ Chain!Events = {} /\ DOMAIN runs = {} /\ DOMAIN retries = {} /\ DOMAIN cmade = {}
        /\ outbox \in Seq(ChainRows) /\ hurt = {} /\ fails = 0
        /\ cpc \in [Chain!Callers -> ChainSteps] /\ stack \in [Chain!Callers -> Seq(ChainFrame)]
    BY DEF Chain!Init, Chain!Events, ChainSteps
  <1>2. ChainTypeInv
    BY <1>1 DEF ChainTypeInv, ChainTable
  <1>3. ChainPlaceInv
    BY <1>1, ChainConstants DEF Chain!Init, ChainPlaceInv, Chain!Callers
  <1> QED
    BY <1>1, <1>2, <1>3 DEF ChainIInv, ChainFrameInv, ChainApartInv, ChainDepthInv, ChainLimitInv,
      ChainRunInv, ChainMadeInv, ChainJobInv,
      ChainPassedInv, ChainWaitingInv

\* Every step preserves the invariant.
LEMMA ChainNextStep == ChainIInv /\ [Chain!Next]_(Chain!vars) => ChainIInv'
  <1> SUFFICES ASSUME ChainIInv, [Chain!Next]_(Chain!vars) PROVE ChainIInv'
    OBVIOUS
  <1>1. ASSUME NEW c \in Chain!Callers, Chain!Call(c) PROVE ChainIInv'
    <2>1. CASE Chain!Claim(c)
      BY <2>1, ChainClaimStep, ChainSkipStep
    <2> QED
      BY <1>1, <2>1, ChainDispatchStep, ChainTriggerStep, ChainPublishedStep, ChainCommitStep,
        ChainRememberStep, ChainActStep,
        ChainActFailsStep, ChainSettleStep, ChainPersistStep, ChainFailedStep, ChainWaitedTooStep,
        ChainNotEnqueuedStep DEF Chain!Call
  <1>2. CASE UNCHANGED Chain!vars
    <2>1. UNCHANGED <<outbox, runs, retries, stack, cpc, fails, cmade, hurt>>
      BY <1>2 DEF Chain!vars
    <2>2. /\ Chain!Events' = Chain!Events /\ Chain!Locked' = Chain!Locked
          /\ \A run : /\ Chain!Status(run)' = Chain!Status(run) /\ (ChainTaken(run)' <=> ChainTaken(run))
                      /\ (ChainCarried(run)' <=> ChainCarried(run)) /\ (ChainUnbegun(run)' <=> ChainUnbegun(run))
      BY <2>1 DEF Chain!Events, Chain!Locked, Chain!Held, Chain!Frames, Chain!Status, ChainTaken,
        Chain!RunOf, ChainCarried, ChainUnbegun
    <2>3. /\ \A n, e : ChainWants(n, e)' <=> ChainWants(n, e)
          /\ \A k, n : ChainPlace(k, n)' = ChainPlace(k, n) /\ (ChainEngaged(k, n)' <=> ChainEngaged(k, n))
      BY <2>1 DEF ChainWants, Chain!matches_event, ChainPlace, ChainEngaged
    <2>4. ChainTypeInv' /\ ChainPlaceInv' /\ ChainApartInv' /\ ChainDepthInv' /\ ChainLimitInv' /\ ChainMadeInv' /\ ChainJobInv'
      BY <2>1, <2>2, <2>3 DEF ChainIInv, ChainTypeInv, ChainTable, ChainPlaceInv, ChainApartInv,
        Chain!RunOf, ChainDepthInv, ChainLimitInv,
        ChainMadeInv, ChainJobInv
    <2>5. \A k, n : (ChainFrameOk(k, n)' <=> ChainFrameOk(k, n)) /\ (ChainRunOk(k, n)' <=> ChainRunOk(k, n))
      BY <2>1, <2>2, <2>3 DEF ChainFrameOk, ChainRunOk, Chain!RunOf
    <2>6. \A k, n, e, i : ChainPassedOk(k, n, e, i)' <=> ChainPassedOk(k, n, e, i)
      BY <2>1, <2>2, <2>3 DEF ChainPassedOk
    <2>7. \A e, i : ChainWaitingOk(e, i)' <=> ChainWaitingOk(e, i)
      BY <2>1, <2>2, <2>3 DEF ChainWaitingOk
    <2>8. ChainFrameInv' /\ ChainRunInv' /\ ChainPassedInv' /\ ChainWaitingInv'
      BY <2>1, <2>2, <2>5, <2>6, <2>7 DEF ChainIInv, ChainFrameInv, ChainRunInv, ChainPassedInv,
        ChainWaitingInv
    <2> QED
      BY <2>4, <2>8 DEF ChainIInv
  <1>3. ASSUME NEW r \in Writers, Chain!Change(r) PROVE ChainIInv'
    BY <1>3, ChainChangeStep
  <1>4. ASSUME NEW l \in Pollers, Chain!Tick(l) \/ Chain!TakeJob(l) PROVE ChainIInv'
    BY <1>4, ChainTickStep, ChainTakeJobStep
  <1> QED
    BY <1>1, <1>2, <1>3, <1>4 DEF Chain!Next

\* The depth that an event carries is the number of counted changes behind it.
LEMMA ChainCountedIs ==
  ASSUME ChainTypeInv, ChainDepthInv
  PROVE  \A e \in Chain!Events : Chain!Counted[e] = outbox[e].depth
  <1> DEFINE Fits(f) ==
        f = [e \in Chain!Events |-> IF outbox[e].counted THEN 1 + f[outbox[e].parent] ELSE 0]
  <1>1. \A e \in Chain!Events : e \in Nat /\ outbox[e].depth \in Nat
    <2>1. \A e \in Chain!Events : outbox[e] \in ChainRows
      <3> HIDE DEF ChainRows
      <3> QED
        BY DEF ChainTypeInv, Chain!Events
    <2> QED
      BY <2>1 DEF ChainTypeInv, Chain!Events, ChainRows
  <1>2. Fits([e \in Chain!Events |-> outbox[e].depth])
    <2> DEFINE g == [e \in Chain!Events |-> outbox[e].depth]
    <2>1. ASSUME NEW e \in Chain!Events
          PROVE  g[e] = IF outbox[e].counted THEN 1 + g[outbox[e].parent] ELSE 0
      BY <1>1 DEF ChainDepthInv
    <2> QED
      BY <2>1
  <1>3. Chain!Counted = CHOOSE f : Fits(f)
    BY DEF Chain!Counted
  <1>4. Fits(Chain!Counted)
    BY <1>2, <1>3
  <1>5. \A e \in Chain!Events : Chain!Counted[e] = IF outbox[e].counted THEN 1 + Chain!Counted[outbox[e].parent] ELSE 0
    BY <1>4
  <1> DEFINE Wrong == {e \in Chain!Events : Chain!Counted[e] # outbox[e].depth}
  <1>6. SUFFICES ASSUME Wrong # {} PROVE FALSE
    OBVIOUS
  <1>7. PICK x \in Wrong : \A y \in Wrong : x <= y
    <2>1. Wrong \in SUBSET Nat
      BY <1>1
    <2> HIDE DEF Wrong
    <2> QED
      BY <1>6, <2>1, LeastNat
  <1>8. CASE outbox[x].counted
    <2>1. /\ outbox[x].parent \in Chain!Events /\ outbox[x].parent < x
          /\ outbox[x].depth = outbox[outbox[x].parent].depth + 1
      BY <1>8 DEF ChainDepthInv
    <2>2. outbox[x].parent \notin Wrong
      BY <1>1, <1>7, <2>1
    <2> QED
      BY <1>1, <1>5, <1>7, <1>8, <2>1, <2>2
  <1>9. CASE ~outbox[x].counted
    BY <1>5, <1>7, <1>9 DEF ChainDepthInv
  <1> QED
    BY <1>8, <1>9

\* No chain is longer than the limit, and no automation of an event is left out or carried
\* out twice.
LEMMA ChainHolds == ASSUME ChainIInv PROVE Chain!ChainsBounded /\ Chain!RunsKept
  <1>1. \A e \in Chain!Events : Chain!Counted[e] = outbox[e].depth
    BY ChainCountedIs DEF ChainIInv
  <1>2. Chain!ChainsBounded
    <2>1. ASSUME NEW run \in DOMAIN runs PROVE Chain!Counted[run[2]] < DepthLimit[run[1]]
      <3>1. PICK n \in DOMAIN Automations : \E e \in Chain!Events : run = <<Automations[n], e>> /\ ChainWants(n, e)
        BY DEF ChainIInv, ChainLimitInv
      <3>2. PICK e \in Chain!Events : run = <<Automations[n], e>> /\ ChainWants(n, e)
        BY <3>1
      <3>3. run[1] = Automations[n] /\ run[2] = e
        BY <3>2
      <3> QED
        BY <1>1, <3>2, <3>3 DEF ChainWants, Chain!matches_event
    <2> QED
      BY <2>1 DEF Chain!ChainsBounded
  <1>3. Chain!RunsKept
    <2>1. ASSUME NEW e \in Chain!Events \ hurt, NEW d \in Chain!Names, Triggers[d] = outbox[e].name, Chain!Counted[e] < DepthLimit[d]
          PROVE  /\ outbox[e].done => Chain!Status(<<d, e>>) = "completed" \/ Chain!Retried(<<d, e>>)
                 /\ <<d, e>> \in DOMAIN cmade => cmade[<<d, e>>] = 1
      <3>1. PICK n \in DOMAIN Automations : Automations[n] = d
        BY DEF Chain!Names
      <3>2. ChainWants(n, e)
        BY <1>1, <2>1, <3>1 DEF ChainWants, Chain!matches_event
      <3>3. outbox[e].done => e \notin Chain!Locked
        BY ChainLockedIs DEF ChainIInv, ChainFrameInv, ChainFrameOk
      <3>4. outbox[e].done => ChainCarried(<<d, e>>)
        BY <3>1, <3>2, <3>3 DEF ChainIInv, ChainWaitingInv, ChainWaitingOk
      <3>5. <<d, e>> \in DOMAIN cmade => cmade[<<d, e>>] = 1
        BY <2>1 DEF ChainIInv, ChainMadeInv
      <3> QED
        BY <3>4, <3>5 DEF ChainCarried, Chain!Retried
    <2> QED
      BY <2>1 DEF Chain!RunsKept
  <1> QED
    BY <1>2, <1>3

\* Chains of automations are no longer than their limits allow, and no run is left out or
\* carried out twice: the property of the run.
THEOREM ChainsAreBounded == Chain!Spec => []ChainsHold
  <1>1. ChainIInv => ChainsHold
    BY ChainHolds DEF ChainsHold
  <1> QED
    BY ChainInitStep, ChainNextStep, <1>1, PTL DEF Chain!Spec

-----------------------------------------------------------------------------
(* Studio's publications (Studio). *)

DraftSteps == {"new", "read", "put", "file", "migrate", "version", "insert", "done"}
DraftPayload == [kind : {"none", "field", "entity", "rollback"}, fields : SUBSET Fields,
            migrates : BOOLEAN]

DraftTypeInv ==
  /\ registry \in SUBSET Fields /\ file \in SUBSET Fields /\ columns \in SUBSET Fields
  /\ sourced \in BOOLEAN
  /\ \A v \in versions : v.fields \in SUBSET Fields
  /\ spc \in [Publishers -> DraftSteps] /\ sop \in [Publishers -> DraftPayload]
  /\ sbase \in [Publishers -> SUBSET Fields]
  /\ unsure \in SUBSET Fields

\* A publisher that has met no other is alone; what it has read of the registry still
\* holds, its payload takes nothing away, and it migrates whatever it adds.
DraftAloneInv ==
  \A p \in Publishers :
    p \in Draft!Busy /\ p \notin met =>
      /\ Draft!Busy = {p}
      /\ spc[p] \in {"read", "put"} =>
           /\ ~Draft!Destructive(sop[p], registry)
           /\ sop[p].migrates = Draft!Additive(sop[p], registry)
      /\ spc[p] = "put" => sbase[p] = Draft!Applied(sop[p], registry)

\* A rollback adds no columns.
DraftRollbackInv == \A p \in Publishers : sop[p].kind = "rollback" => ~sop[p].migrates

\* Publishers that have put their fields into the registry and will migrate them.
DraftMigrating == {p \in Publishers : spc[p] \in {"file", "migrate"} /\ sop[p].migrates}

\* A field without a column has a publisher that will migrate it.
DraftCoverInv == DraftMigrating # {} \/ registry \ columns \subseteq unsure

DraftIInv == DraftTypeInv /\ DraftAloneInv /\ DraftRollbackInv /\ DraftCoverInv

\* The invariant holds at first.
LEMMA DraftInitStep == Draft!Init => DraftIInv
  <1> SUFFICES ASSUME Draft!Init PROVE DraftIInv
    OBVIOUS
  <1>1. DraftTypeInv
    BY DEF Draft!Init, DraftTypeInv, DraftSteps, DraftPayload, Draft!NoOp
  <1>2. DraftAloneInv /\ DraftRollbackInv /\ DraftCoverInv
    BY DEF Draft!Init, DraftAloneInv, DraftRollbackInv, DraftCoverInv, Draft!Busy, Draft!NoOp
  <1> QED
    BY <1>1, <1>2 DEF DraftIInv

\* What a payload makes of the fields of an entity.
LEMMA DraftAppliedType ==
  ASSUME NEW o, o.fields \in SUBSET Fields, NEW fields \in SUBSET Fields
  PROVE  Draft!Applied(o, fields) \in SUBSET Fields
  BY DEF Draft!Applied

\* A publisher that starts meets everybody who is busy.
LEMMA DraftStartStep ==
  ASSUME DraftIInv, NEW p \in Publishers, NEW k \in {"field", "entity", "rollback"},
         NEW fields \in SUBSET Fields, Draft!Start(p, [kind |-> k, fields |-> fields])
  PROVE  DraftIInv'
  <1> DEFINE o == [kind |-> k, fields |-> fields]
             a == Draft!Additive(o, registry)
             n == [kind |-> k, fields |-> fields, migrates |-> a]
  <1>0. /\ spc[p] = "new" /\ Draft!Allowed(o) /\ sop' = [sop EXCEPT ![p] = n]
        /\ spc' = [spc EXCEPT ![p] = "read"]
        /\ met' = IF Draft!Busy = {} THEN met ELSE met \cup Draft!Busy \cup {p}
        /\ UNCHANGED <<registry, file, columns, versions, sourced, sbase, number, unsure>>
    BY DEF Draft!Start, Draft!tableVars
  <1>1. a \in BOOLEAN
    BY DEF Draft!Additive
  <1>2. o.kind = k /\ o.fields = fields /\ n.kind = k /\ n.fields = fields /\ n.migrates = a
    OBVIOUS
  <1>3. n \in DraftPayload
    BY <1>1 DEF DraftPayload
  <1>4. /\ ~Draft!Destructive(n, registry) /\ Draft!Additive(n, registry) = a
        /\ k = "rollback" => ~a
    BY <1>0, <1>2 DEF Draft!Allowed, Draft!Destructive, Draft!Additive, Draft!Applied
  <1> HIDE DEF o, a, n
  <1>5. DraftTypeInv'
    BY <1>0, <1>3 DEF DraftIInv, DraftTypeInv, DraftSteps
  <1>6. Draft!Busy' = Draft!Busy \cup {p} /\ p \notin Draft!Busy
    BY <1>0 DEF DraftIInv, DraftTypeInv, Draft!Busy
  <1>7. DraftRollbackInv'
    BY <1>0, <1>2, <1>4 DEF DraftIInv, DraftTypeInv, DraftRollbackInv
  <1>8. DraftMigrating' = DraftMigrating
    BY <1>0 DEF DraftIInv, DraftTypeInv, DraftMigrating
  <1>9. DraftCoverInv'
    BY <1>0, <1>8 DEF DraftIInv, DraftCoverInv
  <1>10. DraftAloneInv'
    <2> SUFFICES ASSUME NEW q \in Publishers, q \in Draft!Busy', q \notin met'
                 PROVE  /\ Draft!Busy' = {q}
                        /\ spc'[q] \in {"read", "put"} =>
                             /\ ~Draft!Destructive(sop'[q], registry')
                             /\ sop'[q].migrates = Draft!Additive(sop'[q], registry')
                        /\ spc'[q] = "put" => sbase'[q] = Draft!Applied(sop'[q], registry')
      BY DEF DraftAloneInv, Draft!Destructive, Draft!Additive, Draft!Applied
    <2>1. Draft!Busy = {} /\ q = p
      BY <1>0, <1>6
    <2>2. sop'[p] = n /\ spc'[p] = "read" /\ registry' = registry
      BY <1>0 DEF DraftIInv, DraftTypeInv
    <2> QED
      BY <2>1, <2>2, <1>2, <1>4, <1>6
  <1> QED
    BY <1>5, <1>7, <1>9, <1>10 DEF DraftIInv

\* A step of p that leaves the registry alone, unless it migrates or fails: others that
\* have met nobody are not there.
LEMMA DraftQuietStep ==
  ASSUME DraftIInv, NEW p \in Publishers, p \in Draft!Busy, DraftTypeInv',
         spc' = [spc EXCEPT ![p] = spc'[p]], spc'[p] \notin {"new", "read", "put"},
         sop' = [sop EXCEPT ![p] = sop'[p]], sop'[p] \in {sop[p], Draft!NoOp},
         registry' = registry, columns \subseteq columns', unsure \subseteq unsure',
         met' = met,
         \/ p \in DraftMigrating /\ registry \ columns' \subseteq unsure'
         \/ p \notin DraftMigrating
         \/ p \in DraftMigrating'
  PROVE  DraftIInv'
  <1>1. /\ Draft!Busy' \subseteq Draft!Busy
        /\ \A q \in Publishers \ {p} : spc'[q] = spc[q] /\ sop'[q] = sop[q]
    BY DEF DraftIInv, DraftTypeInv, Draft!Busy
  <1>2. DraftAloneInv'
    <2> SUFFICES ASSUME NEW q \in Publishers, q \in Draft!Busy', q \notin met'
                 PROVE  /\ Draft!Busy' = {q}
                        /\ spc'[q] \in {"read", "put"} =>
                             /\ ~Draft!Destructive(sop'[q], registry')
                             /\ sop'[q].migrates = Draft!Additive(sop'[q], registry')
                        /\ spc'[q] = "put" => sbase'[q] = Draft!Applied(sop'[q], registry')
      BY DEF DraftAloneInv, Draft!Destructive, Draft!Additive, Draft!Applied
    <2>1. q = p
      BY <1>1 DEF DraftIInv, DraftAloneInv
    <2>2. Draft!Busy = {p}
      BY <2>1 DEF DraftIInv, DraftAloneInv
    <2> QED
      BY <1>1, <2>1, <2>2
  <1>3. DraftRollbackInv'
    BY <1>1 DEF DraftIInv, DraftRollbackInv, Draft!NoOp
  <1>4. DraftCoverInv'
    <2>1. \A q \in DraftMigrating \ {p} : q \in DraftMigrating'
      BY <1>1 DEF DraftMigrating
    <2>2. p \notin DraftMigrating => registry \ columns' \subseteq unsure' \/ DraftMigrating' # {}
      BY <2>1 DEF DraftIInv, DraftCoverInv
    <2> QED
      BY <2>2 DEF DraftCoverInv
  <1> QED
    BY <1>2, <1>3, <1>4 DEF DraftIInv

\* The step a publisher goes to.
LEMMA DraftGoType ==
  ASSUME DraftTypeInv, NEW p \in Publishers, NEW step \in DraftSteps, Draft!Go(p, step)
  PROVE  /\ spc' \in [Publishers -> DraftSteps]
         /\ spc' = [spc EXCEPT ![p] = spc'[p]] /\ spc'[p] = step
         /\ sop' \in [Publishers -> DraftPayload] /\ sop' = [sop EXCEPT ![p] = sop'[p]]
         /\ sop'[p] = IF step = "done" THEN Draft!NoOp ELSE sop[p]
         /\ sbase' \in [Publishers -> SUBSET Fields]
  <1>1. Draft!NoOp \in DraftPayload
    BY DEF Draft!NoOp, DraftPayload
  <1>2. sop' \in [Publishers -> DraftPayload] /\ sop' = [sop EXCEPT ![p] = sop'[p]]
        /\ sop'[p] = IF step = "done" THEN Draft!NoOp ELSE sop[p]
    BY <1>1 DEF Draft!Go, DraftTypeInv
  <1>3. sbase' \in [Publishers -> SUBSET Fields]
    BY DEF Draft!Go, DraftTypeInv
  <1> QED
    BY <1>2, <1>3 DEF Draft!Go, DraftTypeInv

\* A publication reads what is published and what is on disk.
LEMMA DraftReadStep ==
  ASSUME DraftIInv, NEW p \in Publishers, Draft!Read(p)
  PROVE  DraftIInv'
  <1>1. DraftTypeInv'
    <2>1. sop[p].fields \in SUBSET Fields /\ registry \in SUBSET Fields
      BY DEF DraftIInv, DraftTypeInv, DraftPayload
    <2>2. Draft!Applied(sop[p], registry) \in SUBSET Fields
      BY <2>1, DraftAppliedType
    <2> QED
      BY <2>2 DEF DraftIInv, DraftTypeInv, Draft!Read, Draft!tableVars, DraftSteps
  <1>2. Draft!Busy' = Draft!Busy /\ DraftMigrating' = DraftMigrating
    BY DEF DraftIInv, DraftTypeInv, Draft!Read, Draft!Busy, DraftMigrating
  <1>3. DraftAloneInv'
    <2> SUFFICES ASSUME NEW q \in Publishers, q \in Draft!Busy', q \notin met'
                 PROVE  /\ Draft!Busy' = {q}
                        /\ spc'[q] \in {"read", "put"} =>
                             /\ ~Draft!Destructive(sop'[q], registry')
                             /\ sop'[q].migrates = Draft!Additive(sop'[q], registry')
                        /\ spc'[q] = "put" => sbase'[q] = Draft!Applied(sop'[q], registry')
      BY DEF DraftAloneInv, Draft!Destructive, Draft!Additive, Draft!Applied
    <2>1. /\ Draft!Busy = {q} /\ met' = met /\ registry' = registry /\ sop' = sop
          /\ p \in Draft!Busy
      BY <1>2 DEF DraftIInv, DraftAloneInv, Draft!Read, Draft!Busy
    <2>2. q = p /\ spc[p] = "read" /\ sbase'[p] = Draft!Applied(sop[p], registry)
      BY <2>1 DEF DraftIInv, DraftTypeInv, Draft!Read
    <2> QED
      BY <1>2, <2>1, <2>2 DEF DraftIInv, DraftAloneInv
  <1>4. DraftRollbackInv' /\ DraftCoverInv'
    BY <1>2 DEF DraftIInv, DraftRollbackInv, DraftCoverInv, Draft!Read, Draft!tableVars
  <1> QED
    BY <1>1, <1>3, <1>4 DEF DraftIInv

\* A publisher that has met nobody adds what it will migrate; of another one it is
\* remembered.
LEMMA DraftPutStep ==
  ASSUME DraftIInv, NEW p \in Publishers, Draft!Put(p)
  PROVE  DraftIInv'
  <1>1. DraftTypeInv'
    BY DEF DraftIInv, DraftTypeInv, Draft!Put, Draft!tableVars, DraftSteps
  <1>2. Draft!Busy' = Draft!Busy /\ p \in Draft!Busy /\ DraftMigrating \subseteq DraftMigrating'
        /\ (sop[p].migrates => p \in DraftMigrating')
    BY DEF DraftIInv, DraftTypeInv, Draft!Put, Draft!Busy, DraftMigrating
  <1>3. DraftAloneInv'
    <2> SUFFICES ASSUME NEW q \in Publishers, q \in Draft!Busy', q \notin met'
                 PROVE  /\ Draft!Busy' = {q}
                        /\ spc'[q] \in {"read", "put"} =>
                             /\ ~Draft!Destructive(sop'[q], registry')
                             /\ sop'[q].migrates = Draft!Additive(sop'[q], registry')
                        /\ spc'[q] = "put" => sbase'[q] = Draft!Applied(sop'[q], registry')
      BY DEF DraftAloneInv, Draft!Destructive, Draft!Additive, Draft!Applied
    <2>1. Draft!Busy = {q} /\ q = p /\ spc'[p] = "file"
      BY <1>2 DEF DraftIInv, DraftTypeInv, DraftAloneInv, Draft!Put
    <2> QED
      BY <1>2, <2>1
  <1>4. DraftRollbackInv'
    BY DEF DraftIInv, DraftRollbackInv, Draft!Put
  <1>5. DraftCoverInv'
    <2>1. CASE p \in met
      BY <1>2, <2>1 DEF DraftIInv, DraftCoverInv, Draft!Put, Draft!tableVars
    <2>2. CASE p \notin met
      <3>1. DraftMigrating = {}
        BY <1>2, <2>2 DEF DraftIInv, DraftAloneInv, DraftMigrating, Draft!Busy, Draft!Put
      <3>2. sop[p].migrates \/ registry' \subseteq registry
        BY <1>2, <2>2 DEF DraftIInv, DraftAloneInv, Draft!Put, Draft!Additive
      <3> QED
        BY <1>2, <2>2, <3>1, <3>2 DEF DraftIInv, DraftCoverInv, Draft!Put, Draft!tableVars
    <2> QED
      BY <2>1, <2>2
  <1> QED
    BY <1>1, <1>3, <1>4, <1>5 DEF DraftIInv

\* WriteFile preserves the invariant.
LEMMA DraftWriteFileStep ==
  ASSUME DraftIInv, NEW p \in Publishers, Draft!WriteFile(p)
  PROVE  DraftIInv'
  <1> DEFINE step == Draft!AfterFile(p)
  <1>1. step \in {"done", "migrate", "version"} /\ step \in DraftSteps
    BY DEF Draft!AfterFile, DraftSteps
  <1>2. sop[p].migrates => step = "migrate"
    BY DEF DraftIInv, DraftRollbackInv, Draft!AfterFile
  <1>3. Draft!Go(p, step) /\ spc[p] = "file" /\ p \in Draft!Busy
    BY DEF Draft!WriteFile, Draft!Busy
  <1> HIDE DEF step
  <1>4. DraftTypeInv'
    BY <1>1, <1>3, DraftGoType DEF DraftIInv, DraftTypeInv, Draft!WriteFile
  <1>5. p \in DraftMigrating => p \in DraftMigrating'
    BY <1>1, <1>2, <1>3, DraftGoType DEF DraftIInv, DraftMigrating
  <1> QED
    BY <1>1, <1>3, <1>4, <1>5, DraftGoType, DraftQuietStep DEF DraftIInv, Draft!WriteFile

\* Migrate preserves the invariant.
LEMMA DraftMigrateStep ==
  ASSUME DraftIInv, NEW p \in Publishers, Draft!Migrate(p)
  PROVE  DraftIInv'
  <1>1. "version" \in DraftSteps /\ p \in Draft!Busy
    BY DEF DraftSteps, Draft!Migrate, Draft!Busy
  <1>2. DraftTypeInv'
    BY <1>1, DraftGoType DEF DraftIInv, DraftTypeInv, Draft!Migrate
  <1> QED
    BY <1>1, <1>2, DraftGoType, DraftQuietStep DEF DraftIInv, Draft!Migrate

\* Fails preserves the invariant.
LEMMA DraftFailsStep ==
  ASSUME DraftIInv, NEW p \in Publishers, Draft!Fails(p)
  PROVE  DraftIInv'
  <1>1. "done" \in DraftSteps /\ p \in Draft!Busy
    BY DEF DraftSteps, Draft!Fails, Draft!Busy
  <1>2. DraftTypeInv'
    BY <1>1, DraftGoType DEF DraftIInv, DraftTypeInv, Draft!Fails, Draft!tableVars
  <1> QED
    BY <1>1, <1>2, DraftGoType, DraftQuietStep DEF DraftIInv, Draft!Fails, Draft!tableVars

\* ReadNumber preserves the invariant.
LEMMA DraftReadNumberStep ==
  ASSUME DraftIInv, NEW p \in Publishers, Draft!ReadNumber(p)
  PROVE  DraftIInv'
  <1>1. p \in Draft!Busy /\ p \notin DraftMigrating /\ spc'[p] = "insert"
    BY DEF DraftIInv, DraftTypeInv, Draft!ReadNumber, Draft!Busy, DraftMigrating
  <1>2. DraftTypeInv'
    BY DEF DraftIInv, DraftTypeInv, Draft!ReadNumber, Draft!tableVars, DraftSteps
  <1> QED
    BY <1>1, <1>2, DraftQuietStep DEF DraftIInv, DraftTypeInv, Draft!ReadNumber, Draft!tableVars

\* The version is inserted under the number that was read.
LEMMA DraftInsertVersionStep ==
  ASSUME DraftIInv, NEW p \in Publishers, Draft!InsertVersion(p)
  PROVE  DraftIInv'
  <1>1. "done" \in DraftSteps /\ p \in Draft!Busy /\ p \notin DraftMigrating
    BY DEF DraftSteps, Draft!InsertVersion, Draft!Busy, DraftMigrating
  <1>2. DraftTypeInv'
    <2>1. \A v \in versions' : v.fields \in SUBSET Fields
      BY DEF DraftIInv, DraftTypeInv, Draft!InsertVersion
    <2> QED
      BY <1>1, <2>1, DraftGoType DEF DraftIInv, DraftTypeInv, Draft!InsertVersion
  <1> QED
    BY <1>1, <1>2, DraftGoType, DraftQuietStep DEF DraftIInv, Draft!InsertVersion

\* Restart preserves the invariant.
LEMMA DraftRestartStep ==
  ASSUME DraftIInv, Draft!Restart
  PROVE  DraftIInv'
  <1>1. Draft!NoOp \in DraftPayload /\ "done" \in DraftSteps
    BY DEF Draft!NoOp, DraftPayload, DraftSteps
  <1>2. DraftTypeInv'
    BY <1>1 DEF DraftIInv, DraftTypeInv, Draft!Restart
  <1>3. Draft!Busy' = {}
    BY DEF DraftIInv, DraftTypeInv, Draft!Restart, Draft!Busy
  <1>4. DraftAloneInv' /\ DraftCoverInv'
    BY <1>3 DEF DraftAloneInv, DraftCoverInv, Draft!Restart
  <1>5. DraftRollbackInv'
    BY DEF DraftRollbackInv, Draft!Restart, Draft!NoOp
  <1> QED
    BY <1>2, <1>4, <1>5 DEF DraftIInv

\* Every step preserves the invariant.
LEMMA DraftNextStep == DraftIInv /\ [Draft!Next]_(Draft!studioVars) => DraftIInv'
  <1> SUFFICES ASSUME DraftIInv, [Draft!Next]_(Draft!studioVars) PROVE DraftIInv'
    OBVIOUS
  <1>1. CASE UNCHANGED Draft!studioVars
    BY <1>1 DEF Draft!studioVars, Draft!tableVars, DraftIInv, DraftTypeInv, DraftAloneInv,
      DraftRollbackInv, DraftCoverInv,
       Draft!Busy, DraftMigrating, Draft!Destructive, Draft!Additive, Draft!Applied
  <1>2. ASSUME NEW p \in Publishers, NEW f \in Fields, Draft!PublishField(p, f) PROVE DraftIInv'
    BY <1>2, DraftStartStep DEF Draft!PublishField
  <1>3. ASSUME NEW p \in Publishers, NEW fields \in SUBSET Fields, Draft!PublishEntity(p, fields)
        PROVE  DraftIInv'
    BY <1>3, DraftStartStep DEF Draft!PublishEntity
  <1>4. ASSUME NEW p \in Publishers, NEW v \in versions, Draft!RollbackTo(p, v) PROVE DraftIInv'
    BY <1>4, DraftStartStep DEF Draft!RollbackTo, DraftIInv, DraftTypeInv
  <1> QED
    BY <1>1, <1>2, <1>3, <1>4, DraftReadStep, DraftPutStep, DraftWriteFileStep, DraftMigrateStep,
      DraftFailsStep,
       DraftReadNumberStep, DraftInsertVersionStep, DraftRestartStep DEF Draft!Next

\* Only a publisher that has met another one, or a restart, takes fields away.
LEMMA DraftKeepStep ==
  ASSUME DraftIInv, [Draft!Next]_(Draft!studioVars), NEW f \in registry \ registry'
  PROVE  Draft!Restart \/ \E p \in met : spc[p] = "put" /\ spc'[p] = "file"
  <1>1. CASE UNCHANGED Draft!studioVars
    BY <1>1 DEF Draft!studioVars
  <1>2. CASE Draft!Restart
    BY <1>2
  <1>3. ASSUME NEW p \in Publishers, Draft!Put(p)
        PROVE  p \in met /\ spc[p] = "put" /\ spc'[p] = "file"
    <2>1. p \in Draft!Busy /\ spc[p] = "put" /\ spc'[p] = "file" /\ registry' = sbase[p]
      BY <1>3 DEF DraftIInv, DraftTypeInv, Draft!Put, Draft!Busy
    <2>2. p \notin met => registry \ registry' = {}
      BY <2>1 DEF DraftIInv, DraftAloneInv, Draft!Destructive
    <2> QED
      BY <2>1, <2>2
  <1>4. ASSUME NEW p \in Publishers,
               \/ \E g \in Fields : Draft!PublishField(p, g)
               \/ \E fields \in SUBSET Fields : Draft!PublishEntity(p, fields)
               \/ \E v \in versions : Draft!RollbackTo(p, v)
               \/ Draft!Read(p) \/ Draft!WriteFile(p) \/ Draft!Migrate(p) \/ Draft!Fails(p)
               \/ Draft!ReadNumber(p) \/ Draft!InsertVersion(p)
        PROVE  FALSE
    BY <1>4 DEF Draft!PublishField, Draft!PublishEntity, Draft!RollbackTo, Draft!Start,
       Draft!Read,
      Draft!WriteFile, Draft!Migrate, Draft!Fails,
       Draft!ReadNumber, Draft!InsertVersion
  <1> QED
    BY <1>1, <1>2, <1>3, <1>4 DEF Draft!Next

\* When nobody publishes, every field of the live entity has its column, or is one of a
\* publication that failed or of one that overlapped another.
THEOREM DraftFollow == Draft!Spec => []ColumnsFollow
  <1>1. Draft!Init => DraftIInv
    BY DraftInitStep
  <1>2. DraftIInv /\ [Draft!Next]_(Draft!studioVars) => DraftIInv'
    BY DraftNextStep
  <1>3. DraftIInv => ColumnsFollow
    BY DEF ColumnsFollow, DraftIInv, DraftCoverInv, Draft!ColumnsFollow, Draft!Busy,
       DraftMigrating
  <1> QED
    BY <1>1, <1>2, <1>3, PTL DEF Draft!Spec

\* However many publishers there are, a published field goes only by a restart or by
\* one of them that overlapped another.
THEOREM DraftStay == Draft!Spec => FieldsStay
  <1> DEFINE Keeps == \A f \in registry \ registry' :
                        \/ Draft!Restart
                        \/ \E p \in met : spc[p] = "put" /\ spc'[p] = "file"
  <1>1. Draft!Init => DraftIInv
    BY DraftInitStep
  <1>2. DraftIInv /\ [Draft!Next]_(Draft!studioVars) => DraftIInv'
    BY DraftNextStep
  <1>3. DraftIInv /\ [Draft!Next]_(Draft!studioVars) => [Keeps]_(Draft!studioVars)
    BY DraftKeepStep
  <1>4. [][Keeps]_(Draft!studioVars) => FieldsStay
    BY DEF FieldsStay, Draft!FieldsStay
  <1> HIDE DEF Keeps
  <1> QED
    BY <1>1, <1>2, <1>3, <1>4, PTL DEF Draft!Spec

-----------------------------------------------------------------------------
(* Attachments and their blobs (Attachments). *)

FileSteps == {"new", "put", "row", "old", "meta", "delete", "blob", "emit", "done"}
FileStatuses == {"absent", "pending", "running", "purged", "succeeded", "failed"}

FileTypeInv ==
  /\ arow \in BlobNames \cup {File!Unborn, File!Gone} /\ blobs \in SUBSET BlobNames
  /\ purge \in [BlobNames -> FileStatuses]
  /\ apc \in [Uploads -> FileSteps] /\ aop \in [Uploads -> File!Ops \cup {"none"}]
  /\ name \in [Uploads -> BlobNames \cup {File!NoName}]
  /\ cur \in [Uploads -> BlobNames \cup {File!Unborn, File!NoName}]
  /\ \A c \in Uploads : File!AtWork(c) => name[c] \in BlobNames

\* What a request does at each step, and how far the row has come by then: it is created
\* once, and for good when it is gone.
FileLifeInv ==
  \A c \in Uploads : File!AtWork(c) =>
    /\ apc[c] \in {"put", "row"} => aop[c] \in {"create", "replace"}
    /\ apc[c] = "old" => aop[c] = "replace"
    /\ apc[c] \in {"delete", "blob"} => aop[c] = "delete"
    /\ apc[c] = "blob" => arow = File!Gone
    /\ aop[c] # "create" => arow # File!Unborn
    /\ aop[c] = "create" /\ apc[c] \in {"put", "row"} =>
         arow = File!Unborn /\ \A d \in Uploads \ {c} : aop[d] # "create"

\* The key of the row, unless it was written again while a removal was due, has its blob,
\* and nobody is to remove it.
FileRowInv ==
  arow \in BlobNames /\ arow \notin reused =>
    /\ arow \in blobs /\ purge[arow] = "absent"
    /\ \A c \in Uploads : apc[c] = "old" => File!OldKey(c) # arow

\* The same of a blob whose row is to be written; no other request has read its key or is
\* to write it.
FilePutInv ==
  \A d \in Uploads :
    apc[d] = "row" /\ name[d] \notin reused =>
      /\ name[d] \in blobs /\ purge[name[d]] = "absent"
      /\ \A c \in File!Others(d) : cur[c] # name[d] /\ (apc[c] = "row" => name[c] # name[d])

FileIInv == FileTypeInv /\ FileLifeInv /\ FileRowInv /\ FilePutInv

\* The invariant holds at first.
LEMMA FileInitStep == File!Init => FileIInv
  <1> SUFFICES ASSUME File!Init PROVE FileIInv
    OBVIOUS
  <1>1. FileTypeInv
    BY DEF File!Init, FileTypeInv, FileSteps, FileStatuses, File!AtWork
  <1>2. FileLifeInv /\ FilePutInv
    BY DEF File!Init, FileLifeInv, FilePutInv, File!AtWork
  <1>3. FileRowInv
    BY NamesHold DEF File!NamesAssumption, File!Init, FileRowInv
  <1> QED
    BY <1>1, <1>2, <1>3 DEF FileIInv

\* Enqueueing a purge changes the job of that blob only.
LEMMA FilePurgeJob ==
  ASSUME FileTypeInv, NEW k, File!EnqueuePurge(k)
  PROVE  /\ purge' \in [BlobNames -> FileStatuses]
         /\ \A n \in BlobNames : n # k => purge'[n] = purge[n]
  BY DEF FileTypeInv, File!EnqueuePurge, FileStatuses


\* Begin preserves the invariant.
LEMMA FileBeginStep ==
  ASSUME FileIInv, NEW c \in Uploads, NEW o \in File!Ops, NEW n \in BlobNames, File!Begin(c, o, n)
  PROVE  FileIInv'
  <1>1. FileTypeInv'
    BY DEF FileIInv, FileTypeInv, File!Begin, File!storeVars, File!jobVars, File!requestVars,
      File!histVars, File!Goto, File!AtWork, File!Others, FileSteps, FileStatuses, File!Ops
  <1>2. FileLifeInv'
    BY NamesHold DEF File!NamesAssumption, FileIInv, FileTypeInv, FileLifeInv, File!Begin,
      File!storeVars, File!jobVars, File!requestVars, File!histVars, File!Goto, File!AtWork,
      File!Others, FileSteps, FileStatuses, File!Ops
  <1>3. FileRowInv'
    BY NamesHold DEF File!NamesAssumption, FileIInv, FileTypeInv, FileLifeInv, FileRowInv,
      FilePutInv, File!Begin, File!OldKey, File!storeVars, File!jobVars, File!requestVars,
      File!histVars, File!Goto, File!AtWork, File!Others, FileSteps, FileStatuses, File!Ops
  <1>4. FilePutInv'
    BY NamesHold DEF File!NamesAssumption, FileIInv, FileTypeInv, FileLifeInv, FileRowInv,
      FilePutInv, File!Begin, File!OldKey, File!storeVars, File!jobVars, File!requestVars,
      File!histVars, File!Goto, File!AtWork, File!Others, FileSteps, FileStatuses, File!Ops
  <1> QED
    BY <1>1, <1>2, <1>3, <1>4 DEF FileIInv

\* PutBlob preserves the invariant.
LEMMA FilePutBlobStep ==
  ASSUME FileIInv, NEW c \in Uploads, File!PutBlob(c)
  PROVE  FileIInv'
  <1>1. FileTypeInv'
    BY DEF FileIInv, FileTypeInv, File!PutBlob, File!storeVars, File!jobVars, File!requestVars,
      File!histVars, File!Goto, File!AtWork, File!Others, FileSteps, FileStatuses, File!Ops
  <1>2. FileLifeInv'
    BY NamesHold DEF File!NamesAssumption, FileIInv, FileTypeInv, FileLifeInv, File!PutBlob,
      File!storeVars, File!jobVars, File!requestVars, File!histVars, File!Goto, File!AtWork,
      File!Others, FileSteps, FileStatuses, File!Ops
  <1>3. FileRowInv'
    BY NamesHold DEF File!NamesAssumption, FileIInv, FileTypeInv, FileLifeInv, FileRowInv,
      FilePutInv, File!PutBlob, File!OldKey, File!storeVars, File!jobVars, File!requestVars,
      File!histVars, File!Goto, File!AtWork, File!Others, FileSteps, FileStatuses, File!Ops
  <1>4. FilePutInv'
    BY NamesHold DEF File!NamesAssumption, FileIInv, FileTypeInv, FileLifeInv, FileRowInv,
      FilePutInv, File!PutBlob, File!OldKey, File!storeVars, File!jobVars, File!requestVars,
      File!histVars, File!Goto, File!AtWork, File!Others, FileSteps, FileStatuses, File!Ops
  <1> QED
    BY <1>1, <1>2, <1>3, <1>4 DEF FileIInv

\* The row is written after its blob.
LEMMA FileWriteRowStep ==
  ASSUME FileIInv, NEW c \in Uploads, File!WriteRow(c)
  PROVE  FileIInv'
  <1>1. FileTypeInv'
    BY DEF FileIInv, FileTypeInv, File!WriteRow, File!AfterRow, File!storeVars, File!jobVars,
      File!requestVars, File!histVars, File!Goto, File!AtWork, File!Others, FileSteps,
      FileStatuses, File!Ops
  <1>2. FileLifeInv'
    BY NamesHold DEF File!NamesAssumption, FileIInv, FileTypeInv, FileLifeInv, File!WriteRow,
      File!AfterRow, File!storeVars, File!jobVars, File!requestVars, File!histVars, File!Goto,
      File!AtWork, File!Others, FileSteps, FileStatuses, File!Ops
  <1>3. FileRowInv'
    BY NamesHold DEF File!NamesAssumption, FileIInv, FileTypeInv, FileLifeInv, FileRowInv,
      FilePutInv, File!WriteRow, File!OldKey, File!storeVars, File!jobVars, File!requestVars,
      File!histVars, File!Goto, File!AtWork, File!Others, FileSteps, FileStatuses, File!Ops
  <1>4. FilePutInv'
    BY NamesHold DEF File!NamesAssumption, FileIInv, FileTypeInv, FileLifeInv, FileRowInv,
      FilePutInv, File!WriteRow, File!OldKey, File!storeVars, File!jobVars, File!requestVars,
      File!histVars, File!Goto, File!AtWork, File!Others, FileSteps, FileStatuses, File!Ops
  <1> QED
    BY <1>1, <1>2, <1>3, <1>4 DEF FileIInv

\* RowFails preserves the invariant.
LEMMA FileRowFailsStep ==
  ASSUME FileIInv, NEW c \in Uploads, File!RowFails(c)
  PROVE  FileIInv'
  <1>1. FileTypeInv'
    BY FilePurgeJob DEF FileIInv, FileTypeInv, File!RowFails, File!storeVars, File!jobVars,
      File!requestVars, File!histVars, File!Goto, File!AtWork, File!Others, FileSteps,
      FileStatuses, File!Ops
  <1>2. FileLifeInv'
    BY NamesHold DEF File!NamesAssumption, FileIInv, FileTypeInv, FileLifeInv, File!RowFails,
      File!storeVars, File!jobVars, File!requestVars, File!histVars, File!Goto, File!AtWork,
      File!Others, FileSteps, FileStatuses, File!Ops
  <1>3. FileRowInv'
    BY FilePurgeJob, NamesHold DEF File!NamesAssumption, FileIInv, FileTypeInv, FileLifeInv,
      FileRowInv, FilePutInv, File!EnqueuePurge, File!RowFails, File!OldKey, File!storeVars,
      File!jobVars, File!requestVars, File!histVars, File!Goto, File!AtWork, File!Others,
      FileSteps, FileStatuses, File!Ops
  <1>4. FilePutInv'
    BY FilePurgeJob, NamesHold DEF File!NamesAssumption, FileIInv, FileTypeInv, FileLifeInv,
      FileRowInv, FilePutInv, File!EnqueuePurge, File!RowFails, File!OldKey, File!storeVars,
      File!jobVars, File!requestVars, File!histVars, File!Goto, File!AtWork, File!Others,
      FileSteps, FileStatuses, File!Ops
  <1> QED
    BY <1>1, <1>2, <1>3, <1>4 DEF FileIInv

\* RemoveOld preserves the invariant.
LEMMA FileRemoveOldStep ==
  ASSUME FileIInv, NEW c \in Uploads, File!RemoveOld(c)
  PROVE  FileIInv'
  <1>1. FileTypeInv'
    BY DEF FileIInv, FileTypeInv, File!RemoveOld, File!storeVars, File!jobVars, File!requestVars,
      File!histVars, File!Goto, File!AtWork, File!Others, FileSteps, FileStatuses, File!Ops
  <1>2. FileLifeInv'
    BY NamesHold DEF File!NamesAssumption, FileIInv, FileTypeInv, FileLifeInv, File!RemoveOld,
      File!storeVars, File!jobVars, File!requestVars, File!histVars, File!Goto, File!AtWork,
      File!Others, FileSteps, FileStatuses, File!Ops
  <1>3. FileRowInv'
    BY NamesHold DEF File!NamesAssumption, FileIInv, FileTypeInv, FileLifeInv, FileRowInv,
      FilePutInv, File!RemoveOld, File!OldKey, File!storeVars, File!jobVars, File!requestVars,
      File!histVars, File!Goto, File!AtWork, File!Others, FileSteps, FileStatuses, File!Ops
  <1>4. FilePutInv'
    BY NamesHold DEF File!NamesAssumption, FileIInv, FileTypeInv, FileLifeInv, FileRowInv,
      FilePutInv, File!RemoveOld, File!OldKey, File!storeVars, File!jobVars, File!requestVars,
      File!histVars, File!Goto, File!AtWork, File!Others, FileSteps, FileStatuses, File!Ops
  <1> QED
    BY <1>1, <1>2, <1>3, <1>4 DEF FileIInv

\* RemoveOldFails preserves the invariant.
LEMMA FileRemoveOldFailsStep ==
  ASSUME FileIInv, NEW c \in Uploads, File!RemoveOldFails(c)
  PROVE  FileIInv'
  <1>1. FileTypeInv'
    BY FilePurgeJob DEF FileIInv, FileTypeInv, File!RemoveOldFails, File!storeVars, File!jobVars,
      File!requestVars, File!histVars, File!Goto, File!AtWork, File!Others, FileSteps,
      FileStatuses, File!Ops
  <1>2. FileLifeInv'
    BY NamesHold DEF File!NamesAssumption, FileIInv, FileTypeInv, FileLifeInv,
       File!RemoveOldFails,
      File!storeVars, File!jobVars, File!requestVars, File!histVars, File!Goto, File!AtWork,
      File!Others, FileSteps, FileStatuses, File!Ops
  <1>3. FileRowInv'
    BY FilePurgeJob, NamesHold DEF File!NamesAssumption, FileIInv, FileTypeInv, FileLifeInv,
      FileRowInv, FilePutInv, File!EnqueuePurge, File!RemoveOldFails, File!OldKey, File!storeVars,
      File!jobVars, File!requestVars, File!histVars, File!Goto, File!AtWork, File!Others,
      FileSteps, FileStatuses, File!Ops
  <1>4. FilePutInv'
    BY FilePurgeJob, NamesHold DEF File!NamesAssumption, FileIInv, FileTypeInv, FileLifeInv,
      FileRowInv, FilePutInv, File!EnqueuePurge, File!RemoveOldFails, File!OldKey, File!storeVars,
      File!jobVars, File!requestVars, File!histVars, File!Goto, File!AtWork, File!Others,
      FileSteps, FileStatuses, File!Ops
  <1> QED
    BY <1>1, <1>2, <1>3, <1>4 DEF FileIInv

\* UpdateMeta preserves the invariant.
LEMMA FileUpdateMetaStep ==
  ASSUME FileIInv, NEW c \in Uploads, File!UpdateMeta(c)
  PROVE  FileIInv'
  <1>1. FileTypeInv'
    BY DEF FileIInv, FileTypeInv, File!UpdateMeta, File!storeVars, File!jobVars, File!requestVars,
      File!histVars, File!Goto, File!AtWork, File!Others, FileSteps, FileStatuses, File!Ops
  <1>2. FileLifeInv'
    BY NamesHold DEF File!NamesAssumption, FileIInv, FileTypeInv, FileLifeInv, File!UpdateMeta,
      File!storeVars, File!jobVars, File!requestVars, File!histVars, File!Goto, File!AtWork,
      File!Others, FileSteps, FileStatuses, File!Ops
  <1>3. FileRowInv'
    BY NamesHold DEF File!NamesAssumption, FileIInv, FileTypeInv, FileLifeInv, FileRowInv,
      FilePutInv, File!UpdateMeta, File!OldKey, File!storeVars, File!jobVars, File!requestVars,
      File!histVars, File!Goto, File!AtWork, File!Others, FileSteps, FileStatuses, File!Ops
  <1>4. FilePutInv'
    BY NamesHold DEF File!NamesAssumption, FileIInv, FileTypeInv, FileLifeInv, FileRowInv,
      FilePutInv, File!UpdateMeta, File!OldKey, File!storeVars, File!jobVars, File!requestVars,
      File!histVars, File!Goto, File!AtWork, File!Others, FileSteps, FileStatuses, File!Ops
  <1> QED
    BY <1>1, <1>2, <1>3, <1>4 DEF FileIInv

\* The row goes before its blob does.
LEMMA FileDeleteRowStep ==
  ASSUME FileIInv, NEW c \in Uploads, File!DeleteRow(c)
  PROVE  FileIInv'
  <1>1. FileTypeInv'
    BY DEF FileIInv, FileTypeInv, File!DeleteRow, File!storeVars, File!jobVars, File!requestVars,
      File!histVars, File!Goto, File!AtWork, File!Others, FileSteps, FileStatuses, File!Ops
  <1>2. FileLifeInv'
    BY DEF File!Gone, File!Unborn, FileIInv, FileTypeInv, FileLifeInv, File!DeleteRow,
      File!storeVars, File!jobVars, File!requestVars, File!histVars, File!Goto, File!AtWork,
      File!Others, FileSteps, FileStatuses, File!Ops
  <1>3. FileRowInv'
    BY NamesHold DEF File!NamesAssumption, FileIInv, FileTypeInv, FileLifeInv, FileRowInv,
      FilePutInv, File!DeleteRow, File!OldKey, File!storeVars, File!jobVars, File!requestVars,
      File!histVars, File!Goto, File!AtWork, File!Others, FileSteps, FileStatuses, File!Ops
  <1>4. FilePutInv'
    BY NamesHold DEF File!NamesAssumption, FileIInv, FileTypeInv, FileLifeInv, FileRowInv,
      FilePutInv, File!DeleteRow, File!OldKey, File!storeVars, File!jobVars, File!requestVars,
      File!histVars, File!Goto, File!AtWork, File!Others, FileSteps, FileStatuses, File!Ops
  <1> QED
    BY <1>1, <1>2, <1>3, <1>4 DEF FileIInv

\* DeleteBlob preserves the invariant.
LEMMA FileDeleteBlobStep ==
  ASSUME FileIInv, NEW c \in Uploads, File!DeleteBlob(c)
  PROVE  FileIInv'
  <1>1. FileTypeInv'
    BY DEF FileIInv, FileTypeInv, File!DeleteBlob, File!storeVars, File!jobVars, File!requestVars,
      File!histVars, File!Goto, File!AtWork, File!Others, FileSteps, FileStatuses, File!Ops
  <1>2. FileLifeInv'
    BY NamesHold DEF File!NamesAssumption, FileIInv, FileTypeInv, FileLifeInv, File!DeleteBlob,
      File!storeVars, File!jobVars, File!requestVars, File!histVars, File!Goto, File!AtWork,
      File!Others, FileSteps, FileStatuses, File!Ops
  <1>3. FileRowInv'
    BY NamesHold DEF File!NamesAssumption, FileIInv, FileTypeInv, FileLifeInv, FileRowInv,
      FilePutInv, File!DeleteBlob, File!OldKey, File!storeVars, File!jobVars, File!requestVars,
      File!histVars, File!Goto, File!AtWork, File!Others, FileSteps, FileStatuses, File!Ops
  <1>4. FilePutInv'
    BY NamesHold DEF File!NamesAssumption, FileIInv, FileTypeInv, FileLifeInv, FileRowInv,
      FilePutInv, File!DeleteBlob, File!OldKey, File!storeVars, File!jobVars, File!requestVars,
      File!histVars, File!Goto, File!AtWork, File!Others, FileSteps, FileStatuses, File!Ops
  <1> QED
    BY <1>1, <1>2, <1>3, <1>4 DEF FileIInv

\* DeleteBlobFails preserves the invariant.
LEMMA FileDeleteBlobFailsStep ==
  ASSUME FileIInv, NEW c \in Uploads, File!DeleteBlobFails(c)
  PROVE  FileIInv'
  <1>1. FileTypeInv'
    BY FilePurgeJob DEF FileIInv, FileTypeInv, File!DeleteBlobFails, File!storeVars, File!jobVars,
      File!requestVars, File!histVars, File!Goto, File!AtWork, File!Others, FileSteps,
      FileStatuses, File!Ops
  <1>2. FileLifeInv'
    BY NamesHold DEF File!NamesAssumption, FileIInv, FileTypeInv, FileLifeInv,
      File!DeleteBlobFails, File!storeVars, File!jobVars, File!requestVars, File!histVars,
      File!Goto, File!AtWork, File!Others, FileSteps, FileStatuses, File!Ops
  <1>3. FileRowInv'
    BY FilePurgeJob, NamesHold DEF File!NamesAssumption, FileIInv, FileTypeInv, FileLifeInv,
      FileRowInv, FilePutInv, File!EnqueuePurge, File!DeleteBlobFails, File!OldKey, File!storeVars,
      File!jobVars, File!requestVars, File!histVars, File!Goto, File!AtWork, File!Others,
      FileSteps, FileStatuses, File!Ops
  <1>4. FilePutInv'
    BY FilePurgeJob, NamesHold DEF File!NamesAssumption, FileIInv, FileTypeInv, FileLifeInv,
      FileRowInv, FilePutInv, File!EnqueuePurge, File!DeleteBlobFails, File!OldKey, File!storeVars,
      File!jobVars, File!requestVars, File!histVars, File!Goto, File!AtWork, File!Others,
      FileSteps, FileStatuses, File!Ops
  <1> QED
    BY <1>1, <1>2, <1>3, <1>4 DEF FileIInv

\* Emit preserves the invariant.
LEMMA FileEmitStep ==
  ASSUME FileIInv, NEW c \in Uploads, File!Emit(c)
  PROVE  FileIInv'
  <1>1. FileTypeInv'
    BY DEF FileIInv, FileTypeInv, File!Emit, File!storeVars, File!jobVars, File!requestVars,
      File!histVars, File!Goto, File!AtWork, File!Others, FileSteps, FileStatuses, File!Ops
  <1>2. FileLifeInv'
    BY NamesHold DEF File!NamesAssumption, FileIInv, FileTypeInv, FileLifeInv, File!Emit,
      File!storeVars, File!jobVars, File!requestVars, File!histVars, File!Goto, File!AtWork,
      File!Others, FileSteps, FileStatuses, File!Ops
  <1>3. FileRowInv'
    BY NamesHold DEF File!NamesAssumption, FileIInv, FileTypeInv, FileLifeInv, FileRowInv,
      FilePutInv, File!Emit, File!OldKey, File!storeVars, File!jobVars, File!requestVars,
      File!histVars, File!Goto, File!AtWork, File!Others, FileSteps, FileStatuses, File!Ops
  <1>4. FilePutInv'
    BY NamesHold DEF File!NamesAssumption, FileIInv, FileTypeInv, FileLifeInv, FileRowInv,
      FilePutInv, File!Emit, File!OldKey, File!storeVars, File!jobVars, File!requestVars,
      File!histVars, File!Goto, File!AtWork, File!Others, FileSteps, FileStatuses, File!Ops
  <1> QED
    BY <1>1, <1>2, <1>3, <1>4 DEF FileIInv

\* Dies preserves the invariant.
LEMMA FileDiesStep ==
  ASSUME FileIInv, NEW c \in Uploads, File!Dies(c)
  PROVE  FileIInv'
  <1>1. FileTypeInv'
    BY DEF FileIInv, FileTypeInv, File!Dies, File!storeVars, File!jobVars, File!requestVars,
      File!histVars, File!Goto, File!AtWork, File!Others, FileSteps, FileStatuses, File!Ops
  <1>2. FileLifeInv'
    BY NamesHold DEF File!NamesAssumption, FileIInv, FileTypeInv, FileLifeInv, File!Dies,
      File!storeVars, File!jobVars, File!requestVars, File!histVars, File!Goto, File!AtWork,
      File!Others, FileSteps, FileStatuses, File!Ops
  <1>3. FileRowInv'
    BY NamesHold DEF File!NamesAssumption, FileIInv, FileTypeInv, FileLifeInv, FileRowInv,
      FilePutInv, File!Dies, File!OldKey, File!storeVars, File!jobVars, File!requestVars,
      File!histVars, File!Goto, File!AtWork, File!Others, FileSteps, FileStatuses, File!Ops
  <1>4. FilePutInv'
    BY NamesHold DEF File!NamesAssumption, FileIInv, FileTypeInv, FileLifeInv, FileRowInv,
      FilePutInv, File!Dies, File!OldKey, File!storeVars, File!jobVars, File!requestVars,
      File!histVars, File!Goto, File!AtWork, File!Others, FileSteps, FileStatuses, File!Ops
  <1> QED
    BY <1>1, <1>2, <1>3, <1>4 DEF FileIInv

\* ClaimPurge preserves the invariant.
LEMMA FileClaimPurgeStep ==
  ASSUME FileIInv, NEW k \in BlobNames, File!ClaimPurge(k)
  PROVE  FileIInv'
  <1>1. FileTypeInv'
    BY DEF FileIInv, FileTypeInv, File!ClaimPurge, File!storeVars, File!jobVars, File!requestVars,
      File!histVars, File!Goto, File!AtWork, File!Others, FileSteps, FileStatuses, File!Ops
  <1>2. FileLifeInv'
    BY NamesHold DEF File!NamesAssumption, FileIInv, FileTypeInv, FileLifeInv, File!ClaimPurge,
      File!storeVars, File!jobVars, File!requestVars, File!histVars, File!Goto, File!AtWork,
      File!Others, FileSteps, FileStatuses, File!Ops
  <1>3. FileRowInv'
    BY NamesHold DEF File!NamesAssumption, FileIInv, FileTypeInv, FileLifeInv, FileRowInv,
      FilePutInv, File!ClaimPurge, File!OldKey, File!storeVars, File!jobVars, File!requestVars,
      File!histVars, File!Goto, File!AtWork, File!Others, FileSteps, FileStatuses, File!Ops
  <1>4. FilePutInv'
    BY NamesHold DEF File!NamesAssumption, FileIInv, FileTypeInv, FileLifeInv, FileRowInv,
      FilePutInv, File!ClaimPurge, File!OldKey, File!storeVars, File!jobVars, File!requestVars,
      File!histVars, File!Goto, File!AtWork, File!Others, FileSteps, FileStatuses, File!Ops
  <1> QED
    BY <1>1, <1>2, <1>3, <1>4 DEF FileIInv

\* A purge removes the blob of a row that is gone.
LEMMA FilePurgeBlobStep ==
  ASSUME FileIInv, NEW k \in BlobNames, File!PurgeBlob(k)
  PROVE  FileIInv'
  <1>1. FileTypeInv'
    BY DEF FileIInv, FileTypeInv, File!PurgeBlob, File!storeVars, File!jobVars, File!requestVars,
      File!histVars, File!Goto, File!AtWork, File!Others, FileSteps, FileStatuses, File!Ops
  <1>2. FileLifeInv'
    BY NamesHold DEF File!NamesAssumption, FileIInv, FileTypeInv, FileLifeInv, File!PurgeBlob,
      File!storeVars, File!jobVars, File!requestVars, File!histVars, File!Goto, File!AtWork,
      File!Others, FileSteps, FileStatuses, File!Ops
  <1>3. FileRowInv'
    BY NamesHold DEF File!NamesAssumption, FileIInv, FileTypeInv, FileLifeInv, FileRowInv,
      FilePutInv, File!PurgeBlob, File!OldKey, File!storeVars, File!jobVars, File!requestVars,
      File!histVars, File!Goto, File!AtWork, File!Others, FileSteps, FileStatuses, File!Ops
  <1>4. FilePutInv'
    BY NamesHold DEF File!NamesAssumption, FileIInv, FileTypeInv, FileLifeInv, FileRowInv,
      FilePutInv, File!PurgeBlob, File!OldKey, File!storeVars, File!jobVars, File!requestVars,
      File!histVars, File!Goto, File!AtWork, File!Others, FileSteps, FileStatuses, File!Ops
  <1> QED
    BY <1>1, <1>2, <1>3, <1>4 DEF FileIInv

\* CompletePurge preserves the invariant.
LEMMA FileCompletePurgeStep ==
  ASSUME FileIInv, NEW k \in BlobNames, File!CompletePurge(k)
  PROVE  FileIInv'
  <1>1. FileTypeInv'
    BY DEF FileIInv, FileTypeInv, File!CompletePurge, File!storeVars, File!jobVars,
      File!requestVars, File!histVars, File!Goto, File!AtWork, File!Others, FileSteps,
      FileStatuses, File!Ops
  <1>2. FileLifeInv'
    BY NamesHold DEF File!NamesAssumption, FileIInv, FileTypeInv, FileLifeInv, File!CompletePurge,
      File!storeVars, File!jobVars, File!requestVars, File!histVars, File!Goto, File!AtWork,
      File!Others, FileSteps, FileStatuses, File!Ops
  <1>3. FileRowInv'
    BY NamesHold DEF File!NamesAssumption, FileIInv, FileTypeInv, FileLifeInv, FileRowInv,
      FilePutInv, File!CompletePurge, File!OldKey, File!storeVars, File!jobVars, File!requestVars,
      File!histVars, File!Goto, File!AtWork, File!Others, FileSteps, FileStatuses, File!Ops
  <1>4. FilePutInv'
    BY NamesHold DEF File!NamesAssumption, FileIInv, FileTypeInv, FileLifeInv, FileRowInv,
      FilePutInv, File!CompletePurge, File!OldKey, File!storeVars, File!jobVars, File!requestVars,
      File!histVars, File!Goto, File!AtWork, File!Others, FileSteps, FileStatuses, File!Ops
  <1> QED
    BY <1>1, <1>2, <1>3, <1>4 DEF FileIInv

\* PurgeFails preserves the invariant.
LEMMA FilePurgeFailsStep ==
  ASSUME FileIInv, NEW k \in BlobNames, File!PurgeFails(k)
  PROVE  FileIInv'
  <1>1. FileTypeInv'
    BY DEF FileIInv, FileTypeInv, File!PurgeFails, File!storeVars, File!jobVars, File!requestVars,
      File!histVars, File!Goto, File!AtWork, File!Others, FileSteps, FileStatuses, File!Ops
  <1>2. FileLifeInv'
    BY NamesHold DEF File!NamesAssumption, FileIInv, FileTypeInv, FileLifeInv, File!PurgeFails,
      File!storeVars, File!jobVars, File!requestVars, File!histVars, File!Goto, File!AtWork,
      File!Others, FileSteps, FileStatuses, File!Ops
  <1>3. FileRowInv'
    BY NamesHold DEF File!NamesAssumption, FileIInv, FileTypeInv, FileLifeInv, FileRowInv,
      FilePutInv, File!PurgeFails, File!OldKey, File!storeVars, File!jobVars, File!requestVars,
      File!histVars, File!Goto, File!AtWork, File!Others, FileSteps, FileStatuses, File!Ops
  <1>4. FilePutInv'
    BY NamesHold DEF File!NamesAssumption, FileIInv, FileTypeInv, FileLifeInv, FileRowInv,
      FilePutInv, File!PurgeFails, File!OldKey, File!storeVars, File!jobVars, File!requestVars,
      File!histVars, File!Goto, File!AtWork, File!Others, FileSteps, FileStatuses, File!Ops
  <1> QED
    BY <1>1, <1>2, <1>3, <1>4 DEF FileIInv

\* Restart preserves the invariant.
LEMMA FileRestartStep ==
  ASSUME FileIInv, TRUE, File!Restart
  PROVE  FileIInv'
  <1>1. FileTypeInv'
    BY DEF FileIInv, FileTypeInv, File!Restart, File!storeVars, File!jobVars, File!requestVars,
      File!histVars, File!Goto, File!AtWork, File!Others, FileSteps, FileStatuses, File!Ops
  <1>2. FileLifeInv'
    BY NamesHold DEF File!NamesAssumption, FileIInv, FileTypeInv, FileLifeInv, File!Restart,
      File!storeVars, File!jobVars, File!requestVars, File!histVars, File!Goto, File!AtWork,
      File!Others, FileSteps, FileStatuses, File!Ops
  <1>3. FileRowInv'
    BY NamesHold DEF File!NamesAssumption, FileIInv, FileTypeInv, FileLifeInv, FileRowInv,
      FilePutInv, File!Restart, File!OldKey, File!storeVars, File!jobVars, File!requestVars,
      File!histVars, File!Goto, File!AtWork, File!Others, FileSteps, FileStatuses, File!Ops
  <1>4. FilePutInv'
    BY NamesHold DEF File!NamesAssumption, FileIInv, FileTypeInv, FileLifeInv, FileRowInv,
      FilePutInv, File!Restart, File!OldKey, File!storeVars, File!jobVars, File!requestVars,
      File!histVars, File!Goto, File!AtWork, File!Others, FileSteps, FileStatuses, File!Ops
  <1> QED
    BY <1>1, <1>2, <1>3, <1>4 DEF FileIInv

\* Every step preserves the invariant.
LEMMA FileNextStep == FileIInv /\ [File!Next]_(File!attachmentVars) => FileIInv'
  <1> SUFFICES ASSUME FileIInv, [File!Next]_(File!attachmentVars) PROVE FileIInv'
    OBVIOUS
  <1>1. CASE UNCHANGED File!attachmentVars
    BY <1>1 DEF File!attachmentVars, File!storeVars, File!jobVars, File!requestVars,
       File!histVars,
       FileIInv, FileTypeInv, FileLifeInv, FileRowInv, FilePutInv, File!AtWork, File!Others,
       File!OldKey
  <1>2. ASSUME NEW c \in Uploads, File!Request(c) \/ File!RowFails(c) \/ File!RemoveOldFails(c)
                                  \/ File!DeleteBlobFails(c) \/ File!Dies(c)
        PROVE  FileIInv'
    BY <1>2, FilePutBlobStep, FileWriteRowStep, FileRemoveOldStep, FileUpdateMetaStep,
      FileDeleteRowStep,
       FileDeleteBlobStep, FileEmitStep, FileRowFailsStep, FileRemoveOldFailsStep,
       FileDeleteBlobFailsStep, FileDiesStep
       DEF File!Request
  <1>3. ASSUME NEW k \in BlobNames, File!Worker(k) \/ File!PurgeFails(k)
        PROVE  FileIInv'
    BY <1>3, FileClaimPurgeStep, FilePurgeBlobStep, FileCompletePurgeStep,
      FilePurgeFailsStep DEF File!Worker
  <1> QED
    BY <1>1, <1>2, <1>3, FileBeginStep, FileRestartStep DEF File!Next

\* For any requests, file names and faults, a row has its blob, unless its key was
\* written again while a removal of that key was due.
THEOREM FileKept == File!Spec => []RowKeepsBlob
  <1>1. File!Init => FileIInv
    BY FileInitStep
  <1>2. FileIInv /\ [File!Next]_(File!attachmentVars) => FileIInv'
    BY FileNextStep
  <1>3. FileIInv => RowKeepsBlob
    BY DEF RowKeepsBlob, FileIInv, FileRowInv, File!RowKeepsBlob
  <1> QED
    BY <1>1, <1>2, <1>3, PTL DEF File!Spec

-----------------------------------------------------------------------------
(* Reminders (Reminders). *)

DueTypeInv ==
  /\ reminder \in [Dates -> {"absent", "pending", "running", "succeeded", "failed"}]
  /\ found \in [Dates -> BOOLEAN] /\ event \in [Dates -> {0, 1}]

\* Dates the record is open with, and whose time has come, are remembered.
DueWantedInv == \A d \in Dates : Due!Open(rrec, d) /\ Due!RunAt(d) <= clock => d \in rwanted

\* A job that is to remind found the record open at its time, and so did one that has.
DueFoundInv == \A d \in Dates : found[d] \/ event[d] > 0 => d \in rwanted

DueIInv == DueTypeInv /\ DueWantedInv /\ DueFoundInv

\* The invariant holds at first.
LEMMA DueInitStep == Due!Init => DueIInv
  <1> SUFFICES ASSUME Due!Init PROVE DueIInv
    OBVIOUS
  <1>1. DueTypeInv /\ DueFoundInv
    BY DEF Due!Init, DueTypeInv, DueFoundInv
  <1>2. DueWantedInv
    BY DEF Due!Init, DueWantedInv, Due!Open
  <1> QED
    BY <1>1, <1>2 DEF DueIInv

\* Write preserves the invariant.
LEMMA DueWriteStep ==
  ASSUME DueIInv, NEW o, NEW r, Due!Write(o, r)
  PROVE  DueIInv'
  <1>1. /\ rrec' = r /\ reminder' = Due!JobsAfter(o, r) /\ Due!Remember(r, clock, reminder')
        /\ UNCHANGED <<kind, clock, found, event>>
    BY DEF Due!Write
  <1>2. DueTypeInv'
    BY <1>1 DEF DueIInv, DueTypeInv, Due!JobsAfter
  <1>3. /\ rwanted \subseteq rwanted'
        /\ \A d \in Dates : Due!Open(r, d) /\ Due!RunAt(d) <= clock => d \in rwanted'
    BY <1>1 DEF Due!Remember
  <1>4. \A d \in Dates : Due!RunAt(d)' = Due!RunAt(d)
    BY <1>1 DEF Due!RunAt
  <1>5. DueWantedInv'
    BY <1>1, <1>3, <1>4 DEF DueWantedInv, Due!Open
  <1>6. DueFoundInv'
    BY <1>1, <1>3 DEF DueIInv, DueFoundInv
  <1> QED
    BY <1>2, <1>5, <1>6 DEF DueIInv

\* Every request writes the record, or does nothing.
LEMMA DueRequestStep ==
  ASSUME DueIInv, Due!Request
  PROVE  DueIInv'
  <1>1. \E o, r : Due!Write(o, r)
    BY DEF Due!Request, Due!Create, Due!ChangeDate, Due!ChangeState, Due!Delete
  <1> QED
    BY <1>1, DueWriteStep

\* Time passes: what is due may change.
LEMMA DueTickStep ==
  ASSUME DueIInv, Due!Tick
  PROVE  DueIInv'
  <1>1. Due!Remember(rrec, clock', reminder) /\ UNCHANGED <<kind, rrec, reminder, found, event>>
    BY DEF Due!Tick, Due!recordVars, Due!jobVars
  <1>2. /\ rwanted \subseteq rwanted'
        /\ \A d \in Dates : Due!Open(rrec, d) /\ Due!RunAt(d) <= clock' => d \in rwanted'
    BY <1>1 DEF Due!Remember
  <1>3. \A d \in Dates : Due!RunAt(d)' = Due!RunAt(d)
    BY <1>1 DEF Due!RunAt
  <1>4. DueTypeInv' /\ DueFoundInv'
    BY <1>1, <1>2 DEF DueIInv, DueTypeInv, DueFoundInv
  <1>5. DueWantedInv'
    BY <1>1, <1>2, <1>3 DEF DueWantedInv, Due!Open
  <1> QED
    BY <1>4, <1>5 DEF DueIInv

\* A step of a job leaves the record and the time alone; what it finds, and the event it
\* puts into the outbox, are of a date that is remembered.
LEMMA DueJobStep ==
  ASSUME DueIInv, NEW d \in Dates, UNCHANGED <<kind, clock, rrec, rwanted>>, DueTypeInv',
         \A e \in Dates \ {d} : found'[e] = found[e] /\ event'[e] = event[e],
         (found'[d] /\ ~found[d]) \/ (event'[d] > 0 /\ event[d] = 0) => d \in rwanted
  PROVE  DueIInv'
  <1>1. \A e \in Dates : Due!RunAt(e)' = Due!RunAt(e)
    BY DEF Due!RunAt
  <1>2. DueWantedInv'
    BY <1>1 DEF DueIInv, DueWantedInv, Due!Open
  <1>3. event[d] > 0 \/ event[d] = 0
    BY DEF DueIInv, DueTypeInv
  <1>4. DueFoundInv'
    BY <1>3 DEF DueIInv, DueFoundInv
  <1> QED
    BY <1>2, <1>4 DEF DueIInv

\* Claim preserves the invariant.
LEMMA DueClaimStep ==
  ASSUME DueIInv, NEW d \in Dates, Due!Claim(d)
  PROVE  DueIInv'
  <1>1. Due!Reminds(d) \in BOOLEAN
    BY DEF Due!Reminds, Due!Open
  <1>2. /\ DueTypeInv' /\ found' = [found EXCEPT ![d] = Due!Reminds(d)] /\ event' = event
        /\ UNCHANGED <<kind, clock, rrec, rwanted>>
    BY <1>1 DEF DueIInv, DueTypeInv, Due!Claim, Due!recordVars, Due!histVars
  <1>3. found'[d] => d \in rwanted
    BY <1>2 DEF DueIInv, DueTypeInv, DueWantedInv, Due!Claim, Due!Reminds
  <1> QED
    BY <1>2, <1>3, DueJobStep DEF DueIInv, DueTypeInv

\* Emit preserves the invariant.
LEMMA DueEmitStep ==
  ASSUME DueIInv, NEW d \in Dates, Due!Emit(d)
  PROVE  DueIInv'
  <1>1. /\ DueTypeInv' /\ found[d] /\ found' = [found EXCEPT ![d] = FALSE]
        /\ event' = [event EXCEPT ![d] = 1] /\ UNCHANGED <<kind, clock, rrec, rwanted>>
    BY DEF DueIInv, DueTypeInv, Due!Emit, Due!Insert, Due!recordVars, Due!histVars
  <1>2. d \in rwanted
    BY <1>1 DEF DueIInv, DueFoundInv
  <1> QED
    BY <1>1, <1>2, DueJobStep DEF DueIInv, DueTypeInv

\* End preserves the invariant.
LEMMA DueEndStep ==
  ASSUME DueIInv, NEW d \in Dates, Due!Complete(d) \/ Due!Fail(d) \/ Due!Restart(d)
  PROVE  DueIInv'
  <1>1. /\ DueTypeInv' /\ event' = event /\ UNCHANGED <<kind, clock, rrec, rwanted>>
        /\ found' \in {found, [found EXCEPT ![d] = FALSE]}
    BY DEF DueIInv, DueTypeInv, Due!Complete, Due!Fail, Due!Restart, Due!recordVars, Due!histVars
  <1> QED
    BY <1>1, DueJobStep DEF DueIInv, DueTypeInv

\* Every step preserves the invariant.
LEMMA DueNextStep == DueIInv /\ [Due!Next]_(Due!reminderVars) => DueIInv'
  <1> SUFFICES ASSUME DueIInv, [Due!Next]_(Due!reminderVars) PROVE DueIInv'
    OBVIOUS
  <1>1. CASE UNCHANGED Due!reminderVars
    BY <1>1 DEF Due!reminderVars, Due!recordVars, Due!jobVars, Due!histVars,
       DueIInv, DueTypeInv, DueWantedInv, DueFoundInv, Due!Open, Due!RunAt
  <1>2. ASSUME NEW d \in Dates, Due!Worker(d) \/ Due!Fail(d) \/ Due!Restart(d)
        PROVE  DueIInv'
    BY <1>2, DueClaimStep, DueEmitStep, DueEndStep DEF Due!Worker
  <1> QED
    BY <1>1, <1>2, DueRequestStep, DueTickStep DEF Due!Next

\* One reminder of a date at most, and only of one that the record was open with when its
\* time had come.
THEOREM DueRightly == Due!Spec => []RemindedRightly
  <1>1. Due!Init => DueIInv
    BY DueInitStep
  <1>2. DueIInv /\ [Due!Next]_(Due!reminderVars) => DueIInv'
    BY DueNextStep
  <1>3. DueIInv => RemindedRightly
    <2> SUFFICES ASSUME DueIInv, NEW d \in Dates
                 PROVE  event[d] <= 1 /\ (event[d] > 0 => d \in rwanted)
      BY DEF RemindedRightly, Due!RemindedRightly
    <2>1. event[d] \in {0, 1}
      BY DEF DueIInv, DueTypeInv
    <2> QED
      BY <2>1 DEF DueIInv, DueFoundInv
  <1> QED
    BY <1>1, <1>2, <1>3, PTL DEF Due!Spec

-----------------------------------------------------------------------------
(* Deliveries (Delivery). *)

MailSteps == {"idle", "read", "sending", "sent", "skip", "failed", "post", "posted", "refused",
          "ok", "err"}
MailStatuses == {"none", "queued", "sending", "sent", "skipped", "failed", "dead_letter"}

MailTypeInv ==
  /\ dpublished \in BOOLEAN /\ (dpublished => hpc = "idle")
  /\ hpc \in {"idle", "notify", "hook", "comm", "enqueue", "done"}
  /\ next \in [channel : Nat, users : SUBSET Notified]
  /\ log \in [Mail!Offered -> MailStatuses] /\ attempts \in [Mail!Offered -> Nat]
  /\ queue \in [Mail!Jobs -> {"absent", "pending", "running", "succeeded", "failed"}]
  /\ dpc \in [Deliverers -> MailSteps] /\ job \in [Deliverers -> Mail!Jobs \cup {Mail!NoJob}]
  /\ dtries \in [Mail!Jobs -> Nat]
  /\ dfaults \in Nat /\ sends \in [Mail!Jobs -> Nat] /\ notes \in [Notified -> Nat]
  /\ \A w \in Deliverers :
       /\ dpc[w] # "idle" => job[w] \in Mail!Jobs
       /\ dpc[w] \in {"post", "posted", "refused"} => job[w] = Hook

MailOne(F) == IF F THEN 1 ELSE 0

\* Who is at a step from which its job may still be carried out, or come back to the queue.
MailHopeful == {"read", "sending", "failed", "post", "refused", "err"}
MailHolds(w, j) == job[w] = j /\ dpc[w] \in MailHopeful
MailHolding(j) == {w \in Deliverers : MailHolds(w, j)}
MailOpen(j) == queue[j] \in {"absent", "pending"}

\* What a job has sent, and what it may yet send.
MailTokenInv ==
  \A j \in Mail!Jobs : sends[j] + Cardinality(MailHolding(j)) + MailOne(MailOpen(j)) <= 1 + dfaults

\* A user may be notified once more as long as the event's handler has not come so far.
MailToNotify(u) == ~dpublished /\ (hpc = "idle" \/ (hpc = "notify" /\ u \in next.users))
MailNoteInv == \A u \in Notified : notes[u] + MailOne(MailToNotify(u)) <= 1 + dfaults

\* Whoever is about to record that a message was sent, or a call made, has done it.
MailLeft(c) == sends[c] > 0 \/ (c = InApp /\ dfaults > 0)
MailLogInv ==
  /\ \A c \in Mail!Offered : log[c] = "sent" => MailLeft(c)
  /\ hookLog = "ok" => sends[Hook] > 0
  /\ \A w \in Deliverers :
       /\ dpc[w] = "sent" => MailLeft(job[w])
       /\ dpc[w] = "posted" => sends[Hook] > 0

MailIInv == MailTypeInv /\ MailTokenInv /\ MailNoteInv /\ MailLogInv

\* The deliverers are finitely many.
LEMMA MailFew == IsFiniteSet(Deliverers)
  BY DeliverersHold DEF Mail!DeliveryAssumption, Mail!IsFiniteSet, IsFiniteSet

\* A count of workers, when one of them moves.
LEMMA MailOneMoves ==
  ASSUME NEW S \in SUBSET Deliverers, NEW U \in SUBSET Deliverers, NEW w \in Deliverers,
         \A v \in Deliverers \ {w} : v \in S <=> v \in U
  PROVE  /\ Cardinality(S) \in Nat /\ Cardinality(U) \in Nat
         /\ Cardinality(U) + MailOne(w \in S) = Cardinality(S) + MailOne(w \in U)
  <1>1. IsFiniteSet(S) /\ IsFiniteSet(U)
    BY MailFew, FS_Subset
  <1>2. Cardinality(S) \in Nat /\ Cardinality(U) \in Nat
    BY <1>1, FS_CardinalityType
  <1>3. CASE w \in S /\ w \in U
    <2>1. S = U
      BY <1>3
    <2> QED
      BY <1>2, <1>3, <2>1 DEF MailOne
  <1>4. CASE w \notin S /\ w \notin U
    <2>1. S = U
      BY <1>4
    <2> QED
      BY <1>2, <1>4, <2>1 DEF MailOne
  <1>5. CASE w \in S /\ w \notin U
    <2>1. U = S \ {w}
      BY <1>5
    <2>2. Cardinality(U) = Cardinality(S) - 1
      BY <1>1, <1>5, <2>1, FS_RemoveElement
    <2> QED
      BY <1>2, <1>5, <2>2 DEF MailOne
  <1>6. CASE w \notin S /\ w \in U
    <2>1. U = S \cup {w}
      BY <1>6
    <2>2. Cardinality(U) = Cardinality(S) + 1
      BY <1>1, <1>6, <2>1, FS_AddElement
    <2> QED
      BY <1>2, <1>6, <2>2 DEF MailOne
  <1> QED
    BY <1>3, <1>4, <1>5, <1>6

\* A step of worker w keeps TokenInv if it does so for what is its own.
LEMMA MailTokenStep ==
  ASSUME MailIInv, NEW w \in Deliverers, MailTypeInv',
         \A v \in Deliverers \ {w} : dpc'[v] = dpc[v] /\ job'[v] = job[v],
         \A j \in Mail!Jobs : sends'[j] + MailOne(MailHolds(w, j)') + MailOne(MailOpen(j)') + dfaults
                           <= sends[j] + MailOne(MailHolds(w, j)) + MailOne(MailOpen(j)) + dfaults'
  PROVE  MailTokenInv'
  <1> SUFFICES ASSUME NEW j \in Mail!Jobs
               PROVE  sends'[j] + Cardinality(MailHolding(j)') + MailOne(MailOpen(j)') <= 1 + dfaults'
    BY DEF MailTokenInv
  <1>1. /\ MailHolding(j) \in SUBSET Deliverers /\ MailHolding(j)' \in SUBSET Deliverers
        /\ \A v \in Deliverers \ {w} : v \in MailHolding(j) <=> v \in MailHolding(j)'
        /\ (w \in MailHolding(j) <=> MailHolds(w, j)) /\ (w \in MailHolding(j)' <=> MailHolds(w, j)')
    BY DEF MailHolding, MailHolds
  <1>2. /\ Cardinality(MailHolding(j)) \in Nat /\ Cardinality(MailHolding(j)') \in Nat
        /\ Cardinality(MailHolding(j)') + MailOne(w \in MailHolding(j))
             = Cardinality(MailHolding(j)) + MailOne(w \in MailHolding(j)')
    BY <1>1, MailOneMoves
  <1>3. /\ MailOne(w \in MailHolding(j)) = MailOne(MailHolds(w, j))
        /\ MailOne(w \in MailHolding(j)') = MailOne(MailHolds(w, j)')
    BY <1>1 DEF MailOne
  <1>4. /\ MailOne(MailHolds(w, j)) \in Nat /\ MailOne(MailHolds(w, j)') \in Nat
        /\ MailOne(MailOpen(j)) \in Nat /\ MailOne(MailOpen(j)') \in Nat
    BY DEF MailOne
  <1>5. sends[j] \in Nat /\ sends'[j] \in Nat /\ dfaults \in Nat /\ dfaults' \in Nat
    BY DEF MailIInv, MailTypeInv
  <1>6. sends[j] + Cardinality(MailHolding(j)) + MailOne(MailOpen(j)) <= 1 + dfaults
    BY DEF MailIInv, MailTokenInv
  <1>7. sends'[j] + MailOne(MailHolds(w, j)') + MailOne(MailOpen(j)') + dfaults
          <= sends[j] + MailOne(MailHolds(w, j)) + MailOne(MailOpen(j)) + dfaults'
    OBVIOUS
  <1> QED
    BY <1>2, <1>3, <1>4, <1>5, <1>6, <1>7

\* Steps of the handlers.
LEMMA MailHandlerTokens ==
  ASSUME MailIInv, MailTypeInv', UNCHANGED <<dpc, job, sends>>, dfaults' >= dfaults,
         \A j \in Mail!Jobs : MailOpen(j)' => MailOpen(j)
  PROVE  MailTokenInv'
  <1> SUFFICES ASSUME NEW j \in Mail!Jobs
               PROVE  sends'[j] + Cardinality(MailHolding(j)') + MailOne(MailOpen(j)') <= 1 + dfaults'
    BY DEF MailTokenInv
  <1>1. MailHolding(j)' = MailHolding(j)
    BY DEF MailHolding, MailHolds
  <1>2. Cardinality(MailHolding(j)) \in Nat
    BY MailFew, FS_Subset, FS_CardinalityType DEF MailHolding
  <1>3. MailOne(MailOpen(j)') <= MailOne(MailOpen(j)) /\ MailOne(MailOpen(j)) \in Nat /\ MailOne(MailOpen(j)') \in Nat
    BY DEF MailOne
  <1>4. sends[j] + Cardinality(MailHolding(j)) + MailOne(MailOpen(j)) <= 1 + dfaults
    BY DEF MailIInv, MailTokenInv
  <1>5. sends[j] \in Nat /\ dfaults \in Nat /\ dfaults' \in Nat
    BY DEF MailIInv, MailTypeInv
  <1> QED
    BY <1>1, <1>2, <1>3, <1>4, <1>5

\* The invariant holds at first.
LEMMA MailInitStep == Mail!Init => MailIInv
  <1> SUFFICES ASSUME Mail!Init PROVE MailIInv
    OBVIOUS
  <1>1. MailTypeInv
    BY DEF Mail!Init, MailTypeInv, MailSteps, MailStatuses, Mail!Jobs
  <1>2. MailTokenInv
    <2> SUFFICES ASSUME NEW j \in Mail!Jobs
                 PROVE  sends[j] + Cardinality(MailHolding(j)) + MailOne(MailOpen(j)) <= 1 + dfaults
      BY DEF MailTokenInv
    <2>1. MailHolding(j) = {}
      BY DEF Mail!Init, MailHolding, MailHolds, MailHopeful
    <2>2. Cardinality(MailHolding(j)) = 0
      BY <2>1, FS_EmptySet
    <2> QED
      BY <2>2 DEF Mail!Init, MailOne
  <1>3. MailNoteInv
    BY DEF Mail!Init, MailNoteInv, MailOne
  <1>4. MailLogInv
    BY DEF Mail!Init, MailLogInv
  <1> QED
    BY <1>1, <1>2, <1>3, <1>4 DEF MailIInv

\* Each handler step keeps the invariant.

\* An event is taken up: whom to notify has not been seen to.
LEMMA MailStartStep == ASSUME MailIInv, Mail!Start PROVE MailIInv'
  <1>1. MailTypeInv'
    BY DEF MailIInv, MailTypeInv, Mail!Start, MailStatuses, Mail!rowVars, Mail!workerVars,
      Mail!histVars
  <1>2. MailTokenInv'
    <2>1. UNCHANGED <<dpc, job, sends>> /\ dfaults' >= dfaults
      BY DEF MailIInv, MailTypeInv, Mail!Start, Mail!rowVars, Mail!workerVars, Mail!histVars
    <2>2. \A j \in Mail!Jobs : MailOpen(j)' => MailOpen(j)
      BY DEF MailIInv, MailTypeInv, Mail!Start, MailOpen, Mail!rowVars, Mail!workerVars,
        Mail!histVars
    <2> QED
      BY <1>1, <2>1, <2>2, MailHandlerTokens
  <1>3. MailNoteInv'
    BY DEF MailIInv, MailTypeInv, MailNoteInv, MailToNotify, MailOne, Mail!Start, Mail!rowVars,
      Mail!workerVars, Mail!histVars
  <1>4. MailLogInv'
    BY DEF MailIInv, MailTypeInv, MailLogInv, MailLeft, Mail!Start, Mail!rowVars, Mail!workerVars,
      Mail!histVars
  <1> QED
    BY <1>1, <1>2, <1>3, <1>4 DEF MailIInv

\* The query for the recipients fails.
LEMMA MailRecipientsFailStep == ASSUME MailIInv, Mail!RecipientsFail PROVE MailIInv'
  <1>1. MailTypeInv'
    BY DEF MailIInv, MailTypeInv, Mail!RecipientsFail, Mail!Fault, MailStatuses, Mail!rowVars,
      Mail!workerVars, Mail!histVars
  <1>2. MailTokenInv'
    <2>1. UNCHANGED <<dpc, job, sends>> /\ dfaults' >= dfaults
      BY DEF MailIInv, MailTypeInv, Mail!RecipientsFail, Mail!Fault, Mail!rowVars,
         Mail!workerVars,
        Mail!histVars
    <2>2. \A j \in Mail!Jobs : MailOpen(j)' => MailOpen(j)
      BY DEF MailIInv, MailTypeInv, Mail!RecipientsFail, MailOpen, Mail!rowVars, Mail!workerVars,
        Mail!histVars
    <2> QED
      BY <1>1, <2>1, <2>2, MailHandlerTokens
  <1>3. MailNoteInv'
    BY DEF MailIInv, MailTypeInv, MailNoteInv, MailToNotify, MailOne, Mail!RecipientsFail,
      Mail!Fault, Mail!rowVars, Mail!workerVars, Mail!histVars
  <1>4. MailLogInv'
    BY DEF MailIInv, MailTypeInv, MailLogInv, MailLeft, Mail!RecipientsFail, Mail!Fault,
      Mail!rowVars, Mail!workerVars, Mail!histVars
  <1> QED
    BY <1>1, <1>2, <1>3, <1>4 DEF MailIInv

\* A notification is stored, or a fault keeps it from being stored.
LEMMA MailNotifyStep ==
  ASSUME MailIInv, NEW stored \in BOOLEAN, Mail!Notify(stored)
  PROVE  MailIInv'
  <1>1. MailTypeInv'
    BY DEF MailIInv, MailTypeInv, Mail!Notify, Mail!Fault, MailStatuses, Mail!rowVars,
      Mail!workerVars
  <1>2. MailTokenInv'
    <2>1. UNCHANGED <<dpc, job, sends>> /\ dfaults' >= dfaults
      BY DEF MailIInv, MailTypeInv, Mail!Notify, Mail!Fault, Mail!rowVars, Mail!workerVars
    <2>2. \A j \in Mail!Jobs : MailOpen(j)' => MailOpen(j)
      BY DEF MailIInv, MailTypeInv, Mail!Notify, MailOpen, Mail!rowVars, Mail!workerVars
    <2> QED
      BY <1>1, <2>1, <2>2, MailHandlerTokens
  <1>3. MailNoteInv'
    <2>1. ASSUME NEW v \in Notified PROVE notes'[v] + MailOne(MailToNotify(v)') <= 1 + dfaults'
      <3>1. PICK u \in next.users : /\ next' = [next EXCEPT !.users = @ \ {u}]
                                   /\ notes' = [notes EXCEPT ![u] = IF stored THEN @ + 1 ELSE @]
        BY DEF Mail!Notify
      <3>2. /\ ~dpublished => MailToNotify(u)
            /\ ~MailToNotify(u)'
            /\ v # u => (MailToNotify(v)' => MailToNotify(v))
        BY <3>1 DEF MailIInv, MailTypeInv, Mail!Notify, MailToNotify
      <3>3. notes[v] + MailOne(MailToNotify(v)) <= 1 + dfaults /\ dfaults' >= dfaults
        BY DEF MailIInv, MailTypeInv, MailNoteInv, Mail!Notify, Mail!Fault
      <3>4. notes \in [Notified -> Nat] /\ dfaults \in Nat /\ dfaults' \in Nat
        BY <1>1 DEF MailIInv, MailTypeInv
      <3>5. ~dpublished
        BY DEF MailIInv, MailTypeInv, Mail!Notify
      <3> QED
        BY <3>1, <3>2, <3>3, <3>4, <3>5 DEF MailOne
    <2> QED
      BY <2>1 DEF MailNoteInv
  <1>4. MailLogInv'
    BY DEF MailIInv, MailTypeInv, MailLogInv, MailLeft, Mail!Notify, Mail!Fault, Mail!rowVars,
      Mail!workerVars
  <1> QED
    BY <1>1, <1>2, <1>3, <1>4 DEF MailIInv

\* Everyone has been notified.
LEMMA MailNotifiedAllStep == ASSUME MailIInv, Mail!NotifiedAll PROVE MailIInv'
  <1>1. MailTypeInv'
    BY DEF MailIInv, MailTypeInv, Mail!NotifiedAll, MailStatuses, Mail!rowVars, Mail!workerVars,
      Mail!histVars
  <1>2. MailTokenInv'
    <2>1. UNCHANGED <<dpc, job, sends>> /\ dfaults' >= dfaults
      BY DEF MailIInv, MailTypeInv, Mail!NotifiedAll, Mail!rowVars, Mail!workerVars, Mail!histVars
    <2>2. \A j \in Mail!Jobs : MailOpen(j)' => MailOpen(j)
      BY DEF MailIInv, MailTypeInv, Mail!NotifiedAll, MailOpen, Mail!rowVars, Mail!workerVars,
        Mail!histVars
    <2> QED
      BY <1>1, <2>1, <2>2, MailHandlerTokens
  <1>3. MailNoteInv'
    BY DEF MailIInv, MailTypeInv, MailNoteInv, MailToNotify, MailOne, Mail!NotifiedAll,
      Mail!rowVars, Mail!workerVars, Mail!histVars
  <1>4. MailLogInv'
    BY DEF MailIInv, MailTypeInv, MailLogInv, MailLeft, Mail!NotifiedAll, Mail!rowVars,
      Mail!workerVars, Mail!histVars
  <1> QED
    BY <1>1, <1>2, <1>3, <1>4 DEF MailIInv

\* The webhook's job is enqueued unless there is one.
LEMMA MailEnqueueHookStep ==
  ASSUME MailIInv, NEW stored \in BOOLEAN, Mail!EnqueueHook(stored)
  PROVE  MailIInv'
  <1>1. MailTypeInv'
    BY DEF MailIInv, MailTypeInv, Mail!EnqueueHook, Mail!EnqueueJob, Mail!Fault, MailStatuses,
      Mail!workerVars, Mail!histVars
  <1>2. MailTokenInv'
    <2>1. UNCHANGED <<dpc, job, sends>> /\ dfaults' >= dfaults
      BY DEF MailIInv, MailTypeInv, Mail!EnqueueHook, Mail!Fault, Mail!workerVars, Mail!histVars
    <2>2. \A j \in Mail!Jobs : MailOpen(j)' => MailOpen(j)
      BY DEF MailIInv, MailTypeInv, Mail!EnqueueHook, Mail!EnqueueJob, MailOpen, Mail!workerVars,
        Mail!histVars
    <2> QED
      BY <1>1, <2>1, <2>2, MailHandlerTokens
  <1>3. MailNoteInv'
    BY DEF MailIInv, MailTypeInv, MailNoteInv, MailToNotify, MailOne, Mail!EnqueueHook,
       Mail!Fault,
      Mail!workerVars, Mail!histVars
  <1>4. MailLogInv'
    BY DEF MailIInv, MailTypeInv, MailLogInv, MailLeft, Mail!EnqueueHook, Mail!Fault,
      Mail!workerVars, Mail!histVars
  <1> QED
    BY <1>1, <1>2, <1>3, <1>4 DEF MailIInv

\* A channel is skipped.
LEMMA MailNextChannelStep == ASSUME MailIInv, Mail!NextChannel PROVE MailIInv'
  <1>0. next' \in [channel : Nat, users : SUBSET Notified]
    <2>1. next \in [channel : Nat, users : SUBSET Notified]
      BY DEF MailIInv, MailTypeInv
    <2>2. next' = [next EXCEPT !.channel = next.channel + 1]
      BY DEF Mail!NextChannel
    <2> QED
      BY <2>1, <2>2
  <1>1. MailTypeInv'
    BY <1>0 DEF MailIInv, MailTypeInv, Mail!NextChannel, MailStatuses, Mail!rowVars,
      Mail!workerVars, Mail!histVars
  <1>2. MailTokenInv'
    <2>1. UNCHANGED <<dpc, job, sends>> /\ dfaults' >= dfaults
      BY DEF MailIInv, MailTypeInv, Mail!NextChannel, Mail!rowVars, Mail!workerVars, Mail!histVars
    <2>2. \A j \in Mail!Jobs : MailOpen(j)' => MailOpen(j)
      BY DEF MailIInv, MailTypeInv, Mail!NextChannel, MailOpen, Mail!rowVars, Mail!workerVars,
        Mail!histVars
    <2> QED
      BY <1>1, <2>1, <2>2, MailHandlerTokens
  <1>3. MailNoteInv'
    BY DEF MailIInv, MailTypeInv, MailNoteInv, MailToNotify, MailOne, Mail!NextChannel,
      Mail!rowVars, Mail!workerVars, Mail!histVars
  <1>4. MailLogInv'
    BY DEF MailIInv, MailTypeInv, MailLogInv, MailLeft, Mail!NextChannel, Mail!rowVars,
      Mail!workerVars, Mail!histVars
  <1> QED
    BY <1>1, <1>2, <1>3, <1>4 DEF MailIInv

\* The row of a message is inserted.
LEMMA MailInsertQueuedStep == ASSUME MailIInv, Mail!InsertQueued PROVE MailIInv'
  <1>1. MailTypeInv'
    BY DEF MailIInv, MailTypeInv, Mail!InsertQueued, MailStatuses, Mail!workerVars, Mail!histVars
  <1>2. MailTokenInv'
    <2>1. UNCHANGED <<dpc, job, sends>> /\ dfaults' >= dfaults
      BY DEF MailIInv, MailTypeInv, Mail!InsertQueued, Mail!workerVars, Mail!histVars
    <2>2. \A j \in Mail!Jobs : MailOpen(j)' => MailOpen(j)
      BY DEF MailIInv, MailTypeInv, Mail!InsertQueued, MailOpen, Mail!workerVars, Mail!histVars
    <2> QED
      BY <1>1, <2>1, <2>2, MailHandlerTokens
  <1>3. MailNoteInv'
    BY DEF MailIInv, MailTypeInv, MailNoteInv, MailToNotify, MailOne, Mail!InsertQueued,
      Mail!workerVars, Mail!histVars
  <1>4. MailLogInv'
    BY DEF MailIInv, MailTypeInv, MailLogInv, MailLeft, Mail!InsertQueued, Mail!workerVars,
      Mail!histVars
  <1> QED
    BY <1>1, <1>2, <1>3, <1>4 DEF MailIInv

\* The job of a message is enqueued unless there is one.
LEMMA MailEnqueueDeliverStep == ASSUME MailIInv, Mail!EnqueueDeliver PROVE MailIInv'
  <1>1. MailTypeInv'
    BY DEF MailIInv, MailTypeInv, Mail!EnqueueDeliver, Mail!EnqueueJob, MailStatuses,
      Mail!workerVars, Mail!histVars
  <1>2. MailTokenInv'
    <2>1. UNCHANGED <<dpc, job, sends>> /\ dfaults' >= dfaults
      BY DEF MailIInv, MailTypeInv, Mail!EnqueueDeliver, Mail!workerVars, Mail!histVars
    <2>2. \A j \in Mail!Jobs : MailOpen(j)' => MailOpen(j)
      BY DEF MailIInv, MailTypeInv, Mail!EnqueueDeliver, Mail!EnqueueJob, MailOpen,
        Mail!workerVars, Mail!histVars
    <2> QED
      BY <1>1, <2>1, <2>2, MailHandlerTokens
  <1>3. MailNoteInv'
    BY DEF MailIInv, MailTypeInv, MailNoteInv, MailToNotify, MailOne, Mail!EnqueueDeliver,
      Mail!workerVars, Mail!histVars
  <1>4. MailLogInv'
    BY DEF MailIInv, MailTypeInv, MailLogInv, MailLeft, Mail!EnqueueDeliver, Mail!workerVars,
      Mail!histVars
  <1> QED
    BY <1>1, <1>2, <1>3, <1>4 DEF MailIInv

\* A statement of the message's handler fails.
LEMMA MailCommFailsStep == ASSUME MailIInv, Mail!CommFails PROVE MailIInv'
  <1>1. MailTypeInv'
    BY DEF MailIInv, MailTypeInv, Mail!CommFails, Mail!Fault, MailStatuses, Mail!rowVars,
      Mail!workerVars, Mail!histVars
  <1>2. MailTokenInv'
    <2>1. UNCHANGED <<dpc, job, sends>> /\ dfaults' >= dfaults
      BY DEF MailIInv, MailTypeInv, Mail!CommFails, Mail!Fault, Mail!rowVars, Mail!workerVars,
        Mail!histVars
    <2>2. \A j \in Mail!Jobs : MailOpen(j)' => MailOpen(j)
      BY DEF MailIInv, MailTypeInv, Mail!CommFails, MailOpen, Mail!rowVars, Mail!workerVars,
        Mail!histVars
    <2> QED
      BY <1>1, <2>1, <2>2, MailHandlerTokens
  <1>3. MailNoteInv'
    BY DEF MailIInv, MailTypeInv, MailNoteInv, MailToNotify, MailOne, Mail!CommFails, Mail!Fault,
      Mail!rowVars, Mail!workerVars, Mail!histVars
  <1>4. MailLogInv'
    BY DEF MailIInv, MailTypeInv, MailLogInv, MailLeft, Mail!CommFails, Mail!Fault, Mail!rowVars,
      Mail!workerVars, Mail!histVars
  <1> QED
    BY <1>1, <1>2, <1>3, <1>4 DEF MailIInv

\* No channel can be used.
LEMMA MailNoChannelLeftStep == ASSUME MailIInv, Mail!NoChannelLeft PROVE MailIInv'
  <1>1. MailTypeInv'
    BY DEF MailIInv, MailTypeInv, Mail!NoChannelLeft, MailStatuses, Mail!rowVars, Mail!workerVars,
      Mail!histVars
  <1>2. MailTokenInv'
    <2>1. UNCHANGED <<dpc, job, sends>> /\ dfaults' >= dfaults
      BY DEF MailIInv, MailTypeInv, Mail!NoChannelLeft, Mail!rowVars, Mail!workerVars,
         Mail!histVars
    <2>2. \A j \in Mail!Jobs : MailOpen(j)' => MailOpen(j)
      BY DEF MailIInv, MailTypeInv, Mail!NoChannelLeft, MailOpen, Mail!rowVars, Mail!workerVars,
        Mail!histVars
    <2> QED
      BY <1>1, <2>1, <2>2, MailHandlerTokens
  <1>3. MailNoteInv'
    BY DEF MailIInv, MailTypeInv, MailNoteInv, MailToNotify, MailOne, Mail!NoChannelLeft,
      Mail!rowVars, Mail!workerVars, Mail!histVars
  <1>4. MailLogInv'
    BY DEF MailIInv, MailTypeInv, MailLogInv, MailLeft, Mail!NoChannelLeft, Mail!rowVars,
      Mail!workerVars, Mail!histVars
  <1> QED
    BY <1>1, <1>2, <1>3, <1>4 DEF MailIInv

\* The event is marked.
LEMMA MailPublishStep == ASSUME MailIInv, Mail!Publish PROVE MailIInv'
  <1>1. MailTypeInv'
    BY DEF MailIInv, MailTypeInv, Mail!Publish, MailStatuses, Mail!rowVars, Mail!workerVars,
      Mail!histVars
  <1>2. MailTokenInv'
    <2>1. UNCHANGED <<dpc, job, sends>> /\ dfaults' >= dfaults
      BY DEF MailIInv, MailTypeInv, Mail!Publish, Mail!rowVars, Mail!workerVars, Mail!histVars
    <2>2. \A j \in Mail!Jobs : MailOpen(j)' => MailOpen(j)
      BY DEF MailIInv, MailTypeInv, Mail!Publish, MailOpen, Mail!rowVars, Mail!workerVars,
        Mail!histVars
    <2> QED
      BY <1>1, <2>1, <2>2, MailHandlerTokens
  <1>3. MailNoteInv'
    BY DEF MailIInv, MailTypeInv, MailNoteInv, MailToNotify, MailOne, Mail!Publish, Mail!rowVars,
      Mail!workerVars, Mail!histVars
  <1>4. MailLogInv'
    BY DEF MailIInv, MailTypeInv, MailLogInv, MailLeft, Mail!Publish, Mail!rowVars,
      Mail!workerVars, Mail!histVars
  <1> QED
    BY <1>1, <1>2, <1>3, <1>4 DEF MailIInv

\* The handling process dies.
LEMMA MailHandlerDiesStep == ASSUME MailIInv, Mail!HandlerDies PROVE MailIInv'
  <1>1. MailTypeInv'
    BY DEF MailIInv, MailTypeInv, Mail!HandlerDies, Mail!Fault, MailStatuses, Mail!rowVars,
      Mail!workerVars, Mail!histVars
  <1>2. MailTokenInv'
    <2>1. UNCHANGED <<dpc, job, sends>> /\ dfaults' >= dfaults
      BY DEF MailIInv, MailTypeInv, Mail!HandlerDies, Mail!Fault, Mail!rowVars, Mail!workerVars,
        Mail!histVars
    <2>2. \A j \in Mail!Jobs : MailOpen(j)' => MailOpen(j)
      BY DEF MailIInv, MailTypeInv, Mail!HandlerDies, MailOpen, Mail!rowVars, Mail!workerVars,
        Mail!histVars
    <2> QED
      BY <1>1, <2>1, <2>2, MailHandlerTokens
  <1>3. MailNoteInv'
    BY DEF MailIInv, MailTypeInv, MailNoteInv, MailToNotify, MailOne, Mail!HandlerDies,
       Mail!Fault,
      Mail!rowVars, Mail!workerVars, Mail!histVars
  <1>4. MailLogInv'
    BY DEF MailIInv, MailTypeInv, MailLogInv, MailLeft, Mail!HandlerDies, Mail!Fault,
       Mail!rowVars,
      Mail!workerVars, Mail!histVars
  <1> QED
    BY <1>1, <1>2, <1>3, <1>4 DEF MailIInv

\* A job is taken: its place in the queue passes to the worker.
LEMMA MailClaimStep ==
  ASSUME MailIInv, NEW w \in Deliverers, Mail!Claim(w)
  PROVE  MailIInv'
  <1>1. MailTypeInv'
    BY DEF MailIInv, MailTypeInv, Mail!Claim, Mail!Taken, Mail!Settled, MailSteps, MailStatuses,
      Mail!handlerVars, Mail!histVars
  <1>2. MailTokenInv'
    <2>1. \A v \in Deliverers \ {w} : dpc'[v] = dpc[v] /\ job'[v] = job[v]
      BY DEF MailIInv, MailTypeInv, Mail!Claim, Mail!handlerVars, Mail!histVars
    <2>2. ASSUME NEW j \in Mail!Jobs
          PROVE  sends'[j] + MailOne(MailHolds(w, j)') + MailOne(MailOpen(j)') + dfaults
                   <= sends[j] + MailOne(MailHolds(w, j)) + MailOne(MailOpen(j)) + dfaults'
      BY DEF MailIInv, MailTypeInv, Mail!Claim, Mail!Taken, Mail!Settled, MailHolds, MailOpen,
        MailOne, MailHopeful, Mail!handlerVars, Mail!histVars
    <2> QED
      BY <1>1, <2>1, <2>2, MailTokenStep
  <1>3. MailNoteInv'
    BY DEF MailIInv, MailTypeInv, MailNoteInv, MailToNotify, MailOne, Mail!Claim,
       Mail!handlerVars,
      Mail!histVars
  <1>4. MailLogInv'
    BY DEF MailIInv, MailTypeInv, MailLogInv, MailLeft, Mail!Claim, Mail!Taken, Mail!Settled,
      Mail!handlerVars, Mail!histVars
  <1> QED
    BY <1>1, <1>2, <1>3, <1>4 DEF MailIInv

\* The attempt is marked.
LEMMA MailMarkSendingStep ==
  ASSUME MailIInv, NEW w \in Deliverers, Mail!MarkSending(w)
  PROVE  MailIInv'
  <1>0. log' \in [Mail!Offered -> MailStatuses] /\ attempts' \in [Mail!Offered -> Nat]
    <2>1. log \in [Mail!Offered -> MailStatuses] /\ attempts \in [Mail!Offered -> Nat]
      BY DEF MailIInv, MailTypeInv
    <2>2. PICK s \in MailStatuses : Mail!Mark(job[w], s)
      BY DEF Mail!MarkSending, MailStatuses
    <2>3. log' \in [Mail!Offered -> MailStatuses]
      BY <2>1, <2>2 DEF Mail!Mark
    <2>4. attempts' \in [Mail!Offered -> Nat]
      <3>1. PICK c : attempts' = [attempts EXCEPT ![c] = attempts[c] + 1]
        BY <2>2 DEF Mail!Mark
      <3>2. \A d \in Mail!Offered : attempts'[d] = IF d = c THEN attempts[d] + 1 ELSE attempts[d]
        BY <2>1, <3>1
      <3>3. \A d \in Mail!Offered : attempts'[d] \in Nat
        BY <2>1, <3>2
      <3>4. attempts' = [d \in Mail!Offered |-> attempts'[d]]
        BY <2>1, <3>1
      <3> QED
        BY <3>3, <3>4
    <2> QED
      BY <2>3, <2>4
  <1>1. MailTypeInv'
    BY <1>0 DEF MailIInv, MailTypeInv, Mail!MarkSending, Mail!Goto, MailSteps, MailStatuses,
      Mail!handlerVars, Mail!histVars
  <1>2. MailTokenInv'
    <2>1. \A v \in Deliverers \ {w} : dpc'[v] = dpc[v] /\ job'[v] = job[v]
      BY DEF MailIInv, MailTypeInv, Mail!MarkSending, Mail!Goto, Mail!handlerVars, Mail!histVars
    <2>2. ASSUME NEW j \in Mail!Jobs
          PROVE  sends'[j] + MailOne(MailHolds(w, j)') + MailOne(MailOpen(j)') + dfaults
                   <= sends[j] + MailOne(MailHolds(w, j)) + MailOne(MailOpen(j)) + dfaults'
      BY DEF MailIInv, MailTypeInv, Mail!MarkSending, Mail!Goto, MailHolds, MailOpen, MailOne,
        MailHopeful, Mail!handlerVars, Mail!histVars
    <2> QED
      BY <1>1, <2>1, <2>2, MailTokenStep
  <1>3. MailNoteInv'
    BY DEF MailIInv, MailTypeInv, MailNoteInv, MailToNotify, MailOne, Mail!MarkSending,
      Mail!handlerVars, Mail!histVars
  <1>4. MailLogInv'
    BY DEF MailIInv, MailTypeInv, MailLogInv, MailLeft, Mail!MarkSending, Mail!Mark, Mail!Goto,
      Mail!handlerVars, Mail!histVars
  <1> QED
    BY <1>1, <1>2, <1>3, <1>4 DEF MailIInv

\* An in-app message leaves, or a fault keeps it from being stored.
LEMMA MailSendInAppStep ==
  ASSUME MailIInv, NEW w \in Deliverers, NEW stored \in BOOLEAN, Mail!SendInApp(w, stored)
  PROVE  MailIInv'
  <1>1. MailTypeInv'
    BY DEF MailIInv, MailTypeInv, Mail!SendInApp, Mail!Goto, Mail!Fault, MailSteps, MailStatuses,
      Mail!handlerVars, Mail!rowVars
  <1>2. MailTokenInv'
    <2>1. \A v \in Deliverers \ {w} : dpc'[v] = dpc[v] /\ job'[v] = job[v]
      BY DEF MailIInv, MailTypeInv, Mail!SendInApp, Mail!Goto, Mail!handlerVars, Mail!rowVars
    <2>2. ASSUME NEW j \in Mail!Jobs
          PROVE  sends'[j] + MailOne(MailHolds(w, j)') + MailOne(MailOpen(j)') + dfaults
                   <= sends[j] + MailOne(MailHolds(w, j)) + MailOne(MailOpen(j)) + dfaults'
      BY DEF MailIInv, MailTypeInv, Mail!SendInApp, Mail!Goto, Mail!Fault, MailHolds, MailOpen,
        MailOne, MailHopeful, Mail!handlerVars, Mail!rowVars
    <2> QED
      BY <1>1, <2>1, <2>2, MailTokenStep
  <1>3. MailNoteInv'
    BY DEF MailIInv, MailTypeInv, MailNoteInv, MailToNotify, MailOne, Mail!SendInApp, Mail!Fault,
      Mail!handlerVars, Mail!rowVars
  <1>4. MailLogInv'
    BY DEF MailIInv, MailTypeInv, MailLogInv, MailLeft, Mail!SendInApp, Mail!Goto, Mail!Fault,
      Mail!handlerVars, Mail!rowVars
  <1> QED
    BY <1>1, <1>2, <1>3, <1>4 DEF MailIInv

\* A provider is called: the worker has sent the message, or may still.
LEMMA MailSendStep ==
  ASSUME MailIInv, NEW w \in Deliverers, NEW answer \in {"ok", "failed", "limited"},
         Mail!Send(w, answer)
  PROVE  MailIInv'
  <1>1. MailTypeInv'
    BY DEF MailIInv, MailTypeInv, Mail!Send, Mail!Goto, Mail!Delivered, MailSteps, MailStatuses,
      Mail!handlerVars, Mail!rowVars
  <1>2. MailTokenInv'
    <2>1. \A v \in Deliverers \ {w} : dpc'[v] = dpc[v] /\ job'[v] = job[v]
      BY DEF MailIInv, MailTypeInv, Mail!Send, Mail!Goto, Mail!handlerVars, Mail!rowVars
    <2>2. ASSUME NEW j \in Mail!Jobs
          PROVE  sends'[j] + MailOne(MailHolds(w, j)') + MailOne(MailOpen(j)') + dfaults
                   <= sends[j] + MailOne(MailHolds(w, j)) + MailOne(MailOpen(j)) + dfaults'
      BY DEF MailIInv, MailTypeInv, Mail!Send, Mail!Goto, Mail!Delivered, MailHolds, MailOpen,
        MailOne, MailHopeful, Mail!handlerVars, Mail!rowVars
    <2> QED
      BY <1>1, <2>1, <2>2, MailTokenStep
  <1>3. MailNoteInv'
    BY DEF MailIInv, MailTypeInv, MailNoteInv, MailToNotify, MailOne, Mail!Send, Mail!handlerVars,
      Mail!rowVars
  <1>4. MailLogInv'
    BY DEF MailIInv, MailTypeInv, MailLogInv, MailLeft, Mail!Send, Mail!Goto, Mail!Delivered,
      Mail!handlerVars, Mail!rowVars
  <1> QED
    BY <1>1, <1>2, <1>3, <1>4 DEF MailIInv

\* What has been sent is marked so.
LEMMA MailMarkSentStep ==
  ASSUME MailIInv, NEW w \in Deliverers, Mail!MarkSent(w)
  PROVE  MailIInv'
  <1>0. log' \in [Mail!Offered -> MailStatuses] /\ attempts' \in [Mail!Offered -> Nat]
    <2>1. log \in [Mail!Offered -> MailStatuses] /\ attempts \in [Mail!Offered -> Nat]
      BY DEF MailIInv, MailTypeInv
    <2>2. PICK s \in MailStatuses : Mail!Mark(job[w], s)
      BY DEF Mail!MarkSent, MailStatuses
    <2>3. log' \in [Mail!Offered -> MailStatuses]
      BY <2>1, <2>2 DEF Mail!Mark
    <2>4. attempts' \in [Mail!Offered -> Nat]
      <3>1. PICK c : attempts' = [attempts EXCEPT ![c] = attempts[c] + 1]
        BY <2>2 DEF Mail!Mark
      <3>2. \A d \in Mail!Offered : attempts'[d] = IF d = c THEN attempts[d] + 1 ELSE attempts[d]
        BY <2>1, <3>1
      <3>3. \A d \in Mail!Offered : attempts'[d] \in Nat
        BY <2>1, <3>2
      <3>4. attempts' = [d \in Mail!Offered |-> attempts'[d]]
        BY <2>1, <3>1
      <3> QED
        BY <3>3, <3>4
    <2> QED
      BY <2>3, <2>4
  <1>1. MailTypeInv'
    BY <1>0 DEF MailIInv, MailTypeInv, Mail!MarkSent, Mail!Goto, MailSteps, MailStatuses,
      Mail!handlerVars, Mail!histVars
  <1>2. MailTokenInv'
    <2>1. \A v \in Deliverers \ {w} : dpc'[v] = dpc[v] /\ job'[v] = job[v]
      BY DEF MailIInv, MailTypeInv, Mail!MarkSent, Mail!Goto, Mail!handlerVars, Mail!histVars
    <2>2. ASSUME NEW j \in Mail!Jobs
          PROVE  sends'[j] + MailOne(MailHolds(w, j)') + MailOne(MailOpen(j)') + dfaults
                   <= sends[j] + MailOne(MailHolds(w, j)) + MailOne(MailOpen(j)) + dfaults'
      BY DEF MailIInv, MailTypeInv, Mail!MarkSent, Mail!Goto, MailHolds, MailOpen, MailOne,
        MailHopeful, Mail!handlerVars, Mail!histVars
    <2> QED
      BY <1>1, <2>1, <2>2, MailTokenStep
  <1>3. MailNoteInv'
    BY DEF MailIInv, MailTypeInv, MailNoteInv, MailToNotify, MailOne, Mail!MarkSent,
      Mail!handlerVars, Mail!histVars
  <1>4. MailLogInv'
    BY DEF MailIInv, MailTypeInv, MailLogInv, MailLeft, Mail!MarkSent, Mail!Mark, Mail!Goto,
      Mail!handlerVars, Mail!histVars
  <1> QED
    BY <1>1, <1>2, <1>3, <1>4 DEF MailIInv

\* A message without a user is skipped.
LEMMA MailMarkSkippedStep ==
  ASSUME MailIInv, NEW w \in Deliverers, Mail!MarkSkipped(w)
  PROVE  MailIInv'
  <1>0. log' \in [Mail!Offered -> MailStatuses] /\ attempts' \in [Mail!Offered -> Nat]
    <2>1. log \in [Mail!Offered -> MailStatuses] /\ attempts \in [Mail!Offered -> Nat]
      BY DEF MailIInv, MailTypeInv
    <2>2. PICK s \in MailStatuses : Mail!Mark(job[w], s)
      BY DEF Mail!MarkSkipped, MailStatuses
    <2>3. log' \in [Mail!Offered -> MailStatuses]
      BY <2>1, <2>2 DEF Mail!Mark
    <2>4. attempts' \in [Mail!Offered -> Nat]
      <3>1. PICK c : attempts' = [attempts EXCEPT ![c] = attempts[c] + 1]
        BY <2>2 DEF Mail!Mark
      <3>2. \A d \in Mail!Offered : attempts'[d] = IF d = c THEN attempts[d] + 1 ELSE attempts[d]
        BY <2>1, <3>1
      <3>3. \A d \in Mail!Offered : attempts'[d] \in Nat
        BY <2>1, <3>2
      <3>4. attempts' = [d \in Mail!Offered |-> attempts'[d]]
        BY <2>1, <3>1
      <3> QED
        BY <3>3, <3>4
    <2> QED
      BY <2>3, <2>4
  <1>1. MailTypeInv'
    BY <1>0 DEF MailIInv, MailTypeInv, Mail!MarkSkipped, Mail!Goto, MailSteps, MailStatuses,
      Mail!handlerVars, Mail!histVars
  <1>2. MailTokenInv'
    <2>1. \A v \in Deliverers \ {w} : dpc'[v] = dpc[v] /\ job'[v] = job[v]
      BY DEF MailIInv, MailTypeInv, Mail!MarkSkipped, Mail!Goto, Mail!handlerVars, Mail!histVars
    <2>2. ASSUME NEW j \in Mail!Jobs
          PROVE  sends'[j] + MailOne(MailHolds(w, j)') + MailOne(MailOpen(j)') + dfaults
                   <= sends[j] + MailOne(MailHolds(w, j)) + MailOne(MailOpen(j)) + dfaults'
      BY DEF MailIInv, MailTypeInv, Mail!MarkSkipped, Mail!Goto, MailHolds, MailOpen, MailOne,
        MailHopeful, Mail!handlerVars, Mail!histVars
    <2> QED
      BY <1>1, <2>1, <2>2, MailTokenStep
  <1>3. MailNoteInv'
    BY DEF MailIInv, MailTypeInv, MailNoteInv, MailToNotify, MailOne, Mail!MarkSkipped,
      Mail!handlerVars, Mail!histVars
  <1>4. MailLogInv'
    BY DEF MailIInv, MailTypeInv, MailLogInv, MailLeft, Mail!MarkSkipped, Mail!Mark, Mail!Goto,
      Mail!handlerVars, Mail!histVars
  <1> QED
    BY <1>1, <1>2, <1>3, <1>4 DEF MailIInv

\* A failed attempt is marked.
LEMMA MailMarkFailedStep ==
  ASSUME MailIInv, NEW w \in Deliverers, Mail!MarkFailed(w)
  PROVE  MailIInv'
  <1>0. log' \in [Mail!Offered -> MailStatuses] /\ attempts' \in [Mail!Offered -> Nat]
    <2>1. log \in [Mail!Offered -> MailStatuses] /\ attempts \in [Mail!Offered -> Nat]
      BY DEF MailIInv, MailTypeInv
    <2>2. PICK s \in MailStatuses : Mail!Mark(job[w], s)
      BY DEF Mail!MarkFailed, Mail!FailedStatus, MailStatuses
    <2>3. log' \in [Mail!Offered -> MailStatuses]
      BY <2>1, <2>2 DEF Mail!Mark
    <2>4. attempts' \in [Mail!Offered -> Nat]
      <3>1. PICK c : attempts' = [attempts EXCEPT ![c] = attempts[c] + 1]
        BY <2>2 DEF Mail!Mark
      <3>2. \A d \in Mail!Offered : attempts'[d] = IF d = c THEN attempts[d] + 1 ELSE attempts[d]
        BY <2>1, <3>1
      <3>3. \A d \in Mail!Offered : attempts'[d] \in Nat
        BY <2>1, <3>2
      <3>4. attempts' = [d \in Mail!Offered |-> attempts'[d]]
        BY <2>1, <3>1
      <3> QED
        BY <3>3, <3>4
    <2> QED
      BY <2>3, <2>4
  <1>1. MailTypeInv'
    BY <1>0 DEF MailIInv, MailTypeInv, Mail!MarkFailed, Mail!Goto, Mail!FailedStatus, MailSteps,
      MailStatuses, Mail!handlerVars, Mail!histVars
  <1>2. MailTokenInv'
    <2>1. \A v \in Deliverers \ {w} : dpc'[v] = dpc[v] /\ job'[v] = job[v]
      BY DEF MailIInv, MailTypeInv, Mail!MarkFailed, Mail!Goto, Mail!handlerVars, Mail!histVars
    <2>2. ASSUME NEW j \in Mail!Jobs
          PROVE  sends'[j] + MailOne(MailHolds(w, j)') + MailOne(MailOpen(j)') + dfaults
                   <= sends[j] + MailOne(MailHolds(w, j)) + MailOne(MailOpen(j)) + dfaults'
      BY DEF MailIInv, MailTypeInv, Mail!MarkFailed, Mail!Goto, Mail!FailedStatus, MailHolds,
        MailOpen, MailOne, MailHopeful, Mail!handlerVars, Mail!histVars
    <2> QED
      BY <1>1, <2>1, <2>2, MailTokenStep
  <1>3. MailNoteInv'
    BY DEF MailIInv, MailTypeInv, MailNoteInv, MailToNotify, MailOne, Mail!MarkFailed,
      Mail!handlerVars, Mail!histVars
  <1>4. MailLogInv'
    BY DEF MailIInv, MailTypeInv, MailLogInv, MailLeft, Mail!MarkFailed, Mail!Mark, Mail!Goto,
      Mail!FailedStatus, Mail!handlerVars, Mail!histVars
  <1> QED
    BY <1>1, <1>2, <1>3, <1>4 DEF MailIInv

\* The webhook is called.
LEMMA MailPostStep ==
  ASSUME MailIInv, NEW w \in Deliverers, NEW good \in BOOLEAN, Mail!Post(w, good)
  PROVE  MailIInv'
  <1>1. MailTypeInv'
    BY DEF MailIInv, MailTypeInv, Mail!Post, Mail!Goto, MailSteps, MailStatuses, Mail!handlerVars,
      Mail!rowVars
  <1>2. MailTokenInv'
    <2>1. \A v \in Deliverers \ {w} : dpc'[v] = dpc[v] /\ job'[v] = job[v]
      BY DEF MailIInv, MailTypeInv, Mail!Post, Mail!Goto, Mail!handlerVars, Mail!rowVars
    <2>2. ASSUME NEW j \in Mail!Jobs
          PROVE  sends'[j] + MailOne(MailHolds(w, j)') + MailOne(MailOpen(j)') + dfaults
                   <= sends[j] + MailOne(MailHolds(w, j)) + MailOne(MailOpen(j)) + dfaults'
      BY DEF MailIInv, MailTypeInv, Mail!Post, Mail!Goto, MailHolds, MailOpen, MailOne,
        MailHopeful, Mail!handlerVars, Mail!rowVars
    <2> QED
      BY <1>1, <2>1, <2>2, MailTokenStep
  <1>3. MailNoteInv'
    BY DEF MailIInv, MailTypeInv, MailNoteInv, MailToNotify, MailOne, Mail!Post, Mail!handlerVars,
      Mail!rowVars
  <1>4. MailLogInv'
    BY DEF MailIInv, MailTypeInv, MailLogInv, MailLeft, Mail!Post, Mail!Goto, Mail!handlerVars,
      Mail!rowVars
  <1> QED
    BY <1>1, <1>2, <1>3, <1>4 DEF MailIInv

\* The answer to a call is recorded.
LEMMA MailRecordStep ==
  ASSUME MailIInv, NEW w \in Deliverers, Mail!Record(w)
  PROVE  MailIInv'
  <1>1. MailTypeInv'
    BY DEF MailIInv, MailTypeInv, Mail!Record, MailSteps, MailStatuses, Mail!handlerVars,
      Mail!histVars
  <1>2. MailTokenInv'
    <2>1. \A v \in Deliverers \ {w} : dpc'[v] = dpc[v] /\ job'[v] = job[v]
      BY DEF MailIInv, MailTypeInv, Mail!Record, Mail!handlerVars, Mail!histVars
    <2>2. ASSUME NEW j \in Mail!Jobs
          PROVE  sends'[j] + MailOne(MailHolds(w, j)') + MailOne(MailOpen(j)') + dfaults
                   <= sends[j] + MailOne(MailHolds(w, j)) + MailOne(MailOpen(j)) + dfaults'
      BY DEF MailIInv, MailTypeInv, Mail!Record, MailHolds, MailOpen, MailOne, MailHopeful,
        Mail!handlerVars, Mail!histVars
    <2> QED
      BY <1>1, <2>1, <2>2, MailTokenStep
  <1>3. MailNoteInv'
    BY DEF MailIInv, MailTypeInv, MailNoteInv, MailToNotify, MailOne, Mail!Record,
      Mail!handlerVars, Mail!histVars
  <1>4. MailLogInv'
    BY DEF MailIInv, MailTypeInv, MailLogInv, MailLeft, Mail!Record, Mail!handlerVars,
       Mail!histVars
  <1> QED
    BY <1>1, <1>2, <1>3, <1>4 DEF MailIInv

\* A job is done, or put back, or given up on.
LEMMA MailReportStep ==
  ASSUME MailIInv, NEW w \in Deliverers, Mail!Report(w)
  PROVE  MailIInv'
  <1>1. MailTypeInv'
    BY DeliverersHold DEF Mail!DeliveryAssumption, MailIInv, MailTypeInv, Mail!Report, MailSteps,
      MailStatuses, Mail!handlerVars, Mail!histVars
  <1>2. MailTokenInv'
    <2>1. \A v \in Deliverers \ {w} : dpc'[v] = dpc[v] /\ job'[v] = job[v]
      BY DEF MailIInv, MailTypeInv, Mail!Report, Mail!handlerVars, Mail!histVars
    <2>2. ASSUME NEW j \in Mail!Jobs
          PROVE  sends'[j] + MailOne(MailHolds(w, j)') + MailOne(MailOpen(j)') + dfaults
                   <= sends[j] + MailOne(MailHolds(w, j)) + MailOne(MailOpen(j)) + dfaults'
      BY DeliverersHold DEF Mail!DeliveryAssumption, MailIInv, MailTypeInv, Mail!Report,
         MailHolds,
        MailOpen, MailOne, MailHopeful, Mail!handlerVars, Mail!histVars
    <2> QED
      BY <1>1, <2>1, <2>2, MailTokenStep
  <1>3. MailNoteInv'
    BY DEF MailIInv, MailTypeInv, MailNoteInv, MailToNotify, MailOne, Mail!Report,
      Mail!handlerVars, Mail!histVars
  <1>4. MailLogInv'
    BY DEF MailIInv, MailTypeInv, MailLogInv, MailLeft, Mail!Report, Mail!handlerVars,
       Mail!histVars
  <1> QED
    BY <1>1, <1>2, <1>3, <1>4 DEF MailIInv

\* A mark fails: what was sent may be sent once more, with one more fault.
LEMMA MailMarkLostStep ==
  ASSUME MailIInv, NEW w \in Deliverers, Mail!MarkLost(w)
  PROVE  MailIInv'
  <1>1. MailTypeInv'
    BY DEF MailIInv, MailTypeInv, Mail!MarkLost, Mail!Fault, MailSteps, MailStatuses,
      Mail!handlerVars, Mail!rowVars, Mail!histVars
  <1>2. MailTokenInv'
    <2>1. \A v \in Deliverers \ {w} : dpc'[v] = dpc[v] /\ job'[v] = job[v]
      BY DEF MailIInv, MailTypeInv, Mail!MarkLost, Mail!handlerVars, Mail!rowVars, Mail!histVars
    <2>2. ASSUME NEW j \in Mail!Jobs
          PROVE  sends'[j] + MailOne(MailHolds(w, j)') + MailOne(MailOpen(j)') + dfaults
                   <= sends[j] + MailOne(MailHolds(w, j)) + MailOne(MailOpen(j)) + dfaults'
      BY DEF MailIInv, MailTypeInv, Mail!MarkLost, Mail!Fault, MailHolds, MailOpen, MailOne,
        MailHopeful, Mail!handlerVars, Mail!rowVars, Mail!histVars
    <2> QED
      BY <1>1, <2>1, <2>2, MailTokenStep
  <1>3. MailNoteInv'
    BY DEF MailIInv, MailTypeInv, MailNoteInv, MailToNotify, MailOne, Mail!MarkLost, Mail!Fault,
      Mail!handlerVars, Mail!rowVars, Mail!histVars
  <1>4. MailLogInv'
    BY DEF MailIInv, MailTypeInv, MailLogInv, MailLeft, Mail!MarkLost, Mail!Fault,
      Mail!handlerVars, Mail!rowVars, Mail!histVars
  <1> QED
    BY <1>1, <1>2, <1>3, <1>4 DEF MailIInv

\* A worker process starts: every running job may run again, with one more fault.
LEMMA MailRestartStep ==
  ASSUME MailIInv, NEW w \in Deliverers, Mail!Restart(w)
  PROVE  MailIInv'
  <1>1. MailTypeInv'
    BY DEF MailIInv, MailTypeInv, Mail!Restart, Mail!Fault, MailSteps, MailStatuses,
      Mail!handlerVars, Mail!histVars
  <1>2. MailTokenInv'
    <2>1. \A v \in Deliverers \ {w} : dpc'[v] = dpc[v] /\ job'[v] = job[v]
      BY DEF MailIInv, MailTypeInv, Mail!Restart, Mail!handlerVars, Mail!histVars
    <2>2. ASSUME NEW j \in Mail!Jobs
          PROVE  sends'[j] + MailOne(MailHolds(w, j)') + MailOne(MailOpen(j)') + dfaults
                   <= sends[j] + MailOne(MailHolds(w, j)) + MailOne(MailOpen(j)) + dfaults'
      BY DEF MailIInv, MailTypeInv, Mail!Restart, Mail!Fault, MailHolds, MailOpen, MailOne,
        MailHopeful, Mail!handlerVars, Mail!histVars
    <2> QED
      BY <1>1, <2>1, <2>2, MailTokenStep
  <1>3. MailNoteInv'
    BY DEF MailIInv, MailTypeInv, MailNoteInv, MailToNotify, MailOne, Mail!Restart, Mail!Fault,
      Mail!handlerVars, Mail!histVars
  <1>4. MailLogInv'
    BY DEF MailIInv, MailTypeInv, MailLogInv, MailLeft, Mail!Restart, Mail!Fault,
       Mail!handlerVars,
      Mail!histVars
  <1> QED
    BY <1>1, <1>2, <1>3, <1>4 DEF MailIInv

\* Every step keeps the invariant.
LEMMA MailNextStep == MailIInv /\ [Mail!Next]_(Mail!deliveryVars) => MailIInv'
  <1> SUFFICES ASSUME MailIInv, [Mail!Next]_(Mail!deliveryVars) PROVE MailIInv'
    OBVIOUS
  <1>1. CASE Mail!Handler
    BY <1>1, MailStartStep, MailNotifyStep, MailNotifiedAllStep, MailEnqueueHookStep,
      MailNextChannelStep, MailInsertQueuedStep, MailEnqueueDeliverStep, MailNoChannelLeftStep,
      MailPublishStep DEF Mail!Handler
  <1>2. CASE Mail!RecipientsFail \/ Mail!Notify(FALSE) \/ Mail!EnqueueHook(FALSE) \/ Mail!CommFails \/ Mail!HandlerDies
    BY <1>2, MailRecipientsFailStep, MailNotifyStep, MailEnqueueHookStep, MailCommFailsStep,
      MailHandlerDiesStep
  <1>3. ASSUME NEW w \in Deliverers, Mail!Process(w) PROVE MailIInv'
    BY <1>3, MailClaimStep, MailMarkSendingStep, MailSendInAppStep, MailSendStep,
       MailMarkSentStep,
      MailMarkSkippedStep, MailMarkFailedStep, MailPostStep, MailRecordStep,
      MailReportStep DEF Mail!Process
  <1>4. ASSUME NEW w \in Deliverers, Mail!SendInApp(w, FALSE) \/ Mail!MarkLost(w) \/ Mail!Restart(w)
        PROVE  MailIInv'
    BY <1>4, MailSendInAppStep, MailMarkLostStep, MailRestartStep
  <1>5. CASE UNCHANGED Mail!deliveryVars
    BY <1>5 DEF MailIInv, MailTypeInv, MailTokenInv, MailNoteInv, MailLogInv, MailHolding,
      MailHolds, MailOpen, MailToNotify, MailLeft, MailOne, Mail!deliveryVars, Mail!handlerVars,
      Mail!rowVars, Mail!workerVars, Mail!histVars
  <1> QED
    BY <1>1, <1>2, <1>3, <1>4, <1>5 DEF Mail!Next

\* For any users, channels, workers and faults: a message, a notification or a webhook
\* call is repeated only after a fault, and what the logs call sent has been sent.
THEOREM MailDelivers == Mail!Spec => []SendsAndLogs
  <1>1. MailIInv => Mail!RepeatsNeedFaults
    <2> SUFFICES ASSUME MailIInv PROVE Mail!RepeatsNeedFaults
      OBVIOUS
    <2>1. ASSUME NEW j \in Mail!Jobs PROVE sends[j] <= 1 + dfaults
      <3>1. Cardinality(MailHolding(j)) \in Nat
        BY MailFew, FS_Subset, FS_CardinalityType DEF MailHolding
      <3>2. MailOne(MailOpen(j)) \in Nat /\ sends[j] \in Nat /\ dfaults \in Nat
        BY DEF MailOne, MailIInv, MailTypeInv
      <3>3. sends[j] + Cardinality(MailHolding(j)) + MailOne(MailOpen(j)) <= 1 + dfaults
        BY DEF MailIInv, MailTokenInv
      <3> QED
        BY <3>1, <3>2, <3>3
    <2>2. ASSUME NEW u \in Notified PROVE notes[u] <= 1 + dfaults
      BY DEF MailIInv, MailTypeInv, MailNoteInv, MailOne
    <2> QED
      BY <2>1, <2>2 DEF Mail!RepeatsNeedFaults
  <1>2. MailIInv => Mail!LogsTellTheTruth
    BY DEF MailIInv, MailLogInv, MailLeft, Mail!LogsTellTheTruth
  <1>3. MailIInv => SendsAndLogs
    BY <1>1, <1>2 DEF SendsAndLogs
  <1> QED
    BY <1>3, MailInitStep, MailNextStep, PTL DEF Mail!Spec

-----------------------------------------------------------------------------
(* Orders, invoices, payments and the ledger (Sales). *)

\* Among finite sets with a property there is one such that no smaller set has it.
LEMMA SaleLeastSet ==
  ASSUME NEW Q, Q # {}, \A X \in Q : IsFiniteSet(X)
  PROVE  \E X \in Q : \A x \in X : X \ {x} \notin Q
  <1> DEFINE N == {Cardinality(X) : X \in Q}
  <1>1. N \in SUBSET Nat /\ N # {}
    BY FS_CardinalityType
  <1>2. PICK n \in N : \A m \in N : n <= m
    BY <1>1, LeastNat
  <1>3. PICK X \in Q : Cardinality(X) = n
    OBVIOUS
  <1>4. ASSUME NEW x \in X, X \ {x} \in Q PROVE FALSE
    <2>1. Cardinality(X \ {x}) = Cardinality(X) - 1 /\ Cardinality(X) \in Nat
      BY FS_RemoveElement, FS_CardinalityType
    <2>2. Cardinality(X) <= Cardinality(X \ {x})
      BY <1>2, <1>3, <1>4
    <2> QED
      BY <2>1, <2>2
  <1> QED
    BY <1>4

\* What the fold of the library goes through: the sums of f over the subsets of S.
SaleSums(g, f, S) ==
  g = [s \in SUBSET S |-> IF s = {} THEN 0
                          ELSE LET x == CHOOSE x \in s : TRUE IN f[x] + g[s \ {x}]]
SaleNumbers(f, S) == \A x \in S : f[x] \in Int

\* One step of it.
LEMMA SaleSumsStep ==
  ASSUME NEW g, NEW f, NEW S, SaleSums(g, f, S), NEW s \in SUBSET S, s # {}
  PROVE  \E x \in s : /\ x = CHOOSE y \in s : TRUE
                      /\ g[s] = f[x] + g[s \ {x}]
  <1>1. g = [r \in SUBSET S |-> IF r = {} THEN 0
                          ELSE LET x == CHOOSE x \in r : TRUE IN f[x] + g[r \ {x}]]
    BY DEF SaleSums
  <1>2. g[s] = LET x == CHOOSE x \in s : TRUE IN f[x] + g[s \ {x}]
    BY <1>1
  <1>3. (CHOOSE x \in s : TRUE) \in s
    OBVIOUS
  <1> QED
    BY <1>2, <1>3

\* The empty sum.
LEMMA SaleSumsEmpty == ASSUME NEW g, NEW f, NEW S, SaleSums(g, f, S) PROVE g[{}] = 0
  BY DEF SaleSums

\* The sums over a set do not depend on the set they are subsets of, and are numbers; nor
\* do they depend on the function elsewhere.
LEMMA SaleSumsUnique ==
  ASSUME NEW g, NEW f, NEW S, SaleSums(g, f, S), NEW h, NEW e, NEW V, SaleSums(h, e, V),
         NEW X \in SUBSET (S \cap V), IsFiniteSet(X), \A x \in X : f[x] = e[x] /\ f[x] \in Int
  PROVE  g[X] = h[X] /\ g[X] \in Int
  <1> DEFINE Bad == {Y \in SUBSET X : ~(g[Y] = h[Y] /\ g[Y] \in Int)}
  <1>1. SUFFICES ASSUME Bad # {} PROVE FALSE
    OBVIOUS
  <1>2. \A Y \in Bad : IsFiniteSet(Y)
    BY FS_Subset
  <1>3. PICK Y \in Bad : \A y \in Y : Y \ {y} \notin Bad
    BY <1>1, <1>2, SaleLeastSet
  <1>4. Y # {}
    BY SaleSumsEmpty
  <1>5. PICK x \in Y : x = (CHOOSE y \in Y : TRUE) /\ g[Y] = f[x] + g[Y \ {x}]
    BY <1>4, SaleSumsStep
  <1>6. PICK z \in Y : z = (CHOOSE y \in Y : TRUE) /\ h[Y] = e[z] + h[Y \ {z}]
    BY <1>4, SaleSumsStep
  <1>7. x = z
    BY <1>5, <1>6
  <1>8. g[Y \ {x}] = h[Y \ {x}] /\ g[Y \ {x}] \in Int
    BY <1>3
  <1>9. g[Y] = h[Y] /\ g[Y] \in Int
    BY <1>5, <1>6, <1>7, <1>8
  <1> QED
    BY <1>9

\* The same over the subsets with at most n elements.
SaleSmall(S, n) == {s \in SUBSET S : Cardinality(s) <= n}
SaleSumsUpto(g, f, S, n) ==
  \A s \in SaleSmall(S, n) : g[s] = IF s = {} THEN 0
                                ELSE LET x == CHOOSE x \in s : TRUE IN f[x] + g[s \ {x}]

\* There are such sums.
LEMMA SaleSumsExist ==
  ASSUME NEW S, IsFiniteSet(S), NEW f, SaleNumbers(f, S)
  PROVE  \E g : SaleSums(g, f, S)
  <1> DEFINE Bad == {n \in Nat : ~ \E g : SaleSumsUpto(g, f, S, n)}
  <1>1. \A s \in SUBSET S : IsFiniteSet(s) /\ Cardinality(s) \in Nat /\ (Cardinality(s) = 0 <=> s = {})
    BY FS_Subset, FS_CardinalityType, FS_EmptySet
  <1>2. \A s \in SUBSET S : \A x \in s : s \ {x} \in SUBSET S /\ Cardinality(s \ {x}) = Cardinality(s) - 1
    BY <1>1, FS_RemoveElement
  <1>3. 0 \notin Bad
    <2> DEFINE g == [s \in SUBSET S |-> 0]
    <2>1. \A s \in SaleSmall(S, 0) : s = {} /\ g[s] = 0
      BY <1>1 DEF SaleSmall
    <2> HIDE DEF g
    <2>2. SaleSumsUpto(g, f, S, 0)
      BY <2>1 DEF SaleSumsUpto
    <2> QED
      BY <2>2
  <1>4. ASSUME NEW n \in Nat, n + 1 \in Bad PROVE n \in Bad
    <2>1. SUFFICES ASSUME NEW g, SaleSumsUpto(g, f, S, n) PROVE FALSE
      OBVIOUS
    <2> DEFINE h == [s \in SUBSET S |-> IF s \in SaleSmall(S, n) THEN g[s]
                         ELSE LET x == CHOOSE x \in s : TRUE IN f[x] + g[s \ {x}]]
    <2>2. \A s \in SaleSmall(S, n) : h[s] = g[s]
      BY DEF SaleSmall
    <2>3. ASSUME NEW s \in SaleSmall(S, n + 1), NEW x \in s PROVE s \ {x} \in SaleSmall(S, n)
      <3>1. s \in SUBSET S /\ Cardinality(s) <= n + 1 /\ Cardinality(s) \in Nat
        BY <1>1 DEF SaleSmall
      <3>2. s \ {x} \in SUBSET S /\ Cardinality(s \ {x}) = Cardinality(s) - 1
        BY <1>2, <3>1
      <3>3. Cardinality(s \ {x}) <= n
        BY <3>1, <3>2
      <3> QED
        BY <3>2, <3>3 DEF SaleSmall
    <2>4. ASSUME NEW s \in SaleSmall(S, n + 1), s # {}
          PROVE  h[s] = LET x == CHOOSE x \in s : TRUE IN f[x] + h[s \ {x}]
      <3>1. PICK c \in s : c = CHOOSE x \in s : TRUE
        BY <2>4
      <3>2. s \ {c} \in SaleSmall(S, n) /\ h[s \ {c}] = g[s \ {c}]
        BY <2>2, <2>3
      <3>3. CASE s \in SaleSmall(S, n)
        <4>1. g[s] = f[c] + g[s \ {c}]
          BY <2>1, <2>4, <3>1, <3>3 DEF SaleSumsUpto
        <4>2. h[s] = g[s]
          BY <2>2, <3>3
        <4> HIDE DEF h
        <4> QED
          BY <3>1, <3>2, <4>1, <4>2
      <3>4. CASE s \notin SaleSmall(S, n)
        <4>1. s \in SUBSET S
          BY DEF SaleSmall
        <4>2. h[s] = f[c] + g[s \ {c}]
          BY <3>1, <3>4, <4>1
        <4> HIDE DEF h
        <4> QED
          BY <3>1, <3>2, <4>2
      <3> QED
        BY <3>3, <3>4
    <2>5. {} \in SaleSmall(S, n) /\ Cardinality({}) = 0
      BY <1>1, FS_EmptySet DEF SaleSmall
    <2>6. g[{}] = 0 /\ h[{}] = 0
      BY <2>1, <2>2, <2>5 DEF SaleSumsUpto
    <2> HIDE DEF h
    <2>7. SaleSumsUpto(h, f, S, n + 1)
      BY <2>4, <2>6 DEF SaleSumsUpto
    <2> QED
      BY <1>4, <2>7
  <1>5. Bad = {}
    <2>1. SUFFICES ASSUME Bad # {} PROVE FALSE
      OBVIOUS
    <2>2. Bad \in SUBSET Nat
      OBVIOUS
    <2> HIDE DEF Bad
    <2>3. PICK n \in Bad : \A m \in Bad : n <= m
      BY <2>1, <2>2, LeastNat
    <2>4. n \in Nat /\ n # 0
      BY <1>3, <2>2
    <2>5. n - 1 \in Nat /\ (n - 1) + 1 = n
      BY <2>4
    <2>6. n - 1 \in Bad
      BY <1>4, <2>5
    <2> QED
      BY <2>3, <2>4, <2>6
  <1>6. Cardinality(S) \in Nat
    BY <1>1
  <1>7. PICK g : SaleSumsUpto(g, f, S, Cardinality(S))
    BY <1>5, <1>6
  <1>8. SaleSmall(S, Cardinality(S)) = SUBSET S
    BY FS_Subset DEF SaleSmall
  <1> DEFINE h == [s \in SUBSET S |-> g[s]]
  <1>9. \A s \in SUBSET S : h[s] = g[s]
    OBVIOUS
  <1>10. h = [s \in SUBSET S |-> h[s]]
    OBVIOUS
  <1> HIDE DEF h
  <1>11. \A s \in SUBSET S : h[s] = IF s = {} THEN 0
                                  ELSE LET x == CHOOSE x \in s : TRUE IN f[x] + h[s \ {x}]
    <2>1. ASSUME NEW s \in SUBSET S, s # {} PROVE h[s] = LET x == CHOOSE x \in s : TRUE IN f[x] + h[s \ {x}]
      <3>1. PICK c \in s : c = CHOOSE x \in s : TRUE
        BY <2>1
      <3>2. g[s] = f[c] + g[s \ {c}]
        BY <1>7, <1>8, <2>1, <3>1 DEF SaleSumsUpto
      <3>3. s \ {c} \in SUBSET S
        OBVIOUS
      <3> QED
        BY <1>9, <3>1, <3>2, <3>3
    <2>2. h[{}] = 0
      BY <1>7, <1>8, <1>9 DEF SaleSumsUpto
    <2> QED
      BY <2>1, <2>2
  <1>12. SaleSums(h, f, S)
    BY <1>10, <1>11 DEF SaleSums
  <1> QED
    BY <1>12

\* Trade!SumFunctionOnSet is one of them.
LEMMA SaleSumIs ==
  ASSUME NEW f, NEW S, NEW X \in SUBSET S, IsFiniteSet(S), SaleNumbers(f, S), NEW g,
         SaleSums(g, f, S)
  PROVE  Trade!SumFunctionOnSet(f, X) = g[X] /\ g[X] \in Int
  <1>1. SaleNumbers(f, X) /\ IsFiniteSet(X)
    BY FS_Subset DEF SaleNumbers
  <1>2. \E h : SaleSums(h, f, X)
    BY <1>1, SaleSumsExist
  <1> DEFINE h == CHOOSE iter : SaleSums(iter, f, X)
  <1>3. SaleSums(h, f, X)
    BY <1>2
  <1>4. Trade!SumFunctionOnSet(f, X) = h[X]
    BY DEF Trade!SumFunctionOnSet, Trade!FoldFunctionOnSet, Trade!MapThenFoldSet, SaleSums
  <1> HIDE DEF h
  <1>5. X \in SUBSET (S \cap X) /\ \A x \in X : f[x] = f[x] /\ f[x] \in Int
    BY <1>1 DEF SaleNumbers
  <1>6. g[X] = h[X] /\ g[X] \in Int
    BY <1>1, <1>3, <1>5, SaleSumsUnique
  <1> QED
    BY <1>4, <1>6

\* A sum is a number; it depends only on the values of its function on its set; the empty
\* one is 0.
LEMMA SaleSumType ==
  ASSUME NEW S, IsFiniteSet(S), NEW f, SaleNumbers(f, S)
  PROVE  /\ Trade!SumFunctionOnSet(f, S) \in Int
         /\ S = {} => Trade!SumFunctionOnSet(f, S) = 0
         /\ \A e : (\A x \in S : f[x] = e[x]) => Trade!SumFunctionOnSet(e, S) = Trade!SumFunctionOnSet(f, S)
  <1>1. PICK g : SaleSums(g, f, S)
    BY SaleSumsExist
  <1>2. S \in SUBSET S
    OBVIOUS
  <1>3. Trade!SumFunctionOnSet(f, S) = g[S] /\ g[S] \in Int
    BY <1>1, <1>2, SaleSumIs
  <1>4. ASSUME NEW e, \A x \in S : f[x] = e[x] PROVE Trade!SumFunctionOnSet(e, S) = Trade!SumFunctionOnSet(f, S)
    <2>1. SaleNumbers(e, S)
      BY <1>4 DEF SaleNumbers
    <2>2. PICK h : SaleSums(h, e, S)
      BY <2>1, SaleSumsExist
    <2>3. Trade!SumFunctionOnSet(e, S) = h[S]
      BY <1>2, <2>1, <2>2, SaleSumIs
    <2>4. S \in SUBSET (S \cap S) /\ \A x \in S : f[x] = e[x] /\ f[x] \in Int
      BY <1>4 DEF SaleNumbers
    <2>5. g[S] = h[S]
      BY <1>1, <2>2, <2>4, SaleSumsUnique
    <2> QED
      BY <1>3, <2>3, <2>5
  <1> QED
    BY <1>1, <1>3, <1>4, SaleSumsEmpty

\* Any element may be taken out of a sum first.
LEMMA SaleSumTakes ==
  ASSUME NEW S, IsFiniteSet(S), NEW f, SaleNumbers(f, S), NEW y \in S
  PROVE  Trade!SumFunctionOnSet(f, S) = f[y] + Trade!SumFunctionOnSet(f, S \ {y})
  <1>1. PICK g : SaleSums(g, f, S)
    BY SaleSumsExist
  <1>2. \A X \in SUBSET S : Trade!SumFunctionOnSet(f, X) = g[X] /\ g[X] \in Int
    BY <1>1, SaleSumIs
  <1> DEFINE Bad == {X \in SUBSET S : \E z \in X : g[X] # f[z] + g[X \ {z}]}
  <1>3. SUFFICES Bad = {}
    <2>1. S \notin Bad
      BY <1>3
    <2>2. g[S] = f[y] + g[S \ {y}]
      BY <2>1
    <2> QED
      BY <1>2, <2>2
  <1>4. SUFFICES ASSUME Bad # {} PROVE FALSE
    OBVIOUS
  <1>5. \A X \in Bad : IsFiniteSet(X)
    BY FS_Subset
  <1>6. PICK X \in Bad : \A x \in X : X \ {x} \notin Bad
    BY <1>4, <1>5, SaleLeastSet
  <1>7. PICK z \in X : g[X] # f[z] + g[X \ {z}]
    OBVIOUS
  <1>8. PICK x \in X : g[X] = f[x] + g[X \ {x}]
    BY <1>1, SaleSumsStep
  <1>9. x # z
    BY <1>7, <1>8
  <1>10. X \ {x} \notin Bad /\ X \ {z} \notin Bad /\ z \in X \ {x} /\ x \in X \ {z}
    BY <1>6, <1>9
  <1>11. /\ g[X \ {x}] = f[z] + g[(X \ {x}) \ {z}]
         /\ g[X \ {z}] = f[x] + g[(X \ {z}) \ {x}]
    BY <1>10
  <1>12. (X \ {x}) \ {z} = (X \ {z}) \ {x}
    OBVIOUS
  <1>13. f[x] \in Int /\ f[z] \in Int /\ g[(X \ {x}) \ {z}] \in Int
    BY <1>2 DEF SaleNumbers
  <1> DEFINE a == g[X \ {x}]
             b == g[X \ {z}]
             c == g[(X \ {x}) \ {z}]
  <1>14. /\ a = f[z] + c /\ b = f[x] + c /\ g[X] = f[x] + a /\ g[X] # f[z] + b
         /\ c \in Int
    BY <1>7, <1>8, <1>11, <1>12, <1>13
  <1> HIDE DEF a, b, c
  <1>15. f[x] + (f[z] + c) = f[z] + (f[x] + c)
    BY <1>13, <1>14
  <1> QED
    BY <1>14, <1>15

\* A function that differs in one place.
LEMMA SaleSumChanges ==
  ASSUME NEW S, IsFiniteSet(S), NEW f, SaleNumbers(f, S), NEW e, NEW y \in S,
         e[y] \in Int, \A x \in S \ {y} : e[x] = f[x]
  PROVE  /\ Trade!SumFunctionOnSet(e, S) = Trade!SumFunctionOnSet(f, S) - f[y] + e[y]
         /\ Trade!SumFunctionOnSet(f, S) \in Int
  <1>1. SaleNumbers(e, S) /\ SaleNumbers(f, S \ {y}) /\ f[y] \in Int
    BY DEF SaleNumbers
  <1>2. IsFiniteSet(S \ {y})
    BY FS_RemoveElement
  <1>3. Trade!SumFunctionOnSet(f, S) = f[y] + Trade!SumFunctionOnSet(f, S \ {y})
    BY SaleSumTakes
  <1>4. Trade!SumFunctionOnSet(e, S) = e[y] + Trade!SumFunctionOnSet(e, S \ {y})
    BY <1>1, SaleSumTakes
  <1>5. Trade!SumFunctionOnSet(e, S \ {y}) = Trade!SumFunctionOnSet(f, S \ {y}) /\ Trade!SumFunctionOnSet(f, S \ {y}) \in Int
    BY <1>1, <1>2, SaleSumType
  <1> QED
    BY <1>1, <1>3, <1>4, <1>5

\* The sum of a difference.
LEMMA SaleSumSubtracts ==
  ASSUME NEW S, IsFiniteSet(S), NEW f, SaleNumbers(f, S), NEW e, SaleNumbers(e, S),
         NEW d, \A x \in S : d[x] = f[x] - e[x]
  PROVE  Trade!SumFunctionOnSet(d, S) = Trade!SumFunctionOnSet(f, S) - Trade!SumFunctionOnSet(e, S)
  <1>0. SaleNumbers(d, S)
    BY DEF SaleNumbers
  <1> DEFINE Good(X) == Trade!SumFunctionOnSet(d, X) = Trade!SumFunctionOnSet(f, X) - Trade!SumFunctionOnSet(e, X)
             Bad == {X \in SUBSET S : ~Good(X)}
  <1>1. \A X \in SUBSET S : IsFiniteSet(X) /\ SaleNumbers(f, X) /\ SaleNumbers(e, X) /\ SaleNumbers(d, X)
    BY <1>0, FS_Subset DEF SaleNumbers
  <1>2. ASSUME NEW X \in Bad, \A x \in X : X \ {x} \notin Bad PROVE FALSE
    <2>1. CASE X = {}
      <3>1. Trade!SumFunctionOnSet(d, X) = 0 /\ Trade!SumFunctionOnSet(f, X) = 0 /\ Trade!SumFunctionOnSet(e, X) = 0
        BY <1>1, <2>1, SaleSumType
      <3> QED
        BY <3>1
    <2>2. CASE X # {}
      <3>1. PICK x \in X : TRUE
        BY <2>2
      <3>2. Good(X \ {x}) /\ X \ {x} \in SUBSET S
        BY <1>2
      <3>3. /\ Trade!SumFunctionOnSet(d, X) = d[x] + Trade!SumFunctionOnSet(d, X \ {x})
            /\ Trade!SumFunctionOnSet(f, X) = f[x] + Trade!SumFunctionOnSet(f, X \ {x})
            /\ Trade!SumFunctionOnSet(e, X) = e[x] + Trade!SumFunctionOnSet(e, X \ {x})
        BY <1>1, SaleSumTakes
      <3>4. Trade!SumFunctionOnSet(f, X \ {x}) \in Int /\ Trade!SumFunctionOnSet(e, X \ {x}) \in Int
        BY <1>1, <3>2, SaleSumType
      <3>5. f[x] \in Int /\ e[x] \in Int /\ d[x] = f[x] - e[x]
        BY DEF SaleNumbers
      <3> HIDE DEF Bad
      <3>6. Good(X)
        BY <3>2, <3>3, <3>4, <3>5
      <3> QED
        BY <3>6 DEF Bad
    <2> QED
      BY <2>1, <2>2
  <1>3. \A X \in Bad : IsFiniteSet(X)
    BY <1>1
  <1>4. Bad = {}
    BY <1>2, <1>3, SaleLeastSet
  <1>5. S \notin Bad
    BY <1>4
  <1> QED
    BY <1>5

\* The part of a sum that belongs to i.
SalePartSum(f, K, to, i) == Trade!SumFunctionOnSet(f, {k \in K : to[k] = i})

\* A sum over K is the sum of the sums over the parts of K that belong to each i.
LEMMA SaleSumParts ==
  ASSUME NEW K, IsFiniteSet(K), NEW J, IsFiniteSet(J), NEW f, SaleNumbers(f, K),
         NEW to \in [K -> J],
         NEW d, \A i \in J : d[i] = SalePartSum(f, K, to, i)
  PROVE  SaleNumbers(d, J) /\ Trade!SumFunctionOnSet(d, J) = Trade!SumFunctionOnSet(f, K)
  <1> DEFINE Part(X) == [i \in J |-> Trade!SumFunctionOnSet(f, {k \in X : to[k] = i})]
             Good(X) == Trade!SumFunctionOnSet(Part(X), J) = Trade!SumFunctionOnSet(f, X)
             Bad == {X \in SUBSET K : ~Good(X)}
  <1>1. \A X \in SUBSET K : IsFiniteSet(X) /\ SaleNumbers(f, X)
    BY FS_Subset DEF SaleNumbers
  <1>2. \A X \in SUBSET K : SaleNumbers(Part(X), J)
    <2>1. ASSUME NEW X \in SUBSET K, NEW i \in J PROVE Trade!SumFunctionOnSet(f, {k \in X : to[k] = i}) \in Int
      <3>1. {k \in X : to[k] = i} \in SUBSET K
        OBVIOUS
      <3> QED
        BY <1>1, <3>1, SaleSumType
    <2> QED
      BY <2>1 DEF SaleNumbers
  <1>3. ASSUME NEW X \in Bad, \A x \in X : X \ {x} \notin Bad PROVE FALSE
    <2>1. CASE X = {}
      <3>1. Trade!SumFunctionOnSet(f, X) = 0
        BY <1>1, <2>1, SaleSumType
      <3>2. \A i \in J : Part(X)[i] = 0
        <4>1. \A i \in J : {k \in X : to[k] = i} = X
          BY <2>1
        <4> QED
          BY <3>1, <4>1
      <3> DEFINE zero == [i \in J |-> 0]
      <3>3. SaleNumbers(zero, J)
        BY DEF SaleNumbers
      <3>4. \A i \in J : zero[i] = zero[i] - zero[i]
        OBVIOUS
      <3>5. Trade!SumFunctionOnSet(zero, J) = Trade!SumFunctionOnSet(zero, J) - Trade!SumFunctionOnSet(zero, J)
        BY <3>3, <3>4, SaleSumSubtracts
      <3>6. Trade!SumFunctionOnSet(zero, J) \in Int
        BY <3>3, SaleSumType
      <3>7. Trade!SumFunctionOnSet(zero, J) = 0
        BY <3>5, <3>6
      <3>8. \A i \in J : zero[i] = Part(X)[i]
        BY <3>2
      <3> HIDE DEF zero, Part
      <3>9. Trade!SumFunctionOnSet(Part(X), J) = Trade!SumFunctionOnSet(zero, J)
        BY <3>3, <3>8, SaleSumType
      <3> QED
        BY <3>1, <3>7, <3>9
    <2>2. CASE X # {}
      <3>1. PICK x \in X : TRUE
        BY <2>2
      <3> DEFINE W == X \ {x}
      <3>2. Good(W) /\ W \in SUBSET K /\ x \in K /\ to[x] \in J
        BY <1>3
      <3>3. Trade!SumFunctionOnSet(f, X) = f[x] + Trade!SumFunctionOnSet(f, W) /\ Trade!SumFunctionOnSet(f, W) \in Int
        <4>1. Trade!SumFunctionOnSet(f, X) = f[x] + Trade!SumFunctionOnSet(f, W)
          BY <1>1, <3>1, SaleSumTakes
        <4>2. Trade!SumFunctionOnSet(f, W) \in Int
          BY <1>1, <3>2, SaleSumType
        <4> QED
          BY <4>1, <4>2
      <3>4. f[x] \in Int
        BY DEF SaleNumbers
      <3>5. \A i \in J \ {to[x]} : {k \in X : to[k] = i} = {k \in W : to[k] = i}
        OBVIOUS
      <3>6. Part(X)[to[x]] = f[x] + Part(W)[to[x]]
        <4> DEFINE V == {k \in X : to[k] = to[x]}
        <4>1. V \in SUBSET K /\ x \in V /\ V \ {x} = {k \in W : to[k] = to[x]}
          OBVIOUS
        <4>2. Trade!SumFunctionOnSet(f, V) = f[x] + Trade!SumFunctionOnSet(f, V \ {x})
          BY <1>1, <4>1, SaleSumTakes
        <4> QED
          BY <3>2, <4>1, <4>2
      <3>7. \A i \in J \ {to[x]} : Part(X)[i] = Part(W)[i]
        BY <3>5
      <3>8. SaleNumbers(Part(X), J) /\ SaleNumbers(Part(W), J)
        BY <1>2, <3>2
      <3> HIDE DEF Part, W
      <3>9. Part(X)[to[x]] \in Int /\ Part(W)[to[x]] \in Int
        BY <3>2, <3>8 DEF SaleNumbers
      <3>10. /\ Trade!SumFunctionOnSet(Part(X), J)
                  = Trade!SumFunctionOnSet(Part(W), J) - Part(W)[to[x]] + Part(X)[to[x]]
             /\ Trade!SumFunctionOnSet(Part(W), J) \in Int
        BY <3>2, <3>7, <3>8, <3>9, SaleSumChanges
      <3>11. Good(X)
        BY <3>2, <3>3, <3>4, <3>6, <3>9, <3>10
      <3> QED
        BY <3>11
    <2> QED
      BY <2>1, <2>2
  <1>4. \A X \in Bad : IsFiniteSet(X)
    BY <1>1
  <1>5. Bad = {}
    BY <1>3, <1>4, SaleLeastSet
  <1>6. K \notin Bad /\ K \in SUBSET K
    BY <1>5
  <1>7. \A i \in J : d[i] = Part(K)[i]
    BY DEF SalePartSum
  <1>8. SaleNumbers(Part(K), J)
    BY <1>2, <1>6
  <1> HIDE DEF Part
  <1>9. Trade!SumFunctionOnSet(d, J) = Trade!SumFunctionOnSet(Part(K), J)
    BY <1>7, <1>8, SaleSumType
  <1> QED
    BY <1>6, <1>7, <1>8, <1>9 DEF SaleNumbers

-----------------------------------------------------------------------------
\* What a request is about: its record, and how much of it.
SaleKinds ==
  [kind : {"issue"}, row : Invoices]
    \cup [kind : {"record"}, row : Invoices, amount : Nat \ {0}]
    \cup [kind : {"receive"}, row : Payments]
    \cup [kind : {"move"}, row : Orders, to : {"Confirmed", "Completed", "Cancelled"}]
    \cup [kind : {"fulfill"}, row : Orders, amount : Nat \ {0}]
    \cup [kind : {"invoice"}, row : Orders]
    \cup [kind : {"refund"}, row : Returns]
    \cup [kind : {"reverse"}, row : Sellers]
SaleActive(c) == tpc[c] \in {"accounts", "post", "period", "allocate", "write"}

\* Every variable keeps its type.
SaleInvoice == [status : {"Draft", "absent", "Issued", "Paid"}, paid : Int, order : Orders \cup {Trade!Free}]
SaleJournal == [status : {"none", "Posted", "Reversed"}, ar : Int, late : BOOLEAN]
SaleOrder == [status : {"Draft", "Confirmed", "Fulfilled", "Completed", "Cancelled"}, done : Int]
SaleDataInv ==
  /\ inv \in [Invoices -> SaleInvoice]
  /\ pay \in [Payments -> {"Draft", "Received"}]
  /\ order \in [Orders -> SaleOrder] /\ shipped \in [Orders -> Int]
  /\ ret \in [Returns -> {"Received", "Refunded"}]
  /\ period \in {"Open", "Closed"}
  /\ journal \in [Sellers -> SaleJournal]
SaleRequestInv ==
  /\ slock \in [Trade!Rows -> Sellers \cup {Trade!Free}]
  /\ tpc \in [Sellers -> {"new", "accounts", "post", "period", "allocate", "write", "done"}]
  /\ top \in [Sellers -> SaleKinds \cup {Trade!NoOp}]
  /\ tread \in [Sellers -> Int]
  /\ tat \in [Sellers -> Nat]
SaleTypeInv == SaleDataInv /\ SaleRequestInv

\* A request under way holds its record, whose state is what it has found.
SaleHolds(c) ==
  LET k == top[c].kind
      x == top[c].row
  IN /\ top[c] \in SaleKinds
     /\ slock[x] = c
     /\ k = "issue" => inv[x].status = "Draft"
     /\ k = "record" => /\ inv[x].status \in {"Issued", "Paid"}
                        /\ tread[c] = inv[x].paid /\ tread[c] + top[c].amount <= InvoiceTotal
     /\ k = "fulfill" => tread[c] = order[x].done /\ tread[c] + top[c].amount <= Quantity
     /\ k = "invoice" => Trade!InvoiceOf(x) = {}
     /\ k = "refund" => ret[x] = "Received"
     /\ k = "reverse" => journal[x].status = "Posted"
SaleHoldInv == \A c \in Sellers : SaleActive(c) => SaleHolds(c)

\* How far a request has come; what it has allocated fits into invoices that it holds.
SaleFits(c) ==
  \A i \in Invoices :
    /\ Trade!Allocated(c, i) \in Nat
    /\ Trade!Allocated(c, i) # 0 => /\ slock[i] = c
                                    /\ inv[i].status \in {"Issued", "Paid"}
                                    /\ inv[i].paid + Trade!Allocated(c, i) <= InvoiceTotal
SaleWay(c) ==
  /\ tpc[c] = "allocate" => top[c].kind = "receive"
  /\ tpc[c] = "period" => top[c].kind = "reverse"
  /\ tat[c] # 0 => tpc[c] \in {"allocate", "write"} /\ top[c].kind = "receive"
  /\ SaleActive(c) /\ top[c].kind = "receive" =>
       /\ tat[c] <= Len(Allocations[top[c].row])
       /\ tpc[c] = "write" => tat[c] = Len(Allocations[top[c].row])
       /\ SaleFits(c)
SaleWayInv == \A c \in Sellers : SaleWay(c)

\* Nothing is paid of an invoice before it is issued, and none of those has an order before
\* it exists; a journal is that of a request that has ended.
SaleUnpaidInv ==
  /\ \A i \in Invoices :
       /\ inv[i].status \in {"Draft", "absent"} => inv[i].paid = 0
       /\ inv[i].status = "absent" => inv[i].order = Trade!Free
  /\ \A c \in Sellers :
       journal[c].status # "none" \/ journal[c].ar # 0 => tpc[c] = "done" /\ journal[c].status # "none"

\* OrdersAddUp, with the one invoice of an order said without counting.
SaleOneInvoice == \A i, j \in Invoices : inv[i].order = inv[j].order /\ inv[i].order \in Orders => i = j
SaleOrderInv ==
  /\ \A o \in Orders : shipped[o] = order[o].done /\ shipped[o] <= Quantity
  /\ SaleOneInvoice

SaleIInv == SaleTypeInv /\ SaleHoldInv /\ SaleWayInv /\ SaleUnpaidInv /\ SaleOrderInv /\ Trade!NeverOverpaid /\ Trade!LedgerMatches

-----------------------------------------------------------------------------
\* What the assumption says of the constants.
LEMMA SaleConstants ==
  /\ IsFiniteSet(Sellers) /\ IsFiniteSet(Invoices) /\ IsFiniteSet(Returns)
  /\ Trade!Free \notin Sellers /\ Trade!Free \notin Orders
  /\ InvoiceTotal \in Nat /\ Quantity \in Nat
  /\ \A p \in Payments :
       /\ Len(Allocations[p]) \in Nat /\ DOMAIN Allocations[p] = 1..Len(Allocations[p])
       /\ \A k \in 1..Len(Allocations[p]) :
            Allocations[p][k].invoice \in Invoices /\ Allocations[p][k].amount \in Nat \ {0}
  <1>1. ASSUME NEW p \in Payments
        PROVE  /\ Len(Allocations[p]) \in Nat /\ DOMAIN Allocations[p] = 1..Len(Allocations[p])
               /\ \A k \in 1..Len(Allocations[p]) :
                    Allocations[p][k].invoice \in Invoices /\ Allocations[p][k].amount \in Nat \ {0}
    <2> DEFINE B == [invoice : Invoices, amount : Nat \ {0}]
    <2>1. Allocations[p] \in Seq(B)
      BY SalesAre DEF Trade!SalesAssumption, Trade!IsFiniteSet, IsFiniteSet
    <2> HIDE DEF B
    <2>2. /\ Len(Allocations[p]) \in Nat /\ DOMAIN Allocations[p] = 1..Len(Allocations[p])
          /\ \A k \in 1..Len(Allocations[p]) : Allocations[p][k] \in B
      BY <2>1
    <2> QED
      BY <2>2 DEF B
  <1> QED
    BY <1>1, SalesAre DEF Trade!SalesAssumption, Trade!IsFiniteSet, IsFiniteSet

\* An invoice, payment, order, return or journal is a row.
LEMMA SaleRowsAre ==
  /\ Invoices \subseteq Trade!Rows /\ Payments \subseteq Trade!Rows /\ Orders \subseteq Trade!Rows
  /\ Returns \subseteq Trade!Rows /\ Sellers \subseteq Trade!Rows /\ FiscalPeriod \in Trade!Rows /\ Trade!Receivable \in Trade!Rows
  /\ \A k \in SaleKinds : k.row \in Trade!Rows
  BY DEF Trade!Rows, SaleKinds

\* The fields of a request, by its kind.
LEMMA SaleKindsAre ==
  ASSUME NEW k \in SaleKinds
  PROVE  /\ k.kind = "issue" => k.row \in Invoices
         /\ k.kind = "record" => k.row \in Invoices /\ k.amount \in Nat \ {0}
         /\ k.kind = "receive" => k.row \in Payments
         /\ k.kind = "move" => k.row \in Orders /\ k.to \in {"Confirmed", "Completed", "Cancelled"}
         /\ k.kind = "fulfill" => k.row \in Orders /\ k.amount \in Nat \ {0}
         /\ k.kind = "invoice" => k.row \in Orders
         /\ k.kind = "refund" => k.row \in Returns
         /\ k.kind = "reverse" => k.row \in Sellers
         /\ k.kind \in {"issue", "record", "receive", "move", "fulfill", "invoice", "refund",
                        "reverse"}
  BY DEF SaleKinds

\* Nothing is allocated at first; one allocation more adds its amount to its invoice.
LEMMA SaleGivenStep ==
  ASSUME NEW p \in Payments, NEW n \in 0..Len(Allocations[p]), NEW i \in Invoices
  PROVE  /\ Trade!Given(p, n, i) \in Int
         /\ n = 0 => Trade!Given(p, n, i) = 0
         /\ n < Len(Allocations[p]) =>
              Trade!Given(p, n + 1, i) = Trade!Given(p, n, i) + (IF Allocations[p][n + 1].invoice = i
                                                     THEN Allocations[p][n + 1].amount ELSE 0)
  <1> DEFINE Mine(m) == {k \in 1..m : Allocations[p][k].invoice = i}
  <1>1. Len(Allocations[p]) \in Nat /\ DOMAIN Allocations[p] = 1..Len(Allocations[p])
    BY SaleConstants
  <1>2. \A k \in 1..Len(Allocations[p]) : Trade!Amounts(p)[k] = Allocations[p][k].amount /\ Trade!Amounts(p)[k] \in Int
    BY <1>1, SaleConstants DEF Trade!Amounts
  <1>3. ASSUME NEW m \in 0..Len(Allocations[p]) PROVE IsFiniteSet(Mine(m)) /\ SaleNumbers(Trade!Amounts(p), Mine(m))
    <2>1. m \in Int /\ 1 \in Int
      BY <1>1
    <2>3. IsFiniteSet(1..m)
      BY <2>1, FS_Interval
    <2>2. IsFiniteSet(Mine(m))
      BY <2>3, FS_Subset
    <2> QED
      BY <1>1, <1>2, <2>2 DEF SaleNumbers
  <1>4. Trade!SumFunctionOnSet(Trade!Amounts(p), Mine(n)) \in Int
    BY <1>3, SaleSumType
  <1>5. ASSUME n = 0 PROVE Trade!SumFunctionOnSet(Trade!Amounts(p), Mine(n)) = 0
    <2>1. Mine(n) = {}
      BY <1>5
    <2> QED
      BY <1>3, <2>1, SaleSumType
  <1>6. ASSUME n < Len(Allocations[p])
        PROVE  Trade!SumFunctionOnSet(Trade!Amounts(p), Mine(n + 1))
                 = Trade!SumFunctionOnSet(Trade!Amounts(p), Mine(n)) + (IF Allocations[p][n + 1].invoice = i
                                                     THEN Allocations[p][n + 1].amount ELSE 0)
    <2>1. n + 1 \in 0..Len(Allocations[p]) /\ n + 1 \in 1..Len(Allocations[p])
      BY <1>1, <1>6
    <2>2. CASE Allocations[p][n + 1].invoice = i
      <3>1. n + 1 \in Mine(n + 1) /\ Mine(n + 1) \ {n + 1} = Mine(n)
        BY <2>1, <2>2
      <3>2. Trade!SumFunctionOnSet(Trade!Amounts(p), Mine(n + 1)) = Trade!Amounts(p)[n + 1] + Trade!SumFunctionOnSet(Trade!Amounts(p), Mine(n + 1) \ {n + 1})
        BY <1>3, <2>1, <3>1, SaleSumTakes
      <3>3. Trade!Amounts(p)[n + 1] = Allocations[p][n + 1].amount /\ Trade!Amounts(p)[n + 1] \in Int
        BY <1>2, <2>1
      <3> DEFINE s == Trade!SumFunctionOnSet(Trade!Amounts(p), Mine(n))
                 t == Trade!SumFunctionOnSet(Trade!Amounts(p), Mine(n + 1))
      <3>4. t = Allocations[p][n + 1].amount + s /\ s \in Int /\ Allocations[p][n + 1].amount \in Int
        BY <1>4, <3>1, <3>2, <3>3
      <3> HIDE DEF s, t
      <3>5. t = s + Allocations[p][n + 1].amount
        BY <3>4
      <3> QED
        BY <2>2, <3>5 DEF s, t
    <2>3. CASE Allocations[p][n + 1].invoice # i
      <3>1. Mine(n + 1) = Mine(n)
        BY <2>1, <2>3
      <3> HIDE DEF Mine
      <3> QED
        BY <1>4, <2>3, <3>1
    <2> QED
      BY <2>2, <2>3
  <1> QED
    BY <1>4, <1>5, <1>6 DEF Trade!Given

\* All allocations of a payment, over the invoices, are its amount.
LEMMA SaleGivenTotal ==
  ASSUME NEW p \in Payments
  PROVE  LET all == [i \in Invoices |-> Trade!Given(p, Len(Allocations[p]), i)]
         IN /\ SaleNumbers(all, Invoices)
            /\ Trade!SumFunction(Trade!Amounts(p)) \in Int
            /\ Trade!SumFunctionOnSet(all, Invoices) = Trade!SumFunction(Trade!Amounts(p))
  <1> DEFINE K == 1..Len(Allocations[p])
             to == [k \in K |-> Allocations[p][k].invoice]
             all == [i \in Invoices |-> Trade!Given(p, Len(Allocations[p]), i)]
  <1>1. Len(Allocations[p]) \in Nat /\ DOMAIN Allocations[p] = K /\ IsFiniteSet(K)
    BY SaleConstants, FS_Interval
  <1>2. to \in [K -> Invoices] /\ SaleNumbers(Trade!Amounts(p), K) /\ DOMAIN Trade!Amounts(p) = K
    BY <1>1, SaleConstants DEF Trade!Amounts, SaleNumbers
  <1>3. \A i \in Invoices : all[i] = SalePartSum(Trade!Amounts(p), K, to, i)
    <2>1. ASSUME NEW i \in Invoices PROVE {k \in K : to[k] = i} = {k \in K : Allocations[p][k].invoice = i}
      OBVIOUS
    <2> QED
      BY <2>1 DEF Trade!Given, SalePartSum
  <1>4. Trade!SumFunction(Trade!Amounts(p)) = Trade!SumFunctionOnSet(Trade!Amounts(p), K)
    BY <1>2 DEF Trade!SumFunction
  <1> HIDE DEF K, to, all
  <1>5. SaleNumbers(all, Invoices) /\ Trade!SumFunctionOnSet(all, Invoices) = Trade!SumFunctionOnSet(Trade!Amounts(p), K)
    BY <1>1, <1>2, <1>3, SaleConstants, SaleSumParts
  <1>6. Trade!SumFunctionOnSet(Trade!Amounts(p), K) \in Int
    BY <1>1, <1>2, SaleSumType
  <1> QED
    BY <1>4, <1>5, <1>6 DEF all

-----------------------------------------------------------------------------
\* The sums of the ledger are numbers.
LEMMA SaleSumsAre ==
  ASSUME SaleTypeInv
  PROVE  /\ SaleNumbers([c \in Sellers |-> journal[c].ar], Sellers)
         /\ SaleNumbers([i \in Invoices |-> Trade!Unpaid(i)], Invoices)
         /\ SaleNumbers([c \in Sellers |-> Trade!Reversal(c)], Sellers)
         /\ Trade!Ledger = Trade!SumFunctionOnSet([c \in Sellers |-> journal[c].ar], Sellers) /\ Trade!Ledger \in Int
         /\ Trade!Open = Trade!SumFunctionOnSet([i \in Invoices |-> Trade!Unpaid(i)], Invoices) /\ Trade!Open \in Int
         /\ Trade!Reversed = Trade!SumFunctionOnSet([c \in Sellers |-> Trade!Reversal(c)], Sellers) /\ Trade!Reversed \in Int
         /\ Trade!Refunded \in Int
  <1>1. \A i \in Invoices : Trade!Unpaid(i) \in Int
    BY SaleConstants DEF SaleTypeInv, SaleDataInv, SaleInvoice, Trade!Unpaid
  <1>2. \A c \in Sellers : journal[c].ar \in Int /\ Trade!Reversal(c) \in Int
    BY DEF SaleTypeInv, SaleDataInv, SaleJournal, Trade!Reversal
  <1>3. /\ SaleNumbers([c \in Sellers |-> journal[c].ar], Sellers)
        /\ SaleNumbers([i \in Invoices |-> Trade!Unpaid(i)], Invoices)
        /\ SaleNumbers([c \in Sellers |-> Trade!Reversal(c)], Sellers)
    BY <1>1, <1>2 DEF SaleNumbers
  <1>4. /\ Trade!Ledger = Trade!SumFunctionOnSet([c \in Sellers |-> journal[c].ar], Sellers)
        /\ Trade!Open = Trade!SumFunctionOnSet([i \in Invoices |-> Trade!Unpaid(i)], Invoices)
        /\ Trade!Reversed = Trade!SumFunctionOnSet([c \in Sellers |-> Trade!Reversal(c)], Sellers)
    BY DEF Trade!Ledger, Trade!Open, Trade!Reversed, Trade!SumFunction
  <1>5. Trade!Ledger \in Int /\ Trade!Open \in Int /\ Trade!Reversed \in Int
    BY <1>3, <1>4, SaleConstants, SaleSumType
  <1>6. Trade!Refunded \in Int
    <2>1. IsFiniteSet({r \in Returns : ret[r] = "Refunded"})
      BY SaleConstants, FS_Subset
    <2>2. Cardinality({r \in Returns : ret[r] = "Refunded"}) \in Nat
      BY <2>1, FS_CardinalityType
    <2> QED
      BY <2>2, SaleConstants DEF Trade!Refunded, Trade!Cardinality, Cardinality
  <1> QED
    BY <1>3, <1>4, <1>5, <1>6

\* What stays as it is adds up as before.
LEMMA SaleSumsStay ==
  /\ UNCHANGED journal => Trade!Ledger' = Trade!Ledger /\ Trade!Reversed' = Trade!Reversed
  /\ UNCHANGED inv => Trade!Open' = Trade!Open
  /\ UNCHANGED ret => Trade!Refunded' = Trade!Refunded
  BY DEF Trade!Ledger, Trade!Reversed, Trade!Open, Trade!Refunded, Trade!Unpaid, Trade!Reversal

\* A posting changes the ledger by its effect.
LEMMA SaleSumsPosted ==
  ASSUME SaleTypeInv, SaleTypeInv', SaleUnpaidInv, NEW c \in Sellers, tpc[c] # "done",
         NEW n \in Int,
         Trade!PostJournal(c, n)
  PROVE  Trade!Ledger' = Trade!Ledger + n /\ Trade!Reversed' = Trade!Reversed
  <1>1. journal[c].status = "none" /\ journal[c].ar = 0
    BY DEF SaleUnpaidInv
  <1>2. /\ journal'[c].status = "Posted" /\ journal'[c].ar = n
        /\ \A d \in Sellers \ {c} : journal'[d] = journal[d]
    BY DEF Trade!PostJournal, SaleTypeInv, SaleDataInv
  <1> DEFINE a == [d \in Sellers |-> journal[d].ar]
             b == [d \in Sellers |-> journal'[d].ar]
             r == [d \in Sellers |-> Trade!Reversal(d)]
             s == [d \in Sellers |-> Trade!Reversal(d)']
  <1>3. /\ b[c] = n /\ a[c] = 0 /\ \A d \in Sellers \ {c} : b[d] = a[d]
    BY <1>1, <1>2
  <1>4. \A d \in Sellers : s[d] = r[d]
    BY <1>1, <1>2 DEF Trade!Reversal
  <1>5. SaleNumbers(a, Sellers) /\ SaleNumbers(r, Sellers) /\ Trade!Ledger = Trade!SumFunctionOnSet(a, Sellers) /\ Trade!Ledger \in Int
        /\ Trade!Reversed = Trade!SumFunctionOnSet(r, Sellers)
    BY SaleSumsAre
  <1>6. Trade!Ledger' = Trade!SumFunctionOnSet(b, Sellers) /\ Trade!Reversed' = Trade!SumFunctionOnSet(s, Sellers)
    BY DEF Trade!Ledger, Trade!Reversed, Trade!SumFunction
  <1> HIDE DEF a, b, r, s
  <1>7. Trade!SumFunctionOnSet(b, Sellers) = Trade!SumFunctionOnSet(a, Sellers) - a[c] + b[c]
    BY <1>3, <1>5, SaleConstants, SaleSumChanges
  <1>8. Trade!SumFunctionOnSet(s, Sellers) = Trade!SumFunctionOnSet(r, Sellers)
    BY <1>4, <1>5, SaleConstants, SaleSumType
  <1> QED
    BY <1>3, <1>5, <1>6, <1>7, <1>8

\* A change of one invoice changes what is open by the difference.
LEMMA SaleSumsInvoiced ==
  ASSUME SaleTypeInv, SaleTypeInv', NEW i \in Invoices, \A j \in Invoices \ {i} : inv'[j] = inv[j]
  PROVE  Trade!Open' = Trade!Open - Trade!Unpaid(i) + Trade!Unpaid(i)' /\ Trade!Unpaid(i) \in Int /\ Trade!Unpaid(i)' \in Int
  <1> DEFINE a == [j \in Invoices |-> Trade!Unpaid(j)]
             b == [j \in Invoices |-> Trade!Unpaid(j)']
  <1>1. \A j \in Invoices \ {i} : b[j] = a[j]
    BY DEF Trade!Unpaid
  <1>2. Trade!Unpaid(i) \in Int /\ Trade!Unpaid(i)' \in Int
    BY SaleConstants DEF SaleTypeInv, SaleDataInv, SaleInvoice, Trade!Unpaid
  <1>3. b[i] = Trade!Unpaid(i)' /\ a[i] = Trade!Unpaid(i)
    OBVIOUS
  <1>4. SaleNumbers(a, Invoices) /\ Trade!Open = Trade!SumFunctionOnSet(a, Invoices)
    BY SaleSumsAre
  <1>5. Trade!Open' = Trade!SumFunctionOnSet(b, Invoices)
    BY DEF Trade!Open, Trade!SumFunction
  <1> HIDE DEF a, b
  <1>6. b[i] \in Int
    BY <1>2, <1>3
  <1>7. Trade!SumFunctionOnSet(b, Invoices) = Trade!SumFunctionOnSet(a, Invoices) - a[i] + b[i]
    BY <1>1, <1>4, <1>6, SaleConstants, SaleSumChanges
  <1> QED
    BY <1>2, <1>3, <1>4, <1>5, <1>7

-----------------------------------------------------------------------------
\* What a step has changed of the data of a request that holds rows: nothing.
SaleUndisturbed(d) ==
  /\ \A i \in Invoices : slock[i] = d /\ Trade!Live(i) => inv'[i] = inv[i]
  /\ \A o \in Orders : slock[o] = d => /\ order'[o] = order[o]
                                       /\ Trade!InvoiceOf(o) = {} => Trade!InvoiceOf(o)' = {}
  /\ \A r \in Returns : slock[r] = d => ret'[r] = ret[r]
  /\ \A j \in Sellers : slock[j] = d /\ journal[j].status = "Posted" => journal'[j].status = "Posted"
SaleIdle(d) ==
  tpc'[d] = tpc[d] /\ top'[d] = top[d] /\ tread'[d] = tread[d] /\ tat'[d] = tat[d]

\* A request that does nothing, and whose rows are left alone, is where it was.
LEMMA SaleOthers ==
  ASSUME SaleTypeInv, SaleHoldInv, SaleWayInv, NEW d \in Sellers, SaleIdle(d), SaleUndisturbed(d),
         \A x \in Trade!Rows : slock[x] = d => slock'[x] = d
  PROVE  (SaleActive(d) => SaleHolds(d))' /\ SaleWay(d)'
  <1>1. SaleActive(d)' <=> SaleActive(d)
    BY DEF SaleActive, SaleIdle
  <1>2. \A i \in Invoices : Trade!Allocated(d, i)' = Trade!Allocated(d, i)
    BY DEF Trade!Allocated, SaleIdle
  <1>3. ASSUME SaleActive(d) PROVE SaleHolds(d)'
    <2>1. SaleHolds(d) /\ top[d] \in SaleKinds
      BY <1>3 DEF SaleHoldInv, SaleHolds
    <2> DEFINE k == top[d].kind
               x == top[d].row
    <2>2. x \in Trade!Rows
      BY <2>1, SaleRowsAre
    <2>3. top'[d] = top[d] /\ tread'[d] = tread[d] /\ slock'[x] = d /\ slock[x] = d
      BY <2>1, <2>2 DEF SaleHolds, SaleIdle
    <2>4. k = "issue" => inv'[x].status = "Draft"
      BY <2>1, <2>3, SaleKindsAre DEF SaleHolds, SaleUndisturbed, Trade!Live
    <2>5. k = "record" => /\ inv'[x].status \in {"Issued", "Paid"}
                          /\ tread[d] = inv'[x].paid /\ tread[d] + top[d].amount <= InvoiceTotal
      BY <2>1, <2>3, SaleKindsAre DEF SaleHolds, SaleUndisturbed, Trade!Live
    <2>6. k = "fulfill" => tread[d] = order'[x].done /\ tread[d] + top[d].amount <= Quantity
      BY <2>1, <2>3, SaleKindsAre DEF SaleHolds, SaleUndisturbed
    <2>7. k = "invoice" => Trade!InvoiceOf(x)' = {}
      BY <2>1, <2>3, SaleKindsAre DEF SaleHolds, SaleUndisturbed
    <2>8. k = "refund" => ret'[x] = "Received"
      BY <2>1, <2>3, SaleKindsAre DEF SaleHolds, SaleUndisturbed
    <2>9. k = "reverse" => journal'[x].status = "Posted"
      BY <2>1, <2>3, SaleKindsAre DEF SaleHolds, SaleUndisturbed
    <2> QED
      BY <2>1, <2>3, <2>4, <2>5, <2>6, <2>7, <2>8, <2>9 DEF SaleHolds, Trade!InvoiceOf, Trade!Live
  <1>4. SaleWay(d)'
    <2>1. SaleWay(d)
      BY DEF SaleWayInv
    <2>2. ASSUME SaleFits(d) PROVE SaleFits(d)'
      <3>1. ASSUME NEW i \in Invoices
            PROVE  /\ Trade!Allocated(d, i) \in Nat
                   /\ Trade!Allocated(d, i) # 0 => /\ slock'[i] = d
                                                   /\ inv'[i].status \in {"Issued", "Paid"}
                                                   /\ inv'[i].paid + Trade!Allocated(d, i) <= InvoiceTotal
        BY <2>2, SaleRowsAre DEF SaleFits, SaleUndisturbed, Trade!Live
      <3> QED
        BY <1>2, <3>1 DEF SaleFits
    <2> QED
      BY <1>1, <2>1, <2>2 DEF SaleWay, SaleIdle
  <1> QED
    BY <1>1, <1>3, <1>4

\* A step that only changes where requests are, and the period.
LEMMA SaleDataStays ==
  ASSUME SaleTypeInv, SaleUnpaidInv, SaleOrderInv, Trade!NeverOverpaid, Trade!LedgerMatches,
         UNCHANGED <<inv, pay, order, ret, journal, shipped>>, period' \in {"Open", "Closed"},
         \A d \in Sellers : tpc[d] = "done" => tpc'[d] = "done"
  PROVE  SaleDataInv' /\ SaleUnpaidInv' /\ SaleOrderInv' /\ Trade!NeverOverpaid' /\ Trade!LedgerMatches'
  <1>1. SaleDataInv'
    BY DEF SaleTypeInv, SaleDataInv
  <1>2. SaleUnpaidInv'
    BY DEF SaleUnpaidInv
  <1>3. SaleOrderInv' /\ Trade!NeverOverpaid'
    BY DEF SaleOrderInv, SaleOneInvoice, Trade!NeverOverpaid
  <1>4. Trade!LedgerMatches'
    BY SaleSumsStay DEF Trade!LedgerMatches
  <1> QED
    BY <1>1, <1>2, <1>3, <1>4

\* A request that goes on: it may lock a row that nobody else has.
SaleProceeds(c) ==
  /\ UNCHANGED <<Trade!dataVars, shipped>>
  /\ \A d \in Sellers \ {c} : SaleIdle(d)
  /\ \/ slock' = slock
     \/ \E x \in Trade!Rows : Trade!CanLock(c, x) /\ Trade!Lock(c, x)

\* It keeps the invariant when its own part is kept.
LEMMA SaleProceedStep ==
  ASSUME SaleIInv, NEW c \in Sellers, SaleProceeds(c), tpc[c] # "done", SaleRequestInv',
         (SaleActive(c) => SaleHolds(c))', SaleWay(c)'
  PROVE  SaleIInv'
  <1>1. \A x \in Trade!Rows : slock[x] # Trade!Free => slock'[x] = slock[x]
    BY SaleConstants DEF SaleProceeds, Trade!CanLock, Trade!Lock, SaleIInv, SaleTypeInv,
      SaleRequestInv
  <1>2. ASSUME NEW d \in Sellers, d # c PROVE (SaleActive(d) => SaleHolds(d))' /\ SaleWay(d)'
    <2>1. SaleIdle(d)
      BY <1>2 DEF SaleProceeds
    <2>2. SaleUndisturbed(d)
      BY DEF SaleUndisturbed, SaleProceeds, Trade!dataVars, Trade!InvoiceOf, Trade!Live
    <2>3. \A x \in Trade!Rows : slock[x] = d => slock'[x] = d
      BY <1>1, SaleConstants
    <2> QED
      BY <2>1, <2>2, <2>3, SaleOthers DEF SaleIInv
  <1>3. SaleHoldInv'
    BY <1>2 DEF SaleHoldInv
  <1>4. SaleWayInv'
    BY <1>2 DEF SaleWayInv
  <1>5. \A d \in Sellers : tpc[d] = "done" => tpc'[d] = "done"
    BY DEF SaleProceeds, SaleIdle
  <1>6. period' \in {"Open", "Closed"} /\ UNCHANGED <<inv, pay, order, ret, journal, shipped>>
    BY DEF SaleProceeds, Trade!dataVars, SaleIInv, SaleTypeInv, SaleDataInv
  <1>7. SaleDataInv' /\ SaleUnpaidInv' /\ SaleOrderInv' /\ Trade!NeverOverpaid' /\ Trade!LedgerMatches'
    BY <1>5, <1>6, SaleDataStays DEF SaleIInv
  <1> QED
    BY <1>3, <1>4, <1>7 DEF SaleIInv, SaleTypeInv

\* A request that ends, with or without having changed rows that it holds, and an invoice
\* that was not there, or its own journal.
SaleEnds(c) ==
  /\ tpc' = [tpc EXCEPT ![c] = "done"]
  /\ top' = [top EXCEPT ![c] = Trade!NoOp]
  /\ slock' = Trade!Unlocked(c)
  /\ tread' = [tread EXCEPT ![c] = 0]
  /\ tat' = [tat EXCEPT ![c] = 0]

\* The others are where they were.
LEMMA SaleEndStep ==
  ASSUME SaleTypeInv, SaleHoldInv, SaleWayInv, NEW c \in Sellers, SaleEnds(c),
         \A d \in Sellers \ {c} : SaleUndisturbed(d)
  PROVE  SaleRequestInv' /\ SaleHoldInv' /\ SaleWayInv'
  <1>1. SaleRequestInv'
    BY DEF SaleEnds, Trade!Unlocked, SaleTypeInv, SaleRequestInv
  <1>2. \A x \in Trade!Rows : \A d \in Sellers \ {c} : slock[x] = d => slock'[x] = d
    BY DEF SaleEnds, Trade!Unlocked
  <1>3. ASSUME NEW d \in Sellers, d # c PROVE (SaleActive(d) => SaleHolds(d))' /\ SaleWay(d)'
    <2>1. SaleIdle(d)
      BY <1>3 DEF SaleEnds, SaleIdle, SaleTypeInv, SaleRequestInv
    <2> QED
      BY <1>2, <1>3, <2>1, SaleOthers
  <1>4. ~ SaleActive(c)' /\ tpc'[c] = "done" /\ tat'[c] = 0
    BY DEF SaleActive, SaleEnds, SaleTypeInv, SaleRequestInv
  <1>5. SaleWay(c)'
    BY <1>4 DEF SaleWay, SaleActive
  <1> QED
    BY <1>1, <1>3, <1>4, <1>5 DEF SaleHoldInv, SaleWayInv

\* What a request has seen of its record when it begins.
SaleReady(k, value) ==
  /\ k.kind = "issue" => inv[k.row].status = "Draft"
  /\ k.kind = "record" => /\ inv[k.row].status \in {"Issued", "Paid"}
                          /\ value = inv[k.row].paid /\ value + k.amount <= InvoiceTotal
  /\ k.kind = "fulfill" => value = order[k.row].done /\ value + k.amount <= Quantity
  /\ k.kind = "invoice" => Trade!InvoiceOf(k.row) = {}
  /\ k.kind = "refund" => ret[k.row] = "Received"
  /\ k.kind = "reverse" => journal[k.row].status = "Posted"

-----------------------------------------------------------------------------
\* A request begins: it holds its record and has seen its state.
LEMMA SaleBeginStep ==
  ASSUME SaleIInv, NEW c \in Sellers, NEW k \in SaleKinds, NEW goal, NEW value \in Int,
         Trade!Begin(c, k, k.row, goal, value),
         goal \in {"accounts", "write"}, goal = "write" => k.kind # "receive",
         SaleReady(k, value)
  PROVE  SaleIInv'
  <1>1. k.row \in Trade!Rows
    BY SaleRowsAre
  <1>2. /\ tpc[c] = "new" /\ tpc'[c] = goal /\ top'[c] = k /\ tread'[c] = value /\ tat'[c] = tat[c]
        /\ slock'[k.row] = c
    BY <1>1 DEF Trade!Begin, Trade!Lock, SaleIInv, SaleTypeInv, SaleRequestInv
  <1>3. SaleRequestInv'
    BY <1>1 DEF Trade!Begin, Trade!Lock, SaleIInv, SaleTypeInv, SaleRequestInv
  <1>4. tat[c] = 0
    BY <1>2 DEF SaleIInv, SaleWayInv, SaleWay
  <1>5. SaleProceeds(c)
    BY <1>1 DEF Trade!Begin, SaleProceeds, SaleIdle, SaleIInv, SaleTypeInv, SaleRequestInv
  <1>6. UNCHANGED <<inv, order, ret, journal>>
    BY DEF Trade!Begin, Trade!dataVars
  <1>7. SaleHolds(c)'
    BY <1>2, <1>6 DEF SaleHolds, SaleReady, Trade!InvoiceOf, Trade!Live
  <1>8. SaleWay(c)'
    <2>1. ASSUME k.kind = "receive" PROVE SaleFits(c)'
      <3>1. k.row \in Payments /\ 0 \in 0..Len(Allocations[k.row])
        BY <2>1, SaleKindsAre, SaleConstants
      <3>2. \A i \in Invoices : Trade!Given(k.row, 0, i) = 0
        BY <3>1, SaleGivenStep
      <3> QED
        BY <1>2, <1>4, <3>2 DEF SaleFits, Trade!Allocated
    <2>2. k.kind = "receive" => Len(Allocations[k.row]) \in Nat
      BY SaleKindsAre, SaleConstants
    <2> QED
      BY <1>2, <1>4, <2>1, <2>2 DEF SaleWay
  <1> QED
    BY <1>2, <1>3, <1>5, <1>7, <1>8, SaleProceedStep

\* All the ways in which a request begins.
LEMMA SaleBeginsStep ==
  ASSUME SaleIInv, NEW c \in Sellers, Trade!Begins(c)
  PROVE  SaleIInv'
  <1>1. /\ inv \in [Invoices -> SaleInvoice] /\ order \in [Orders -> SaleOrder]
    BY DEF SaleIInv, SaleTypeInv, SaleDataInv
  <1>2. ASSUME NEW i \in Invoices, Trade!BeginIssue(c, i) PROVE SaleIInv'
    <2> DEFINE k == [kind |-> "issue", row |-> i]
    <2>1. k \in SaleKinds /\ k.row = i /\ k.kind = "issue"
      BY DEF SaleKinds
    <2>2. Trade!Begin(c, k, k.row, "accounts", 0) /\ inv[i].status = "Draft"
      BY <1>2 DEF Trade!BeginIssue
    <2> HIDE DEF k
    <2>9. SaleReady(k, 0)
      BY <2>1, <2>2 DEF SaleReady
    <2> QED
      BY <2>1, <2>2, <2>9, SaleBeginStep
  <1>3. ASSUME NEW i \in Invoices, NEW n \in 1..InvoiceTotal, Trade!BeginRecord(c, i, n) PROVE SaleIInv'
    <2> DEFINE k == [kind |-> "record", row |-> i, amount |-> n]
    <2>1. n \in Nat \ {0} /\ inv[i].paid \in Int
      BY <1>1, SaleConstants DEF SaleInvoice
    <2>2. k \in SaleKinds /\ k.row = i /\ k.kind = "record" /\ k.amount = n
      BY <2>1 DEF SaleKinds
    <2>3. Trade!Begin(c, k, k.row, "accounts", inv[i].paid) /\ inv[i].status \in {"Issued", "Paid"}
      BY <1>3 DEF Trade!BeginRecord
    <2>4. inv[i].paid + n <= InvoiceTotal
      BY <1>3, <2>1, SaleConstants DEF Trade!BeginRecord
    <2> HIDE DEF k
    <2>9. SaleReady(k, inv[i].paid)
      BY <2>1, <2>2, <2>3, <2>4 DEF SaleReady
    <2> QED
      BY <2>1, <2>2, <2>3, <2>4, <2>9, SaleBeginStep
  <1>4. ASSUME NEW p \in Payments, Trade!BeginReceive(c, p) PROVE SaleIInv'
    <2> DEFINE k == [kind |-> "receive", row |-> p]
    <2>1. k \in SaleKinds /\ k.row = p /\ k.kind = "receive"
      BY DEF SaleKinds
    <2>2. Trade!Begin(c, k, k.row, "accounts", 0)
      BY <1>4 DEF Trade!BeginReceive
    <2> HIDE DEF k
    <2>9. SaleReady(k, 0)
      BY <2>1, <2>2 DEF SaleReady
    <2> QED
      BY <2>1, <2>2, <2>9, SaleBeginStep
  <1>5. ASSUME NEW o \in Orders, NEW from, NEW to \in {"Confirmed", "Completed", "Cancelled"},
               Trade!BeginMove(c, o, from, to)
        PROVE  SaleIInv'
    <2> DEFINE k == [kind |-> "move", row |-> o, to |-> to]
    <2>1. k \in SaleKinds /\ k.row = o /\ k.kind = "move"
      BY DEF SaleKinds
    <2>2. Trade!Begin(c, k, k.row, "write", order[o].done) /\ order[o].done \in Int
      BY <1>1, <1>5 DEF Trade!BeginMove, SaleOrder
    <2> HIDE DEF k
    <2>9. SaleReady(k, order[o].done)
      BY <2>1, <2>2 DEF SaleReady
    <2> QED
      BY <2>1, <2>2, <2>9, SaleBeginStep
  <1>6. ASSUME NEW o \in Orders, NEW n \in 1..Quantity, Trade!BeginFulfill(c, o, n) PROVE SaleIInv'
    <2> DEFINE k == [kind |-> "fulfill", row |-> o, amount |-> n]
    <2>1. n \in Nat \ {0} /\ order[o].done \in Int
      BY <1>1, SaleConstants DEF SaleOrder
    <2>2. k \in SaleKinds /\ k.row = o /\ k.kind = "fulfill" /\ k.amount = n
      BY <2>1 DEF SaleKinds
    <2>3. Trade!Begin(c, k, k.row, "write", order[o].done)
      BY <1>6 DEF Trade!BeginFulfill
    <2>4. order[o].done + n <= Quantity
      BY <1>6, <2>1, SaleConstants DEF Trade!BeginFulfill
    <2> HIDE DEF k
    <2>9. SaleReady(k, order[o].done)
      BY <2>1, <2>2, <2>3, <2>4 DEF SaleReady
    <2> QED
      BY <2>1, <2>2, <2>3, <2>4, <2>9, SaleBeginStep
  <1>7. ASSUME NEW o \in Orders, Trade!BeginInvoice(c, o) PROVE SaleIInv'
    <2> DEFINE k == [kind |-> "invoice", row |-> o]
    <2>1. k \in SaleKinds /\ k.row = o /\ k.kind = "invoice"
      BY DEF SaleKinds
    <2>2. Trade!Begin(c, k, k.row, "accounts", 0) /\ Trade!InvoiceOf(k.row) = {}
      BY <1>7, <2>1 DEF Trade!BeginInvoice
    <2> HIDE DEF k
    <2>9. SaleReady(k, 0)
      BY <2>1, <2>2 DEF SaleReady
    <2> QED
      BY <2>1, <2>2, <2>9, SaleBeginStep
  <1>8. ASSUME NEW r \in Returns, Trade!BeginRefund(c, r) PROVE SaleIInv'
    <2> DEFINE k == [kind |-> "refund", row |-> r]
    <2>1. k \in SaleKinds /\ k.row = r /\ k.kind = "refund"
      BY DEF SaleKinds
    <2>2. Trade!Begin(c, k, k.row, "accounts", 0) /\ ret[r] = "Received"
      BY <1>8 DEF Trade!BeginRefund
    <2> HIDE DEF k
    <2>9. SaleReady(k, 0)
      BY <2>1, <2>2 DEF SaleReady
    <2> QED
      BY <2>1, <2>2, <2>9, SaleBeginStep
  <1>9. ASSUME NEW j \in Sellers, Trade!BeginReverse(c, j) PROVE SaleIInv'
    <2> DEFINE k == [kind |-> "reverse", row |-> j]
    <2>1. k \in SaleKinds /\ k.row = j /\ k.kind = "reverse"
      BY DEF SaleKinds
    <2>2. Trade!Begin(c, k, k.row, "accounts", 0) /\ journal[j].status = "Posted"
      BY <1>9 DEF Trade!BeginReverse
    <2> HIDE DEF k
    <2>9. SaleReady(k, 0)
      BY <2>1, <2>2 DEF SaleReady
    <2> QED
      BY <2>1, <2>2, <2>9, SaleBeginStep
  <1> QED
    BY <1>2, <1>3, <1>4, <1>5, <1>6, <1>7, <1>8, <1>9 DEF Trade!Begins

\* A step of c alone that does not change what it is about or has read and allocated.
SaleSteps(c, goal) ==
  /\ tpc' = [tpc EXCEPT ![c] = goal]
  /\ UNCHANGED <<Trade!dataVars, top, tread, tat, shipped>>
  /\ \/ slock' = slock
     \/ \E x \in Trade!Rows : Trade!CanLock(c, x) /\ Trade!Lock(c, x)

\* It keeps the invariant when its own part is kept.
LEMMA SaleStepStep ==
  ASSUME SaleIInv, NEW c \in Sellers, SaleActive(c), NEW goal, SaleSteps(c, goal),
         goal \in {"post", "period", "allocate", "write"},
         goal = "allocate" => top[c].kind = "receive" /\ tpc[c] = "post",
         goal = "period" => top[c].kind = "reverse",
         goal = "post" => tpc[c] = "accounts",
         goal = "write" => \/ top[c].kind # "receive"
                           \/ tpc[c] = "allocate" /\ tat[c] = Len(Allocations[top[c].row])
  PROVE  SaleIInv'
  <1>1. tpc'[c] = goal /\ top'[c] = top[c] /\ tread'[c] = tread[c] /\ tat'[c] = tat[c] /\ tpc[c] # "done"
    BY DEF SaleSteps, SaleIInv, SaleTypeInv, SaleRequestInv, SaleActive
  <1>2. SaleRequestInv'
    BY DEF SaleSteps, Trade!Lock, SaleIInv, SaleTypeInv, SaleRequestInv
  <1>3. SaleProceeds(c)
    BY DEF SaleSteps, SaleProceeds, SaleIdle, SaleIInv, SaleTypeInv, SaleRequestInv
  <1>4. UNCHANGED <<inv, order, ret, journal>>
    BY DEF SaleSteps, Trade!dataVars
  <1>5. SaleHolds(c) /\ SaleWay(c)
    BY DEF SaleIInv, SaleHoldInv, SaleWayInv
  <1>6. top[c].row \in Trade!Rows /\ \A x \in Trade!Rows : slock[x] = c => slock'[x] = c
    BY <1>5, SaleRowsAre DEF SaleHolds, SaleSteps, Trade!CanLock, Trade!Lock, SaleIInv,
      SaleTypeInv, SaleRequestInv
  <1>7. SaleHolds(c)'
    BY <1>1, <1>4, <1>5, <1>6 DEF SaleHolds, Trade!InvoiceOf, Trade!Live
  <1>8. SaleFits(c) => SaleFits(c)'
    <2>1. \A i \in Invoices : Trade!Allocated(c, i)' = Trade!Allocated(c, i)
      BY <1>1 DEF Trade!Allocated
    <2> QED
      BY <1>4, <1>6, <2>1, SaleRowsAre DEF SaleFits
  <1>9. SaleWay(c)'
    BY <1>1, <1>5, <1>8 DEF SaleWay, SaleActive
  <1> QED
    BY <1>1, <1>2, <1>3, <1>7, <1>9, SaleProceedStep

\* The steps before the allocations and the writes.
LEMMA SaleGoesStep ==
  ASSUME SaleIInv, NEW c \in Sellers,
         Trade!LockAccounts(c) \/ Trade!SeePeriod(c) \/ Trade!LockPeriod(c) \/ Trade!Allocating(c)
  PROVE  SaleIInv'
  <1>1. CASE Trade!LockAccounts(c)
    <2> DEFINE goal == IF top[c].kind = "reverse" THEN "period" ELSE "post"
    <2>1. SaleSteps(c, goal) /\ SaleActive(c) /\ tpc[c] = "accounts"
      BY <1>1, SaleRowsAre DEF Trade!LockAccounts, SaleSteps, SaleActive
    <2> QED
      BY <2>1, SaleStepStep
  <1>2. CASE Trade!SeePeriod(c)
    <2> DEFINE goal == IF top[c].kind = "receive" THEN "allocate" ELSE "write"
    <2>1. SaleSteps(c, goal) /\ SaleActive(c) /\ tpc[c] = "post"
      BY <1>2 DEF Trade!SeePeriod, SaleSteps, SaleActive
    <2> QED
      BY <2>1, SaleStepStep
  <1>3. CASE Trade!LockPeriod(c)
    <2>1. SaleSteps(c, "write") /\ SaleActive(c) /\ tpc[c] = "period"
      BY <1>3, SaleRowsAre DEF Trade!LockPeriod, SaleSteps, SaleActive
    <2>2. top[c].kind = "reverse"
      BY <2>1 DEF SaleIInv, SaleWayInv, SaleWay
    <2> QED
      BY <2>1, <2>2, SaleStepStep
  <1>4. CASE Trade!Allocating(c)
    <2>1. SaleSteps(c, "write") /\ SaleActive(c) /\ tpc[c] = "allocate"
      BY <1>4 DEF Trade!Allocating, SaleSteps, SaleActive
    <2>2. top[c].kind = "receive" /\ top[c] \in SaleKinds /\ tat[c] \in Nat
      BY <2>1 DEF SaleIInv, SaleWayInv, SaleWay, SaleHoldInv, SaleHolds, SaleTypeInv,
         SaleRequestInv
    <2>3. tat[c] <= Len(Allocations[top[c].row]) /\ ~(tat[c] < Len(Allocations[top[c].row]))
      BY <1>4, <2>1, <2>2 DEF SaleIInv, SaleWayInv, SaleWay, Trade!Allocating,
         Trade!MoreToAllocate
    <2>4. Len(Allocations[top[c].row]) \in Nat
      BY <2>2, SaleKindsAre, SaleConstants
    <2>5. tat[c] = Len(Allocations[top[c].row])
      BY <2>2, <2>3, <2>4
    <2> QED
      BY <2>1, <2>5, SaleStepStep
  <1> QED
    BY <1>1, <1>2, <1>3, <1>4

\* An allocation: it fits into an invoice, and that invoice is locked.
LEMMA SaleAllocateStep ==
  ASSUME SaleIInv, NEW c \in Sellers, Trade!Allocate(c)
  PROVE  SaleIInv'
  <1> DEFINE p == top[c].row
             n == tat[c]
             a == Allocations[p][n + 1]
  <1>1. tpc[c] = "allocate" /\ SaleActive(c) /\ n \in Nat /\ n < Len(Allocations[p])
    BY DEF Trade!Allocate, Trade!MoreToAllocate, SaleActive, SaleIInv, SaleTypeInv, SaleRequestInv
  <1>2. top[c].kind = "receive" /\ SaleHolds(c) /\ SaleFits(c) /\ top[c] \in SaleKinds
    BY <1>1 DEF SaleIInv, SaleWayInv, SaleWay, SaleHoldInv, SaleHolds
  <1>3. p \in Payments /\ Len(Allocations[p]) \in Nat /\ p \in Trade!Rows
    BY <1>2, SaleKindsAre, SaleConstants, SaleRowsAre
  <1>4. n \in 0..Len(Allocations[p]) /\ n + 1 \in 1..Len(Allocations[p])
    BY <1>1, <1>3
  <1>5. a.invoice \in Invoices /\ a.amount \in Nat \ {0} /\ a.invoice \in Trade!Rows
    BY <1>3, <1>4, SaleConstants, SaleRowsAre
  <1>6. /\ Trade!CanLock(c, a.invoice) /\ Trade!Lock(c, a.invoice) /\ Trade!Takes(c, a)
        /\ tat' = [tat EXCEPT ![c] = @ + 1] /\ UNCHANGED <<Trade!dataVars, tpc, top, tread, shipped>>
    BY DEF Trade!Allocate, Trade!NextAllocation
  <1>7. tat'[c] = n + 1 /\ top'[c] = top[c] /\ tpc'[c] = tpc[c] /\ tread'[c] = tread[c]
    BY <1>6 DEF SaleIInv, SaleTypeInv, SaleRequestInv
  <1>8. SaleRequestInv'
    BY <1>5, <1>6 DEF Trade!Lock, SaleIInv, SaleTypeInv, SaleRequestInv
  <1>9. SaleProceeds(c)
    BY <1>5, <1>6 DEF SaleProceeds, SaleIdle, SaleIInv, SaleTypeInv, SaleRequestInv
  <1>10. \A x \in Trade!Rows : slock[x] = c => slock'[x] = c
    BY <1>6 DEF Trade!Lock, SaleIInv, SaleTypeInv, SaleRequestInv
  <1>11. slock'[a.invoice] = c
    BY <1>5, <1>6 DEF Trade!Lock, SaleIInv, SaleTypeInv, SaleRequestInv
  <1>12. UNCHANGED <<inv, order, ret, journal>>
    BY <1>6 DEF Trade!dataVars
  <1>13. SaleHolds(c)'
    BY <1>2, <1>3, <1>7, <1>10, <1>12 DEF SaleHolds, Trade!InvoiceOf, Trade!Live
  <1>14. \A i \in Invoices : /\ Trade!Allocated(c, i) \in Nat
                             /\ Trade!Allocated(c, i)' = Trade!Allocated(c, i) + (IF a.invoice = i THEN a.amount ELSE 0)
    BY <1>1, <1>2, <1>3, <1>4, <1>7, SaleGivenStep DEF Trade!Allocated, SaleFits
  <1>15. SaleFits(c)'
    <2>1. ASSUME NEW i \in Invoices
          PROVE  /\ Trade!Allocated(c, i)' \in Nat
                 /\ Trade!Allocated(c, i)' # 0 => /\ slock'[i] = c
                                                  /\ inv'[i].status \in {"Issued", "Paid"}
                                                  /\ inv'[i].paid + Trade!Allocated(c, i)' <= InvoiceTotal
      <3>1. CASE a.invoice = i
        <4>1. Trade!Allocated(c, i)' = Trade!Allocated(c, i) + a.amount /\ Trade!Allocated(c, i) \in Nat
          BY <1>14, <3>1
        <4>2. inv[i].status \in {"Issued", "Paid"} /\ a.amount <= InvoiceTotal - (inv[i].paid + Trade!Allocated(c, i))
          BY <1>6, <3>1 DEF Trade!Takes
        <4>3. inv[i].paid \in Int /\ InvoiceTotal \in Int
          BY SaleConstants DEF SaleIInv, SaleTypeInv, SaleDataInv, SaleInvoice
        <4> DEFINE m == Trade!Allocated(c, i)
                   q == a.amount
                   w == inv[i].paid
        <4>4. m \in Nat /\ q \in Nat /\ w \in Int /\ q <= InvoiceTotal - (w + m)
          BY <1>5, <4>1, <4>2, <4>3
        <4> HIDE DEF m, q, w
        <4>5. m + q \in Nat /\ w + (m + q) <= InvoiceTotal
          BY <4>3, <4>4
        <4> QED
          BY <1>11, <1>12, <3>1, <4>1, <4>2, <4>5 DEF m, q, w
      <3>2. CASE a.invoice # i
        <4>1. Trade!Allocated(c, i)' = Trade!Allocated(c, i) /\ Trade!Allocated(c, i) \in Nat
          BY <1>14, <3>2
        <4> QED
          BY <1>2, <1>10, <1>12, <4>1, SaleRowsAre DEF SaleFits
      <3> QED
        BY <3>1, <3>2
    <2> QED
      BY <2>1 DEF SaleFits
  <1>16. SaleWay(c)'
    BY <1>1, <1>2, <1>3, <1>7, <1>15 DEF SaleWay, SaleActive
  <1> QED
    BY <1>1, <1>8, <1>9, <1>13, <1>16, SaleProceedStep

-----------------------------------------------------------------------------
\* A request that ends without a trace.
LEMMA SaleRollbackStep ==
  ASSUME SaleIInv, NEW c \in Sellers, Trade!Rollback(c)
  PROVE  SaleIInv'
  <1>1. SaleEnds(c)
    BY DEF Trade!Rollback, SaleEnds
  <1>2. \A d \in Sellers \ {c} : SaleUndisturbed(d)
    BY DEF Trade!Rollback, SaleUndisturbed, Trade!dataVars, Trade!InvoiceOf, Trade!Live
  <1>3. SaleRequestInv' /\ SaleHoldInv' /\ SaleWayInv'
    BY <1>1, <1>2, SaleEndStep DEF SaleIInv
  <1>4. \A d \in Sellers : tpc[d] = "done" => tpc'[d] = "done"
    BY DEF Trade!Rollback, SaleIInv, SaleTypeInv, SaleRequestInv
  <1>5. period' \in {"Open", "Closed"} /\ UNCHANGED <<inv, pay, order, ret, journal, shipped>>
    BY DEF Trade!Rollback, Trade!dataVars, SaleIInv, SaleTypeInv, SaleDataInv
  <1>6. SaleDataInv' /\ SaleUnpaidInv' /\ SaleOrderInv' /\ Trade!NeverOverpaid' /\ Trade!LedgerMatches'
    BY <1>4, <1>5, SaleDataStays DEF SaleIInv
  <1> QED
    BY <1>3, <1>6 DEF SaleIInv, SaleTypeInv

\* The period is closed or opened again.
LEMMA SalePeriodStep ==
  ASSUME SaleIInv, NEW c \in Sellers, Trade!MovePeriod(c)
  PROVE  SaleIInv'
  <1>1. SaleRequestInv'
    BY DEF Trade!MovePeriod, SaleIInv, SaleTypeInv, SaleRequestInv
  <1>2. tpc'[c] = "done" /\ tat'[c] = 0 /\ ~ SaleActive(c)'
    BY DEF Trade!MovePeriod, SaleIInv, SaleTypeInv, SaleRequestInv, SaleActive, SaleWayInv,
       SaleWay
  <1>3. ASSUME NEW d \in Sellers, d # c PROVE (SaleActive(d) => SaleHolds(d))' /\ SaleWay(d)'
    <2>1. SaleIdle(d)
      BY <1>3 DEF Trade!MovePeriod, SaleIdle, SaleIInv, SaleTypeInv, SaleRequestInv
    <2>2. SaleUndisturbed(d)
      BY DEF Trade!MovePeriod, SaleUndisturbed, Trade!InvoiceOf, Trade!Live
    <2>3. \A x \in Trade!Rows : slock[x] = d => slock'[x] = d
      BY DEF Trade!MovePeriod
    <2> QED
      BY <2>1, <2>2, <2>3, SaleOthers DEF SaleIInv
  <1>4. SaleWay(c)'
    BY <1>2 DEF SaleWay
  <1>5. SaleHoldInv' /\ SaleWayInv'
    BY <1>2, <1>3, <1>4 DEF SaleHoldInv, SaleWayInv
  <1>6. \A d \in Sellers : tpc[d] = "done" => tpc'[d] = "done"
    BY DEF Trade!MovePeriod, SaleIInv, SaleTypeInv, SaleRequestInv
  <1>7. period' \in {"Open", "Closed"} /\ UNCHANGED <<inv, pay, order, ret, journal, shipped>>
    BY DEF Trade!MovePeriod
  <1>8. SaleDataInv' /\ SaleUnpaidInv' /\ SaleOrderInv' /\ Trade!NeverOverpaid' /\ Trade!LedgerMatches'
    BY <1>6, <1>7, SaleDataStays DEF SaleIInv
  <1> QED
    BY <1>1, <1>5, <1>8 DEF SaleIInv, SaleTypeInv

-----------------------------------------------------------------------------
\* A request that commits ends.
LEMMA SaleCommitStep ==
  ASSUME SaleIInv, NEW c \in Sellers, Trade!Commit(c), \A d \in Sellers \ {c} : SaleUndisturbed(d)
  PROVE  SaleRequestInv' /\ SaleHoldInv' /\ SaleWayInv'
  <1>1. SaleEnds(c)
    BY DEF Trade!Commit, SaleEnds
  <1> QED
    BY <1>1, SaleEndStep DEF SaleIInv

\* What a request that commits knows.
LEMMA SaleCommitKnows ==
  ASSUME SaleIInv, NEW c \in Sellers, Trade!Commit(c)
  PROVE  /\ SaleHolds(c) /\ SaleWay(c) /\ SaleActive(c) /\ tpc[c] = "write" /\ top[c] \in SaleKinds /\ top[c].row \in Trade!Rows
         /\ journal[c].status = "none" /\ journal[c].ar = 0
         /\ tpc'[c] = "done" /\ \A d \in Sellers \ {c} : tpc'[d] = tpc[d]
  <1>1. tpc[c] = "write" /\ SaleActive(c) /\ tpc'[c] = "done" /\ \A d \in Sellers \ {c} : tpc'[d] = tpc[d]
    BY DEF Trade!Commit, SaleActive, SaleIInv, SaleTypeInv, SaleRequestInv
  <1>2. SaleHolds(c) /\ SaleWay(c) /\ top[c] \in SaleKinds
    BY <1>1 DEF SaleIInv, SaleHoldInv, SaleWayInv, SaleHolds
  <1>3. journal[c].status = "none" /\ journal[c].ar = 0
    BY <1>1 DEF SaleIInv, SaleUnpaidInv
  <1> QED
    BY <1>1, <1>2, <1>3, SaleRowsAre

\* A posting leaves the journals of the others alone, and is that of a request that has
\* ended.
LEMMA SalePostStep ==
  ASSUME SaleIInv, NEW c \in Sellers, Trade!Commit(c), NEW n \in Int, Trade!PostJournal(c, n)
  PROVE  /\ journal' \in [Sellers -> SaleJournal]
         /\ \A j \in Sellers : journal[j].status = "Posted" => journal'[j].status = "Posted"
         /\ \A d \in Sellers :
              journal'[d].status # "none" \/ journal'[d].ar # 0 =>
                tpc'[d] = "done" /\ journal'[d].status # "none"
  <1>1. /\ journal[c].status = "none" /\ tpc'[c] = "done" /\ \A d \in Sellers \ {c} : tpc'[d] = tpc[d]
    BY SaleCommitKnows
  <1>2. journal \in [Sellers -> SaleJournal]
    BY DEF SaleIInv, SaleTypeInv, SaleDataInv
  <1> DEFINE e == [status |-> "Posted", ar |-> n, late |-> period = "Closed"]
  <1>3. e \in SaleJournal /\ e.status = "Posted"
    BY DEF SaleJournal
  <1>4. journal' = [journal EXCEPT ![c] = e]
    BY DEF Trade!PostJournal
  <1> HIDE DEF e
  <1>5. journal'[c] = e /\ \A d \in Sellers \ {c} : journal'[d] = journal[d]
    BY <1>2, <1>4
  <1>6. journal' \in [Sellers -> SaleJournal]
    BY <1>2, <1>3, <1>4
  <1>7. \A d \in Sellers :
          journal[d].status # "none" \/ journal[d].ar # 0 => tpc[d] = "done" /\ journal[d].status # "none"
    BY DEF SaleIInv, SaleUnpaidInv
  <1> QED
    BY <1>1, <1>3, <1>5, <1>6, <1>7

\* Issuing a draft.
LEMMA SaleIssueStep ==
  ASSUME SaleIInv, NEW c \in Sellers, Trade!CommitIssue(c)
  PROVE  SaleIInv'
  <1>0. PICK i \in Invoices : i = top[c].row
    BY SaleCommitKnows, SaleKindsAre DEF Trade!CommitIssue
  <1> DEFINE x == [inv[i] EXCEPT !.status = "Issued"]
  <1>1. /\ Trade!Commit(c) /\ top[c].kind = "issue" /\ inv' = [inv EXCEPT ![i] = x]
        /\ Trade!PostJournal(c, InvoiceTotal) /\ UNCHANGED <<pay, order, ret, period, shipped>>
    BY <1>0 DEF Trade!CommitIssue
  <1>2. i \in Invoices /\ slock[i] = c /\ inv[i].status = "Draft" /\ tpc[c] # "done"
    BY <1>0, <1>1, SaleCommitKnows DEF SaleHolds
  <1>3. inv \in [Invoices -> SaleInvoice] /\ inv[i].paid = 0 /\ inv[i] \in SaleInvoice
    BY <1>2 DEF SaleIInv, SaleTypeInv, SaleDataInv, SaleUnpaidInv
  <1>4. x \in SaleInvoice /\ x.status = "Issued" /\ x.paid = 0 /\ x.order = inv[i].order
    BY <1>3 DEF SaleInvoice
  <1> HIDE DEF x
  <1>5. inv'[i] = x /\ inv' \in [Invoices -> SaleInvoice] /\ \A j \in Invoices \ {i} : inv'[j] = inv[j]
    BY <1>1, <1>2, <1>3, <1>4
  <1>6. \A j \in Invoices : inv'[j].order = inv[j].order /\ (Trade!Live(j)' <=> Trade!Live(j))
    BY <1>2, <1>4, <1>5 DEF Trade!Live
  <1>7. InvoiceTotal \in Int
    BY SaleConstants
  <1>8. /\ journal' \in [Sellers -> SaleJournal]
        /\ \A j \in Sellers : journal[j].status = "Posted" => journal'[j].status = "Posted"
        /\ \A d \in Sellers :
             journal'[d].status # "none" \/ journal'[d].ar # 0 =>
               tpc'[d] = "done" /\ journal'[d].status # "none"
    BY <1>1, <1>7, SalePostStep
  <1>9. \A d \in Sellers \ {c} : SaleUndisturbed(d)
    BY <1>1, <1>2, <1>5, <1>6, <1>8 DEF SaleUndisturbed, Trade!InvoiceOf
  <1>10. SaleRequestInv' /\ SaleHoldInv' /\ SaleWayInv'
    BY <1>1, <1>9, SaleCommitStep
  <1>11. SaleDataInv'
    BY <1>1, <1>5, <1>8 DEF SaleIInv, SaleTypeInv, SaleDataInv
  <1>12. SaleUnpaidInv'
    BY <1>4, <1>5, <1>8 DEF SaleIInv, SaleUnpaidInv
  <1>13. SaleOrderInv'
    BY <1>1, <1>6 DEF SaleIInv, SaleOrderInv, SaleOneInvoice
  <1>14. Trade!NeverOverpaid'
    BY <1>4, <1>5, SaleConstants DEF SaleIInv, Trade!NeverOverpaid
  <1>15. SaleTypeInv'
    BY <1>10, <1>11 DEF SaleTypeInv
  <1>16. Trade!LedgerMatches'
    <2>1. Trade!Ledger' = Trade!Ledger + InvoiceTotal /\ Trade!Reversed' = Trade!Reversed
      BY <1>1, <1>2, <1>7, <1>15, SaleSumsPosted DEF SaleIInv
    <2>2. Trade!Open' = Trade!Open - Trade!Unpaid(i) + Trade!Unpaid(i)'
      BY <1>2, <1>5, <1>15, SaleSumsInvoiced DEF SaleIInv
    <2>3. Trade!Unpaid(i) = 0 /\ Trade!Unpaid(i)' = InvoiceTotal
      BY <1>2, <1>4, <1>5, <1>7 DEF Trade!Unpaid
    <2>4. Trade!Refunded' = Trade!Refunded
      BY <1>1, SaleSumsStay
    <2>5. Trade!Ledger \in Int /\ Trade!Open \in Int /\ Trade!Reversed \in Int /\ Trade!Refunded \in Int
      BY SaleSumsAre DEF SaleIInv
    <2> QED
      BY <1>7, <2>1, <2>2, <2>3, <2>4, <2>5 DEF SaleIInv, Trade!LedgerMatches
  <1> QED
    BY <1>10, <1>12, <1>13, <1>14, <1>15, <1>16 DEF SaleIInv

\* A payment recorded on its invoice.
LEMMA SaleRecordStep ==
  ASSUME SaleIInv, NEW c \in Sellers, Trade!CommitRecord(c)
  PROVE  SaleIInv'
  <1>0. PICK i \in Invoices : i = top[c].row
    BY SaleCommitKnows, SaleKindsAre DEF Trade!CommitRecord
  <1> DEFINE n == top[c].amount
             paid == tread[c] + n
             x == [inv[i] EXCEPT !.paid = paid, !.status = IF paid >= InvoiceTotal THEN "Paid" ELSE @]
  <1>1. /\ Trade!Commit(c) /\ top[c].kind = "record" /\ inv' = [inv EXCEPT ![i] = x]
        /\ Trade!PostJournal(c, -n) /\ UNCHANGED <<pay, order, ret, period, shipped>>
    BY <1>0 DEF Trade!CommitRecord
  <1>2. /\ i \in Invoices /\ slock[i] = c /\ inv[i].status \in {"Issued", "Paid"} /\ tpc[c] # "done"
        /\ n \in Nat \ {0} /\ paid = inv[i].paid + n /\ paid <= InvoiceTotal
    BY <1>0, <1>1, SaleCommitKnows, SaleKindsAre DEF SaleHolds
  <1>3. inv \in [Invoices -> SaleInvoice] /\ inv[i].paid \in Int /\ inv[i] \in SaleInvoice /\ InvoiceTotal \in Int /\ paid \in Int
    BY <1>2, SaleConstants DEF SaleIInv, SaleTypeInv, SaleDataInv, SaleInvoice
  <1>4. /\ x \in SaleInvoice /\ x.status \in {"Issued", "Paid"} /\ x.paid = paid /\ x.order = inv[i].order
        /\ x.status = "Paid" => paid = InvoiceTotal
    <2>1. inv[i].status = "Paid" => inv[i].paid = InvoiceTotal
      BY <1>2 DEF SaleIInv, Trade!NeverOverpaid
    <2>2. inv[i].status # "Paid"
      BY <1>2, <1>3, <2>1
    <2>3. x.status = IF paid >= InvoiceTotal THEN "Paid" ELSE inv[i].status
      BY <1>3 DEF SaleInvoice
    <2>4. paid >= InvoiceTotal => paid = InvoiceTotal
      BY <1>2, <1>3
    <2>5. x.paid = paid /\ x.order = inv[i].order /\ x.status \in {"Issued", "Paid"}
      BY <1>2, <1>3, <2>3 DEF SaleInvoice
    <2>6. x \in SaleInvoice
      BY <1>2, <1>3 DEF SaleInvoice
    <2> QED
      BY <2>2, <2>3, <2>4, <2>5, <2>6
  <1> HIDE DEF x
  <1>5. inv'[i] = x /\ inv' \in [Invoices -> SaleInvoice] /\ \A j \in Invoices \ {i} : inv'[j] = inv[j]
    BY <1>1, <1>2, <1>3, <1>4
  <1>6. \A j \in Invoices : inv'[j].order = inv[j].order /\ (Trade!Live(j)' <=> Trade!Live(j))
    BY <1>2, <1>4, <1>5 DEF Trade!Live
  <1>7. -n \in Int
    BY <1>2
  <1>8. /\ journal' \in [Sellers -> SaleJournal]
        /\ \A j \in Sellers : journal[j].status = "Posted" => journal'[j].status = "Posted"
        /\ \A d \in Sellers :
             journal'[d].status # "none" \/ journal'[d].ar # 0 =>
               tpc'[d] = "done" /\ journal'[d].status # "none"
    BY <1>1, <1>7, SalePostStep
  <1>9. \A d \in Sellers \ {c} : SaleUndisturbed(d)
    BY <1>1, <1>2, <1>5, <1>6, <1>8 DEF SaleUndisturbed, Trade!InvoiceOf
  <1>10. SaleRequestInv' /\ SaleHoldInv' /\ SaleWayInv'
    BY <1>1, <1>9, SaleCommitStep
  <1>11. SaleDataInv'
    BY <1>1, <1>5, <1>8 DEF SaleIInv, SaleTypeInv, SaleDataInv
  <1>12. SaleUnpaidInv'
    BY <1>4, <1>5, <1>8 DEF SaleIInv, SaleUnpaidInv
  <1>13. SaleOrderInv'
    BY <1>1, <1>6 DEF SaleIInv, SaleOrderInv, SaleOneInvoice
  <1>14. Trade!NeverOverpaid'
    BY <1>2, <1>4, <1>5 DEF SaleIInv, Trade!NeverOverpaid
  <1>15. SaleTypeInv'
    BY <1>10, <1>11 DEF SaleTypeInv
  <1>16. Trade!LedgerMatches'
    <2>1. Trade!Ledger' = Trade!Ledger + (-n) /\ Trade!Reversed' = Trade!Reversed
      BY <1>1, <1>2, <1>7, <1>15, SaleSumsPosted DEF SaleIInv
    <2>2. Trade!Open' = Trade!Open - Trade!Unpaid(i) + Trade!Unpaid(i)'
      BY <1>2, <1>5, <1>15, SaleSumsInvoiced DEF SaleIInv
    <2>3. Trade!Unpaid(i) = InvoiceTotal - inv[i].paid /\ Trade!Unpaid(i)' = InvoiceTotal - paid
      BY <1>2, <1>4, <1>5 DEF Trade!Unpaid
    <2>4. Trade!Refunded' = Trade!Refunded
      BY <1>1, SaleSumsStay
    <2>5. Trade!Ledger \in Int /\ Trade!Open \in Int /\ Trade!Reversed \in Int /\ Trade!Refunded \in Int
      BY SaleSumsAre DEF SaleIInv
    <2>6. Trade!Ledger = Trade!Open - Trade!Refunded - Trade!Reversed
      BY DEF SaleIInv, Trade!LedgerMatches
    <2>7. Trade!Ledger' = Trade!Open' - Trade!Refunded' - Trade!Reversed'
      BY <1>2, <1>3, <2>1, <2>2, <2>3, <2>4, <2>5, <2>6
    <2> QED
      BY <2>7 DEF Trade!LedgerMatches
  <1> QED
    BY <1>10, <1>12, <1>13, <1>14, <1>15, <1>16 DEF SaleIInv

\* A payment of its own, allocated to several invoices.
LEMMA SaleReceiveStep ==
  ASSUME SaleIInv, NEW c \in Sellers, Trade!CommitReceive(c)
  PROVE  SaleIInv'
  <1> DEFINE p == top[c].row
             n == Trade!SumFunction(Trade!Amounts(p))
             all == [i \in Invoices |-> Trade!Given(p, Len(Allocations[p]), i)]
  <1>1. /\ Trade!Commit(c) /\ top[c].kind = "receive"
        /\ inv' = [i \in Invoices |-> [inv[i] EXCEPT !.paid = @ + Trade!Allocated(c, i)]]
        /\ Trade!PostJournal(c, -n) /\ pay' = [pay EXCEPT ![p] = "Received"]
        /\ UNCHANGED <<order, ret, period, shipped>>
    BY DEF Trade!CommitReceive
  <1>2. /\ p \in Payments /\ tat[c] = Len(Allocations[p]) /\ SaleFits(c) /\ tpc[c] # "done"
    BY <1>1, SaleCommitKnows, SaleKindsAre DEF SaleWay
  <1>3. inv \in [Invoices -> SaleInvoice] /\ InvoiceTotal \in Int
    BY SaleConstants DEF SaleIInv, SaleTypeInv, SaleDataInv
  <1>4. \A i \in Invoices : Trade!Allocated(c, i) = all[i] /\ Trade!Allocated(c, i) \in Nat
    BY <1>2 DEF Trade!Allocated, SaleFits
  <1>5. /\ SaleNumbers(all, Invoices) /\ n \in Int /\ Trade!SumFunctionOnSet(all, Invoices) = n
    BY <1>2, SaleGivenTotal
  <1> HIDE DEF all, n
  <1>6. ASSUME NEW i \in Invoices
        PROVE  /\ inv'[i].status = inv[i].status /\ inv'[i].order = inv[i].order
               /\ inv'[i].paid = inv[i].paid + all[i] /\ all[i] \in Nat /\ inv[i].paid \in Int
               /\ inv'[i] \in SaleInvoice
               /\ all[i] = 0 => inv'[i] = inv[i]
               /\ all[i] # 0 => /\ slock[i] = c /\ inv[i].status \in {"Issued", "Paid"}
                                /\ inv[i].paid + all[i] <= InvoiceTotal
    <2>1. inv[i] \in SaleInvoice /\ inv[i].paid \in Int
      BY <1>3 DEF SaleInvoice
    <2>2. inv'[i] = [inv[i] EXCEPT !.paid = inv[i].paid + all[i]] /\ all[i] \in Nat
      BY <1>1, <1>4
    <2>3. /\ inv'[i].status = inv[i].status /\ inv'[i].order = inv[i].order
          /\ inv'[i].paid = inv[i].paid + all[i] /\ inv'[i] \in SaleInvoice
      BY <2>1, <2>2 DEF SaleInvoice
    <2>4. all[i] = 0 => inv'[i] = inv[i]
      BY <2>1, <2>3 DEF SaleInvoice
    <2>5. all[i] # 0 => /\ slock[i] = c /\ inv[i].status \in {"Issued", "Paid"}
                        /\ inv[i].paid + all[i] <= InvoiceTotal
      BY <1>2, <1>4 DEF SaleFits
    <2> QED
      BY <2>1, <2>2, <2>3, <2>4, <2>5
  <1>7. \A j \in Invoices : inv'[j].order = inv[j].order /\ (Trade!Live(j)' <=> Trade!Live(j))
    BY <1>6 DEF Trade!Live
  <1>8. -n \in Int
    BY <1>5
  <1>9. /\ journal' \in [Sellers -> SaleJournal]
        /\ \A j \in Sellers : journal[j].status = "Posted" => journal'[j].status = "Posted"
        /\ \A d \in Sellers :
             journal'[d].status # "none" \/ journal'[d].ar # 0 =>
               tpc'[d] = "done" /\ journal'[d].status # "none"
    BY <1>1, <1>8, SalePostStep
  <1>10. \A d \in Sellers \ {c} : SaleUndisturbed(d)
    <2>1. \A i \in Invoices : slock[i] # c => inv'[i] = inv[i]
      BY <1>6
    <2>2. \A o \in Orders : Trade!InvoiceOf(o)' = Trade!InvoiceOf(o)
      BY <1>7 DEF Trade!InvoiceOf
    <2> QED
      BY <1>1, <1>9, <2>1, <2>2 DEF SaleUndisturbed
  <1>11. SaleRequestInv' /\ SaleHoldInv' /\ SaleWayInv'
    BY <1>1, <1>10, SaleCommitStep
  <1>12. inv' \in [Invoices -> SaleInvoice] /\ pay' \in [Payments -> {"Draft", "Received"}]
    <2>1. inv' = [i \in Invoices |-> inv'[i]]
      BY <1>1
    <2> QED
      BY <1>1, <1>2, <1>6, <2>1 DEF SaleIInv, SaleTypeInv, SaleDataInv
  <1>13. SaleDataInv'
    BY <1>1, <1>9, <1>12 DEF SaleIInv, SaleTypeInv, SaleDataInv
  <1>14. SaleUnpaidInv'
    BY <1>6, <1>9 DEF SaleIInv, SaleUnpaidInv
  <1>15. SaleOrderInv'
    <2>1. SaleOneInvoice'
      BY <1>7 DEF SaleIInv, SaleOrderInv, SaleOneInvoice
    <2> QED
      BY <1>1, <2>1 DEF SaleIInv, SaleOrderInv
  <1>16. Trade!NeverOverpaid'
    <2>1. ASSUME NEW i \in Invoices
          PROVE  inv'[i].paid <= InvoiceTotal /\ (inv'[i].status = "Paid" => inv'[i].paid = InvoiceTotal)
      <3>1. inv[i].paid <= InvoiceTotal /\ (inv[i].status = "Paid" => inv[i].paid = InvoiceTotal)
        BY DEF SaleIInv, Trade!NeverOverpaid
      <3>2. CASE all[i] = 0
        BY <1>6, <3>1, <3>2
      <3>3. CASE all[i] # 0
        BY <1>3, <1>6, <3>1, <3>3
      <3> QED
        BY <3>2, <3>3
    <2> QED
      BY <2>1 DEF Trade!NeverOverpaid
  <1>17. SaleTypeInv'
    BY <1>11, <1>13 DEF SaleTypeInv
  <1>18. Trade!LedgerMatches'
    <2>1. Trade!Ledger' = Trade!Ledger + (-n) /\ Trade!Reversed' = Trade!Reversed
      BY <1>1, <1>2, <1>8, <1>17, SaleSumsPosted DEF SaleIInv
    <2> DEFINE a == [i \in Invoices |-> Trade!Unpaid(i)]
               b == [i \in Invoices |-> Trade!Unpaid(i)']
    <2>2. \A i \in Invoices : b[i] = a[i] - all[i]
      <3>1. ASSUME NEW i \in Invoices PROVE Trade!Unpaid(i)' = Trade!Unpaid(i) - all[i]
        <4>1. CASE all[i] = 0
          <5>1. Trade!Unpaid(i)' = Trade!Unpaid(i) /\ Trade!Unpaid(i) \in Int
            BY <1>3, <1>6, <4>1 DEF Trade!Unpaid
          <5> QED
            BY <4>1, <5>1
        <4>2. CASE all[i] # 0
          <5>1. Trade!Unpaid(i)' = InvoiceTotal - (inv[i].paid + all[i]) /\ Trade!Unpaid(i) = InvoiceTotal - inv[i].paid
            BY <1>6, <4>2 DEF Trade!Unpaid
          <5> QED
            BY <1>3, <1>6, <5>1
        <4> QED
          BY <4>1, <4>2
      <3> QED
        BY <3>1
    <2>3. SaleNumbers(a, Invoices) /\ Trade!Open = Trade!SumFunctionOnSet(a, Invoices)
      BY SaleSumsAre DEF SaleIInv
    <2>4. Trade!Open' = Trade!SumFunctionOnSet(b, Invoices)
      BY DEF Trade!Open, Trade!SumFunction
    <2> HIDE DEF a, b
    <2>5. Trade!SumFunctionOnSet(b, Invoices) = Trade!SumFunctionOnSet(a, Invoices) - Trade!SumFunctionOnSet(all, Invoices)
      BY <1>5, <2>2, <2>3, SaleConstants, SaleSumSubtracts
    <2>6. Trade!Refunded' = Trade!Refunded
      BY <1>1, SaleSumsStay
    <2>7. Trade!Ledger \in Int /\ Trade!Open \in Int /\ Trade!Reversed \in Int /\ Trade!Refunded \in Int
      BY SaleSumsAre DEF SaleIInv
    <2>8. Trade!Ledger = Trade!Open - Trade!Refunded - Trade!Reversed
      BY DEF SaleIInv, Trade!LedgerMatches
    <2>9. Trade!Open' = Trade!Open - n
      BY <1>5, <2>3, <2>4, <2>5
    <2>10. Trade!Ledger' = Trade!Open' - Trade!Refunded' - Trade!Reversed'
      BY <1>5, <2>1, <2>6, <2>7, <2>8, <2>9
    <2> QED
      BY <2>10 DEF Trade!LedgerMatches
  <1> QED
    BY <1>11, <1>14, <1>15, <1>16, <1>17, <1>18 DEF SaleIInv

\* Moving an order to another state.
LEMMA SaleMoveStep ==
  ASSUME SaleIInv, NEW c \in Sellers, Trade!CommitMove(c)
  PROVE  SaleIInv'
  <1>0. PICK o \in Orders : o = top[c].row
    BY SaleCommitKnows, SaleKindsAre DEF Trade!CommitMove
  <1> DEFINE x == [order[o] EXCEPT !.status = top[c].to]
  <1>1. /\ Trade!Commit(c) /\ top[c].kind = "move" /\ order' = [order EXCEPT ![o] = x]
        /\ UNCHANGED <<inv, pay, ret, period, journal, shipped>>
    BY <1>0 DEF Trade!CommitMove
  <1>2. slock[o] = c /\ top[c].to \in {"Confirmed", "Completed", "Cancelled"}
    BY <1>0, <1>1, SaleCommitKnows, SaleKindsAre DEF SaleHolds
  <1>3. order \in [Orders -> SaleOrder] /\ order[o] \in SaleOrder
    BY DEF SaleIInv, SaleTypeInv, SaleDataInv
  <1>4. x \in SaleOrder /\ x.done = order[o].done
    BY <1>2, <1>3 DEF SaleOrder
  <1> HIDE DEF x
  <1>5. order'[o] = x /\ order' \in [Orders -> SaleOrder] /\ \A q \in Orders \ {o} : order'[q] = order[q]
    BY <1>1, <1>3, <1>4
  <1>6. \A d \in Sellers \ {c} : SaleUndisturbed(d)
    BY <1>1, <1>2, <1>5 DEF SaleUndisturbed, Trade!InvoiceOf, Trade!Live
  <1>7. SaleRequestInv' /\ SaleHoldInv' /\ SaleWayInv'
    BY <1>1, <1>6, SaleCommitStep
  <1>8. SaleDataInv'
    BY <1>1, <1>5 DEF SaleIInv, SaleTypeInv, SaleDataInv
  <1>9. \A d \in Sellers : tpc[d] = "done" => tpc'[d] = "done"
    BY <1>1, SaleCommitKnows
  <1>10. SaleUnpaidInv'
    BY <1>1, <1>9 DEF SaleIInv, SaleUnpaidInv
  <1>11. SaleOrderInv'
    BY <1>1, <1>4, <1>5 DEF SaleIInv, SaleOrderInv, SaleOneInvoice
  <1>12. Trade!NeverOverpaid' /\ Trade!LedgerMatches'
    BY <1>1, SaleSumsStay DEF SaleIInv, Trade!NeverOverpaid, Trade!LedgerMatches
  <1> QED
    BY <1>7, <1>8, <1>10, <1>11, <1>12 DEF SaleIInv, SaleTypeInv

\* A shipment of an order.
LEMMA SaleFulfillStep ==
  ASSUME SaleIInv, NEW c \in Sellers, Trade!CommitFulfill(c)
  PROVE  SaleIInv'
  <1>0. PICK o \in Orders : o = top[c].row
    BY SaleCommitKnows, SaleKindsAre DEF Trade!CommitFulfill
  <1> DEFINE n == top[c].amount
             done == tread[c] + n
             x == [order[o] EXCEPT !.done = done,
                                   !.status = IF done >= Quantity THEN "Fulfilled" ELSE @]
  <1>1. /\ Trade!Commit(c) /\ top[c].kind = "fulfill" /\ order' = [order EXCEPT ![o] = x]
        /\ shipped' = [shipped EXCEPT ![o] = @ + n]
        /\ UNCHANGED <<inv, pay, ret, period, journal>>
    BY <1>0 DEF Trade!CommitFulfill
  <1>2. slock[o] = c /\ n \in Nat \ {0} /\ done = order[o].done + n /\ done <= Quantity
    BY <1>0, <1>1, SaleCommitKnows, SaleKindsAre DEF SaleHolds
  <1>3. /\ order \in [Orders -> SaleOrder] /\ order[o] \in SaleOrder /\ order[o].done \in Int
        /\ shipped \in [Orders -> Int] /\ shipped[o] = order[o].done
    BY DEF SaleIInv, SaleTypeInv, SaleDataInv, SaleOrder, SaleOrderInv
  <1>4. x \in SaleOrder /\ x.done = done /\ done \in Int
    <2>1. done \in Int
      BY <1>2, <1>3
    <2> HIDE DEF done
    <2>2. order[o].status \in {"Draft", "Confirmed", "Fulfilled", "Completed", "Cancelled"}
      BY <1>3 DEF SaleOrder
    <2>3. x.done = done /\ x \in SaleOrder
      BY <1>3, <2>1, <2>2 DEF SaleOrder
    <2> QED
      BY <2>1, <2>3
  <1> HIDE DEF x
  <1>5. order'[o] = x /\ order' \in [Orders -> SaleOrder] /\ \A q \in Orders \ {o} : order'[q] = order[q]
    BY <1>1, <1>3, <1>4
  <1>6. /\ shipped' \in [Orders -> Int] /\ shipped'[o] = done
        /\ \A q \in Orders \ {o} : shipped'[q] = shipped[q]
    BY <1>1, <1>2, <1>3
  <1>7. \A d \in Sellers \ {c} : SaleUndisturbed(d)
    BY <1>1, <1>2, <1>5 DEF SaleUndisturbed, Trade!InvoiceOf, Trade!Live
  <1>8. SaleRequestInv' /\ SaleHoldInv' /\ SaleWayInv'
    BY <1>1, <1>7, SaleCommitStep
  <1>9. SaleDataInv'
    BY <1>1, <1>5, <1>6 DEF SaleIInv, SaleTypeInv, SaleDataInv
  <1>10. \A d \in Sellers : tpc[d] = "done" => tpc'[d] = "done"
    BY <1>1, SaleCommitKnows
  <1>11. SaleUnpaidInv'
    BY <1>1, <1>10 DEF SaleIInv, SaleUnpaidInv
  <1>12. SaleOrderInv'
    BY <1>1, <1>2, <1>4, <1>5, <1>6 DEF SaleIInv, SaleOrderInv, SaleOneInvoice
  <1>13. Trade!NeverOverpaid' /\ Trade!LedgerMatches'
    BY <1>1, SaleSumsStay DEF SaleIInv, Trade!NeverOverpaid, Trade!LedgerMatches
  <1> QED
    BY <1>8, <1>9, <1>11, <1>12, <1>13 DEF SaleIInv, SaleTypeInv

\* The invoice of an order comes into being, the first of its order.
LEMMA SaleInvoiceStep ==
  ASSUME SaleIInv, NEW c \in Sellers, Trade!CommitInvoice(c)
  PROVE  SaleIInv'
  <1>0. PICK o \in Orders : o = top[c].row
    BY SaleCommitKnows, SaleKindsAre DEF Trade!CommitInvoice
  <1> DEFINE x == [status |-> "Issued", paid |-> 0, order |-> o]
  <1>1. /\ Trade!Commit(c) /\ top[c].kind = "invoice"
        /\ Trade!PostJournal(c, InvoiceTotal) /\ UNCHANGED <<pay, order, ret, period, shipped>>
    BY DEF Trade!CommitInvoice
  <1>2. PICK i \in Invoices : ~Trade!Live(i) /\ inv' = [inv EXCEPT ![i] = x]
    BY <1>0 DEF Trade!CommitInvoice
  <1>3. slock[o] = c /\ Trade!InvoiceOf(o) = {} /\ tpc[c] # "done"
    BY <1>0, <1>1, SaleCommitKnows DEF SaleHolds
  <1>4. x \in SaleInvoice /\ x.status = "Issued" /\ x.paid = 0 /\ x.order = o
    BY DEF SaleInvoice
  <1>5. inv \in [Invoices -> SaleInvoice] /\ inv[i].status = "absent"
    BY <1>2 DEF SaleIInv, SaleTypeInv, SaleDataInv, Trade!Live
  <1> HIDE DEF x
  <1>6. inv'[i] = x /\ inv' \in [Invoices -> SaleInvoice] /\ \A j \in Invoices \ {i} : inv'[j] = inv[j]
    BY <1>2, <1>4, <1>5
  <1>7. \A j \in Invoices : inv[j].order = o => FALSE
    BY <1>3, SaleConstants DEF SaleIInv, SaleUnpaidInv, Trade!InvoiceOf, Trade!Live
  <1>8. InvoiceTotal \in Int
    BY SaleConstants
  <1>9. /\ journal' \in [Sellers -> SaleJournal]
        /\ \A j \in Sellers : journal[j].status = "Posted" => journal'[j].status = "Posted"
        /\ \A d \in Sellers :
             journal'[d].status # "none" \/ journal'[d].ar # 0 =>
               tpc'[d] = "done" /\ journal'[d].status # "none"
    BY <1>1, <1>8, SalePostStep
  <1>10. \A d \in Sellers \ {c} : SaleUndisturbed(d)
    <2>1. \A j \in Invoices : Trade!Live(j) => inv'[j] = inv[j]
      BY <1>2, <1>6
    <2>2. ASSUME NEW q \in Orders, q # o, Trade!InvoiceOf(q) = {} PROVE Trade!InvoiceOf(q)' = {}
      BY <1>4, <1>6, <2>2 DEF Trade!InvoiceOf, Trade!Live
    <2> QED
      BY <1>1, <1>3, <1>9, <2>1, <2>2 DEF SaleUndisturbed
  <1>11. SaleRequestInv' /\ SaleHoldInv' /\ SaleWayInv'
    BY <1>1, <1>10, SaleCommitStep
  <1>12. SaleDataInv'
    BY <1>1, <1>6, <1>9 DEF SaleIInv, SaleTypeInv, SaleDataInv
  <1>13. SaleUnpaidInv'
    BY <1>4, <1>6, <1>9 DEF SaleIInv, SaleUnpaidInv
  <1>14. SaleOrderInv'
    <2>1. SaleOneInvoice'
      BY <1>4, <1>6, <1>7 DEF SaleIInv, SaleOrderInv, SaleOneInvoice
    <2> QED
      BY <1>1, <2>1 DEF SaleIInv, SaleOrderInv
  <1>15. Trade!NeverOverpaid'
    BY <1>4, <1>6, SaleConstants DEF SaleIInv, Trade!NeverOverpaid
  <1>16. SaleTypeInv'
    BY <1>11, <1>12 DEF SaleTypeInv
  <1>17. Trade!LedgerMatches'
    <2>1. Trade!Ledger' = Trade!Ledger + InvoiceTotal /\ Trade!Reversed' = Trade!Reversed
      BY <1>1, <1>3, <1>8, <1>16, SaleSumsPosted DEF SaleIInv
    <2>2. Trade!Open' = Trade!Open - Trade!Unpaid(i) + Trade!Unpaid(i)'
      BY <1>6, <1>16, SaleSumsInvoiced DEF SaleIInv
    <2>3. Trade!Unpaid(i) = 0 /\ Trade!Unpaid(i)' = InvoiceTotal
      BY <1>4, <1>5, <1>6, <1>8 DEF Trade!Unpaid
    <2>4. Trade!Refunded' = Trade!Refunded
      BY <1>1, SaleSumsStay
    <2>5. Trade!Ledger \in Int /\ Trade!Open \in Int /\ Trade!Reversed \in Int /\ Trade!Refunded \in Int
      BY SaleSumsAre DEF SaleIInv
    <2> QED
      BY <1>8, <2>1, <2>2, <2>3, <2>4, <2>5 DEF SaleIInv, Trade!LedgerMatches
  <1> QED
    BY <1>11, <1>13, <1>14, <1>15, <1>16, <1>17 DEF SaleIInv

\* Refunding a return.
LEMMA SaleRefundStep ==
  ASSUME SaleIInv, NEW c \in Sellers, Trade!CommitRefund(c)
  PROVE  SaleIInv'
  <1>0. PICK r \in Returns : r = top[c].row
    BY SaleCommitKnows, SaleKindsAre DEF Trade!CommitRefund
  <1>1. /\ Trade!Commit(c) /\ top[c].kind = "refund" /\ ret' = [ret EXCEPT ![r] = "Refunded"]
        /\ Trade!PostJournal(c, -InvoiceTotal) /\ UNCHANGED <<inv, pay, order, period, shipped>>
    BY <1>0 DEF Trade!CommitRefund
  <1>2. slock[r] = c /\ ret[r] = "Received" /\ tpc[c] # "done"
    BY <1>0, <1>1, SaleCommitKnows DEF SaleHolds
  <1>3. /\ ret \in [Returns -> {"Received", "Refunded"}]
        /\ ret'[r] = "Refunded" /\ \A q \in Returns \ {r} : ret'[q] = ret[q]
    BY <1>1 DEF SaleIInv, SaleTypeInv, SaleDataInv
  <1>4. InvoiceTotal \in Int /\ -InvoiceTotal \in Int
    BY SaleConstants
  <1>5. /\ journal' \in [Sellers -> SaleJournal]
        /\ \A j \in Sellers : journal[j].status = "Posted" => journal'[j].status = "Posted"
        /\ \A d \in Sellers :
             journal'[d].status # "none" \/ journal'[d].ar # 0 =>
               tpc'[d] = "done" /\ journal'[d].status # "none"
    BY <1>1, <1>4, SalePostStep
  <1>6. \A d \in Sellers \ {c} : SaleUndisturbed(d)
    BY <1>1, <1>2, <1>3, <1>5 DEF SaleUndisturbed, Trade!InvoiceOf, Trade!Live
  <1>7. SaleRequestInv' /\ SaleHoldInv' /\ SaleWayInv'
    BY <1>1, <1>6, SaleCommitStep
  <1>8. SaleDataInv'
    BY <1>1, <1>5 DEF SaleIInv, SaleTypeInv, SaleDataInv
  <1>9. SaleUnpaidInv'
    BY <1>1, <1>5 DEF SaleIInv, SaleUnpaidInv
  <1>10. SaleOrderInv' /\ Trade!NeverOverpaid'
    BY <1>1 DEF SaleIInv, SaleOrderInv, SaleOneInvoice, Trade!NeverOverpaid
  <1>11. SaleTypeInv'
    BY <1>7, <1>8 DEF SaleTypeInv
  <1>12. Trade!LedgerMatches'
    <2>1. Trade!Ledger' = Trade!Ledger + (-InvoiceTotal) /\ Trade!Reversed' = Trade!Reversed
      BY <1>1, <1>2, <1>4, <1>11, SaleSumsPosted DEF SaleIInv
    <2>2. Trade!Open' = Trade!Open
      BY <1>1, SaleSumsStay
    <2>3. Trade!Refunded' = Trade!Refunded + InvoiceTotal
      <3> DEFINE done == {q \in Returns : ret[q] = "Refunded"}
                 k == Cardinality(done)
      <3>1. IsFiniteSet(done) /\ r \notin done
        BY <1>2, SaleConstants, FS_Subset
      <3>2. {q \in Returns : ret'[q] = "Refunded"} = done \cup {r}
        BY <1>3
      <3>3. Cardinality(done \cup {r}) = k + 1 /\ k \in Nat
        BY <3>1, FS_AddElement, FS_CardinalityType
      <3>4. Trade!Refunded' = InvoiceTotal * (k + 1) /\ Trade!Refunded = InvoiceTotal * k
        BY <3>2, <3>3 DEF Trade!Refunded, Trade!Cardinality, Cardinality
      <3> HIDE DEF k
      <3>5. InvoiceTotal * (k + 1) = InvoiceTotal * k + InvoiceTotal
        BY <1>4, <3>3
      <3> QED
        BY <3>4, <3>5
    <2>4. Trade!Ledger \in Int /\ Trade!Open \in Int /\ Trade!Reversed \in Int /\ Trade!Refunded \in Int
      BY SaleSumsAre DEF SaleIInv
    <2> QED
      BY <1>4, <2>1, <2>2, <2>3, <2>4 DEF SaleIInv, Trade!LedgerMatches
  <1> QED
    BY <1>7, <1>9, <1>10, <1>11, <1>12 DEF SaleIInv

\* A reversal: its journal takes back what the other has posted.
LEMMA SaleReverseStep ==
  ASSUME SaleIInv, NEW c \in Sellers, Trade!CommitReverse(c)
  PROVE  SaleIInv'
  <1>0. PICK j \in Sellers : j = top[c].row
    BY SaleCommitKnows, SaleKindsAre DEF Trade!CommitReverse
  <1> DEFINE n == journal[j].ar
             x == [journal[j] EXCEPT !.status = "Reversed"]
             y == [status |-> "Posted", ar |-> -n, late |-> period = "Closed"]
  <1>1. /\ Trade!Commit(c) /\ top[c].kind = "reverse"
        /\ journal' = [journal EXCEPT ![j] = x, ![c] = y]
        /\ UNCHANGED <<inv, pay, order, ret, period, shipped>>
    BY <1>0 DEF Trade!CommitReverse
  <1>2. /\ slock[j] = c /\ journal[j].status = "Posted" /\ tpc[c] # "done"
        /\ journal[c].status = "none" /\ journal[c].ar = 0 /\ j # c
    BY <1>0, <1>1, SaleCommitKnows DEF SaleHolds
  <1>3. journal \in [Sellers -> SaleJournal] /\ journal[j] \in SaleJournal /\ n \in Int
    BY DEF SaleIInv, SaleTypeInv, SaleDataInv, SaleJournal
  <1>4. /\ x \in SaleJournal /\ x.status = "Reversed" /\ x.ar = n
        /\ y \in SaleJournal /\ y.status = "Posted" /\ y.ar = -n
    BY <1>3 DEF SaleJournal
  <1> HIDE DEF x, y
  <1>5. /\ journal' \in [Sellers -> SaleJournal] /\ journal'[j] = x /\ journal'[c] = y
        /\ \A d \in Sellers \ {c, j} : journal'[d] = journal[d]
    BY <1>1, <1>2, <1>3, <1>4
  <1>6. \A d \in Sellers \ {c} : SaleUndisturbed(d)
    BY <1>1, <1>2, <1>5 DEF SaleUndisturbed, Trade!InvoiceOf, Trade!Live
  <1>7. SaleRequestInv' /\ SaleHoldInv' /\ SaleWayInv'
    BY <1>1, <1>6, SaleCommitStep
  <1>8. SaleDataInv'
    BY <1>1, <1>5 DEF SaleIInv, SaleTypeInv, SaleDataInv
  <1>9. SaleUnpaidInv'
    <2>1. tpc[j] = "done" /\ \A d \in Sellers : tpc[d] = "done" \/ d = c => tpc'[d] = "done"
      BY <1>1, <1>2, SaleCommitKnows DEF SaleIInv, SaleUnpaidInv
    <2>2. \A d \in Sellers :
            journal[d].status # "none" \/ journal[d].ar # 0 => tpc[d] = "done" /\ journal[d].status # "none"
      BY DEF SaleIInv, SaleUnpaidInv
    <2>3. \A d \in Sellers :
            journal'[d].status # "none" \/ journal'[d].ar # 0 => tpc'[d] = "done" /\ journal'[d].status # "none"
      BY <1>4, <1>5, <2>1, <2>2
    <2> QED
      BY <1>1, <2>3 DEF SaleIInv, SaleUnpaidInv
  <1>10. SaleOrderInv' /\ Trade!NeverOverpaid'
    BY <1>1 DEF SaleIInv, SaleOrderInv, SaleOneInvoice, Trade!NeverOverpaid
  <1>11. SaleTypeInv'
    BY <1>7, <1>8 DEF SaleTypeInv
  <1>12. Trade!LedgerMatches'
    <2> DEFINE a == [d \in Sellers |-> journal[d].ar]
               b == [d \in Sellers |-> journal'[d].ar]
               r == [d \in Sellers |-> Trade!Reversal(d)]
               s == [d \in Sellers |-> Trade!Reversal(d)']
    <2>1. b[c] = -n /\ a[c] = 0 /\ \A d \in Sellers \ {c} : b[d] = a[d]
      BY <1>2, <1>4, <1>5
    <2>2. s[j] = n /\ r[j] = 0 /\ \A d \in Sellers \ {j} : s[d] = r[d]
      BY <1>2, <1>4, <1>5 DEF Trade!Reversal
    <2>3. /\ SaleNumbers(a, Sellers) /\ SaleNumbers(r, Sellers) /\ Trade!Ledger = Trade!SumFunctionOnSet(a, Sellers)
          /\ Trade!Reversed = Trade!SumFunctionOnSet(r, Sellers)
          /\ Trade!Ledger \in Int /\ Trade!Open \in Int /\ Trade!Reversed \in Int /\ Trade!Refunded \in Int
      BY SaleSumsAre DEF SaleIInv
    <2>4. Trade!Ledger' = Trade!SumFunctionOnSet(b, Sellers) /\ Trade!Reversed' = Trade!SumFunctionOnSet(s, Sellers)
      BY DEF Trade!Ledger, Trade!Reversed, Trade!SumFunction
    <2> HIDE DEF a, b, r, s
    <2>5. -n \in Int
      BY <1>3
    <2>6. Trade!SumFunctionOnSet(b, Sellers) = Trade!SumFunctionOnSet(a, Sellers) - a[c] + b[c]
      BY <2>1, <2>3, <2>5, SaleConstants, SaleSumChanges
    <2>7. Trade!SumFunctionOnSet(s, Sellers) = Trade!SumFunctionOnSet(r, Sellers) - r[j] + s[j]
      BY <1>3, <2>2, <2>3, SaleConstants, SaleSumChanges
    <2>8. Trade!Open' = Trade!Open /\ Trade!Refunded' = Trade!Refunded
      BY <1>1, SaleSumsStay
    <2>9. Trade!Ledger' = Trade!Ledger + (-n) /\ Trade!Reversed' = Trade!Reversed + n
      BY <1>3, <2>1, <2>2, <2>3, <2>4, <2>5, <2>6, <2>7
    <2>10. Trade!Ledger = Trade!Open - Trade!Refunded - Trade!Reversed
      BY DEF SaleIInv, Trade!LedgerMatches
    <2>11. Trade!Ledger' = Trade!Open' - Trade!Refunded' - Trade!Reversed'
      BY <1>3, <2>3, <2>8, <2>9, <2>10
    <2> QED
      BY <2>11 DEF Trade!LedgerMatches
  <1> QED
    BY <1>7, <1>9, <1>10, <1>11, <1>12 DEF SaleIInv

-----------------------------------------------------------------------------
\* Initially nothing is posted, paid or open.
LEMMA SaleInitOk == Trade!Init => SaleIInv
  <1> SUFFICES ASSUME Trade!Init PROVE SaleIInv
    OBVIOUS
  <1>1. SaleTypeInv
    <2>1. SaleDataInv
      BY DEF Trade!Init, SaleDataInv, SaleInvoice, SaleJournal, SaleOrder
    <2>2. SaleRequestInv
      BY DEF Trade!Init, SaleRequestInv
    <2> QED
      BY <2>1, <2>2 DEF SaleTypeInv
  <1>2. SaleHoldInv /\ SaleWayInv
    BY DEF Trade!Init, SaleHoldInv, SaleWayInv, SaleWay, SaleActive
  <1>3. SaleUnpaidInv
    BY DEF Trade!Init, SaleUnpaidInv
  <1>4. SaleOrderInv
    BY SaleConstants DEF Trade!Init, SaleOrderInv, SaleOneInvoice
  <1>5. Trade!NeverOverpaid
    BY SaleConstants DEF Trade!Init, Trade!NeverOverpaid
  <1>6. Trade!LedgerMatches
    <2> DEFINE a == [d \in Sellers |-> journal[d].ar]
               r == [d \in Sellers |-> Trade!Reversal(d)]
               u == [i \in Invoices |-> Trade!Unpaid(i)]
    <2>1. \A d \in Sellers : a[d] = a[d] - a[d] /\ r[d] = r[d] - r[d]
      BY DEF Trade!Init, Trade!Reversal
    <2>2. \A i \in Invoices : u[i] = u[i] - u[i]
      BY DEF Trade!Init, Trade!Unpaid
    <2>3. /\ SaleNumbers(a, Sellers) /\ SaleNumbers(r, Sellers) /\ SaleNumbers(u, Invoices)
          /\ Trade!Ledger = Trade!SumFunctionOnSet(a, Sellers) /\ Trade!Reversed = Trade!SumFunctionOnSet(r, Sellers)
          /\ Trade!Open = Trade!SumFunctionOnSet(u, Invoices)
          /\ Trade!Ledger \in Int /\ Trade!Open \in Int /\ Trade!Reversed \in Int
      BY <1>1, SaleSumsAre
    <2> HIDE DEF a, r, u
    <2>4. /\ Trade!SumFunctionOnSet(a, Sellers) = Trade!SumFunctionOnSet(a, Sellers) - Trade!SumFunctionOnSet(a, Sellers)
          /\ Trade!SumFunctionOnSet(r, Sellers) = Trade!SumFunctionOnSet(r, Sellers) - Trade!SumFunctionOnSet(r, Sellers)
          /\ Trade!SumFunctionOnSet(u, Invoices) = Trade!SumFunctionOnSet(u, Invoices) - Trade!SumFunctionOnSet(u, Invoices)
      BY <2>1, <2>2, <2>3, SaleConstants, SaleSumSubtracts
    <2>5. Trade!Ledger = 0 /\ Trade!Reversed = 0 /\ Trade!Open = 0
      BY <2>3, <2>4
    <2>6. Trade!Refunded = 0
      <3>1. {q \in Returns : ret[q] = "Refunded"} = {}
        BY DEF Trade!Init
      <3>2. Cardinality({q \in Returns : ret[q] = "Refunded"}) = 0
        BY <3>1, FS_EmptySet
      <3>3. InvoiceTotal * 0 = 0
        BY SaleConstants
      <3> QED
        BY <3>2, <3>3 DEF Trade!Refunded, Trade!Cardinality, Cardinality
    <2> QED
      BY <2>5, <2>6 DEF Trade!LedgerMatches
  <1> QED
    BY <1>1, <1>2, <1>3, <1>4, <1>5, <1>6 DEF SaleIInv

\* Every step keeps the invariant.
LEMMA SaleNextOk == SaleIInv /\ [Trade!Next]_(Trade!salesVars) => SaleIInv'
  <1> SUFFICES ASSUME SaleIInv, [Trade!Next]_(Trade!salesVars) PROVE SaleIInv'
    OBVIOUS
  <1>1. CASE UNCHANGED Trade!salesVars
    <2>1. UNCHANGED <<inv, pay, order, ret, period, journal, slock, tpc, top, tread, tat, shipped>>
      BY <1>1 DEF Trade!salesVars, Trade!dataVars, Trade!reqVars
    <2>2. SaleTypeInv'
      BY <2>1 DEF SaleIInv, SaleTypeInv, SaleDataInv, SaleRequestInv
    <2>3. SaleHoldInv' /\ SaleWayInv'
      <3>1. ASSUME NEW d \in Sellers PROVE (SaleActive(d) => SaleHolds(d))' /\ SaleWay(d)'
        <4>1. SaleIdle(d) /\ SaleUndisturbed(d) /\ \A x \in Trade!Rows : slock[x] = d => slock'[x] = d
          BY <2>1 DEF SaleIdle, SaleUndisturbed, Trade!InvoiceOf, Trade!Live
        <4> QED
          BY <4>1, SaleOthers DEF SaleIInv
      <3> QED
        BY <3>1 DEF SaleHoldInv, SaleWayInv
    <2>4. SaleUnpaidInv' /\ SaleOrderInv' /\ Trade!NeverOverpaid' /\ Trade!LedgerMatches'
      BY <2>1, SaleDataStays DEF SaleIInv, SaleTypeInv, SaleDataInv
    <2> QED
      BY <2>2, <2>3, <2>4 DEF SaleIInv
  <1>2. ASSUME NEW c \in Sellers, Trade!Begins(c) PROVE SaleIInv'
    BY <1>2, SaleBeginsStep
  <1>3. ASSUME NEW c \in Sellers, Trade!Goes(c) PROVE SaleIInv'
    <2>1. CASE Trade!LockAccounts(c) \/ Trade!SeePeriod(c) \/ Trade!LockPeriod(c) \/ Trade!Allocating(c)
      BY <2>1, SaleGoesStep
    <2>2. CASE Trade!Allocate(c)
      BY <2>2, SaleAllocateStep
    <2>3. CASE Trade!Commits(c)
      BY <2>3, SaleIssueStep, SaleRecordStep, SaleReceiveStep, SaleMoveStep, SaleFulfillStep,
        SaleInvoiceStep, SaleRefundStep,
         SaleReverseStep DEF Trade!Commits
    <2>4. CASE Trade!Refused(c) \/ Trade!DeadlockEnds(c)
      BY <2>4, SaleRollbackStep DEF Trade!Refused, Trade!DeadlockEnds
    <2> QED
      BY <1>3, <2>1, <2>2, <2>3, <2>4 DEF Trade!Goes
  <1>4. ASSUME NEW c \in Sellers, Trade!Dies(c) PROVE SaleIInv'
    BY <1>4, SaleRollbackStep DEF Trade!Dies
  <1>5. ASSUME NEW c \in Sellers, Trade!MovePeriod(c) PROVE SaleIInv'
    BY <1>5, SalePeriodStep
  <1> QED
    BY <1>1, <1>2, <1>3, <1>4, <1>5 DEF Trade!Next

\* An order has one invoice.
LEMMA SaleOrdersAdd == ASSUME SaleIInv PROVE Trade!OrdersAddUp
  <1>1. ASSUME NEW o \in Orders PROVE Cardinality({i \in Invoices : inv[i].order = o}) <= 1
    <2> DEFINE mine == {i \in Invoices : inv[i].order = o}
    <2>1. mine = {} => Cardinality(mine) = 0
      BY FS_EmptySet
    <2>2. ASSUME mine # {} PROVE Cardinality(mine) <= 1
      <3>1. PICK i \in mine : TRUE
        BY <2>2
      <3>2. mine = {i}
        BY DEF SaleIInv, SaleOrderInv, SaleOneInvoice
      <3>3. Cardinality({i}) = 1
        BY FS_Singleton
      <3>4. Cardinality(mine) = 1
        BY <3>2, <3>3
      <3> HIDE DEF mine
      <3> QED
        BY <3>4
    <2>3. Cardinality(mine) <= 1
      <3> HIDE DEF mine
      <3>1. Cardinality({}) = 0
        BY FS_EmptySet
      <3> QED
        BY <2>1, <2>2, <3>1
    <2> QED
      BY <2>3
  <1> QED
    BY <1>1 DEF Trade!OrdersAddUp, Trade!Cardinality, Cardinality, SaleIInv, SaleOrderInv

\* The type invariant.
THEOREM SaleTypeCorrect == Trade!Spec => []SaleTypeInv
  <1>1. SaleIInv => SaleTypeInv
    BY DEF SaleIInv
  <1> QED
    BY <1>1, SaleInitOk, SaleNextOk, PTL DEF Trade!Spec

\* Invoices, orders and the ledger add up.
THEOREM SaleAddUp == Trade!Spec => [](Trade!NeverOverpaid /\ Trade!OrdersAddUp /\ Trade!LedgerMatches)
  <1>1. SaleIInv => Trade!NeverOverpaid /\ Trade!OrdersAddUp /\ Trade!LedgerMatches
    BY SaleOrdersAdd DEF SaleIInv
  <1> QED
    BY <1>1, SaleInitOk, SaleNextOk, PTL DEF Trade!Spec

\* All at once: the property of the run.
THEOREM SalesAreRight == Trade!Spec => []SalesAddUp
  <1>1. Trade!NeverOverpaid /\ Trade!OrdersAddUp /\ Trade!LedgerMatches => SalesAddUp
    BY DEF SalesAddUp
  <1> QED
    BY <1>1, SaleAddUp, PTL
=============================================================================
