------------------------------ MODULE Formulas ------------------------------
(***************************************************************************)
(* The order in which the computed fields of an entity are evaluated        *)
(* (qefro-core/src/formula.rs): detect_cycles, a depth-first search over    *)
(* the computed fields, and evaluation_order, which goes through those that *)
(* remain until none is left.  Both are operators; the entity is chosen in  *)
(* Next.  A formula is abstracted to the fields it reads (a field of a      *)
(* child table is none of the entity's).                                    *)
(***************************************************************************)
EXTENDS Naturals, Sequences, SequencesExt

CONSTANT Fields  \* the fields of the entity, in its order

VARIABLES computed,  \* the computed fields
          reads      \* formula_dependencies of each field's formula

formulaVars == <<computed, reads>>

Names == Range(Fields)

TypeOK == computed \subseteq Names /\ reads \in [Names -> SUBSET Names]

Init == computed = {} /\ reads = [f \in Names |-> {}]

\* A field is defined, by an app or in Studio: stored, or computed by a formula.
\* The operators below are what then checks and evaluates the entity.
Define(f, c, deps) ==
    /\ computed' = IF c THEN computed \union {f} ELSE computed \ {f}
    /\ reads' = [reads EXCEPT ![f] = IF c THEN deps ELSE {}]

Next == \E f \in Names, c \in BOOLEAN, deps \in SUBSET Names : Define(f, c, deps)

Spec == Init /\ [][Next]_formulaVars

-----------------------------------------------------------------------------
\* The graph of detect_cycles: what a computed field reads of computed fields.
Deps(f) == {d \in reads[f] : d \in computed}

\* visit_cycle: a field under way that is met again closes a cycle.
\* s: whether a cycle was met, the fields under way and those done.
RECURSIVE Visit(_, _)
Visit(s, f) ==
    IF s.cycle \/ f \in s.visited THEN s
    ELSE IF f \in s.visiting THEN [s EXCEPT !.cycle = TRUE]
    ELSE LET t == FoldLeft(Visit, [s EXCEPT !.visiting = @ \union {f}],
                           SetToSeq(Deps(f)))
         IN  IF t.cycle THEN t
             ELSE [t EXCEPT !.visiting = @ \ {f}, !.visited = @ \union {f}]

\* detect_cycles begins at every field; in which order, its hash map decides.
DetectCycles(order) ==
    FoldLeft(Visit, [cycle |-> FALSE, visiting |-> {}, visited |-> {}], order).cycle
CycleFound(order) == DetectCycles(SelectSeq(order, LAMBDA f : f \in computed))

\* Mutant of Ready: the dependencies of the first formula met are not waited for.
ReadyFirst(f, done) == Deps(f) \subseteq done \/ done = {}
\* All computed fields a formula reads are done.
Ready(f, done) == Deps(f) \subseteq done

\* One round of retain over the remaining fields, in the order of the entity.
Round(s) ==
    FoldLeft(LAMBDA acc, f :
                IF Ready(f, Range(acc.order)) THEN [acc EXCEPT !.order = Append(@, f)]
                ELSE [acc EXCEPT !.left = Append(@, f)],
            [order |-> s.order, left |-> <<>>], s.left)

RECURSIVE Rounds(_)
\* "could not order computed fields" when a round makes no progress.
Rounds(s) ==
    IF s.left = <<>> THEN s
    ELSE LET t == Round(s) IN IF t.left = s.left THEN s ELSE Rounds(t)

EvaluationOrder ==
    Rounds([order |-> <<>>, left |-> SelectSeq(Fields, LAMBDA f : f \in computed)])

-----------------------------------------------------------------------------
\* Reference: the fields a field depends on, over any number of formulas.
RECURSIVE Closure(_)
Closure(S) ==
    LET T == S \union UNION {Deps(f) : f \in S} IN IF T = S THEN S ELSE Closure(T)
Circular == \E f \in computed : f \in Closure(Deps(f))

(* A circular set of formulas is refused and no other is: the search meets  *)
(* a cycle exactly when a computed field depends on itself, whichever       *)
(* order the hash map yields its fields in.  Without one, the evaluation    *)
(* order holds every computed field once, each after the computed fields    *)
(* its formula reads, so that no value is computed from a stale one.        *)
EvaluatedInOrder ==
    LET e == EvaluationOrder IN
    /\ \A order \in SetToSeqs(Names) : CycleFound(order) <=> Circular
    /\ Circular \/
        /\ e.left = <<>> /\ Len(e.order) = Len(SelectSeq(Fields, LAMBDA f : f \in computed))
        /\ Range(e.order) = computed
        /\ \A i \in DOMAIN e.order :
                Deps(e.order[i]) \subseteq {e.order[j] : j \in 1..(i - 1)}
=============================================================================
