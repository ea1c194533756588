----------------------------- MODULE MCImports -----------------------------
EXTENDS Imports

\* Rows 1 and 3 have the same key; row 2 fails its validation.
FileKeys == [r \in Rows |-> IF r = 2 THEN "b" ELSE "a"]

\* The entity is empty.
SomeStocks == {[k \in Keys |-> 0]}

Opt(m, p, s, u) == [mode |-> m, policy |-> p, strict |-> s, unique |-> u]

\* A strict create and an upsert that match records, a create that skips the
\* duplicates, and a strict create into an entity without a unique field.
SomeOptions ==
  {Opt("create", "fail", TRUE, TRUE), Opt("upsert", "fail", FALSE, TRUE),
   Opt("create", "skip", FALSE, TRUE), Opt("create", "fail", TRUE, FALSE)}
=============================================================================
