---------------------------- MODULE Permissions -----------------------------
(***************************************************************************)
(* The permission matrix (qefro-permissions/src/lib.rs): grants of the apps *)
(* at boot, and the grants that Studio publishes for one entity at a time   *)
(* into an overlay of the running process.  A request asks allows; Studio   *)
(* shows grants.  Roles other than Admin, which may do everything.          *)
(***************************************************************************)
EXTENDS FiniteSets

CONSTANTS Roles, Entities, Actions,
          Any    \* "*": a grant on every entity

VARIABLES boot,       \* grants of the apps: role, entity, actions
          replaced,   \* entities with published grants
          overlay,    \* the published grants
          published   \* history: what was published last for each entity

permissionVars == <<boot, replaced, overlay, published>>

Targets == Entities \union {Any}
Grants == [Roles -> [Targets -> SUBSET Actions]]
NoGrants == [r \in Roles |-> [t \in Targets |-> {}]]
Matrix == [Roles -> SUBSET Actions]

TypeOK ==
    /\ boot \in Grants /\ overlay \in Grants /\ replaced \subseteq Targets
    /\ DOMAIN published = replaced /\ \A t \in replaced : published[t] \in Matrix

Init == boot = NoGrants /\ overlay = NoGrants /\ replaced = {} /\ published = [t \in {} |-> {}]

-----------------------------------------------------------------------------
\* An app grants a role more actions; apps are loaded before anything is published.
Grant(r, t, as) ==
    /\ replaced = {}
    /\ boot' = [boot EXCEPT ![r][t] = @ \union as]
    /\ UNCHANGED <<replaced, overlay, published>>

\* Mutant of Cleared: what was published for the entity before stays.
ClearedNot(t) == overlay
\* The grants of an entity published earlier are removed first.
Cleared(t) == [r \in Roles |-> [overlay[r] EXCEPT ![t] = {}]]

\* overlay_entity: Studio publishes the grants of one entity.
Publish(t, matrix) ==
    /\ replaced' = replaced \union {t}
    /\ overlay' = [r \in Roles |-> [Cleared(t)[r] EXCEPT ![t] = @ \union matrix[r]]]
    /\ published' = [u \in replaced' |-> IF u = t THEN matrix ELSE published[u]]
    /\ UNCHANGED boot

\* A restart forgets the overlay.
Restart ==
    /\ replaced' = {} /\ overlay' = NoGrants /\ published' = [t \in {} |-> {}]
    /\ UNCHANGED boot

Next ==
    \/ \E r \in Roles, t \in Targets, as \in SUBSET Actions : Grant(r, t, as)
    \/ \E t \in Targets, matrix \in Matrix : Publish(t, matrix)
    \/ Restart

Spec == Init /\ [][Next]_permissionVars

-----------------------------------------------------------------------------
\* actions_allow: the row of the entity, or the one of every entity.
Granted(grants, r, e, a) == a \in grants[r][e] \union grants[r][Any]

Allows(r, e, a) ==
    IF e \in replaced THEN Granted(overlay, r, e, a) ELSE Granted(boot, r, e, a)

\* grants(): the boot grants without the replaced entities, and the overlay.
Shown(r, t) == IF t \in replaced THEN overlay[r][t] ELSE boot[r][t]

(* What Studio publishes for an entity is what requests meet from then on:  *)
(* an action withdrawn there is refused, one granted is allowed, and no     *)
(* publication of another entity changes that; an entity nobody published   *)
(* keeps the grants of its apps, the rows of "*" included, and one that was *)
(* published loses those; and the matrix that Studio shows of an entity is  *)
(* the one enforced, up to the rows of "*".                                 *)
PublishedIsEnforced ==
    \A r \in Roles, e \in Entities, a \in Actions :
        LET star == IF Any \in replaced THEN published[Any][r] ELSE {} IN
        /\ Allows(r, e, a) <=>
                IF e \in replaced THEN a \in published[e][r] \union star
                ELSE a \in boot[r][e] \union boot[r][Any]
        /\ a \in Shown(r, e) => Allows(r, e, a)
=============================================================================
