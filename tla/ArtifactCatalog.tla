---------------------------- MODULE ArtifactCatalog ----------------------------
(***************************************************************************)
(* What the registry of local goal models promises its readers: published   *)
(* artifacts are never changed or withdrawn, every matchweek revision is    *)
(* published at most once, and from the first publication on exactly one    *)
(* artifact is current. GoalTraining implements this specification when one *)
(* process trains at a time.                                                *)
(***************************************************************************)
EXTENDS Integers

CONSTANT Baseline      \* the artifact bundled with the installation

VARIABLES
  catalog,             \* the published artifacts
  current              \* the current artifact

catalogVars == <<catalog, current>>

CatalogInit == catalog = {} /\ current = Baseline

\* A new artifact is published under an unused matchweek revision and is the
\* current one from then on.
Publish(a) ==
  /\ \A b \in catalog : <<b.week, b.revision>> # <<a.week, a.revision>>
  /\ catalog' = catalog \cup {a}
  /\ current' = a

CatalogNext == \E a \in catalog' \ catalog : Publish(a)

CatalogSpec == CatalogInit /\ [][CatalogNext]_catalogVars
===============================================================================
