----------------------------- MODULE MCCatalog ------------------------------
(***************************************************************************)
(* Catalog, snapshots and low power mode side by side: a behaviour runs    *)
(* one of them.  Catalog has two table names; one shape has its key behind *)
(* another column, one has more columns than fit in a log item.            *)
(***************************************************************************)
EXTENDS Catalog, Snapshots, LowPowerTable

VARIABLE which
mcVars == <<which, ctVars, snVars, lpVars>>

Col(name, size, def) == [name |-> name, size |-> size, def |-> def]

MCShapes ==
  {[cols |-> <<Col("a", 1, 0), Col("b", 1, 1)>>, pk |-> <<2>>],
   [cols |-> <<Col("a", 1, 0), Col("b", 1, 1), Col("c", 1, 0)>>, pk |-> <<1>>]}

MCSymmetry == Permutations(CtNames)
MCPks == {1, 2}
MCVals == {1}
MCZero == {0}

MCInit ==
  /\ CtInit /\ SnInit /\ LpInit
  /\ which \in {"catalog", "snapshots", "low power"}

MCNext ==
  \/ which = "catalog" /\ CtNext /\ UNCHANGED <<which, snVars, lpVars>>
  \/ which = "snapshots" /\ SnNext /\ UNCHANGED <<which, ctVars, lpVars>>
  \/ which = "low power" /\ LpNext /\ UNCHANGED <<which, ctVars, snVars>>

MCSpec == MCInit /\ [][MCNext]_mcVars
=============================================================================
