---------------------------- MODULE MCStructures ----------------------------
(***************************************************************************)
(* The data structures and services below the engine side by side: the     *)
(* secondary indexes, the memory pool with two threads, the TTL ring       *)
(* buffer and the synchronisation of a slave.  A behaviour runs one of     *)
(* them, named by `which`; the others stay in an initial state.            *)
(***************************************************************************)
EXTENDS SortedIndex, BTreeIndex, TTreeIndex, VectorIndex, StaticAllocator,
        TtlRing, HighAvailability
LOCAL INSTANCE TLC

CONSTANTS t1, t2, m, s

MCKeys == {[size |-> 1, data |-> d] : d \in 0 .. 2}
          \cup {[size |-> n, data |-> 0] : n \in {2, 65}}

\* Two pools; blocks with and without a rest too small to cut.
MCThreads == {t1, t2}
MCBases == {8, 1000}
MCSizes == {8, 20}
Symmetry == Permutations(MCThreads)

MCRoles == {[n \in HaNodes |-> IF n = m THEN "Auto" ELSE "Slave"]}
MCZero == {0}
MCPks == {1}

VARIABLE which
mcVars == <<which, saVars, btVars, ttVars, vxVars, vars, trVars, haVars>>

MCInit ==
  /\ which \in {"sorted", "btree", "ttree", "vector", "pool", "ring", "slave"}
  /\ SaInit /\ BtInit /\ TtInit /\ VxInit /\ Init /\ TrInit /\ HaInit
  /\ which # "btree" => bt.free = <<1>> /\ btOuter = "absent"
  /\ which # "ttree" => tt.free = <<1>>
  /\ which # "vector" => vxImpl.kind = "ivf"
  /\ which # "pool" => start = 8

MCNext ==
  /\ which' = which
  /\ \/ which = "sorted" /\ SaNext /\ UNCHANGED <<btVars, ttVars, vxVars, vars, trVars, haVars>>
     \/ which = "btree" /\ BtNext /\ UNCHANGED <<saVars, ttVars, vxVars, vars, trVars, haVars>>
     \/ which = "ttree" /\ TtNext /\ UNCHANGED <<saVars, btVars, vxVars, vars, trVars, haVars>>
     \/ which = "vector" /\ VxNext /\ UNCHANGED <<saVars, btVars, ttVars, vars, trVars, haVars>>
     \/ which = "pool" /\ Next /\ UNCHANGED <<saVars, btVars, ttVars, vxVars, trVars, haVars>>
     \/ which = "ring" /\ TrNext /\ UNCHANGED <<saVars, btVars, ttVars, vxVars, vars, haVars>>
     \/ which = "slave" /\ HaNext /\ UNCHANGED <<saVars, btVars, ttVars, vxVars, vars, trVars>>

MCSpec == MCInit /\ [][MCNext]_mcVars
=============================================================================
