-------------------------- MODULE DatabaseManager --------------------------
(***************************************************************************)
(* DatabaseManager of lib.rs: the list of databases, the current one, and  *)
(* the log items that bring the list back after a restart.  SQL, the Rust  *)
(* methods and the C API share it, except that remdb_create_database works *)
(* on a manager of its own, of which only the log item remains.            *)
(*                                                                         *)
(* Positions are those of the Vec, from 0.  current_database is a usize: a *)
(* negative position stands for the value plus 2^64.  The status of every  *)
(* database is Created, so use_database never finds one closed, and        *)
(* close_database only looks the name up.                                  *)
(***************************************************************************)
EXTENDS Integers, Sequences

CONSTANTS DmNames,     \* names of databases, "" for the empty name
          DmMax,       \* max_databases
          DmMaxLog     \* bound on the items of the log

ASSUME DmAssumption == DmMax \in Nat /\ DmMaxLog \in Nat

VARIABLES dmList,      \* names of databases, in order
          dmCurrent,   \* current_database, as a set of at most one position
          dmLog,       \* names of the CreateDatabase items, oldest first
          dmReply      \* operation, name and result of the last call

dmVars == <<dmList, dmCurrent, dmLog, dmReply>>

DmListed(n) == \E i \in DOMAIN dmList : dmList[i] = n
DmPosition(n) == (CHOOSE i \in DOMAIN dmList : dmList[i] = n) - 1
DmAnswer(op, n, result) == dmReply' = [op |-> op, name |-> n, result |-> result]

\* create_database of DatabaseManager on a list and a log.
Created(L, log, n) ==
  IF (\E i \in DOMAIN L : L[i] = n) \/ Len(L) >= DmMax
  THEN [list |-> L, log |-> log]
  ELSE [list |-> Append(L, n), log |-> Append(log, n)]

\* What create_database says of a name.
CreateResult(n) ==
  CASE n = "" -> "ConfigError"
    [] n # "" /\ DmListed(n) -> "DatabaseExists"
    [] n # "" /\ ~DmListed(n) /\ Len(dmList) >= DmMax -> "MaxDatabasesReached"
    [] OTHER -> "Ok"

\* init_global_db creates the database "default" and logs it.
DmInit ==
  /\ dmList = <<"default">> /\ dmLog = <<"default">>
  /\ dmCurrent = {}
  /\ dmReply = [op |-> "init", name |-> "default", result |-> "Ok"]

DmCreate(n) ==
  LET c == Created(dmList, dmLog, n)
  IN  /\ Len(dmLog) < DmMaxLog
      /\ IF n = "" THEN UNCHANGED <<dmList, dmLog>>
                   ELSE dmList' = c.list /\ dmLog' = c.log
      /\ DmAnswer("create", n, CreateResult(n))
      /\ UNCHANGED dmCurrent

\* remdb_create_database: a new manager, dropped when the call returns.
DmCreateC(n) ==
  /\ Len(dmLog) < DmMaxLog
  /\ dmLog' = IF n = "" THEN dmLog ELSE Created(<<>>, dmLog, n).log
  /\ DmAnswer("create_c", n, IF n = "" THEN "ConfigError" ELSE "Ok")
  /\ UNCHANGED <<dmList, dmCurrent>>

DmFound(n) ==
  CASE n = "" -> "ConfigError"
    [] n # "" /\ ~DmListed(n) -> "DatabaseNotFound"
    [] OTHER -> "Ok"

DmUse(n) ==
  /\ dmCurrent' = IF DmListed(n) THEN {DmPosition(n)} ELSE dmCurrent
  /\ DmAnswer("use", n, DmFound(n))
  /\ UNCHANGED <<dmList, dmLog>>

DmClose(n) ==
  /\ DmAnswer("close", n, DmFound(n))
  /\ UNCHANGED <<dmList, dmCurrent, dmLog>>

\* Mutant: databases after the dropped one keep their position.
MovedNot(current, at) == current

\* current >= idx lowers the current position, that of the dropped database
\* included; position 0 wraps.
Moved(current, at) == {IF c < 0 \/ c >= at THEN c - 1 ELSE c : c \in current}

\* Nothing is logged.
DmDrop(n) ==
  /\ IF DmListed(n)
     THEN LET at == DmPosition(n)
          IN  /\ dmList' = [i \in 1 .. Len(dmList) - 1 |->
                              IF i <= at THEN dmList[i] ELSE dmList[i + 1]]
              /\ dmCurrent' = Moved(dmCurrent, at)
     ELSE UNCHANGED <<dmList, dmCurrent>>
  /\ DmAnswer("drop", n, DmFound(n))
  /\ UNCHANGED dmLog

\* A crash, init_global_db and recover: the items are replayed in order, and
\* each database they create is logged again.
Replayed(start) ==
  LET items == start.log
      step[i \in 0 .. Len(items)] ==
        IF i = 0 THEN start ELSE Created(step[i - 1].list, step[i - 1].log, items[i])
  IN  step[Len(items)]

DmRestart ==
  LET r == Replayed(Created(<<>>, dmLog, "default"))
  IN  /\ Len(dmLog) < DmMaxLog
      /\ dmList' = r.list /\ dmLog' = r.log
      /\ dmCurrent' = {}
      /\ DmAnswer("restart", "default", "Ok")

DmNext ==
  \/ \E n \in DmNames : DmCreate(n) \/ DmCreateC(n) \/ DmUse(n) \/ DmClose(n) \/ DmDrop(n)
  \/ DmRestart

DmSpec == DmInit /\ [][DmNext]_dmVars

CurrentName == {dmList[c + 1] : c \in {d \in dmCurrent : d + 1 \in DOMAIN dmList}}
Logged == {dmLog[i] : i \in DOMAIN dmLog}

\* The name of the current database changes only in use_database, in a
\* restart, and when that very database is dropped (drop_database then leaves
\* its predecessor current, or, at position 0, a position outside the list).
DmCurrentKept ==
  dmReply'.op \in {"use", "restart"} \/ CurrentName' = CurrentName
     \/ (dmReply'.op = "drop" /\ CurrentName \subseteq {dmReply'.name}
         /\ dmReply'.result = "Ok" /\ dmCurrent # {})

\* A restart brings back every database of the list, in one list without
\* duplicates and within the limit, as long as the names ever logged fit in
\* it: dropped databases come back too, and may take the place of others.
DmRecovered ==
  dmReply'.op = "restart" =>
     LET list == {dmList[i] : i \in DOMAIN dmList}
         list2 == {dmList'[i] : i \in DOMAIN dmList'}
     IN  /\ list2 \subseteq Logged
         /\ \/ Len(dmList') = DmMax
            \/ list2 = Logged /\ list \subseteq list2
         /\ \A i, j \in DOMAIN dmList' : dmList'[i] = dmList'[j] => i = j
         /\ Len(dmList') <= DmMax

\* The list of databases of lib.rs over calls of SQL and the C API, drops and
\* restarts.
DmSound == [][DmCurrentKept /\ DmRecovered]_dmVars
=============================================================================
