------------------------ MODULE KnowledgeIndexProofs ------------------------
(***************************************************************************)
(* Theorems about KnowledgeIndex, for any pages and any number of runs.    *)
(***************************************************************************)
EXTENDS KnowledgeIndex, TLAPS

\* Types of the table and of every run.
THEOREM IndexTypes == Spec => []TypeOK
<1>1. Init => TypeOK
  <2> SUFFICES ASSUME Init PROVE TypeOK
    OBVIOUS
  <2>1. built \in BOOLEAN /\ collided \in BOOLEAN /\ blind \in BOOLEAN
    BY Zenon DEF Init
  <2>2. rows \in [Id -> Nat]
    BY DEF Init, Exactly
  <2>3. QED
    BY <2>1, <2>2 DEF Init, TypeOK, InFlight
<1>2. TypeOK /\ [Next]_vars => TypeOK'
  <2> SUFFICES ASSUME TypeOK, [Next]_vars PROVE TypeOK'
    OBVIOUS
  <2> USE DEF TypeOK, Goto, InFlight
  <2>1. \A P \in SUBSET Page : Kb(P) \in SUBSET Id /\ Jit(P) \in SUBSET Id
    BY DEF Kb, Jit, Id
  <2>2. ASSUME NEW o \in Op, StartEnrich(o) PROVE TypeOK'
    BY <2>1, <2>2 DEF StartEnrich
  <2>3. ASSUME NEW o \in Op, StartRefresh(o) PROVE TypeOK'
    BY <2>3 DEF StartRefresh
  <2>4. ASSUME NEW o \in Op, StartReindex(o) PROVE TypeOK'
    BY <2>1, <2>4 DEF StartReindex
  <2>5. ASSUME NEW o \in Op, FetchPages(o) PROVE TypeOK'
    BY <2>5 DEF FetchPages
  <2>6. ASSUME NEW o \in Op, TableNames(o) PROVE TypeOK'
    <3>1. blind' \in BOOLEAN
      BY <2>6, Zenon DEF TableNames, NoTable
    <3>2. QED
      BY <2>1, <2>6, <3>1 DEF TableNames, NoTable
  <2>7. ASSUME NEW o \in Op, MigrateLegacy(o) PROVE TypeOK'
    BY <2>7 DEF MigrateLegacy, Exactly, Writes
  <2>8. ASSUME NEW o \in Op, OpenThrows(o) PROVE TypeOK'
    <3>1. blind' \in BOOLEAN
      BY <2>8, Zenon DEF OpenThrows, NoTable
    <3>2. QED
      BY <2>1, <2>8, <3>1 DEF OpenThrows, NoTable
  <2>9. ASSUME NEW o \in Op, OpenTable(o) PROVE TypeOK'
    BY <2>1, <2>9 DEF OpenTable
  <2>10. ASSUME NEW o \in Op, AddRows(o) PROVE TypeOK'
    BY <2>10 DEF AddRows, Writes
  <2>11. ASSUME NEW o \in Op, AddConflicts(o) PROVE TypeOK'
    BY <2>11 DEF AddConflicts
  <2>12. ASSUME NEW o \in Op, CreateTable(o) PROVE TypeOK'
    BY <2>12 DEF CreateTable, Exactly, Writes
  <2>13. ASSUME NEW o \in Op, WriteMeta(o) PROVE TypeOK'
    BY <2>13 DEF WriteMeta
  <2>14. ASSUME NEW o \in Op, Crash(o) PROVE TypeOK'
    BY <2>14 DEF Crash
  <2>15. CASE UNCHANGED vars
    BY <2>15 DEF vars
  <2>16. QED
    BY <2>2, <2>3, <2>4, <2>5, <2>6, <2>7, <2>8, <2>9, <2>10, <2>11, <2>12, <2>13, <2>14,
       <2>15 DEF Next, Step
<1>3. QED
  BY <1>1, <1>2, PTL DEF Spec

-----------------------------------------------------------------------------
\* Until a run is told that there is no table, only `docs reindex` creates one.
LEMMA CoreAlways == Spec => []CoreInv
<1>1. Init => CoreInv
  BY DEF Init, CoreInv
<1>2. TypeOK /\ CoreInv /\ [Next]_vars => CoreInv'
  <2> SUFFICES ASSUME TypeOK, CoreInv, [Next]_vars PROVE CoreInv'
    OBVIOUS
  <2> USE DEF TypeOK, CoreInv, Goto
  <2>1. ASSUME NEW o \in Op, StartEnrich(o) \/ StartRefresh(o) \/ StartReindex(o) PROVE CoreInv'
    BY <2>1 DEF StartEnrich, StartRefresh, StartReindex
  <2>2. ASSUME NEW o \in Op, FetchPages(o) PROVE CoreInv'
    BY <2>2 DEF FetchPages
  <2>3. ASSUME NEW o \in Op, TableNames(o) \/ OpenThrows(o) \/ MigrateLegacy(o) PROVE CoreInv'
    BY <2>3 DEF TableNames, OpenThrows, NoTable, MigrateLegacy
  <2>4. ASSUME NEW o \in Op, OpenTable(o) PROVE CoreInv'
    BY <2>4 DEF OpenTable
  <2>5. ASSUME NEW o \in Op, AddRows(o) \/ AddConflicts(o) \/ CreateTable(o) \/ WriteMeta(o)
        PROVE  CoreInv'
    BY <2>5 DEF AddRows, AddConflicts, CreateTable, WriteMeta
  <2>6. ASSUME NEW o \in Op, Crash(o) PROVE CoreInv'
    BY <2>6 DEF Crash
  <2>7. CASE UNCHANGED vars
    BY <2>7 DEF vars
  <2>8. QED
    BY <2>1, <2>2, <2>3, <2>4, <2>5, <2>6, <2>7 DEF Next, Step
<1>3. QED
  BY <1>1, <1>2, IndexTypes, PTL DEF Spec

\* Appending removes nothing, however many runs there are at once and wherever they
\* are killed, until a run is told that there is no table.
THEOREM AppendsKeep == Spec => NothingWiped
<1>1. ASSUME TypeOK, CoreInv, [Next]_vars
      PROVE  [~blind => \A i \in Present : rows'[i] = 0 => \E o \in Op : Replaces(o)]_vars
  <2> SUFFICES ASSUME ~blind, NEW i \in Present, rows'[i] = 0
               PROVE  \E o \in Op : Replaces(o)
    OBVIOUS
  <2> USE DEF TypeOK, Present
  <2>1. ASSUME NEW o \in Op, CreateTable(o) PROVE Replaces(o)
    BY <1>1, <2>1 DEF CreateTable, Goto, CoreInv, Replaces
  <2>2. ASSUME NEW o \in Op, AddRows(o) PROVE FALSE
    BY <1>1, <2>2 DEF AddRows
  <2>3. ASSUME NEW o \in Op, MigrateLegacy(o) PROVE FALSE
    BY <1>1, <2>3 DEF MigrateLegacy, Goto, CoreInv
  <2>4. rows' # rows
    BY <1>1
  <2>5. QED
    BY <1>1, <2>1, <2>2, <2>3, <2>4
       DEF Next, Step, StartEnrich, StartRefresh, StartReindex, FetchPages, TableNames, OpenThrows,
           OpenTable, AddConflicts, WriteMeta, Crash, vars
<1>2. QED
  BY <1>1, CoreAlways, IndexTypes, PTL DEF Spec, NothingWiped

\* Until a run writes between another's filter and its append, what a run is about
\* to append is not in the table.
LEMMA FreshAlways == Spec => []FreshInv
<1>1. Init => FreshInv
  BY IndexAssumption DEF Init, FreshInv, Exactly
<1>2. TypeOK /\ FreshInv /\ [Next]_vars => FreshInv'
  <2> DEFINE Single  == \A i \in Id : rows[i] <= 1
             Missing == \A o \in Op : pc[o] = "add" => incoming[o] \cap Present = {}
             Writing(o) == AddRows(o) \/ CreateTable(o) \/ MigrateLegacy(o)
  <2> SUFFICES ASSUME TypeOK, FreshInv, [Next]_vars, ~collided'
               PROVE  Single' /\ Missing'
    BY DEF FreshInv
  <2> USE DEF TypeOK, Goto, Present
  <2>0. ~collided => Single /\ Missing
    BY DEF FreshInv
  <2>1. ASSUME NEW o \in Op,
               \/ StartEnrich(o) \/ StartRefresh(o) \/ StartReindex(o) \/ FetchPages(o)
               \/ TableNames(o) \/ OpenThrows(o) \/ AddConflicts(o) \/ WriteMeta(o) \/ Crash(o)
        PROVE  Single' /\ Missing'
    <3>1. UNCHANGED <<rows, collided>>
      BY <2>1 DEF StartEnrich, StartRefresh, StartReindex, FetchPages, TableNames, OpenThrows,
                  AddConflicts, WriteMeta, Crash
    <3>2. \A q \in Op : pc'[q] = "add" => pc[q] = "add" /\ incoming'[q] = incoming[q]
      BY <2>1 DEF StartEnrich, StartRefresh, StartReindex, FetchPages, TableNames, OpenThrows,
                  NoTable, AddConflicts, WriteMeta, Crash
    <3>3. QED
      BY <2>0, <3>1, <3>2
  <2>2. ASSUME NEW o \in Op, OpenTable(o) PROVE Single' /\ Missing'
    BY <2>0, <2>2 DEF OpenTable
  <2>3. ASSUME NEW o \in Op, Writing(o)
        PROVE  Single /\ Missing /\ \A q \in Op : pc'[q] # "add"
    <3>1. ~collided /\ \A q \in Op \ {o} : pc[q] # "add"
      <4>1. Writes(o)
        BY <2>3 DEF AddRows, CreateTable, MigrateLegacy
      <4>2. QED
        BY <4>1, Zenon DEF Writes
    <3>2. pc' = [pc EXCEPT ![o] = "stamp"] \/ pc' = [pc EXCEPT ![o] = "open"]
      BY <2>3 DEF AddRows, CreateTable, MigrateLegacy
    <3>3. QED
      BY <2>0, <3>1, <3>2
  <2>4. ASSUME NEW o \in Op, AddRows(o) PROVE Single' /\ Missing'
    <3>1. Single /\ Missing /\ \A q \in Op : pc'[q] # "add"
      BY <2>3, <2>4
    <3>2. pc[o] = "add" /\ rows' = [i \in Id |-> IF i \in incoming[o] THEN rows[i] + 1 ELSE rows[i]]
      BY <2>4 DEF AddRows
    <3>3. \A i \in incoming[o] : rows[i] = 0
      <4>1. incoming[o] \cap Present = {} /\ incoming[o] \subseteq Id
        BY <3>1, <3>2
      <4>2. QED
        BY <4>1
    <3>4. Single'
      BY <3>1, <3>2, <3>3
    <3>5. QED
      BY <3>1, <3>4
  <2>5. ASSUME NEW o \in Op, CreateTable(o) \/ MigrateLegacy(o) PROVE Single' /\ Missing'
    <3>1. Single'
      BY <2>5 DEF CreateTable, MigrateLegacy, Exactly
    <3>2. QED
      BY <2>3, <2>5, <3>1
  <2>6. CASE UNCHANGED vars
    BY <2>0, <2>6 DEF vars
  <2>7. QED
    BY <2>1, <2>2, <2>4, <2>5, <2>6 DEF Next, Step
<1>3. QED
  BY <1>1, <1>2, IndexTypes, PTL DEF Spec

\* The inductive invariant of the index: who creates tables, and what is appended.
THEOREM IndexInvariant == Spec => []IndexInv
BY CoreAlways, FreshAlways, PTL DEF IndexInv

\* No chunk is stored twice, whoever runs beside whom, wherever runs are killed and
\* whatever fails, until a run writes between another's filter and its append.
THEOREM AppendsDedup == Spec => []Deduped
<1>1. FreshInv => Deduped
  BY DEF FreshInv, Deduped
<1>2. QED
  BY <1>1, FreshAlways, PTL
=============================================================================
