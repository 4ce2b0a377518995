------------------------ MODULE ResidualAssembly_proofs ------------------------
(***************************************************************************)
(* The distributed assembly of the residual, for any number of processes,  *)
(* any partitioned mesh and any interleaving of the processes.             *)
(***************************************************************************)
EXTENDS ResidualAssembly, NaturalsInduction, WellFoundedInduction, TLAPS

IsSetting(s) ==
  /\ s \in [form: {"weak", "strong"}, auxiliary: BOOLEAN, dissipation: BOOLEAN]
  /\ s.auxiliary => s.form = "strong"

\* The call is one of those considered.
CallOK == IsMesh(mesh) /\ IsSetting(setting)

Row == [Cells -> SUBSET Tag]

TypeInv == CallOK /\ TypeOK

(***************************************************************************)
(* The mesh.                                                               *)
(***************************************************************************)
\* The neighbour of a cell across one of its interfaces is a cell.
LEMMA EndsAreCells ==
  ASSUME IsMesh(mesh), NEW e \in Interfaces
  PROVE  /\ Ends(e) \subseteq Cells
         /\ Kind(e) \in Kinds
         /\ \A c \in Cells : Neighbor(c, e) \in Cells
  BY DEF IsMesh, Ends, Neighbor, Kind, Cells, Interfaces

\* The loop of a process visits its cells and their interfaces, all of them.
LEMMA Visits ==
  ASSUME IsMesh(mesh), NEW r \in Ranks
  PROVE  /\ Len(mesh.tasks[r]) \in Nat
         /\ \A i \in 1 .. Len(mesh.tasks[r]) :
              LET c == mesh.tasks[r][i][1]
                  t == mesh.tasks[r][i][2]
              IN  /\ mesh.tasks[r][i] = <<c, t>>
                  /\ c \in Owned(r) /\ c \in Cells
                  /\ t \in Terms(c) /\ t \in {Volume} \cup Interfaces
         /\ \A c \in Owned(r) : \A t \in Terms(c) :
              \E i \in 1 .. Len(mesh.tasks[r]) : mesh.tasks[r][i] = <<c, t>>
<1>1. mesh.tasks[r] \in Seq(Cells \X ({Volume} \cup Interfaces))
  BY DEF IsMesh, Cells, Interfaces
<1>2. ASSUME NEW c \in Cells, NEW t \in {Volume} \cup Interfaces
      PROVE  (\E i \in 1 .. Len(mesh.tasks[r]) : mesh.tasks[r][i] = <<c, t>>)
               <=> c \in Owned(r) /\ t \in Terms(c)
  <2>1. (\E i \in 1 .. Len(mesh.tasks[r]) : mesh.tasks[r][i] = <<c, t>>)
          <=> /\ mesh.rank[c] = r
              /\ t # Volume => c \in {mesh.face[t].a, mesh.face[t].b}
    BY Zenon DEF IsMesh, Cells, Interfaces
  <2> QED
    BY <2>1 DEF Cells, Interfaces, Owned, Terms, Ends
<1>3. ASSUME NEW i \in 1 .. Len(mesh.tasks[r])
      PROVE  LET c == mesh.tasks[r][i][1]
                 t == mesh.tasks[r][i][2]
             IN  /\ mesh.tasks[r][i] = <<c, t>>
                 /\ c \in Owned(r) /\ c \in Cells
                 /\ t \in Terms(c) /\ t \in {Volume} \cup Interfaces
  <2>1. mesh.tasks[r][i] \in Cells \X ({Volume} \cup Interfaces)
    BY <1>1
  <2>2. PICK c \in Cells, t \in {Volume} \cup Interfaces :
               mesh.tasks[r][i] = <<c, t>>
    BY <2>1
  <2> QED
    BY <1>2, <2>2
<1>4. ASSUME NEW c \in Owned(r), NEW t \in Terms(c)
      PROVE  \E i \in 1 .. Len(mesh.tasks[r]) : mesh.tasks[r][i] = <<c, t>>
  <2>1. c \in Cells /\ t \in {Volume} \cup Interfaces
    BY DEF Owned, Terms
  <2> QED
    BY <1>2, <2>1
<1> QED
  BY <1>1, <1>3, <1>4

(***************************************************************************)
(* The types.                                                              *)
(***************************************************************************)
\* One row array of one process is replaced.
LEMMA RowsSet ==
  ASSUME NEW F \in [Ranks -> [Loops -> Row]], NEW r \in Ranks, NEW l \in Loops,
         NEW row \in Row
  PROVE  LET G == [F EXCEPT ![r][l] = row]
         IN  /\ G \in [Ranks -> [Loops -> Row]]
             /\ \A n \in Ranks, k \in Loops :
                  G[n][k] = IF n = r /\ k = l THEN row ELSE F[n][k]
  BY Zenon

\* The operators that the loop carries are built for degrees that occur.
LEMMA OperatorsType_kept ==
  ASSUME TypeInv, NEW r \in Ranks, NEW c \in Cells,
         NEW t \in {Volume} \cup Interfaces
  PROVE  OperatorsUsed(operators[r], c, t) \in OperatorsType(0 .. MaxDegree)
<1> DEFINE D == 0 .. MaxDegree
           o == operators[r]
<1>1. o \in OperatorsType(D)
  BY DEF TypeInv, TypeOK
<1>2. mesh.degree[c] \in D
  BY DEF TypeInv, CallOK, IsMesh, Cells
<1>3. t # Volume => mesh.degree[Neighbor(c, t)] \in D
  BY EndsAreCells DEF TypeInv, CallOK, IsMesh, Cells
<1>4. \A p \in D : VolumeOperators(o, p) \in OperatorsType(D)
  BY <1>1 DEF VolumeOperators, Reinit, OperatorsType
<1>5. \A p, q \in D : FaceOperators(o, p, q) \in OperatorsType(D)
  BY <1>1 DEF FaceOperators, Reinit, OperatorsType
<1>6. setting.form \in {"weak", "strong"}
  BY DEF TypeInv, CallOK, IsSetting
<1> HIDE DEF D, o
<1>7. OperatorsUsed(o, c, t) \in OperatorsType(D)
  BY <1>1, <1>2, <1>3, <1>4, <1>5, <1>6 DEF OperatorsUsed
<1> QED
  BY <1>7 DEF D, o

\* The types of the variables after a step that leaves the mesh alone.
TypesAfter ==
  /\ stage' \in [Ranks -> Stages]
  /\ loop' \in [Ranks -> Loops]
  /\ at' \in [Ranks -> Nat]
  /\ \A r \in Ranks : at'[r] \in 1 .. (Len(mesh.tasks[r]) + 1)
  /\ operators' \in [Ranks -> OperatorsType(0 .. MaxDegree)]
  /\ error' \in [Ranks -> BOOLEAN]
  /\ filled' \in [Ranks -> BOOLEAN]
  /\ local' \in [Ranks -> [Loops -> Row]]
  /\ assembled' \in [Ranks -> [Loops -> Row]]
  /\ posted' \in [Ranks -> SUBSET (Loops \X Stages)]

\* A step leaves the mesh and the parameters alone.
LEMMA CallFixed ==
  ASSUME [Next]_vars
  PROVE  mesh' = mesh /\ setting' = setting
<1>1. CASE UNCHANGED vars
  BY <1>1 DEF vars
<1>2. ASSUME NEW r \in Ranks, Step(r)
      PROVE  mesh' = mesh /\ setting' = setting
  BY <1>2 DEF Step, UpdateSensor, SensorUpdated, NoSensor, AddTerm, Throw, Abort,
              FinishLoop, SumErrors, Add, UpdateGhosts, Catch
<1> QED
  BY <1>1, <1>2 DEF Next

\* So does what a process sends.
LEMMA PostTypes ==
  ASSUME TypeInv, NEW r \in Ranks, NEW l \in Loops, NEW what \in Stages,
         Post(r, l, what)
  PROVE  posted' \in [Ranks -> SUBSET (Loops \X Stages)]
  BY DEF TypeInv, TypeOK, Post

\* Beginning, leaving or failing the sensor keeps the types.
LEMMA SensorTypes ==
  ASSUME TypeInv, NEW r \in Ranks,
         UpdateSensor(r) \/ SensorUpdated(r) \/ NoSensor(r) \/ Throw(r)
  PROVE  TypesAfter
<1> USE DEF TypeInv, TypeOK, TypesAfter, Row, Stages, Loops
<1>1. CASE Catch(r)
  <2>1. posted' \in [Ranks -> SUBSET (Loops \X Stages)]
    BY <1>1, PostTypes DEF Catch
  <2>2. error' \in [Ranks -> BOOLEAN]
    BY <1>1, Zenon DEF Catch
  <2> QED
    BY <1>1, <2>1, <2>2 DEF Catch
<1>2. CASE SensorUpdated(r) \/ NoSensor(r)
  BY <1>2 DEF SensorUpdated, NoSensor
<1>3. CASE UpdateSensor(r) /\ ~Catch(r)
  <2>1. posted' = [posted EXCEPT ![r] = @ \cup {<<loop[r], "sensor">>}]
    BY <1>3 DEF UpdateSensor, Post
  <2>2. <<loop[r], "sensor">> \in Loops \X Stages
    OBVIOUS
  <2> QED
    BY <1>3, <2>1, <2>2 DEF UpdateSensor
<1> QED
  BY <1>1, <1>2, <1>3 DEF Throw

\* A term, with its row and the operators it needed, keeps the types.
LEMMA AddTermTypes ==
  ASSUME TypeInv, NEW r \in Ranks, AddTerm(r)
  PROVE  TypesAfter
<1> DEFINE c == mesh.tasks[r][at[r]][1]
           t == mesh.tasks[r][at[r]][2]
           l == loop[r]
           row == [x \in Cells |-> IF x \in Rows(c, t)
                                   THEN local[r][l][x] \cup {<<c, t>>}
                                   ELSE local[r][l][x]]
<1>1. /\ at[r] \in 1 .. Len(mesh.tasks[r]) /\ Len(mesh.tasks[r]) \in Nat
      /\ l \in Loops
      /\ local \in [Ranks -> [Loops -> Row]]
  BY Visits DEF AddTerm, TypeInv, TypeOK, CallOK, Row
<1>2. c \in Cells /\ t \in {Volume} \cup Interfaces
  BY <1>1, Visits DEF TypeInv, CallOK
<1>3. row \in Row
  <2>1. <<c, t>> \in Tag
    BY <1>2 DEF Tag
  <2>2. \A x \in Cells : local[r][l][x] \in SUBSET Tag
    BY <1>1 DEF Row
  <2> HIDE DEF c, t
  <2> QED
    BY <2>1, <2>2 DEF Row
<1>4. local' = [local EXCEPT ![r][l] = row]
  BY DEF AddTerm
<1>5. local' \in [Ranks -> [Loops -> Row]]
  BY <1>1, <1>3, <1>4, RowsSet
<1>6. operators' \in [Ranks -> OperatorsType(0 .. MaxDegree)]
  <2>1. OperatorsUsed(operators[r], c, t) \in OperatorsType(0 .. MaxDegree)
    BY <1>2, OperatorsType_kept
  <2>2. operators' = [operators EXCEPT ![r] = OperatorsUsed(operators[r], c, t)]
    BY DEF AddTerm
  <2> HIDE DEF c, t
  <2> QED
    BY <2>1, <2>2 DEF TypeInv, TypeOK
<1>7. /\ at' \in [Ranks -> Nat]
      /\ \A n \in Ranks : at'[n] \in 1 .. (Len(mesh.tasks[n]) + 1)
  BY <1>1 DEF AddTerm, TypeInv, TypeOK
<1> QED
  BY <1>5, <1>6, <1>7 DEF AddTerm, TypesAfter, TypeInv, TypeOK, Row

\* Ending the loop, or the program, keeps the types.
LEMMA FinishTypes ==
  ASSUME TypeInv, NEW r \in Ranks, Abort(r) \/ FinishLoop(r)
  PROVE  TypesAfter
<1> USE DEF TypeInv, TypeOK, TypesAfter, Row, Stages, Loops
<1>1. CASE Abort(r)
  BY <1>1 DEF Abort
<1>2. CASE FinishLoop(r)
  BY <1>2 DEF FinishLoop, Post
<1> QED
  BY <1>1, <1>2

\* The row of ones that takes the place of a residual.
LEMMA OnesType ==
  ASSUME NEW F \in Row, NEW r \in Ranks
  PROVE  [c \in Cells |-> IF c \in Owned(r) THEN {Ones} ELSE F[c]] \in Row
<1>1. {Ones} \in SUBSET Tag
  BY DEF Ones, Tag, Volume
<1> QED
  BY <1>1 DEF Row

\* The sum of the errors keeps the types.
LEMMA SumErrorsTypes ==
  ASSUME TypeInv, NEW r \in Ranks, SumErrors(r)
  PROVE  TypesAfter
<1> DEFINE F == local[r]["primary"]
           row == [c \in Cells |-> IF c \in Owned(r) THEN {Ones} ELSE F[c]]
<1>1. /\ local \in [Ranks -> [Loops -> Row]]
      /\ "primary" \in Loops /\ F \in Row
  BY DEF TypeInv, TypeOK, Row, Loops
<1>2. row \in Row
  BY <1>1, OnesType
<1>3. local' = [local EXCEPT ![r]["primary"] = row] \/ local' = local
  BY DEF SumErrors
<1>4. local' \in [Ranks -> [Loops -> Row]]
  <2> HIDE DEF row
  <2>1. [local EXCEPT ![r]["primary"] = row] \in [Ranks -> [Loops -> Row]]
    BY <1>1, <1>2, RowsSet
  <2> QED
    BY <1>1, <1>3, <2>1
<1>5. filled' \in [Ranks -> BOOLEAN]
  BY DEF SumErrors, TypeInv, TypeOK
<1> QED
  BY <1>4, <1>5 DEF SumErrors, Post, TypesAfter, TypeInv, TypeOK, Row, Stages, Loops

\* The exchanges keep the types.
LEMMA AddTypes ==
  ASSUME TypeInv, NEW r \in Ranks, Add(r)
  PROVE  TypesAfter
<1> DEFINE l == loop[r]
           row == [c \in Cells |->
                     IF c \in Owned(r)
                     THEN local[r][l][c] \cup UNION {local[n][l][c] : n \in Sharing(r)}
                     ELSE {}]
<1>1. /\ local \in [Ranks -> [Loops -> Row]]
      /\ assembled \in [Ranks -> [Loops -> Row]]
      /\ l \in Loops
  BY DEF TypeInv, TypeOK, Row
<1>2. Sharing(r) \subseteq Ranks
  BY DEF Sharing, Ghosts, TypeInv, CallOK, IsMesh, Cells
<1>3. row \in Row
  <2>1. \A n \in Ranks, c \in Cells : local[n][l][c] \in SUBSET Tag
    BY <1>1 DEF Row
  <2> QED
    BY <1>2, <2>1 DEF Row
<1>4. assembled' = [assembled EXCEPT ![r][l] = row]
  BY DEF Add
<1>5. assembled' \in [Ranks -> [Loops -> Row]]
  BY <1>1, <1>3, <1>4, RowsSet
<1> QED
  BY <1>5 DEF Add, Post, TypesAfter, TypeInv, TypeOK, Row, Stages, Loops

\* The ghosts of a process are rows of others.
LEMMA GhostRanks ==
  ASSUME IsMesh(mesh), NEW r \in Ranks, NEW c \in Ghosts(r)
  PROVE  /\ c \in Cells /\ mesh.rank[c] \in Ranks /\ mesh.rank[c] # r
         /\ mesh.rank[c] \in Sharing(r)
         /\ c \in Owned(mesh.rank[c])
  BY DEF Ghosts, Owned, Sharing, IsMesh, Cells

\* Reading the ghosts, and beginning the loop of the primary equation, keep the
\* types.
LEMMA UpdateGhostsTypes ==
  ASSUME TypeInv, NEW r \in Ranks, UpdateGhosts(r)
  PROVE  TypesAfter
<1> DEFINE l == loop[r]
           row == [c \in Cells |-> IF c \in Ghosts(r)
                                   THEN assembled[mesh.rank[c]][l][c]
                                   ELSE assembled[r][l][c]]
<1>1. /\ assembled \in [Ranks -> [Loops -> Row]]
      /\ l \in Loops
  BY DEF TypeInv, TypeOK, Row
<1>2. row \in Row
  <2>1. \A n \in Ranks, c \in Cells : assembled[n][l][c] \in SUBSET Tag
    BY <1>1 DEF Row
  <2>2. \A c \in Ghosts(r) : mesh.rank[c] \in Ranks
    BY GhostRanks DEF TypeInv, CallOK
  <2> QED
    BY <2>1, <2>2 DEF Row
<1>3. assembled' = [assembled EXCEPT ![r][l] = row]
  BY DEF UpdateGhosts
<1>4. assembled' \in [Ranks -> [Loops -> Row]]
  BY <1>1, <1>2, <1>3, RowsSet
<1>5. /\ Operators(MaxDegree) \in OperatorsType(0 .. MaxDegree)
      /\ \A n \in Ranks : 1 \in 1 .. (Len(mesh.tasks[n]) + 1)
  <2>1. MaxDegree \in 0 .. MaxDegree
    BY CallsAssumption
  <2>2. \A n \in Ranks : Len(mesh.tasks[n]) \in Nat
    BY Visits DEF TypeInv, CallOK
  <2> QED
    BY <2>1, <2>2 DEF Operators, OperatorsType
<1>6. /\ stage' \in [Ranks -> Stages]
      /\ loop' \in [Ranks -> Loops]
      /\ at' \in [Ranks -> Nat]
      /\ \A n \in Ranks : at'[n] \in 1 .. (Len(mesh.tasks[n]) + 1)
      /\ operators' \in [Ranks -> OperatorsType(0 .. MaxDegree)]
  <2>1. CASE loop[r] = "auxiliary"
    <3>1. /\ at' = [at EXCEPT ![r] = 1]
          /\ operators' = [operators EXCEPT ![r] = Operators(MaxDegree)]
          /\ loop' = [loop EXCEPT ![r] = "primary"]
          /\ stage' = [stage EXCEPT ![r] = "cells"]
      BY <2>1 DEF UpdateGhosts
    <3>2. /\ at' \in [Ranks -> Nat]
          /\ \A n \in Ranks : at'[n] \in 1 .. (Len(mesh.tasks[n]) + 1)
      BY <1>5, <3>1 DEF TypeInv, TypeOK
    <3>3. operators' \in [Ranks -> OperatorsType(0 .. MaxDegree)]
      BY <1>5, <3>1 DEF TypeInv, TypeOK
    <3> QED
      BY <3>1, <3>2, <3>3 DEF TypeInv, TypeOK, Stages, Loops
  <2>2. CASE loop[r] # "auxiliary"
    BY <2>2 DEF UpdateGhosts, TypeInv, TypeOK, Stages, Loops
  <2> QED
    BY <2>1, <2>2
<1> QED
  BY <1>4, <1>6 DEF UpdateGhosts, TypesAfter, TypeInv, TypeOK, Row

\* Every step keeps the types.
LEMMA TypeStep == TypeInv /\ [Next]_vars => TypeInv'
<1> SUFFICES ASSUME TypeInv, [Next]_vars PROVE TypeInv'
  OBVIOUS
<1>1. mesh' = mesh /\ setting' = setting
  BY CallFixed
<1>2. CASE UNCHANGED vars
  BY <1>2 DEF vars, TypesAfter, TypeInv, TypeOK, Row, CallOK, Cells, Interfaces,
              Tag
<1>3. CASE Next
  <2>1. TypesAfter
    BY <1>3, SensorTypes, AddTermTypes, FinishTypes, SumErrorsTypes, AddTypes,
       UpdateGhostsTypes DEF Next, Step
  <2> QED
    BY <1>1, <2>1 DEF TypesAfter, TypeInv, TypeOK, Row, CallOK, Cells, Interfaces,
                      Tag
<1> QED
  BY <1>2, <1>3

\* The state in which the processes enter the call.
LEMMA TypeInit == Init => TypeInv
<1> SUFFICES ASSUME Init PROVE TypeInv
  OBVIOUS
<1>1. CallOK
  BY CallsAssumption DEF Init, CallOK, IsSetting
<1>2. /\ Operators(MaxDegree) \in OperatorsType(0 .. MaxDegree)
      /\ \A n \in Ranks : 1 \in 1 .. (Len(mesh.tasks[n]) + 1)
  <2>1. MaxDegree \in 0 .. MaxDegree
    BY CallsAssumption
  <2>2. \A n \in Ranks : Len(mesh.tasks[n]) \in Nat
    BY <1>1, Visits DEF CallOK
  <2> QED
    BY <2>1, <2>2 DEF Operators, OperatorsType
<1> QED
  BY <1>1, <1>2 DEF Init, TypeInv, TypeOK, Stages, Loops

(***************************************************************************)
(* What a step does to the process that makes it, and to the others.       *)
(***************************************************************************)
\* Process n is where it was, with what it had.
Same(n) ==
  /\ stage'[n] = stage[n] /\ loop'[n] = loop[n] /\ at'[n] = at[n]
  /\ error'[n] = error[n] /\ filled'[n] = filled[n] /\ posted'[n] = posted[n]
  /\ local'[n] = local[n] /\ assembled'[n] = assembled[n]

\* A step of one process moves no other, unless it ends the program.
LEMMA OthersSame ==
  ASSUME TypeInv, NEW r \in Ranks, Step(r), ~Abort(r),
         NEW n \in Ranks, n # r
  PROVE  Same(n)
<1> USE DEF TypeInv, TypeOK, Same
<1>1. CASE Catch(r)
  BY <1>1 DEF Catch, Post
<1>2. CASE UpdateSensor(r) /\ ~Catch(r)
  BY <1>2 DEF UpdateSensor, Post
<1>3. CASE SensorUpdated(r) \/ NoSensor(r)
  BY <1>3 DEF SensorUpdated, NoSensor
<1>4. CASE AddTerm(r)
  BY <1>4 DEF AddTerm
<1>5. CASE FinishLoop(r)
  BY <1>5 DEF FinishLoop, Post
<1>6. CASE SumErrors(r)
  BY <1>6 DEF SumErrors, Post
<1>7. CASE Add(r)
  BY <1>7 DEF Add, Post
<1>8. CASE UpdateGhosts(r)
  <2>1. CASE loop[r] = "auxiliary"
    BY <1>8, <2>1 DEF UpdateGhosts
  <2>2. CASE loop[r] # "auxiliary"
    BY <1>8, <2>2 DEF UpdateGhosts
  <2> QED
    BY <2>1, <2>2
<1> QED
  BY <1>1, <1>2, <1>3, <1>4, <1>5, <1>6, <1>7, <1>8 DEF Step, Throw

\* Where the step takes process r, and what it has sent then.
Goes(r, s, l, sent) ==
  /\ stage'[r] = s /\ loop'[r] = l /\ posted'[r] = posted[r] \cup sent

Keeps(r) == error'[r] = error[r] /\ filled'[r] = filled[r]

\* The steps that begin a loop, and those that stop it early.
LEMMA BeginEffects ==
  ASSUME TypeInv, NEW r \in Ranks
  PROVE  /\ Catch(r) => /\ Goes(r, "sum", "primary", {<<"primary", "sum">>})
                        /\ error'[r] = TRUE /\ filled'[r] = filled[r]
                        /\ local' = local /\ assembled' = assembled
         /\ UpdateSensor(r) /\ ~Catch(r) =>
              /\ Goes(r, "sensor", loop[r], {<<loop[r], "sensor">>}) /\ Keeps(r)
              /\ at' = at /\ local' = local /\ assembled' = assembled
         /\ SensorUpdated(r) \/ NoSensor(r) =>
              /\ Goes(r, "cells", loop[r], {}) /\ Keeps(r)
              /\ at' = at /\ local' = local /\ assembled' = assembled
<1> USE DEF TypeInv, TypeOK, Goes, Keeps
<1>1. ASSUME Catch(r)
      PROVE  /\ Goes(r, "sum", "primary", {<<"primary", "sum">>})
             /\ error'[r] = TRUE /\ filled'[r] = filled[r]
             /\ local' = local /\ assembled' = assembled
  BY <1>1 DEF Catch, Post
<1>2. ASSUME UpdateSensor(r), ~Catch(r)
      PROVE  /\ Goes(r, "sensor", loop[r], {<<loop[r], "sensor">>}) /\ Keeps(r)
             /\ at' = at /\ local' = local /\ assembled' = assembled
  BY <1>2 DEF UpdateSensor, Post
<1>3. ASSUME SensorUpdated(r) \/ NoSensor(r)
      PROVE  /\ Goes(r, "cells", loop[r], {}) /\ Keeps(r)
             /\ at' = at /\ local' = local /\ assembled' = assembled
  BY <1>3 DEF SensorUpdated, NoSensor
<1> QED
  BY <1>1, <1>2, <1>3

\* The steps of the loop.
LEMMA LoopEffects ==
  ASSUME TypeInv, NEW r \in Ranks
  PROVE  /\ AddTerm(r) =>
              /\ Goes(r, "cells", loop[r], {}) /\ Keeps(r)
              /\ at'[r] = at[r] + 1 /\ assembled' = assembled
         /\ FinishLoop(r) =>
              LET next == IF loop[r] = "auxiliary" THEN "add" ELSE "sum"
              IN  /\ Goes(r, next, loop[r], {<<loop[r], next>>}) /\ Keeps(r)
                  /\ local' = local /\ assembled' = assembled
<1> USE DEF TypeInv, TypeOK, Goes, Keeps
<1>1. ASSUME AddTerm(r)
      PROVE  /\ Goes(r, "cells", loop[r], {}) /\ Keeps(r)
             /\ at'[r] = at[r] + 1 /\ assembled' = assembled
  BY <1>1 DEF AddTerm
<1>2. ASSUME FinishLoop(r)
      PROVE  LET next == IF loop[r] = "auxiliary" THEN "add" ELSE "sum"
             IN  /\ Goes(r, next, loop[r], {<<loop[r], next>>}) /\ Keeps(r)
                 /\ local' = local /\ assembled' = assembled
  BY <1>2 DEF FinishLoop, Post
<1> QED
  BY <1>1, <1>2

\* The sum and the exchanges.
LEMMA ExchangeEffects ==
  ASSUME TypeInv, NEW r \in Ranks
  PROVE  /\ SumErrors(r) =>
              /\ Goes(r, "add", loop[r], {<<"primary", "add">>})
              /\ error'[r] = error[r] /\ filled'[r] = \E n \in Ranks : error[n]
              /\ (\E n \in Ranks : error[n]) \/ local' = local
              /\ assembled' = assembled
         /\ Add(r) =>
              /\ Goes(r, "ghosts", loop[r], {<<loop[r], "ghosts">>}) /\ Keeps(r)
              /\ local' = local
         /\ UpdateGhosts(r) /\ loop[r] = "auxiliary" =>
              /\ Goes(r, "cells", "primary", {}) /\ Keeps(r)
              /\ at'[r] = 1 /\ local' = local
         /\ UpdateGhosts(r) /\ loop[r] # "auxiliary" =>
              /\ Goes(r, "returned", loop[r], {}) /\ Keeps(r)
              /\ local' = local
<1> USE DEF TypeInv, TypeOK, Goes, Keeps
<1>1. ASSUME SumErrors(r)
      PROVE  /\ Goes(r, "add", loop[r], {<<"primary", "add">>})
             /\ error'[r] = error[r] /\ filled'[r] = \E n \in Ranks : error[n]
             /\ (\E n \in Ranks : error[n]) \/ local' = local
             /\ assembled' = assembled
  <2>1. filled' = [filled EXCEPT ![r] = \E n \in Ranks : error[n]]
    BY <1>1 DEF SumErrors
  <2>2. filled'[r] = \E n \in Ranks : error[n]
    BY <2>1
  <2> QED
    BY <1>1, <2>2 DEF SumErrors, Post
<1>2. ASSUME Add(r)
      PROVE  /\ Goes(r, "ghosts", loop[r], {<<loop[r], "ghosts">>}) /\ Keeps(r)
             /\ local' = local
  BY <1>2 DEF Add, Post
<1>3. ASSUME UpdateGhosts(r), loop[r] = "auxiliary"
      PROVE  /\ Goes(r, "cells", "primary", {}) /\ Keeps(r)
             /\ at'[r] = 1 /\ local' = local
  BY <1>3 DEF UpdateGhosts
<1>4. ASSUME UpdateGhosts(r), loop[r] # "auxiliary"
      PROVE  /\ Goes(r, "returned", loop[r], {}) /\ Keeps(r)
             /\ local' = local
  BY <1>4 DEF UpdateGhosts
<1> QED
  BY <1>1, <1>2, <1>3, <1>4

(***************************************************************************)
(* Where a process is tells what it has sent.                              *)
(***************************************************************************)
Sent(r, l, what) == <<l, what>> \in posted[r]

\* One more exchange has been sent.
LEMMA SentAfter ==
  ASSUME NEW r, NEW s, NEW l, NEW m, NEW what, Goes(r, s, l, {<<m, what>>})
  PROVE  \A k, w : (<<k, w>> \in posted'[r]) <=> <<k, w>> \in posted[r] \/ (k = m /\ w = what)
  BY DEF Goes

\* Nothing has been sent.
LEMMA NothingSent ==
  ASSUME NEW r, NEW s, NEW l, Goes(r, s, l, {})
  PROVE  \A k, w : (<<k, w>> \in posted'[r]) <=> <<k, w>> \in posted[r]
  BY DEF Goes

ControlOf(r) ==
  /\ stage[r] \in {"start", "sensor"} =>
       /\ at[r] = 1
       /\ loop[r] = (IF setting.auxiliary THEN "auxiliary" ELSE "primary")
  /\ stage[r] \in {"sum", "returned"} => loop[r] = "primary"
  /\ stage[r] \in {"start", "sensor", "cells"} =>
       /\ ~Sent(r, loop[r], "add") /\ ~Sent(r, loop[r], "ghosts")
       /\ ~Sent(r, "primary", "sum")
  /\ loop[r] = "auxiliary" /\ stage[r] # "aborted" =>
       /\ ~Sent(r, "primary", "sum") /\ ~Sent(r, "primary", "add")
       /\ ~Sent(r, "primary", "ghosts")
  /\ stage[r] = "sum" => ~Sent(r, "primary", "add") /\ ~Sent(r, "primary", "ghosts")
  /\ stage[r] = "add" => Sent(r, loop[r], "add") /\ ~Sent(r, loop[r], "ghosts")
  /\ stage[r] \in {"ghosts", "returned"} => Sent(r, loop[r], "ghosts")

Control == \A r \in Ranks : ControlOf(r)

\* Every step keeps what the place of a process tells.
LEMMA ControlStep == TypeInv /\ Control /\ [Next]_vars => Control'
<1> SUFFICES ASSUME TypeInv, Control, [Next]_vars, NEW n \in Ranks
             PROVE  ControlOf(n)'
  BY DEF Control
<1>0. ControlOf(n) /\ setting' = setting
  BY CallFixed DEF Control
<1>1. CASE UNCHANGED vars
  BY <1>0, <1>1 DEF vars, ControlOf, Sent
<1>2. ASSUME NEW r \in Ranks, Step(r), ~Abort(r), n # r
      PROVE  ControlOf(n)'
  BY <1>0, <1>2, OthersSame DEF Same, ControlOf, Sent
<1>3. ASSUME NEW r \in Ranks, Abort(r)
      PROVE  ControlOf(n)'
  <2>1. stage'[n] = "aborted"
    BY <1>3 DEF Abort
  <2> QED
    BY <2>1 DEF ControlOf
<1>4. ASSUME Step(n), ~Abort(n)
      PROVE  ControlOf(n)'
  <2>0. loop[n] \in {"auxiliary", "primary"}
    BY DEF TypeInv, TypeOK, Loops
  <2>1. CASE Catch(n) /\ (UpdateSensor(n) \/ Throw(n))
    <3>1. stage[n] \in {"start", "cells"}
      BY <2>1 DEF UpdateSensor, Throw, AtDistorted
    <3>2. Goes(n, "sum", "primary", {<<"primary", "sum">>})
      BY <2>1, BeginEffects
    <3> QED
      BY <1>0, <2>0, <3>1, <3>2, SentAfter DEF ControlOf, Sent, Goes
  <2>2. CASE UpdateSensor(n) /\ ~Catch(n)
    <3>1. /\ Goes(n, "sensor", loop[n], {<<loop[n], "sensor">>})
          /\ at' = at /\ stage[n] = "start"
      BY <2>2, BeginEffects DEF UpdateSensor
    <3> QED
      BY <1>0, <2>0, <3>1, SentAfter DEF ControlOf, Sent, Goes
  <2>3. CASE SensorUpdated(n) \/ NoSensor(n)
    <3>1. /\ Goes(n, "cells", loop[n], {})
          /\ stage[n] \in {"start", "sensor"}
      BY <2>3, BeginEffects DEF SensorUpdated, NoSensor
    <3> QED
      BY <1>0, <2>0, <3>1, NothingSent DEF ControlOf, Sent, Goes
  <2>4. CASE AddTerm(n)
    <3>1. Goes(n, "cells", loop[n], {}) /\ stage[n] = "cells"
      BY <2>4, LoopEffects DEF AddTerm
    <3> QED
      BY <1>0, <2>0, <3>1, NothingSent DEF ControlOf, Sent, Goes
  <2>5. CASE FinishLoop(n)
    <3> DEFINE next == IF loop[n] = "auxiliary" THEN "add" ELSE "sum"
    <3>1. Goes(n, next, loop[n], {<<loop[n], next>>}) /\ stage[n] = "cells"
      BY <2>5, LoopEffects DEF FinishLoop
    <3>2. \A k, w : (<<k, w>> \in posted'[n])
                      <=> <<k, w>> \in posted[n] \/ (k = loop[n] /\ w = next)
      <4> HIDE DEF next
      <4> QED
        BY <3>1 DEF Goes
    <3>3. CASE loop[n] = "auxiliary"
      BY <1>0, <3>1, <3>2, <3>3 DEF ControlOf, Sent, Goes
    <3>4. CASE loop[n] = "primary"
      BY <1>0, <3>1, <3>2, <3>4 DEF ControlOf, Sent, Goes
    <3> QED
      BY <2>0, <3>3, <3>4
  <2>6. CASE SumErrors(n)
    <3>1. Goes(n, "add", loop[n], {<<"primary", "add">>}) /\ stage[n] = "sum"
      BY <2>6, ExchangeEffects DEF SumErrors
    <3> QED
      BY <1>0, <2>0, <3>1, SentAfter DEF ControlOf, Sent, Goes
  <2>7. CASE Add(n)
    <3>1. Goes(n, "ghosts", loop[n], {<<loop[n], "ghosts">>}) /\ stage[n] = "add"
      BY <2>7, ExchangeEffects DEF Add
    <3> QED
      BY <1>0, <2>0, <3>1, SentAfter DEF ControlOf, Sent, Goes
  <2>8. CASE UpdateGhosts(n)
    <3>1. \/ loop[n] = "auxiliary" /\ Goes(n, "cells", "primary", {})
          \/ loop[n] # "auxiliary" /\ Goes(n, "returned", loop[n], {})
      BY <2>8, ExchangeEffects
    <3>2. stage[n] = "ghosts"
      BY <2>8 DEF UpdateGhosts
    <3> QED
      BY <1>0, <2>0, <3>1, <3>2, NothingSent DEF ControlOf, Sent, Goes
  <2> QED
    BY <1>4, <2>1, <2>2, <2>3, <2>4, <2>5, <2>6, <2>7, <2>8 DEF Step, Throw
<1> QED
  BY <1>1, <1>2, <1>3, <1>4 DEF Next

(***************************************************************************)
(* The sum of the errors.                                                  *)
(***************************************************************************)
Failed == \E n \in Ranks : error[n]

Summed(r) ==
  \/ stage[r] = "returned"
  \/ stage[r] \in {"add", "ghosts"} /\ loop[r] = "primary"

\* A process that has the sum of the errors has what all processes sent, and none
\* of them can fail any more.
Agreement == \A r \in Ranks : Summed(r) => SumArrived /\ filled[r] = Failed

\* What has been sent is not taken back.
LEMMA SumStays ==
  ASSUME TypeInv, [Next]_vars, SumArrived
  PROVE  SumArrived'
<1> SUFFICES ASSUME NEW n \in Ranks
             PROVE  <<"primary", "sum">> \in posted'[n]
  BY DEF SumArrived
<1>1. <<"primary", "sum">> \in posted[n]
  BY DEF SumArrived
<1>2. CASE UNCHANGED vars
  BY <1>1, <1>2 DEF vars
<1>3. ASSUME NEW r \in Ranks, Step(r), ~Abort(r), n # r
      PROVE  <<"primary", "sum">> \in posted'[n]
  BY <1>1, <1>3, OthersSame DEF Same
<1>4. ASSUME NEW r \in Ranks, Abort(r)
      PROVE  <<"primary", "sum">> \in posted'[n]
  BY <1>1, <1>4 DEF Abort
<1>5. ASSUME Step(n), ~Abort(n)
      PROVE  <<"primary", "sum">> \in posted'[n]
  <2>1. CASE Catch(n)
    BY <1>1, <2>1, BeginEffects DEF Goes
  <2>2. CASE SensorUpdated(n) \/ NoSensor(n) \/ (UpdateSensor(n) /\ ~Catch(n))
    BY <1>1, <2>2, BeginEffects DEF Goes
  <2>3. CASE AddTerm(n) \/ FinishLoop(n)
    BY <1>1, <2>3, LoopEffects DEF Goes
  <2>4. CASE SumErrors(n) \/ Add(n) \/ UpdateGhosts(n)
    BY <1>1, <2>4, ExchangeEffects DEF Goes
  <2> QED
    BY <1>5, <2>1, <2>2, <2>3, <2>4 DEF Step, Throw
<1> QED
  BY <1>2, <1>3, <1>4, <1>5 DEF Next

\* Once all have sent their error to the sum, none changes.
LEMMA ErrorsStay ==
  ASSUME TypeInv, Control, [Next]_vars, SumArrived
  PROVE  error' = error
<1>1. CASE UNCHANGED vars
  BY <1>1 DEF vars
<1>2. ASSUME NEW r \in Ranks, Step(r)
      PROVE  error' = error
  <2>1. stage[r] \notin {"start", "sensor", "cells"}
    BY DEF Control, ControlOf, Sent, SumArrived
  <2>2. SumErrors(r) \/ Add(r) \/ UpdateGhosts(r)
    BY <1>2, <2>1 DEF Step, UpdateSensor, SensorUpdated, NoSensor, AddTerm, Throw,
                      AtDistorted, AtTerm, Abort, FinishLoop
  <2> QED
    BY <2>2 DEF SumErrors, Add, UpdateGhosts
<1> QED
  BY <1>1, <1>2 DEF Next

\* Every step keeps the agreement.
LEMMA AgreementStep == TypeInv /\ Control /\ Agreement /\ [Next]_vars => Agreement'
<1> SUFFICES ASSUME TypeInv, Control, Agreement, [Next]_vars, NEW n \in Ranks,
                    Summed(n)'
             PROVE  (SumArrived /\ filled[n] = Failed)'
  BY DEF Agreement
<1>1. ASSUME Summed(n), filled'[n] = filled[n]
      PROVE  (SumArrived /\ filled[n] = Failed)'
  BY <1>1, SumStays, ErrorsStay DEF Agreement, Failed
<1>2. CASE UNCHANGED vars
  BY <1>1, <1>2 DEF vars, Summed
<1>3. ASSUME NEW r \in Ranks, Step(r), ~Abort(r), n # r
      PROVE  Summed(n) /\ filled'[n] = filled[n]
  BY <1>3, OthersSame DEF Same, Summed
<1>4. ASSUME NEW r \in Ranks, Abort(r)
      PROVE  FALSE
  <2>1. stage'[n] = "aborted"
    BY <1>4 DEF Abort
  <2> QED
    BY <2>1 DEF Summed
<1>5. CASE SumErrors(n)
  <2>1. SumArrived
    BY <1>5 DEF SumErrors
  <2>2. filled'[n] = \E m \in Ranks : error[m]
    BY <1>5, ExchangeEffects
  <2> QED
    BY <2>1, <2>2, SumStays, ErrorsStay DEF Failed
<1>6. ASSUME Step(n), ~Abort(n), ~SumErrors(n)
      PROVE  Summed(n) /\ filled'[n] = filled[n]
  <2>0. loop[n] \in {"auxiliary", "primary"}
    BY DEF TypeInv, TypeOK, Loops
  <2>1. CASE Catch(n)
    BY <2>1, BeginEffects DEF Goes, Summed
  <2>2. CASE SensorUpdated(n) \/ NoSensor(n) \/ (UpdateSensor(n) /\ ~Catch(n))
    BY <2>2, BeginEffects DEF Goes, Summed
  <2>3. CASE AddTerm(n) \/ FinishLoop(n)
    BY <2>0, <2>3, LoopEffects DEF Goes, Summed
  <2>4. CASE Add(n) \/ UpdateGhosts(n)
    BY <2>0, <2>4, ExchangeEffects DEF Goes, Keeps, Summed, Add, UpdateGhosts
  <2> QED
    BY <1>6, <2>1, <2>2, <2>3, <2>4 DEF Step, Throw
<1> QED
  BY <1>1, <1>2, <1>3, <1>4, <1>5, <1>6 DEF Next

(***************************************************************************)
(* The rows.  The first k positions of the loop of process r have added    *)
(* these terms to row c.                                                   *)
(***************************************************************************)
TermsAdded(r, k, c) ==
  {p \in Tag : /\ \E i \in 1 .. k : mesh.tasks[r][i] = p
              /\ c \in Rows(p[1], p[2])}

AllTerms(r, c) == TermsAdded(r, Len(mesh.tasks[r]), c)

WorkIsOrdered == IsOrdered(mesh)

\* Every interface is integrated by one cell, and the two processes that may share it
\* agree on which.
LEMMA OneCell ==
  ASSUME IsMesh(mesh), WorkIsOrdered, NEW e \in Interfaces
  PROVE  \E w \in Ends(e) :
           /\ Integrates(w, e)
           /\ \A x \in Ends(e) : Integrates(x, e) => x = w
<1> DEFINE a == mesh.face[e].a
           b == mesh.face[e].b
<1>1. a \in Cells /\ b \in Cells /\ Ends(e) = {a, b}
  BY EndsAreCells DEF Ends
<1>2. CASE Kind(e) = "boundary" /\ a = b
  BY <1>1, <1>2 DEF Integrates
<1>3. CASE Kind(e) = "hanging" /\ mesh.dim > 1 /\ a # b
  <2>1. Integrates(b, e) /\ ~Integrates(a, e)
    BY <1>3 DEF Integrates, IsCoarser, IsMesh
  <2> QED
    BY <1>1, <2>1
<1>4. CASE /\ Kind(e) \in {"conforming", "periodic"} /\ a # b
           /\ mesh.rank[a] = mesh.rank[b] =>
                \/ mesh.index[mesh.rank[a]][a] # mesh.index[mesh.rank[a]][b]
                \/ mesh.level[a] # mesh.level[b]
  <2>1. Neighbor(a, e) = b /\ Neighbor(b, e) = a
    BY <1>4 DEF Neighbor
  <2>2. IsCoarser(a, e) = FALSE /\ IsCoarser(b, e) = FALSE
    BY <1>4 DEF IsCoarser
  <2>3. /\ mesh.rank[a] \in Ranks /\ mesh.rank[b] \in Ranks
        /\ mesh.level[a] \in Nat /\ mesh.level[b] \in Nat
        /\ \A r \in Ranks : mesh.index[r][a] \in Nat /\ mesh.index[r][b] \in Nat
    <3> HIDE DEF a, b
    <3>1. /\ mesh.rank \in [Cells -> Ranks]
          /\ mesh.level \in [Cells -> Nat]
          /\ mesh.index \in [Ranks -> [Cells -> Nat]]
      BY DEF IsMesh, Cells
    <3> QED
      BY <1>1, <3>1
  <2>4. mesh.rank[a] \in Nat /\ mesh.rank[b] \in Nat
    BY <2>3, CallsAssumption
  <2>5. current_cell_should_do_the_work(a, b, FALSE)
          <=> ~current_cell_should_do_the_work(b, a, FALSE)
    <3>0. \/ mesh.rank[a] # mesh.rank[b]
          \/ mesh.index[mesh.rank[a]][a] # mesh.index[mesh.rank[a]][b]
          \/ mesh.level[a] # mesh.level[b]
      BY <1>4
    <3> HIDE DEF a, b
    <3>1. CASE mesh.rank[a] # mesh.rank[b]
      BY <2>4, <3>1 DEF current_cell_should_do_the_work
    <3>2. CASE mesh.rank[a] = mesh.rank[b]
      BY <3>0, <2>3, <3>2 DEF current_cell_should_do_the_work
    <3> QED
      BY <3>1, <3>2
  <2>6. /\ Integrates(a, e) <=> current_cell_should_do_the_work(a, b, FALSE)
        /\ Integrates(b, e) <=> current_cell_should_do_the_work(b, a, FALSE)
    <3>1. Kind(e) \in {"conforming", "periodic"}
      BY <1>4
    <3> HIDE DEF a, b
    <3>2. CASE Kind(e) = "periodic"
      BY <2>1, <3>2 DEF Integrates
    <3>3. CASE Kind(e) = "conforming"
      BY <2>1, <2>2, <3>3 DEF Integrates
    <3> QED
      BY <3>1, <3>2, <3>3
  <2> QED
    BY <1>1, <1>4, <2>5, <2>6
<1> QED
  BY <1>2, <1>3, <1>4 DEF WorkIsOrdered, IsOrdered, Interfaces, Kind

\* What the mesh determines stays with it.
LEMMA MeshFrame ==
  ASSUME mesh' = mesh
  PROVE  /\ Cells' = Cells /\ Interfaces' = Interfaces /\ Tag' = Tag
         /\ \A c, t : Rows(c, t)' = Rows(c, t)
         /\ \A c : Terms(c)' = Terms(c)
         /\ \A r : Owned(r)' = Owned(r) /\ Reads(r)' = Reads(r)
         /\ \A r, k, c : TermsAdded(r, k, c)' = TermsAdded(r, k, c)
         /\ \A r, c : AllTerms(r, c)' = AllTerms(r, c)
         /\ \A row, c : Complete(row, c)' <=> Complete(row, c)
<1>1. Cells' = Cells /\ Interfaces' = Interfaces /\ Tag' = Tag
  BY DEF Cells, Interfaces, Tag
<1>2. \A c, t : Rows(c, t)' = Rows(c, t)
  BY DEF Rows, Integrates, Kind, current_cell_should_do_the_work, IsCoarser,
         Neighbor, Ends
<1>3. \A c : Terms(c)' = Terms(c)
  BY <1>1 DEF Terms, Ends
<1>4. \A r : Owned(r)' = Owned(r) /\ Reads(r)' = Reads(r)
  BY <1>1 DEF Reads, Owned, Ghosts, Ends
<1>5. \A r, k, c : TermsAdded(r, k, c)' = TermsAdded(r, k, c)
  BY <1>1, <1>2 DEF TermsAdded
<1>6. \A row, c : Complete(row, c)' <=> Complete(row, c)
  BY <1>1, <1>3 DEF Complete
<1>7. \A r, c : AllTerms(r, c)' = AllTerms(r, c)
  BY <1>1, <1>2 DEF AllTerms, TermsAdded
<1> QED
  BY <1>1, <1>2, <1>3, <1>4, <1>5, <1>6, <1>7

\* The rows a process has filled, for the loop it is in and for those it has done
\* with.
LocalRows(r) ==
  /\ stage[r] \in {"start", "sensor", "cells"} =>
       \A c \in Cells : local[r][loop[r]][c] = TermsAdded(r, at[r] - 1, c)
  /\ loop[r] = "auxiliary" /\ stage[r] # "aborted" =>
       \A c \in Cells : local[r]["primary"][c] = {}
  /\ stage[r] = "sum" /\ ~error[r] =>
       \A c \in Cells : local[r]["primary"][c] = AllTerms(r, c)
  /\ Sent(r, "auxiliary", "add") =>
       \A c \in Cells : local[r]["auxiliary"][c] = AllTerms(r, c)
  /\ Sent(r, "primary", "add") /\ ~Failed =>
       \A c \in Cells : local[r]["primary"][c] = AllTerms(r, c)

\* The rows that others may read of it, and those it reads itself.
AssembledRows(r) ==
  /\ Sent(r, "auxiliary", "ghosts") =>
       \A c \in Owned(r) : Complete(assembled[r]["auxiliary"][c], c)
  /\ Sent(r, "primary", "ghosts") /\ ~Failed =>
       \A c \in Owned(r) : Complete(assembled[r]["primary"][c], c)
  /\ stage[r] = "cells" /\ loop[r] = "primary" /\ setting.auxiliary =>
       \A c \in Reads(r) : Complete(assembled[r]["auxiliary"][c], c)
  /\ stage[r] = "returned" /\ ~Failed =>
       \A c \in Reads(r) : Complete(assembled[r]["primary"][c], c)

RowsInv == \A r \in Ranks : LocalRows(r) /\ AssembledRows(r)

\* What a process adds to a row, in the end.
LEMMA AllTermsAre ==
  ASSUME IsMesh(mesh), NEW r \in Ranks, NEW c \in Cells, NEW p
  PROVE  p \in AllTerms(r, c) <=>
           \E w \in Owned(r) : \E t \in Terms(w) : p = <<w, t>> /\ c \in Rows(w, t)
<1>1. ASSUME p \in AllTerms(r, c)
      PROVE  \E w \in Owned(r) : \E t \in Terms(w) :
               p = <<w, t>> /\ c \in Rows(w, t)
  <2>1. PICK i \in 1 .. Len(mesh.tasks[r]) : mesh.tasks[r][i] = p
    BY <1>1 DEF AllTerms, TermsAdded
  <2>2. p = <<p[1], p[2]>> /\ p[1] \in Owned(r) /\ p[2] \in Terms(p[1])
    BY <2>1, Visits
  <2>3. c \in Rows(p[1], p[2])
    BY <1>1 DEF AllTerms, TermsAdded
  <2> QED
    BY <2>2, <2>3
<1>2. ASSUME NEW w \in Owned(r), NEW t \in Terms(w), p = <<w, t>>, c \in Rows(w, t)
      PROVE  p \in AllTerms(r, c)
  <2>1. \E i \in 1 .. Len(mesh.tasks[r]) : mesh.tasks[r][i] = p
    BY <1>2, Visits
  <2>2. p \in Tag
    BY <1>2 DEF Owned, Terms, Tag
  <2> QED
    BY <1>2, <2>1, <2>2 DEF AllTerms, TermsAdded
<1> QED
  BY <1>1, <1>2

\* What the owner of a row and those that share cells with it have added is the
\* complete row: a cell that works for an interface of the row is a ghost of the
\* owner, if it is not its own.
LEMMA CompleteRow ==
  ASSUME IsMesh(mesh), WorkIsOrdered, NEW r \in Ranks, NEW c \in Owned(r)
  PROVE  Complete(AllTerms(r, c) \cup UNION {AllTerms(n, c) : n \in Sharing(r)}, c)
<1> DEFINE row == AllTerms(r, c) \cup UNION {AllTerms(n, c) : n \in Sharing(r)}
<1>0. c \in Cells /\ mesh.rank[c] = r /\ Sharing(r) \subseteq Ranks
  BY DEF Owned, Sharing, Ghosts, IsMesh, Cells
<1>1. ASSUME NEW p \in row
      PROVE  \E w \in Cells : \E t \in Terms(w) : p = <<w, t>> /\ c \in Rows(w, t)
  BY <1>0, AllTermsAre DEF Owned
<1>2. ASSUME NEW w \in Cells, NEW t \in Terms(w), c \in Rows(w, t)
      PROVE  <<w, t>> \in row
  <2>1. CASE w \in Owned(r)
    BY <1>0, <1>2, <2>1, AllTermsAre
  <2>2. CASE w \notin Owned(r)
    <3>1. t # Volume /\ t \in Interfaces /\ w \in Ends(t) /\ c \in Ends(t)
      BY <1>2, <2>2 DEF Rows, Terms
    <3>2. w \in Ghosts(r)
      BY <2>2, <3>1 DEF Ghosts
    <3>3. mesh.rank[w] \in Sharing(r) /\ w \in Owned(mesh.rank[w])
      BY <3>2, GhostRanks
    <3>4. <<w, t>> \in AllTerms(mesh.rank[w], c)
      BY <1>0, <1>2, <3>3, AllTermsAre
    <3> QED
      BY <3>3, <3>4
  <2> QED
    BY <2>1, <2>2
<1> HIDE DEF row
<1>3. ASSUME NEW p \in row
      PROVE  p[2] \in Terms(c)
  <2>1. PICK w \in Cells :
               \E t \in Terms(w) : p = <<w, t>> /\ c \in Rows(w, t)
    BY <1>1
  <2>2. PICK t \in Terms(w) : p = <<w, t>> /\ c \in Rows(w, t)
    BY <2>1
  <2>3. p[2] = t
    BY <2>2
  <2>4. t = Volume \/ (t \in Interfaces /\ c \in Ends(t))
    BY <2>2 DEF Rows, Terms
  <2> QED
    BY <2>3, <2>4 DEF Terms
<1>4. ASSUME NEW t \in Terms(c)
      PROVE  \E w \in Cells : {p \in row : p[2] = t} = {<<w, t>>}
  <2>1. ASSUME NEW w \in Cells, t \in Terms(w), c \in Rows(w, t),
               \A x \in Cells : t \in Terms(x) /\ c \in Rows(x, t) => x = w
        PROVE  {p \in row : p[2] = t} = {<<w, t>>}
    <3>1. <<w, t>> \in row
      BY <1>2, <2>1
    <3>2. ASSUME NEW p \in row, p[2] = t
          PROVE  p = <<w, t>>
      <4>1. PICK x \in Cells :
              \E u \in Terms(x) : p = <<x, u>> /\ c \in Rows(x, u)
        BY <1>1, <3>2
      <4>2. p = <<x, t>> /\ t \in Terms(x) /\ c \in Rows(x, t)
        BY <3>2, <4>1
      <4> QED
        BY <2>1, <4>2
    <3> QED
      BY <3>1, <3>2
  <2>2. CASE t = Volume
    <3>1. /\ c \in Rows(c, t)
          /\ \A x \in Cells : c \in Rows(x, t) => x = c
      BY <2>2 DEF Rows
    <3> QED
      BY <1>0, <2>1, <3>1
  <2>3. CASE t # Volume
    <3>1. t \in Interfaces /\ c \in Ends(t)
      BY <2>3 DEF Terms
    <3>2. PICK w \in Ends(t) :
            /\ Integrates(w, t)
            /\ \A x \in Ends(t) : Integrates(x, t) => x = w
      BY <3>1, OneCell
    <3>3. w \in Cells /\ t \in Terms(w) /\ c \in Rows(w, t)
      BY <2>3, <3>1, <3>2, EndsAreCells DEF Terms, Rows
    <3>4. ASSUME NEW x \in Cells, t \in Terms(x), c \in Rows(x, t)
          PROVE  x = w
      <4>1. x \in Ends(t) /\ Integrates(x, t)
        BY <2>3, <3>4 DEF Terms, Rows
      <4> QED
        BY <3>2, <4>1
    <3> QED
      BY <2>1, <3>3, <3>4
  <2> QED
    BY <2>2, <2>3
<1>5. Complete(row, c)
  BY <1>3, <1>4 DEF Complete
<1> QED
  BY <1>5 DEF row

\* A position of the loop adds its term to the rows it should.
LEMMA NextTerm ==
  ASSUME IsMesh(mesh), NEW r \in Ranks, NEW k \in 1 .. Len(mesh.tasks[r]),
         NEW c \in Cells
  PROVE  LET p == mesh.tasks[r][k]
         IN  TermsAdded(r, k, c) =
               IF c \in Rows(p[1], p[2]) THEN TermsAdded(r, k - 1, c) \cup {p}
                                         ELSE TermsAdded(r, k - 1, c)
<1> DEFINE p == mesh.tasks[r][k]
<1>1. k \in Nat /\ k > 0 /\ p \in Tag
  <2>1. Len(mesh.tasks[r]) \in Nat
    BY Visits
  <2>2. p = <<p[1], p[2]>> /\ p[1] \in Cells /\ p[2] \in {Volume} \cup Interfaces
    BY Visits
  <2> HIDE DEF p
  <2> QED
    BY <2>1, <2>2 DEF Tag
<1>2. ASSUME NEW q
      PROVE  (\E i \in 1 .. k : mesh.tasks[r][i] = q)
               <=> (\E i \in 1 .. (k - 1) : mesh.tasks[r][i] = q) \/ q = p
  <2>1. \A i : i \in 1 .. k <=> i \in 1 .. (k - 1) \/ i = k
    BY <1>1
  <2> QED
    BY <2>1
<1> HIDE DEF p
<1>3. ASSUME NEW q
      PROVE  q \in TermsAdded(r, k, c) <=>
               \/ q \in TermsAdded(r, k - 1, c)
               \/ q = p /\ c \in Rows(p[1], p[2])
  BY <1>1, <1>2 DEF TermsAdded
<1> QED
  BY <1>3 DEF p

\* Before the loop no term has been added.
LEMMA NoTerm ==
  ASSUME NEW r, NEW c
  PROVE  TermsAdded(r, 0, c) = {}
  BY DEF TermsAdded

(***************************************************************************)
(* What a process adds.                                                    *)
(***************************************************************************)
\* LocalRows after a step, which leaves the mesh alone.
LocalAfter(r) ==
  /\ stage'[r] \in {"start", "sensor", "cells"} =>
       \A c \in Cells : local'[r][loop'[r]][c] = TermsAdded(r, at'[r] - 1, c)
  /\ loop'[r] = "auxiliary" /\ stage'[r] # "aborted" =>
       \A c \in Cells : local'[r]["primary"][c] = {}
  /\ stage'[r] = "sum" /\ ~error'[r] =>
       \A c \in Cells : local'[r]["primary"][c] = AllTerms(r, c)
  /\ <<"auxiliary", "add">> \in posted'[r] =>
       \A c \in Cells : local'[r]["auxiliary"][c] = AllTerms(r, c)
  /\ <<"primary", "add">> \in posted'[r] /\ ~Failed' =>
       \A c \in Cells : local'[r]["primary"][c] = AllTerms(r, c)

\* The two are the same.
LEMMA LocalIsAfter ==
  ASSUME mesh' = mesh, NEW r, LocalAfter(r)
  PROVE  LocalRows(r)'
<1>1. \A c : TermsAdded(r, at[r] - 1, c)' = TermsAdded(r, at'[r] - 1, c)
  BY MeshFrame DEF TermsAdded
<1>2. \A c : AllTerms(r, c)' = AllTerms(r, c)
  BY MeshFrame
<1>3. Cells' = Cells
  BY MeshFrame
<1> QED
  BY <1>1, <1>2, <1>3 DEF LocalRows, LocalAfter, Sent

\* An error is not forgotten.
LEMMA FailureStays ==
  ASSUME TypeInv, [Next]_vars, Failed
  PROVE  Failed'
<1>1. PICK n \in Ranks : error[n]
  BY DEF Failed
<1> SUFFICES error'[n]
  BY DEF Failed
<1>2. CASE UNCHANGED vars
  BY <1>1, <1>2 DEF vars
<1>3. ASSUME NEW r \in Ranks, Step(r), ~Abort(r), n # r
      PROVE  error'[n]
  BY <1>1, <1>3, OthersSame DEF Same
<1>4. ASSUME NEW r \in Ranks, Abort(r)
      PROVE  error'[n]
  BY <1>1, <1>4 DEF Abort
<1>5. ASSUME Step(n), ~Abort(n)
      PROVE  error'[n]
  <2>1. CASE Catch(n)
    BY <2>1, BeginEffects
  <2>2. CASE SensorUpdated(n) \/ NoSensor(n) \/ (UpdateSensor(n) /\ ~Catch(n))
    BY <1>1, <2>2, BeginEffects DEF Keeps
  <2>3. CASE AddTerm(n) \/ FinishLoop(n)
    BY <1>1, <2>3, LoopEffects DEF Keeps
  <2>4. CASE SumErrors(n) \/ Add(n) \/ UpdateGhosts(n)
    BY <1>1, <2>4, ExchangeEffects DEF Keeps
  <2> QED
    BY <1>5, <2>1, <2>2, <2>3, <2>4 DEF Step, Throw
<1> QED
  BY <1>2, <1>3, <1>4, <1>5 DEF Next

\* The rows after a term has been added, and those of the other loop.
LEMMA AddTermRows ==
  ASSUME TypeInv, NEW r \in Ranks, AddTerm(r)
  PROVE  LET p == mesh.tasks[r][at[r]]
         IN  /\ at[r] \in 1 .. Len(mesh.tasks[r])
             /\ \A c \in Cells :
                  /\ local'[r][loop[r]][c] =
                       IF c \in Rows(p[1], p[2]) THEN local[r][loop[r]][c] \cup {p}
                                                 ELSE local[r][loop[r]][c]
                  /\ \A k \in Loops : k # loop[r] => local'[r][k][c] = local[r][k][c]
<1> DEFINE p == mesh.tasks[r][at[r]]
           l == loop[r]
           row == [x \in Cells |-> IF x \in Rows(p[1], p[2])
                                   THEN local[r][l][x] \cup {<<p[1], p[2]>>}
                                   ELSE local[r][l][x]]
<1>1. /\ at[r] \in 1 .. Len(mesh.tasks[r]) /\ l \in Loops
      /\ local \in [Ranks -> [Loops -> Row]]
  <2>1. at[r] <= Len(mesh.tasks[r])
    BY DEF AddTerm
  <2>2. at[r] \in Nat \ {0}
    BY DEF TypeInv, TypeOK
  <2>3. Len(mesh.tasks[r]) \in Nat
    BY Visits DEF TypeInv, CallOK
  <2>4. l \in Loops /\ local \in [Ranks -> [Loops -> Row]]
    BY DEF TypeInv, TypeOK, Row
  <2> QED
    BY <2>1, <2>2, <2>3, <2>4
<1>2. p = <<p[1], p[2]>> /\ p[1] \in Cells /\ p[2] \in {Volume} \cup Interfaces
  BY <1>1, Visits DEF TypeInv, CallOK
<1>3. row \in Row
  <2>1. <<p[1], p[2]>> \in Tag
    BY <1>2 DEF Tag
  <2>2. \A x \in Cells : local[r][l][x] \in SUBSET Tag
    BY <1>1 DEF Row
  <2> HIDE DEF p
  <2> QED
    BY <2>1, <2>2 DEF Row
<1>4. local' = [local EXCEPT ![r][l] = row]
  BY DEF AddTerm
<1> HIDE DEF row, p
<1>5. \A k \in Loops : local'[r][k] = IF k = l THEN row ELSE local[r][k]
  BY <1>1, <1>3, <1>4, RowsSet
<1> QED
  BY <1>1, <1>2, <1>5 DEF row, p

\* Every step keeps what the rows of its process are.
LEMMA LocalStep ==
  ASSUME TypeInv, Control, RowsInv, [Next]_vars, NEW n \in Ranks
  PROVE  LocalRows(n)'
<1>0. /\ ControlOf(n) /\ LocalRows(n) /\ IsMesh(mesh)
      /\ mesh' = mesh
      /\ ~Failed' => ~Failed
      /\ loop[n] \in {"auxiliary", "primary"}
  BY CallFixed, FailureStays DEF Control, RowsInv, TypeInv, CallOK, TypeOK, Loops
<1> SUFFICES LocalAfter(n)
  BY <1>0, LocalIsAfter
<1>1. CASE UNCHANGED vars
  BY <1>0, <1>1 DEF vars, LocalRows, LocalAfter, Sent
<1>2. ASSUME NEW r \in Ranks, Step(r), ~Abort(r), n # r
      PROVE  LocalAfter(n)
  BY <1>0, <1>2, OthersSame DEF Same, LocalRows, LocalAfter, Sent
<1>3. ASSUME NEW r \in Ranks, Abort(r)
      PROVE  LocalAfter(n)
  <2>1. /\ stage'[n] = "aborted"
        /\ posted' = posted /\ local' = local
    BY <1>3 DEF Abort
  <2> QED
    BY <1>0, <2>1 DEF LocalRows, LocalAfter, Sent
<1>4. ASSUME Step(n), ~Abort(n)
      PROVE  LocalAfter(n)
  <2>1. CASE Catch(n) /\ (UpdateSensor(n) \/ Throw(n))
    <3>1. /\ Goes(n, "sum", "primary", {<<"primary", "sum">>})
          /\ error'[n] = TRUE /\ local' = local
      BY <2>1, BeginEffects
    <3> QED
      BY <1>0, <3>1, SentAfter DEF LocalRows, LocalAfter, Sent, Goes
  <2>2. CASE UpdateSensor(n) /\ ~Catch(n)
    <3>1. /\ Goes(n, "sensor", loop[n], {<<loop[n], "sensor">>})
          /\ at' = at /\ local' = local /\ stage[n] = "start"
      BY <2>2, BeginEffects DEF UpdateSensor
    <3> QED
      BY <1>0, <3>1, SentAfter DEF LocalRows, LocalAfter, Sent, Goes
  <2>3. CASE SensorUpdated(n) \/ NoSensor(n)
    <3>1. /\ Goes(n, "cells", loop[n], {})
          /\ at' = at /\ local' = local /\ stage[n] \in {"start", "sensor"}
      BY <2>3, BeginEffects DEF SensorUpdated, NoSensor
    <3> QED
      BY <1>0, <3>1, NothingSent DEF LocalRows, LocalAfter, Sent, Goes
  <2>4. CASE AddTerm(n)
    <3>1. /\ Goes(n, "cells", loop[n], {}) /\ stage[n] = "cells"
          /\ at'[n] = at[n] + 1
      BY <2>4, LoopEffects DEF AddTerm
    <3>2. /\ ~Sent(n, loop[n], "add") /\ at'[n] - 1 = at[n]
          /\ loop[n] = "auxiliary" => ~Sent(n, "primary", "add")
      BY <1>0, <3>1 DEF ControlOf, TypeInv, TypeOK
    <3>3. \A c \in Cells :
            /\ local'[n][loop[n]][c] = TermsAdded(n, at[n], c)
            /\ \A k \in Loops : k # loop[n] => local'[n][k][c] = local[n][k][c]
      <4> DEFINE p == mesh.tasks[n][at[n]]
      <4>1. at[n] \in 1 .. Len(mesh.tasks[n])
        BY <2>4, AddTermRows
      <4>2. ASSUME NEW c \in Cells
            PROVE  /\ local'[n][loop[n]][c] =
                        IF c \in Rows(p[1], p[2]) THEN local[n][loop[n]][c] \cup {p}
                                                  ELSE local[n][loop[n]][c]
                   /\ \A k \in Loops :
                        k # loop[n] => local'[n][k][c] = local[n][k][c]
        BY <2>4, AddTermRows
      <4>3. ASSUME NEW c \in Cells
            PROVE  TermsAdded(n, at[n], c) =
                     IF c \in Rows(p[1], p[2])
                     THEN TermsAdded(n, at[n] - 1, c) \cup {p}
                     ELSE TermsAdded(n, at[n] - 1, c)
        BY <1>0, <4>1, NextTerm
      <4>4. \A c \in Cells : local[n][loop[n]][c] = TermsAdded(n, at[n] - 1, c)
        BY <1>0, <3>1 DEF LocalRows
      <4> HIDE DEF p
      <4> QED
        BY <4>2, <4>3, <4>4
    <3> QED
      BY <1>0, <3>1, <3>2, <3>3, NothingSent
         DEF LocalRows, LocalAfter, Sent, Goes, Loops
  <2>5. CASE FinishLoop(n)
    <3>1. /\ stage[n] = "cells" /\ at[n] - 1 = Len(mesh.tasks[n])
      <4>1. Len(mesh.tasks[n]) \in Nat
        BY <1>0, Visits
      <4>2. at[n] \in 1 .. (Len(mesh.tasks[n]) + 1)
        BY DEF TypeInv, TypeOK
      <4>3. stage[n] = "cells" /\ at[n] > Len(mesh.tasks[n])
        BY <2>5 DEF FinishLoop
      <4> QED
        BY <4>1, <4>2, <4>3
    <3>2. \A c \in Cells : local[n][loop[n]][c] = AllTerms(n, c)
      BY <1>0, <3>1 DEF LocalRows, AllTerms
    <3>3. /\ local' = local
          /\ loop[n] = "auxiliary" =>
               Goes(n, "add", loop[n], {<<loop[n], "add">>})
          /\ loop[n] = "primary" =>
               Goes(n, "sum", loop[n], {<<loop[n], "sum">>})
      BY <2>5, LoopEffects
    <3>4. CASE loop[n] = "auxiliary"
      BY <1>0, <3>1, <3>2, <3>3, <3>4, SentAfter
         DEF LocalRows, LocalAfter, ControlOf, Sent, Goes
    <3>5. CASE loop[n] = "primary"
      BY <1>0, <3>1, <3>2, <3>3, <3>5, SentAfter
         DEF LocalRows, LocalAfter, ControlOf, Sent, Goes
    <3> QED
      BY <1>0, <3>4, <3>5
  <2>6. CASE SumErrors(n)
    <3>1. /\ Goes(n, "add", loop[n], {<<"primary", "add">>})
          /\ Failed \/ local' = local
          /\ stage[n] = "sum" /\ loop[n] = "primary"
      BY <1>0, <2>6, ExchangeEffects DEF SumErrors, Failed, ControlOf
    <3>2. \A c \in Cells : local'[n]["auxiliary"][c] = local[n]["auxiliary"][c]
      <4> DEFINE F == local[n]["primary"]
                 row == [c \in Cells |-> IF c \in Owned(n) THEN {Ones} ELSE F[c]]
      <4>1. /\ local \in [Ranks -> [Loops -> Row]]
            /\ "primary" \in Loops /\ "auxiliary" \in Loops /\ F \in Row
        BY DEF TypeInv, TypeOK, Row, Loops
      <4>2. row \in Row
        BY <4>1, OnesType
      <4>3. local' = [local EXCEPT ![n]["primary"] = row] \/ local' = local
        BY <2>6 DEF SumErrors
      <4> HIDE DEF row, F
      <4> QED
        BY <4>1, <4>2, <4>3, RowsSet
    <3>3. ~Failed => ~error[n]
      BY DEF Failed
    <3> QED
      BY <1>0, <3>1, <3>2, <3>3, SentAfter DEF LocalRows, LocalAfter, Sent, Goes
  <2>7. CASE Add(n)
    <3>1. /\ Goes(n, "ghosts", loop[n], {<<loop[n], "ghosts">>})
          /\ stage[n] = "add" /\ local' = local
      BY <2>7, ExchangeEffects DEF Add
    <3> QED
      BY <1>0, <3>1, SentAfter DEF LocalRows, LocalAfter, Sent, Goes
  <2>8. CASE UpdateGhosts(n)
    <3>1. /\ local' = local /\ stage[n] = "ghosts"
          /\ \/ /\ loop[n] = "auxiliary" /\ Goes(n, "cells", "primary", {})
                /\ at'[n] = 1
             \/ loop[n] # "auxiliary" /\ Goes(n, "returned", loop[n], {})
      BY <2>8, ExchangeEffects DEF UpdateGhosts
    <3>2. 1 - 1 = 0
      OBVIOUS
    <3> QED
      BY <1>0, <3>1, <3>2, NothingSent, NoTerm DEF LocalRows, LocalAfter, Sent, Goes
  <2> QED
    BY <1>4, <2>1, <2>2, <2>3, <2>4, <2>5, <2>6, <2>7, <2>8 DEF Step, Throw
<1> QED
  BY <1>1, <1>2, <1>3, <1>4 DEF Next

(***************************************************************************)
(* What a process reads.                                                   *)
(***************************************************************************)
\* AssembledRows after a step, which leaves the mesh alone.
AssembledAfter(r) ==
  /\ <<"auxiliary", "ghosts">> \in posted'[r] =>
       \A c \in Owned(r) : Complete(assembled'[r]["auxiliary"][c], c)
  /\ <<"primary", "ghosts">> \in posted'[r] /\ ~Failed' =>
       \A c \in Owned(r) : Complete(assembled'[r]["primary"][c], c)
  /\ stage'[r] = "cells" /\ loop'[r] = "primary" /\ setting.auxiliary =>
       \A c \in Reads(r) : Complete(assembled'[r]["auxiliary"][c], c)
  /\ stage'[r] = "returned" /\ ~Failed' =>
       \A c \in Reads(r) : Complete(assembled'[r]["primary"][c], c)

\* The two are the same.
LEMMA AssembledIsAfter ==
  ASSUME mesh' = mesh, setting' = setting, NEW r, AssembledAfter(r)
  PROVE  AssembledRows(r)'
<1>1. \A k, c : Complete(assembled[r][k][c], c)' <=> Complete(assembled'[r][k][c], c)
  BY MeshFrame DEF Complete
<1>2. Owned(r)' = Owned(r) /\ Reads(r)' = Reads(r)
  BY MeshFrame
<1> QED
  BY <1>1, <1>2 DEF AssembledRows, AssembledAfter, Sent

\* The rows that the owner has after adding, if nobody has failed or the loop is that
\* of the auxiliary equation.
LEMMA AddedRows ==
  ASSUME TypeInv, Control, RowsInv, WorkIsOrdered, NEW r \in Ranks, Add(r)
  PROVE  /\ \A k \in Loops : k # loop[r] => assembled'[r][k] = assembled[r][k]
         /\ loop[r] = "auxiliary" \/ ~Failed =>
              \A c \in Owned(r) : Complete(assembled'[r][loop[r]][c], c)
<1> DEFINE l == loop[r]
           row == [c \in Cells |->
                     IF c \in Owned(r)
                     THEN local[r][l][c] \cup UNION {local[n][l][c] : n \in Sharing(r)}
                     ELSE {}]
<1>1. /\ local \in [Ranks -> [Loops -> Row]]
      /\ assembled \in [Ranks -> [Loops -> Row]]
      /\ l \in Loops /\ IsMesh(mesh) /\ stage[r] = "add"
  BY DEF TypeInv, TypeOK, Row, CallOK, Add
<1>2. Sharing(r) \subseteq Ranks
  BY <1>1 DEF Sharing, Ghosts, IsMesh, Cells
<1>3. row \in Row
  <2>1. \A n \in Ranks, c \in Cells : local[n][l][c] \in SUBSET Tag
    BY <1>1 DEF Row
  <2> QED
    BY <1>2, <2>1 DEF Row
<1>4. assembled' = [assembled EXCEPT ![r][l] = row]
  BY DEF Add
<1>5. \A k \in Loops : assembled'[r][k] = IF k = l THEN row ELSE assembled[r][k]
  <2> HIDE DEF row
  <2> QED
    BY <1>1, <1>3, <1>4, RowsSet
<1>6. ASSUME l = "auxiliary" \/ ~Failed, NEW c \in Owned(r)
      PROVE  Complete(row[c], c)
  <2>0. c \in Cells
    BY DEF Owned
  <2>1. ASSUME NEW n \in Sharing(r) \cup {r}
        PROVE  local[n][l][c] = AllTerms(n, c)
    <3>1. n \in Ranks /\ Sent(n, l, "add")
      BY <1>1, <1>2 DEF Add, Arrived, Control, ControlOf, Sent
    <3>2. LocalRows(n)
      BY <3>1 DEF RowsInv
    <3> QED
      BY <1>1, <1>6, <2>0, <3>1, <3>2 DEF LocalRows, Loops
  <2>2. {local[n][l][c] : n \in Sharing(r)} = {AllTerms(n, c) : n \in Sharing(r)}
    BY <2>1
  <2>3. row[c] = AllTerms(r, c) \cup UNION {AllTerms(n, c) : n \in Sharing(r)}
    BY <2>0, <2>1, <2>2
  <2> QED
    BY <1>1, <2>3, CompleteRow
<1> QED
  BY <1>1, <1>5, <1>6

\* The rows that a process has after reading its ghosts.
LEMMA ReadRows ==
  ASSUME TypeInv, Control, RowsInv, NEW r \in Ranks, UpdateGhosts(r)
  PROVE  /\ \A k \in Loops : k # loop[r] => assembled'[r][k] = assembled[r][k]
         /\ \A c \in Owned(r) :
              assembled'[r][loop[r]][c] = assembled[r][loop[r]][c]
         /\ loop[r] = "auxiliary" \/ ~Failed =>
              \A c \in Reads(r) : Complete(assembled'[r][loop[r]][c], c)
<1> DEFINE l == loop[r]
           row == [c \in Cells |-> IF c \in Ghosts(r)
                                   THEN assembled[mesh.rank[c]][l][c]
                                   ELSE assembled[r][l][c]]
<1>1. /\ assembled \in [Ranks -> [Loops -> Row]]
      /\ l \in Loops /\ IsMesh(mesh) /\ stage[r] = "ghosts"
  BY DEF TypeInv, TypeOK, Row, CallOK, UpdateGhosts
<1>2. row \in Row
  <2>1. \A n \in Ranks, c \in Cells : assembled[n][l][c] \in SUBSET Tag
    BY <1>1 DEF Row
  <2>2. \A c \in Ghosts(r) : mesh.rank[c] \in Ranks
    BY <1>1, GhostRanks
  <2> QED
    BY <2>1, <2>2 DEF Row
<1>3. assembled' = [assembled EXCEPT ![r][l] = row]
  BY DEF UpdateGhosts
<1>4. \A k \in Loops : assembled'[r][k] = IF k = l THEN row ELSE assembled[r][k]
  <2> HIDE DEF row
  <2> QED
    BY <1>1, <1>2, <1>3, RowsSet
<1>5. \A c \in Owned(r) : row[c] = assembled[r][l][c]
  BY DEF Owned, Ghosts
<1>6. ASSUME l = "auxiliary" \/ ~Failed, NEW c \in Reads(r)
      PROVE  Complete(row[c], c)
  <2>1. ASSUME NEW n \in Ranks, Sent(n, l, "ghosts"), c \in Owned(n)
        PROVE  Complete(assembled[n][l][c], c)
    <3>1. AssembledRows(n)
      BY <2>1 DEF RowsInv
    <3> QED
      BY <1>1, <1>6, <2>1, <3>1 DEF AssembledRows, Loops
  <2>2. CASE c \in Owned(r)
    <3>1. Sent(r, l, "ghosts")
      BY <1>1 DEF Control, ControlOf
    <3> QED
      BY <1>5, <2>1, <2>2, <3>1
  <2>3. CASE c \in Ghosts(r)
    <3>1. /\ c \in Cells /\ mesh.rank[c] \in Ranks
          /\ mesh.rank[c] \in Sharing(r) /\ c \in Owned(mesh.rank[c])
      BY <1>1, <2>3, GhostRanks
    <3>2. Sent(mesh.rank[c], l, "ghosts")
      BY <3>1 DEF UpdateGhosts, Arrived, Sent
    <3>3. row[c] = assembled[mesh.rank[c]][l][c]
      BY <2>3, <3>1
    <3> QED
      BY <2>1, <3>1, <3>2, <3>3
  <2> QED
    BY <2>2, <2>3 DEF Reads
<1> HIDE DEF row
<1> QED
  BY <1>1, <1>4, <1>5, <1>6

\* Every step keeps what its process reads.
LEMMA AssembledStep ==
  ASSUME TypeInv, Control, RowsInv, WorkIsOrdered, [Next]_vars, NEW n \in Ranks
  PROVE  AssembledRows(n)'
<1>0. /\ ControlOf(n) /\ AssembledRows(n)
      /\ mesh' = mesh /\ setting' = setting
      /\ ~Failed' => ~Failed
      /\ loop[n] \in {"auxiliary", "primary"}
  BY CallFixed, FailureStays DEF Control, RowsInv, TypeInv, TypeOK, Loops
<1> SUFFICES AssembledAfter(n)
  BY <1>0, AssembledIsAfter
<1>1. CASE UNCHANGED vars
  BY <1>0, <1>1 DEF vars, AssembledRows, AssembledAfter, Sent
<1>2. ASSUME NEW r \in Ranks, Step(r), ~Abort(r), n # r
      PROVE  AssembledAfter(n)
  BY <1>0, <1>2, OthersSame DEF Same, AssembledRows, AssembledAfter, Sent
<1>3. ASSUME NEW r \in Ranks, Abort(r)
      PROVE  AssembledAfter(n)
  <2>1. /\ stage'[n] = "aborted"
        /\ posted' = posted /\ assembled' = assembled
    BY <1>3 DEF Abort
  <2> QED
    BY <1>0, <2>1 DEF AssembledRows, AssembledAfter, Sent
<1>4. ASSUME Step(n), ~Abort(n)
      PROVE  AssembledAfter(n)
  <2>1. CASE Catch(n)
    <3>1. /\ Goes(n, "sum", "primary", {<<"primary", "sum">>})
          /\ assembled' = assembled
      BY <2>1, BeginEffects
    <3> QED
      BY <1>0, <3>1, SentAfter DEF AssembledRows, AssembledAfter, Sent, Goes
  <2>2. CASE UpdateSensor(n) /\ ~Catch(n)
    <3>1. /\ Goes(n, "sensor", loop[n], {<<loop[n], "sensor">>})
          /\ assembled' = assembled
      BY <2>2, BeginEffects
    <3> QED
      BY <1>0, <3>1, SentAfter DEF AssembledRows, AssembledAfter, Sent, Goes
  <2>3. CASE SensorUpdated(n) \/ NoSensor(n)
    <3>1. /\ Goes(n, "cells", loop[n], {})
          /\ assembled' = assembled /\ stage[n] \in {"start", "sensor"}
      BY <2>3, BeginEffects DEF SensorUpdated, NoSensor
    <3>2. setting.auxiliary => loop[n] = "auxiliary"
      BY <1>0, <3>1 DEF ControlOf
    <3> QED
      BY <1>0, <3>1, <3>2, NothingSent DEF AssembledRows, AssembledAfter, Sent, Goes
  <2>4. CASE AddTerm(n)
    <3>1. /\ Goes(n, "cells", loop[n], {})
          /\ assembled' = assembled /\ stage[n] = "cells"
      BY <2>4, LoopEffects DEF AddTerm
    <3> QED
      BY <1>0, <3>1, NothingSent DEF AssembledRows, AssembledAfter, Sent, Goes
  <2>5. CASE FinishLoop(n)
    <3>1. /\ assembled' = assembled
          /\ loop[n] = "auxiliary" =>
               Goes(n, "add", loop[n], {<<loop[n], "add">>})
          /\ loop[n] = "primary" =>
               Goes(n, "sum", loop[n], {<<loop[n], "sum">>})
      BY <2>5, LoopEffects
    <3>2. CASE loop[n] = "auxiliary"
      BY <1>0, <3>1, <3>2, SentAfter DEF AssembledRows, AssembledAfter, Sent, Goes
    <3>3. CASE loop[n] = "primary"
      BY <1>0, <3>1, <3>3, SentAfter DEF AssembledRows, AssembledAfter, Sent, Goes
    <3> QED
      BY <1>0, <3>2, <3>3
  <2>6. CASE SumErrors(n)
    <3>1. /\ Goes(n, "add", loop[n], {<<"primary", "add">>})
          /\ assembled' = assembled
      BY <2>6, ExchangeEffects
    <3> QED
      BY <1>0, <3>1, SentAfter DEF AssembledRows, AssembledAfter, Sent, Goes
  <2>7. CASE Add(n)
    <3>1. Goes(n, "ghosts", loop[n], {<<loop[n], "ghosts">>})
      BY <2>7, ExchangeEffects
    <3>2. \A k, w : <<k, w>> \in posted'[n]
                     <=> <<k, w>> \in posted[n] \/ (k = loop[n] /\ w = "ghosts")
      BY <3>1 DEF Goes
    <3>3. /\ \A k \in Loops : k # loop[n] => assembled'[n][k] = assembled[n][k]
          /\ loop[n] = "auxiliary" \/ ~Failed =>
               \A c \in Owned(n) : Complete(assembled'[n][loop[n]][c], c)
      BY <2>7, AddedRows
    <3>4. stage'[n] = "ghosts"
      BY <3>1 DEF Goes
    <3>5. CASE loop[n] = "auxiliary"
      BY <1>0, <3>2, <3>3, <3>4, <3>5 DEF AssembledRows, AssembledAfter, Sent, Loops
    <3>6. CASE loop[n] = "primary"
      BY <1>0, <3>2, <3>3, <3>4, <3>6 DEF AssembledRows, AssembledAfter, Sent, Loops
    <3> QED
      BY <1>0, <3>5, <3>6
  <2>8. CASE UpdateGhosts(n)
    <3>1. /\ loop[n] = "auxiliary" => Goes(n, "cells", "primary", {})
          /\ loop[n] # "auxiliary" => Goes(n, "returned", loop[n], {})
      BY <2>8, ExchangeEffects
    <3>2. posted'[n] = posted[n]
      BY <3>1 DEF Goes
    <3>3. /\ \A k \in Loops : k # loop[n] => assembled'[n][k] = assembled[n][k]
          /\ \A c \in Owned(n) :
               assembled'[n][loop[n]][c] = assembled[n][loop[n]][c]
          /\ loop[n] = "auxiliary" \/ ~Failed =>
               \A c \in Reads(n) : Complete(assembled'[n][loop[n]][c], c)
      BY <2>8, ReadRows
    <3>4. CASE loop[n] = "auxiliary"
      BY <1>0, <3>1, <3>2, <3>3, <3>4
         DEF AssembledRows, AssembledAfter, Sent, Loops, Goes
    <3>5. CASE loop[n] = "primary"
      BY <1>0, <3>1, <3>2, <3>3, <3>5
         DEF AssembledRows, AssembledAfter, Sent, Loops, Goes
    <3> QED
      BY <1>0, <3>4, <3>5
  <2> QED
    BY <1>4, <2>1, <2>2, <2>3, <2>4, <2>5, <2>6, <2>7, <2>8 DEF Step, Throw
<1> QED
  BY <1>1, <1>2, <1>3, <1>4 DEF Next

(***************************************************************************)
(* The invariants.                                                         *)
(***************************************************************************)
Inv == TypeInv /\ Control /\ Agreement

\* What holds on meshes whose interfaces are each integrated once.
OrderedInv == Inv /\ WorkIsOrdered /\ RowsInv

\* Nothing has been sent or added when the processes enter the call.
LEMMA InitInv == Init => Inv /\ RowsInv
<1> SUFFICES ASSUME Init PROVE Inv /\ RowsInv
  OBVIOUS
<1>1. TypeInv
  BY TypeInit
<1>2. Control
  BY DEF Init, Control, ControlOf, Sent
<1>3. Agreement
  BY DEF Init, Agreement, Summed
<1>4. ASSUME NEW r \in Ranks
      PROVE  LocalRows(r) /\ AssembledRows(r)
  <2>1. /\ stage[r] = "start" /\ at[r] - 1 = 0 /\ posted[r] = {}
        /\ loop[r] \in Loops
    BY <1>1 DEF Init, TypeInv, TypeOK
  <2>2. \A l \in Loops, c \in Cells : local[r][l][c] = {}
    BY DEF Init
  <2> QED
    BY <2>1, <2>2, NoTerm DEF LocalRows, AssembledRows, Sent, Loops
<1> QED
  BY <1>1, <1>2, <1>3, <1>4 DEF Inv, RowsInv

\* The invariant of every call.
LEMMA Invariance == Spec => []Inv
<1>1. Inv /\ [Next]_vars => Inv'
  BY TypeStep, ControlStep, AgreementStep DEF Inv
<1> QED
  BY <1>1, InitInv, PTL DEF Spec

\* The invariant of a call on a mesh whose interfaces are each integrated once.
LEMMA OrderedInvariance == Spec /\ WorkIsOrdered => []OrderedInv
<1>1. OrderedInv /\ [Next]_vars => OrderedInv'
  <2> SUFFICES ASSUME OrderedInv, [Next]_vars
               PROVE  OrderedInv'
    OBVIOUS
  <2>1. Inv'
    BY TypeStep, ControlStep, AgreementStep DEF Inv, OrderedInv
  <2>2. WorkIsOrdered'
    BY CallFixed DEF OrderedInv, WorkIsOrdered
  <2>3. RowsInv'
    BY LocalStep, AssembledStep DEF RowsInv, OrderedInv, Inv
  <2> QED
    BY <2>1, <2>2, <2>3 DEF OrderedInv
<1> QED
  BY <1>1, InitInv, PTL DEF Spec, OrderedInv

(***************************************************************************)
(* The pattern of dRdX.                                                    *)
(***************************************************************************)
\* A row holds terms of its own interfaces.
TermsOfRow ==
  \A r \in Ranks, c \in Cells : \A p \in local[r]["primary"][c] :
    p[2] \in Interfaces => c \in Ends(p[2])

\* Every step adds to a row a term of its own.
LEMMA TermsOfRowStep == TypeInv /\ TermsOfRow /\ [Next]_vars => TermsOfRow'
<1> SUFFICES ASSUME TypeInv, TermsOfRow, [Next]_vars
             PROVE  TermsOfRow'
  OBVIOUS
<1>0. mesh' = mesh /\ IsMesh(mesh) /\ "primary" \in Loops
  BY CallFixed DEF TypeInv, CallOK, Loops
<1> SUFFICES ASSUME NEW n \in Ranks, NEW c \in Cells,
                    NEW p \in local'[n]["primary"][c], p[2] \in Interfaces
             PROVE  c \in Ends(p[2])
  BY <1>0 DEF TermsOfRow, Cells, Interfaces, Ends
<1>1. CASE p \in local[n]["primary"][c]
  BY <1>1 DEF TermsOfRow
<1>2. CASE AddTerm(n)
  <2> DEFINE q == mesh.tasks[n][at[n]]
  <2>1. /\ local'[n][loop[n]][c] =
              IF c \in Rows(q[1], q[2]) THEN local[n][loop[n]][c] \cup {q}
                                        ELSE local[n][loop[n]][c]
        /\ \A k \in Loops : k # loop[n] => local'[n][k][c] = local[n][k][c]
    BY <1>2, AddTermRows
  <2> HIDE DEF q
  <2>2. p \in local[n]["primary"][c] \/ (p = q /\ c \in Rows(q[1], q[2]))
    BY <1>0, <2>1
  <2>3. Volume \notin Interfaces
    BY <1>0 DEF IsMesh, Interfaces
  <2> QED
    BY <1>1, <2>2, <2>3 DEF Rows
<1>3. CASE SumErrors(n)
  <2> DEFINE F == local[n]["primary"]
             row == [x \in Cells |-> IF x \in Owned(n) THEN {Ones} ELSE F[x]]
  <2>1. /\ local \in [Ranks -> [Loops -> Row]] /\ F \in Row
    BY <1>0 DEF TypeInv, TypeOK, Row
  <2>2. row \in Row
    BY <2>1, OnesType
  <2>3. local' = [local EXCEPT ![n]["primary"] = row] \/ local' = local
    BY <1>3 DEF SumErrors
  <2>4. local'[n]["primary"] = row \/ local' = local
    <3> HIDE DEF row, F
    <3> QED
      BY <1>0, <2>1, <2>2, <2>3, RowsSet
  <2>5. p \in local[n]["primary"][c] \/ p = Ones
    BY <2>4
  <2>6. Ones[2] \notin Interfaces
    BY <1>0 DEF Ones, IsMesh, Interfaces, Volume
  <2> QED
    BY <1>1, <2>5, <2>6
<1>4. CASE local' = local
  BY <1>1, <1>4
<1>5. ASSUME NEW r \in Ranks, Step(r), r # n
      PROVE  local'[n] = local[n]
  <2>1. CASE Abort(r)
    BY <2>1 DEF Abort
  <2>2. CASE ~Abort(r)
    BY <1>5, <2>2, OthersSame DEF Same
  <2> QED
    BY <2>1, <2>2
<1>6. ASSUME Step(n), ~AddTerm(n), ~SumErrors(n)
      PROVE  local' = local
  BY <1>6 DEF Step, UpdateSensor, SensorUpdated, NoSensor, Throw, Catch, Abort,
              FinishLoop, Add, UpdateGhosts
<1>7. CASE UNCHANGED vars
  BY <1>4, <1>7 DEF vars
<1> QED
  BY <1>1, <1>2, <1>3, <1>4, <1>5, <1>6, <1>7 DEF Next

\* An interface of a cell that is not across a periodic side joins it to a cell of its
\* row of the pattern.
LEMMA EndsInPattern ==
  ASSUME IsMesh(mesh), NEW e \in Interfaces, NEW c \in Ends(e),
         Kind(e) \in {"boundary", "conforming", "hanging"}
  PROVE  Ends(e) \subseteq dRdX_sparsity_pattern(c)
<1>1. Ends(e) = {c, Neighbor(c, e)}
  BY DEF Ends, Neighbor
<1>2. c \in dRdX_sparsity_pattern(c)
  BY DEF dRdX_sparsity_pattern
<1>3. CASE Kind(e) = "boundary"
  <2>1. Neighbor(c, e) = c
    BY <1>3 DEF IsMesh, Interfaces, Kind, Ends, Neighbor
  <2> QED
    BY <1>1, <1>2, <2>1
<1>4. CASE Kind(e) \in {"conforming", "hanging"}
  <2>1. Neighbor(c, e) \in dRdX_sparsity_pattern(c)
    BY <1>4 DEF dRdX_sparsity_pattern
  <2> QED
    BY <1>1, <1>2, <2>1
<1> QED
  BY <1>3, <1>4

(***************************************************************************)
(* The operators that the loop carries.                                    *)
(***************************************************************************)
OneDegree == \A c, d \in Cells : mesh.degree[c] = mesh.degree[d]

\* The tags of process n are the degrees its objects were built for, all but the
\* exterior projection, of the interior degree, and the mapping basis, of which
\* something can be said where there is but one degree.
TagsAreRight(n) ==
  /\ operators[n].int_degree = operators[n].interior
  /\ operators[n].ext_degree = operators[n].exterior
  /\ operators[n].exterior_projection = operators[n].interior
  /\ OneDegree => operators[n].mapping = operators[n].interior

\* The operators o are those for the term that cell c computes of t.
Fits(o, c, t) ==
  /\ o.interior = mesh.degree[c]
  /\ t # Volume /\ Kind(t) # "boundary" /\ Integrates(c, t) =>
       o.exterior = mesh.degree[Neighbor(c, t)]

\* Process n has built its operators for the term it has just added.
BuiltForTerm(n) ==
  stage[n] = "cells" /\ at[n] > 1 /\ setting.form = "strong" =>
    Fits(operators[n], mesh.tasks[n][at[n] - 1][1], mesh.tasks[n][at[n] - 1][2])

BasisInv == \A n \in Ranks : TagsAreRight(n) /\ BuiltForTerm(n)

\* The tags let the loop skip a rebuild only when the objects are those it needs.  A
\* face term rebuilds the interior objects for its cell, of which the tag is told by
\* the volume term: the loop goes cell by cell.
LEMMA OperatorsFit ==
  ASSUME NEW D, NEW o \in OperatorsType(D), NEW p \in D, NEW q \in D,
         o.int_degree = o.interior, o.ext_degree = o.exterior,
         o.exterior_projection = o.interior
  PROVE  /\ LET v == VolumeOperators(o, p)
            IN  /\ v.int_degree = v.interior /\ v.ext_degree = v.exterior
                /\ v.exterior_projection = v.interior /\ v.interior = p
                /\ o.mapping = o.interior => v.mapping = v.interior
         /\ o.interior = p =>
              LET f == FaceOperators(o, p, q)
              IN  /\ f.int_degree = f.interior /\ f.ext_degree = f.exterior
                  /\ f.exterior_projection = f.interior
                  /\ f.interior = p /\ f.exterior = q
                  /\ p = q /\ o.mapping = o.interior => f.mapping = f.interior
  BY DEF VolumeOperators, FaceOperators, Reinit, OperatorsType

\* Who integrates an interface does not change.
LEMMA WorkKept ==
  ASSUME mesh' = mesh, NEW c, NEW t
  PROVE  /\ Kind(t)' = Kind(t) /\ Neighbor(c, t)' = Neighbor(c, t)
         /\ Integrates(c, t)' = Integrates(c, t)
<1>1. Kind(t)' = Kind(t) /\ Neighbor(c, t)' = Neighbor(c, t)
  BY DEF Kind, Neighbor
<1>2. IsCoarser(c, t)' = IsCoarser(c, t)
  BY <1>1 DEF IsCoarser
<1>3. ASSUME NEW m, NEW has \in BOOLEAN
      PROVE  current_cell_should_do_the_work(c, m, has)'
               = current_cell_should_do_the_work(c, m, has)
  BY DEF current_cell_should_do_the_work
<1> QED
  BY <1>1, <1>2, <1>3 DEF Integrates, IsCoarser, Kind, Neighbor,
     current_cell_should_do_the_work

\* A term is added with operators for its cells.
LEMMA AddTermBasis ==
  ASSUME TypeInv, NEW n \in Ranks, TagsAreRight(n), BuiltForTerm(n), AddTerm(n)
  PROVE  TagsAreRight(n)' /\ BuiltForTerm(n)'
<1> DEFINE o == operators[n]
           D == 0 .. MaxDegree
<1>1. PICK i \in 1 .. Len(mesh.tasks[n]) : i = at[n]
  BY Visits DEF AddTerm, TypeInv, TypeOK, CallOK
<1>2. PICK c \in Cells, t \in {Volume} \cup Interfaces : mesh.tasks[n][i] = <<c, t>>
  BY Visits DEF TypeInv, CallOK
<1>3. /\ mesh' = mesh /\ setting' = setting /\ stage[n] = "cells"
      /\ at'[n] = i + 1 /\ (i + 1) - 1 = i
      /\ operators'[n] = OperatorsUsed(o, c, t)
  BY <1>1, <1>2, Visits DEF AddTerm, TypeInv, TypeOK, CallOK
<1>4. /\ o \in OperatorsType(D)
      /\ o.int_degree = o.interior /\ o.ext_degree = o.exterior
      /\ o.exterior_projection = o.interior
      /\ OneDegree => o.mapping = o.interior
  BY DEF TypeInv, TypeOK, TagsAreRight
<1>5. /\ mesh.degree[c] \in D
      /\ t # Volume => mesh.degree[Neighbor(c, t)] \in D
  BY EndsAreCells DEF TypeInv, CallOK, IsMesh, Cells
<1>51. /\ OneDegree' = OneDegree
       /\ OneDegree /\ t # Volume => mesh.degree[c] = mesh.degree[Neighbor(c, t)]
  <2>1. t # Volume => Neighbor(c, t) \in Cells
    BY EndsAreCells DEF TypeInv, CallOK
  <2> QED
    BY <1>2, <1>3, <2>1 DEF OneDegree, Cells
<1>6. setting.form \in {"weak", "strong"}
  BY DEF TypeInv, CallOK, IsSetting
<1>7. /\ TagsAreRight(n)'
      /\ setting.form = "strong" => Fits(operators'[n], c, t)
  <2>1. CASE setting.form = "weak"
    <3>1. operators'[n] = o
      BY <1>3, <2>1 DEF OperatorsUsed
    <3> QED
      BY <1>4, <1>51, <2>1, <3>1 DEF TagsAreRight
  <2>2. CASE setting.form = "strong" /\ t = Volume
    <3>1. operators'[n] = VolumeOperators(o, mesh.degree[c])
      BY <1>3, <2>2 DEF OperatorsUsed
    <3> HIDE DEF o, D
    <3> QED
      BY <1>4, <1>5, <1>51, <2>2, <3>1, OperatorsFit DEF Fits, TagsAreRight
  <2>3. CASE setting.form = "strong" /\ t # Volume
    <3>1. i > 1 /\ mesh.tasks[n][i - 1][1] = c
      <4>1. \A k \in 1 .. Len(mesh.tasks[n]) : mesh.tasks[n][k][2] # Volume =>
              k > 1 /\ mesh.tasks[n][k - 1][1] = mesh.tasks[n][k][1]
        BY Zenon DEF TypeInv, CallOK, IsMesh
      <4>2. mesh.tasks[n][i][1] = c /\ mesh.tasks[n][i][2] = t
        BY <1>2
      <4> QED
        BY <2>3, <4>1, <4>2
    <3>2. o.interior = mesh.degree[c]
      BY <1>1, <1>3, <2>3, <3>1 DEF BuiltForTerm, Fits
    <3>3. operators'[n] = IF Kind(t) # "boundary" /\ Integrates(c, t)
                          THEN FaceOperators(o, mesh.degree[c], mesh.degree[Neighbor(c, t)])
                          ELSE o
      BY <1>3, <2>3 DEF OperatorsUsed
    <3> HIDE DEF o, D
    <3> QED
      BY <1>4, <1>5, <1>51, <2>3, <3>2, <3>3, OperatorsFit DEF Fits, TagsAreRight
  <2> QED
    BY <1>6, <2>1, <2>2, <2>3
<1>8. BuiltForTerm(n)'
  <2>1. mesh'.tasks[n][at'[n] - 1][1] = c /\ mesh'.tasks[n][at'[n] - 1][2] = t
    BY <1>2, <1>3
  <2>2. setting.form = "strong" => Fits(operators[n], c, t)'
    BY <1>3, <1>7, WorkKept DEF Fits
  <2> QED
    BY <1>3, <2>1, <2>2 DEF BuiltForTerm
<1> QED
  BY <1>7, <1>8

\* A process that keeps its operators keeps what is said of them, unless it enters
\* the loop.
LEMMA BasisKept ==
  ASSUME NEW n \in Ranks, TagsAreRight(n), BuiltForTerm(n),
         mesh' = mesh, setting' = setting, operators'[n] = operators[n],
         \/ stage'[n] # "cells"
         \/ at'[n] = 1
         \/ stage'[n] = stage[n] /\ at'[n] = at[n]
  PROVE  TagsAreRight(n)' /\ BuiltForTerm(n)'
<1>1. TagsAreRight(n)'
  BY DEF TagsAreRight, OneDegree, Cells
<1>2. CASE stage'[n] # "cells" \/ at'[n] = 1
  BY <1>1, <1>2 DEF BuiltForTerm
<1>3. CASE stage'[n] = stage[n] /\ at'[n] = at[n]
  <2>1. PICK c, t : /\ c = mesh.tasks[n][at[n] - 1][1]
                    /\ t = mesh.tasks[n][at[n] - 1][2]
    OBVIOUS
  <2>2. /\ mesh'.tasks[n][at'[n] - 1][1] = c
        /\ mesh'.tasks[n][at'[n] - 1][2] = t
    BY <1>3, <2>1
  <2>3. Fits(operators[n], c, t)' <=> Fits(operators[n], c, t)
    BY WorkKept DEF Fits
  <2> QED
    BY <1>1, <1>3, <2>1, <2>2, <2>3 DEF BuiltForTerm
<1> QED
  BY <1>2, <1>3

\* Every step keeps the operators fit for the term they were last used for.
LEMMA BasisStep == TypeInv /\ Control /\ BasisInv /\ [Next]_vars => BasisInv'
<1> SUFFICES ASSUME TypeInv, Control, BasisInv, [Next]_vars, NEW n \in Ranks
             PROVE  TagsAreRight(n)' /\ BuiltForTerm(n)'
  BY DEF BasisInv
<1>0. /\ mesh' = mesh /\ setting' = setting
      /\ TagsAreRight(n) /\ BuiltForTerm(n)
      /\ operators \in [Ranks -> OperatorsType(0 .. MaxDegree)]
  BY CallFixed DEF BasisInv, TypeInv, TypeOK
<1>1. CASE UNCHANGED vars
  BY <1>0, <1>1, BasisKept DEF vars
<1>2. ASSUME NEW r \in Ranks, Step(r), r # n
      PROVE  TagsAreRight(n)' /\ BuiltForTerm(n)'
  <2>1. CASE Abort(r)
    BY <1>0, <2>1, BasisKept DEF Abort
  <2>2. CASE ~Abort(r)
    <3>1. Same(n)
      BY <1>2, <2>2, OthersSame
    <3>2. operators'[n] = operators[n]
      BY <1>0, <1>2 DEF Step, UpdateSensor, SensorUpdated, NoSensor, AddTerm, Throw,
                        Catch, Abort, FinishLoop, SumErrors, Add, UpdateGhosts
    <3> QED
      BY <1>0, <3>1, <3>2, BasisKept DEF Same
  <2> QED
    BY <2>1, <2>2
<1>3. CASE AddTerm(n)
  BY <1>0, <1>3, AddTermBasis
<1>4. CASE SensorUpdated(n) \/ NoSensor(n)
  <2>1. at'[n] = 1 /\ operators' = operators
    BY <1>4 DEF SensorUpdated, NoSensor, Control, ControlOf
  <2> QED
    BY <1>0, <2>1, BasisKept
<1>5. CASE UpdateGhosts(n) /\ loop[n] = "auxiliary"
  <2>1. at'[n] = 1 /\ operators'[n] = Operators(MaxDegree)
    BY <1>0, <1>5 DEF UpdateGhosts, TypeInv, TypeOK
  <2> QED
    BY <2>1 DEF TagsAreRight, BuiltForTerm, Operators
<1>6. CASE UpdateSensor(n) \/ Throw(n) \/ Abort(n) \/ FinishLoop(n) \/ SumErrors(n)
             \/ Add(n) \/ (UpdateGhosts(n) /\ loop[n] # "auxiliary")
  <2>1. operators' = operators
    BY <1>6 DEF UpdateSensor, Throw, Catch, Abort, FinishLoop, SumErrors, Add,
                UpdateGhosts
  <2>2. stage'[n] # "cells"
    <3>1. stage \in [Ranks -> Stages]
      BY DEF TypeInv, TypeOK
    <3> QED
      BY <1>6, <3>1 DEF UpdateSensor, Throw, Catch, Abort, FinishLoop, SumErrors, Add,
                        UpdateGhosts
  <2> QED
    BY <1>0, <2>1, <2>2, BasisKept
<1> QED
  BY <1>1, <1>2, <1>3, <1>4, <1>5, <1>6 DEF Next, Step

\* Where all cells have one degree, everything the next term uses is of it.
LEMMA OneDegreeFits ==
  ASSUME TypeInv, BasisInv, OneDegree, NEW n \in Ranks, AtTerm(n)
  PROVE  SizesFit(n)
<1> DEFINE o == operators[n]
           D == 0 .. MaxDegree
<1>1. PICK i \in 1 .. Len(mesh.tasks[n]) : i = at[n]
  BY Visits DEF AtTerm, TypeInv, TypeOK, CallOK
<1>2. PICK c \in Cells, t \in {Volume} \cup Interfaces : mesh.tasks[n][i] = <<c, t>>
  BY Visits DEF TypeInv, CallOK
<1> DEFINE u == OperatorsUsed(o, c, t)
<1>3. /\ o \in OperatorsType(D)
      /\ o.int_degree = o.interior /\ o.ext_degree = o.exterior
      /\ o.exterior_projection = o.interior
      /\ o.mapping = o.interior
  BY DEF TypeInv, TypeOK, BasisInv, TagsAreRight
<1>4. /\ mesh.degree[c] \in D
      /\ t # Volume => mesh.degree[Neighbor(c, t)] = mesh.degree[c]
  BY EndsAreCells DEF TypeInv, CallOK, IsMesh, Cells, OneDegree
<1>5. CASE t = Volume
  <2>1. u = VolumeOperators(o, mesh.degree[c])
    BY <1>5 DEF OperatorsUsed, AtTerm
  <2> HIDE DEF o, D, u
  <2>2. u.mapping = mesh.degree[c]
    BY <1>3, <1>4, <2>1, OperatorsFit
  <2> QED
    BY <1>1, <1>2, <1>5, <2>2 DEF SizesFit, MappingFitsNext, ProjectionFitsNext,
       TracesFitNext, MappingFits, ProjectionFits, TracesFit, Joins, o, u
<1>6. CASE t # Volume
  <2>1. i > 1 /\ mesh.tasks[n][i - 1][1] = c
    <3>1. \A k \in 1 .. Len(mesh.tasks[n]) : mesh.tasks[n][k][2] # Volume =>
            k > 1 /\ mesh.tasks[n][k - 1][1] = mesh.tasks[n][k][1]
      BY Zenon DEF TypeInv, CallOK, IsMesh
    <3>2. mesh.tasks[n][i][1] = c /\ mesh.tasks[n][i][2] = t
      BY <1>2
    <3> QED
      BY <1>6, <3>1, <3>2
  <2>2. o.interior = mesh.degree[c]
    BY <1>1, <2>1 DEF BasisInv, BuiltForTerm, Fits, AtTerm
  <2>3. u = IF Joins(c, t)
            THEN FaceOperators(o, mesh.degree[c], mesh.degree[Neighbor(c, t)])
            ELSE o
    BY <1>6 DEF OperatorsUsed, Joins, AtTerm
  <2> HIDE DEF o, D, u
  <2>4. u.mapping = mesh.degree[c] /\ u.exterior_projection = mesh.degree[c]
    BY <1>3, <1>4, <1>6, <2>2, <2>3, OperatorsFit
  <2> QED
    BY <1>1, <1>2, <1>3, <1>4, <1>6, <2>2, <2>4 DEF SizesFit, MappingFitsNext,
       ProjectionFitsNext, TracesFitNext, MappingFits, ProjectionFits, TracesFit,
       Joins, o, u
<1> QED
  BY <1>5, <1>6

(***************************************************************************)
(* Waiting.                                                                *)
(***************************************************************************)
\* With dissipation, a process that shares cells with one whose sensor throws sees
\* the inverted cell as well, so that neither enters the exchange of the sensor.
SensorsAgree ==
  setting.dissipation =>
    \A r \in Ranks : \A n \in Sharing(r) : SensorThrows(n) => SensorThrows(r)

Stopped(r) == setting.dissipation /\ SensorThrows(r)

First == IF setting.auxiliary THEN "auxiliary" ELSE "primary"

\* What a process has sent by the time it is where it is; one that its sensor stopped
\* has left out the exchanges of the sensor and of the auxiliary loop.
PostedOf(r) ==
  /\ loop[r] = "auxiliary" => setting.auxiliary
  /\ stage[r] = "sensor" => setting.dissipation
  /\ setting.dissipation /\ stage[r] # "start" /\ ~Stopped(r) =>
       Sent(r, First, "sensor")
  /\ stage[r] \notin {"start", "sensor", "cells"} /\ loop[r] = "primary" =>
       Sent(r, "primary", "sum")
  /\ stage[r] \in {"ghosts", "returned"} => Sent(r, loop[r], "add")
  /\ setting.auxiliary /\ ~Stopped(r) /\ loop[r] = "primary" =>
       Sent(r, "auxiliary", "add") /\ Sent(r, "auxiliary", "ghosts")
  /\ Stopped(r) /\ stage[r] # "start" =>
       loop[r] = "primary" /\ stage[r] \in {"sum", "add", "ghosts", "returned"}

PostedInv == \A r \in Ranks : stage[r] # "aborted" => PostedOf(r)

AbortedInv ==
  (\E r \in Ranks : stage[r] = "aborted") => \A r \in Ranks : stage[r] = "aborted"

\* The program ends on all processes at once.
LEMMA AbortedStep == TypeInv /\ AbortedInv /\ [Next]_vars => AbortedInv'
<1> SUFFICES ASSUME TypeInv, AbortedInv, [Next]_vars,
                    NEW n \in Ranks, stage'[n] = "aborted"
             PROVE  \A r \in Ranks : stage'[r] = "aborted"
  BY DEF AbortedInv
<1>1. CASE UNCHANGED vars
  BY <1>1 DEF vars, AbortedInv
<1>2. ASSUME NEW r \in Ranks, Abort(r)
      PROVE  \A m \in Ranks : stage'[m] = "aborted"
  BY <1>2 DEF Abort
<1>3. ASSUME NEW r \in Ranks, Step(r), ~Abort(r)
      PROVE  stage[r] # "aborted" /\ stage'[r] # "aborted"
  <2>1. CASE Catch(r)
    <3>1. stage'[r] = "sum"
      BY <2>1, BeginEffects DEF Goes
    <3>2. stage[r] # "aborted"
      BY <1>3 DEF Step, UpdateSensor, SensorUpdated, NoSensor, AddTerm, Throw,
                  AtDistorted, FinishLoop, SumErrors, Add, UpdateGhosts
    <3> QED
      BY <3>1, <3>2
  <2>2. CASE SensorUpdated(r) \/ NoSensor(r) \/ (UpdateSensor(r) /\ ~Catch(r))
    BY <2>2, BeginEffects DEF Goes, SensorUpdated, NoSensor, UpdateSensor
  <2>3. CASE AddTerm(r) \/ FinishLoop(r)
    BY <2>3, LoopEffects DEF Goes, AddTerm, FinishLoop
  <2>4. CASE SumErrors(r) \/ Add(r) \/ UpdateGhosts(r)
    BY <2>4, ExchangeEffects DEF Goes, SumErrors, Add, UpdateGhosts
  <2> QED
    BY <1>3, <2>1, <2>2, <2>3, <2>4 DEF Step, Throw
<1>4. ASSUME NEW r \in Ranks, Step(r), ~Abort(r)
      PROVE  FALSE
  <2>1. n # r
    BY <1>3, <1>4
  <2>2. stage[n] = "aborted"
    BY <1>4, <2>1, OthersSame DEF Same
  <2>3. stage[r] = "aborted"
    BY <2>2 DEF AbortedInv
  <2> QED
    BY <1>3, <1>4, <2>3
<1> QED
  BY <1>1, <1>2, <1>4 DEF Next

\* Whose sensor throws does not change.
LEMMA StoppedStays ==
  ASSUME [Next]_vars
  PROVE  /\ First' = First
         /\ \A r : Stopped(r)' <=> Stopped(r)
         /\ \A r : Sharing(r)' = Sharing(r)
         /\ SensorsAgree' <=> SensorsAgree
<1>1. mesh' = mesh /\ setting' = setting
  BY CallFixed
<1>2. \A r : Owned(r)' = Owned(r) /\ Ghosts(r)' = Ghosts(r)
  BY <1>1 DEF Owned, Ghosts, Cells, Interfaces, Ends
<1>3. \A r : SensorThrows(r)' <=> SensorThrows(r)
  BY <1>1, <1>2 DEF SensorThrows
<1>4. \A r : Sharing(r)' = Sharing(r)
  BY <1>1, <1>2 DEF Sharing
<1> QED
  BY <1>1, <1>3, <1>4 DEF First, Stopped, SensorsAgree

\* Every step keeps what has been sent.
LEMMA PostedStep == Inv /\ PostedInv /\ [Next]_vars => PostedInv'
<1> SUFFICES ASSUME Inv, PostedInv, [Next]_vars, NEW n \in Ranks,
                    stage'[n] # "aborted"
             PROVE  PostedOf(n)'
  BY DEF PostedInv
<1>0. /\ TypeInv /\ ControlOf(n)
      /\ setting' = setting /\ First' = First /\ (Stopped(n)' <=> Stopped(n))
      /\ loop[n] \in {"auxiliary", "primary"}
      /\ setting.auxiliary \in BOOLEAN /\ setting.dissipation \in BOOLEAN
      /\ setting.auxiliary => setting.form = "strong"
  <2>1. TypeInv /\ ControlOf(n)
    BY DEF Inv, Control
  <2> QED
    BY <2>1, CallFixed, StoppedStays DEF TypeInv, TypeOK, CallOK, IsSetting, Loops
<1>1. stage[n] # "aborted" => PostedOf(n)
  BY DEF PostedInv
<1> HIDE DEF First, Stopped
<1>2. CASE UNCHANGED vars
  BY <1>0, <1>1, <1>2 DEF vars, PostedOf, Sent
<1>3. ASSUME NEW r \in Ranks, Step(r), ~Abort(r), n # r
      PROVE  PostedOf(n)'
  BY <1>0, <1>1, <1>3, OthersSame DEF Same, PostedOf, Sent
<1>4. ~ \E r \in Ranks : Abort(r)
  BY DEF Abort
<1>5. ASSUME Step(n)
      PROVE  PostedOf(n)'
  <2>0. ~Abort(n)
    BY <1>4
  <2>1. CASE Catch(n) /\ UpdateSensor(n)
    <3>1. /\ stage[n] = "start" /\ setting.dissipation
          /\ Goes(n, "sum", "primary", {<<"primary", "sum">>})
      BY <1>0, <2>1, BeginEffects DEF UpdateSensor
    <3>2. Stopped(n)
      <4>1. stage'[n] = "sum"
        BY <3>1 DEF Goes
      <4>2. ~(stage' = [stage EXCEPT ![n] = "sensor"])
        BY <1>0, <4>1 DEF TypeInv, TypeOK
      <4> QED
        BY <2>1, <3>1, <4>2 DEF UpdateSensor, Stopped
    <3> QED
      BY <1>0, <3>1, <3>2, SentAfter DEF PostedOf, Sent, Goes
  <2>2. CASE Throw(n)
    <3>1. /\ stage[n] = "cells" /\ setting.form = "weak"
          /\ Goes(n, "sum", "primary", {<<"primary", "sum">>})
      BY <1>0, <2>2, BeginEffects DEF Throw, AtDistorted
    <3>2. ~setting.auxiliary /\ ~Stopped(n)
      BY <1>0, <1>1, <3>1 DEF PostedOf
    <3> QED
      BY <1>0, <1>1, <3>1, <3>2, SentAfter DEF PostedOf, Sent, Goes
  <2>3. CASE UpdateSensor(n) /\ ~Catch(n)
    <3>1. /\ Goes(n, "sensor", loop[n], {<<loop[n], "sensor">>})
          /\ stage[n] = "start" /\ setting.dissipation
      BY <1>0, <2>3, BeginEffects DEF UpdateSensor
    <3>2. ~Stopped(n)
      BY <2>3 DEF UpdateSensor, Stopped
    <3>3. loop[n] = First
      BY <1>0, <3>1 DEF ControlOf, First
    <3>4. loop[n] = "primary" => ~setting.auxiliary
      BY <3>3 DEF First
    <3> QED
      BY <1>0, <1>1, <3>1, <3>2, <3>3, <3>4, SentAfter DEF PostedOf, Sent, Goes
  <2>4. CASE SensorUpdated(n) \/ NoSensor(n)
    <3>1. Goes(n, "cells", loop[n], {}) /\ stage[n] \in {"start", "sensor"}
      BY <1>0, <2>4, BeginEffects DEF SensorUpdated, NoSensor
    <3>2. stage[n] = "start" => ~setting.dissipation
      BY <2>4, <3>1 DEF SensorUpdated, NoSensor
    <3>3. ~Stopped(n)
      BY <1>1, <3>1, <3>2 DEF PostedOf, Stopped
    <3> QED
      BY <1>0, <1>1, <3>1, <3>2, <3>3, NothingSent DEF PostedOf, Sent, Goes
  <2>5. CASE AddTerm(n)
    <3>1. Goes(n, "cells", loop[n], {}) /\ stage[n] = "cells"
      BY <1>0, <2>5, LoopEffects DEF AddTerm
    <3> QED
      BY <1>0, <1>1, <3>1, NothingSent DEF PostedOf, Sent, Goes
  <2>6. CASE FinishLoop(n)
    <3> DEFINE next == IF loop[n] = "auxiliary" THEN "add" ELSE "sum"
    <3>1. Goes(n, next, loop[n], {<<loop[n], next>>}) /\ stage[n] = "cells"
      BY <1>0, <2>6, LoopEffects DEF FinishLoop
    <3>2. \A k, w : (<<k, w>> \in posted'[n])
                      <=> <<k, w>> \in posted[n] \/ (k = loop[n] /\ w = next)
      <4> HIDE DEF next
      <4> QED
        BY <3>1 DEF Goes
    <3>3. CASE loop[n] = "auxiliary"
      BY <1>0, <1>1, <3>1, <3>2, <3>3 DEF PostedOf, Sent, Goes
    <3>4. CASE loop[n] = "primary"
      BY <1>0, <1>1, <3>1, <3>2, <3>4 DEF PostedOf, Sent, Goes
    <3> QED
      BY <1>0, <3>3, <3>4
  <2>7. CASE SumErrors(n)
    <3>1. Goes(n, "add", loop[n], {<<"primary", "add">>}) /\ stage[n] = "sum"
      BY <1>0, <2>7, ExchangeEffects DEF SumErrors
    <3> QED
      BY <1>0, <1>1, <3>1, SentAfter DEF PostedOf, Sent, Goes
  <2>8. CASE Add(n)
    <3>1. Goes(n, "ghosts", loop[n], {<<loop[n], "ghosts">>}) /\ stage[n] = "add"
      BY <1>0, <2>8, ExchangeEffects DEF Add
    <3> QED
      BY <1>0, <1>1, <3>1, SentAfter DEF PostedOf, ControlOf, Sent, Goes
  <2>9. CASE UpdateGhosts(n)
    <3>1. \/ loop[n] = "auxiliary" /\ Goes(n, "cells", "primary", {})
          \/ loop[n] # "auxiliary" /\ Goes(n, "returned", loop[n], {})
      BY <1>0, <2>9, ExchangeEffects
    <3>2. stage[n] = "ghosts"
      BY <2>9 DEF UpdateGhosts
    <3> QED
      BY <1>0, <1>1, <3>1, <3>2, NothingSent DEF PostedOf, ControlOf, Sent, Goes
  <2> QED
    BY <1>5, <2>0, <2>1, <2>2, <2>3, <2>4, <2>5, <2>6, <2>7, <2>8, <2>9
       DEF Step, Throw
<1> QED
  BY <1>2, <1>3, <1>4, <1>5 DEF Next

\* How far a process is in the call.
Phase(r) ==
  CASE stage[r] = "start" -> 0
    [] stage[r] = "sensor" -> 1
    [] stage[r] = "cells" /\ loop[r] = "auxiliary" -> 2
    [] stage[r] = "add" /\ loop[r] = "auxiliary" -> 3
    [] stage[r] = "ghosts" /\ loop[r] = "auxiliary" -> 4
    [] stage[r] = "cells" /\ loop[r] = "primary" -> 5
    [] stage[r] = "sum" -> 6
    [] stage[r] = "add" /\ loop[r] = "primary" -> 7
    [] stage[r] = "ghosts" /\ loop[r] = "primary" -> 8
    [] OTHER -> 9

\* The values of Phase, place by place.
LEMMA Phases ==
  ASSUME NEW r
  PROVE  /\ Phase(r) \in Nat
         /\ stage[r] = "start" => Phase(r) = 0
         /\ stage[r] = "sensor" => Phase(r) = 1
         /\ stage[r] = "sum" => Phase(r) = 6
         /\ loop[r] = "auxiliary" => /\ stage[r] = "cells" => Phase(r) = 2
                                     /\ stage[r] = "add" => Phase(r) = 3
                                     /\ stage[r] = "ghosts" => Phase(r) = 4
         /\ loop[r] = "primary" => /\ stage[r] = "cells" => Phase(r) = 5
                                   /\ stage[r] = "add" => Phase(r) = 7
                                   /\ stage[r] = "ghosts" => Phase(r) = 8
  BY DEF Phase

\* A process that shares cells with another is a process.
LEMMA SharersAreRanks ==
  ASSUME TypeInv, NEW r \in Ranks
  PROVE  Sharing(r) \subseteq Ranks
  BY DEF TypeInv, CallOK, IsMesh, Sharing, Ghosts, Cells

\* A process that has to wait waits for one that is further behind.
LEMMA WaitsForOneBehind ==
  ASSUME Inv, PostedInv, SensorsAgree, \A n \in Ranks : stage[n] # "aborted",
         NEW r \in Ranks, ~Finished(r), ~CanGoOn(r)
  PROVE  \E n \in Ranks : ~Finished(n) /\ Phase(n) < Phase(r)
<1>0. TypeInv /\ Control
  BY DEF Inv
<1>1. \A n \in Ranks :
        /\ ControlOf(n) /\ PostedOf(n)
        /\ stage[n] \in Stages /\ loop[n] \in {"auxiliary", "primary"}
        /\ stage[n] # "aborted"
  BY <1>0 DEF Control, PostedInv, TypeInv, TypeOK, Loops
<1>2. Sharing(r) \subseteq Ranks
  BY <1>0, SharersAreRanks
<1> HIDE DEF First, Stopped
<1>3. CASE stage[r] = "sensor"
  <2>1. PICK n \in Sharing(r) : ~Sent(n, loop[r], "sensor")
    BY <1>3 DEF CanGoOn, Arrived, Sent
  <2>2. setting.dissipation /\ loop[r] = First /\ ~Stopped(r)
    BY <1>1, <1>3 DEF ControlOf, PostedOf, First
  <2>3. n \in Ranks /\ ~Stopped(n)
    BY <1>2, <2>2 DEF SensorsAgree, Stopped
  <2>4. stage[n] = "start"
    BY <1>1, <2>1, <2>2, <2>3 DEF PostedOf
  <2>5. Phase(n) = 0 /\ Phase(r) = 1
    BY <1>3, <2>4, Phases
  <2> QED
    BY <2>3, <2>4, <2>5 DEF Finished
<1>4. CASE stage[r] = "sum"
  <2>1. PICK n \in Ranks : ~Sent(n, "primary", "sum")
    BY <1>4 DEF CanGoOn, SumArrived, Sent
  <2>2. \/ stage[n] \in {"start", "sensor", "cells"}
        \/ loop[n] = "auxiliary" /\ stage[n] \in {"add", "ghosts"}
    BY <1>1, <2>1 DEF PostedOf, ControlOf, Stages
  <2>3. Phase(n) \in 0 .. 5 /\ Phase(r) = 6
    BY <1>1, <1>4, <2>2, Phases
  <2> QED
    BY <2>2, <2>3 DEF Finished
<1>5. CASE stage[r] \in {"add", "ghosts"} /\ loop[r] = "primary"
  <2>1. PICK n \in Sharing(r) : ~Sent(n, "primary", stage[r])
    BY <1>5 DEF CanGoOn, Arrived, Sent
  <2>2. n \in Ranks
    BY <1>2
  <2>3. \/ stage[n] \in {"start", "sensor", "cells", "sum"}
        \/ loop[n] = "auxiliary" /\ stage[n] \in {"add", "ghosts"}
        \/ stage[r] = "ghosts" /\ loop[n] = "primary" /\ stage[n] = "add"
    BY <1>1, <1>5, <2>1, <2>2 DEF PostedOf, ControlOf, Stages
  <2>4. Phase(n) < Phase(r)
    <3>1. stage[r] = "add" => Phase(r) = 7
      BY <1>5, Phases
    <3>2. stage[r] = "ghosts" => Phase(r) = 8
      BY <1>5, Phases
    <3>3. CASE \/ stage[n] \in {"start", "sensor", "cells", "sum"}
               \/ loop[n] = "auxiliary" /\ stage[n] \in {"add", "ghosts"}
      <4>1. Phase(n) \in 0 .. 6
        BY <1>1, <2>2, <3>3, Phases
      <4> QED
        BY <1>5, <3>1, <3>2, <4>1
    <3>4. CASE stage[r] = "ghosts" /\ loop[n] = "primary" /\ stage[n] = "add"
      <4>1. Phase(n) = 7
        BY <3>4, Phases
      <4> QED
        BY <3>2, <3>4, <4>1
    <3> QED
      BY <2>3, <3>3, <3>4
  <2> QED
    BY <2>2, <2>3, <2>4 DEF Finished
<1>6. CASE stage[r] \in {"add", "ghosts"} /\ loop[r] = "auxiliary"
  <2>1. PICK n \in Sharing(r) : ~Sent(n, "auxiliary", stage[r])
    BY <1>6 DEF CanGoOn, Arrived, Sent
  <2>2. n \in Ranks /\ ~Stopped(n)
    <3>1. ~Stopped(r)
      BY <1>1, <1>6 DEF PostedOf
    <3> QED
      BY <1>2, <3>1 DEF SensorsAgree, Stopped
  <2>3. CASE stage[n] \in {"start", "sensor"}
    <3>1. Phase(n) \in 0 .. 1
      BY <2>3, Phases
    <3>2. Phase(r) \in 3 .. 4
      BY <1>6, Phases
    <3> QED
      BY <2>2, <2>3, <3>1, <3>2 DEF Finished
  <2>4. CASE loop[n] = "auxiliary" /\ stage[n] \notin {"start", "sensor"}
    <3>1. \/ stage[n] = "cells"
          \/ stage[r] = "ghosts" /\ stage[n] = "add"
      BY <1>1, <1>6, <2>1, <2>2, <2>4 DEF PostedOf, ControlOf, Stages
    <3>2. Phase(n) < Phase(r)
      <4>1. stage[r] = "add" => Phase(r) = 3
        BY <1>6, Phases
      <4>2. stage[r] = "ghosts" => Phase(r) = 4
        BY <1>6, Phases
      <4>3. stage[n] = "cells" => Phase(n) = 2
        BY <2>4, Phases
      <4>4. stage[n] = "add" => Phase(n) = 3
        BY <2>4, Phases
      <4> QED
        BY <1>6, <3>1, <4>1, <4>2, <4>3, <4>4
    <3> QED
      BY <2>2, <3>1, <3>2 DEF Finished
  <2>5. CASE loop[n] = "primary" /\ stage[n] \notin {"start", "sensor"}
    <3>1. setting.auxiliary
      BY <1>1, <1>6 DEF PostedOf
    <3> QED
      BY <1>1, <1>6, <2>1, <2>2, <2>5, <3>1 DEF PostedOf
  <2> QED
    BY <1>1, <2>2, <2>3, <2>4, <2>5
<1>7. stage[r] \in {"sensor", "sum", "add", "ghosts"}
  BY DEF CanGoOn
<1> QED
  BY <1>1, <1>3, <1>4, <1>5, <1>6, <1>7

\* Of the processes that have not finished one is furthest behind.
LEMMA OneIsLast ==
  ASSUME NEW r \in Ranks, ~Finished(r)
  PROVE  \E m \in Ranks :
           ~Finished(m) /\ \A n \in Ranks : ~Finished(n) => ~(Phase(n) < Phase(m))
<1> DEFINE P == {Phase(n) : n \in {n \in Ranks : ~Finished(n)}}
<1>1. P \subseteq Nat /\ P # {}
  BY Phases
<1>2. IsWellFoundedOn(OpToRel(<, Nat), Nat)
  BY NatLessThanWellFounded
<1>3. PICK p \in P : \A q \in P : ~(<<q, p>> \in OpToRel(<, Nat))
  BY <1>1, <1>2, WFMin
<1>4. PICK m \in Ranks : ~Finished(m) /\ Phase(m) = p
  OBVIOUS
<1>5. \A n \in Ranks : ~Finished(n) => ~(Phase(n) < Phase(m))
  BY <1>1, <1>3, <1>4 DEF OpToRel
<1> QED
  BY <1>4, <1>5

\* While some process has not finished, one of them can go on.
LEMMA SomeoneCanGoOn ==
  ASSUME Inv, PostedInv, AbortedInv, SensorsAgree
  PROVE  NobodyIsStuck
<1> SUFFICES ASSUME NEW r \in Ranks, ~Finished(r)
             PROVE  \E m \in Ranks : CanGoOn(m)
  BY DEF NobodyIsStuck
<1>1. \A n \in Ranks : stage[n] # "aborted"
  BY DEF AbortedInv, Finished
<1>2. PICK m \in Ranks :
        ~Finished(m) /\ \A n \in Ranks : ~Finished(n) => ~(Phase(n) < Phase(m))
  BY OneIsLast
<1>3. CanGoOn(m)
  <2> SUFFICES ASSUME ~CanGoOn(m) PROVE FALSE
    OBVIOUS
  <2>1. PICK n \in Ranks : ~Finished(n) /\ Phase(n) < Phase(m)
    <3>1. \E n \in Ranks : ~Finished(n) /\ Phase(n) < Phase(m)
      BY <1>1, <1>2, WaitsForOneBehind
    <3> QED
      BY <3>1
  <2> QED
    BY <1>2, <2>1
<1> QED
  BY <1>3

\* Nothing has been sent at the start.
LEMMA PostedStarts == Init => PostedInv /\ AbortedInv
<1> SUFFICES ASSUME Init PROVE PostedInv /\ AbortedInv
  OBVIOUS
<1>1. \A r \in Ranks :
        /\ stage[r] = "start"
        /\ loop[r] = (IF setting.auxiliary THEN "auxiliary" ELSE "primary")
  BY DEF Init
<1>2. setting.auxiliary \in BOOLEAN
  BY CallsAssumption DEF Init
<1>3. PostedInv
  <2> HIDE DEF First, Stopped
  <2> QED
    BY <1>1, <1>2 DEF PostedInv, PostedOf
<1> QED
  BY <1>1, <1>3 DEF AbortedInv

(***************************************************************************)
(* How much a process has still to do at most.                             *)
(***************************************************************************)
\* At a stage of a loop, before the a-th of n terms.
Left(s, l, a, n) ==
  CASE s = "start" -> 9 + 2 * n
    [] s = "sensor" -> 8 + 2 * n
    [] s = "cells" /\ l = "auxiliary" -> 8 + 2 * n - a
    [] s = "add" /\ l = "auxiliary" -> 6 + n
    [] s = "ghosts" /\ l = "auxiliary" -> 5 + n
    [] s = "cells" /\ l = "primary" -> 5 + n - a
    [] s = "sum" -> 3
    [] s = "add" /\ l = "primary" -> 2
    [] s = "ghosts" /\ l = "primary" -> 1
    [] OTHER -> 0

ToDo(r) == Left(stage[r], loop[r], at[r], Len(mesh.tasks[r]))

\* A step leaves some process less to do, and none more.
Descends ==
  /\ \A r \in Ranks : ToDo(r) \in Nat /\ ToDo(r)' \in Nat /\ ToDo(r)' <= ToDo(r)
  /\ \E r \in Ranks : ToDo(r)' < ToDo(r)

\* What is left is a natural number.
LEMMA LeftIsNatural ==
  ASSUME NEW s, NEW l, NEW n \in Nat, NEW a \in 1 .. (n + 1)
  PROVE  Left(s, l, a, n) \in Nat
<1>1. a \in Nat /\ a <= n + 1
  OBVIOUS
<1>2. /\ 8 + 2 * n - a \in Nat /\ 5 + n - a \in Nat
      /\ 9 + 2 * n \in Nat /\ 8 + 2 * n \in Nat
  BY <1>1
<1> QED
  BY <1>2 DEF Left

\* Every step of a process, by the values it has before and after.
LEMMA LeftDescends ==
  ASSUME NEW n \in Nat, NEW l \in {"auxiliary", "primary"}, NEW a \in 1 .. (n + 1)
  PROVE  /\ Left("sum", "primary", a, n) < Left("start", l, a, n)
         /\ Left("sensor", l, a, n) < Left("start", l, a, n)
         /\ Left("cells", l, a, n) < Left("start", l, a, n)
         /\ Left("cells", l, a, n) < Left("sensor", l, a, n)
         /\ Left("cells", l, a + 1, n) < Left("cells", l, a, n)
         /\ a <= n => Left("sum", "primary", a, n) < Left("cells", l, a, n)
         /\ Left("sum", "primary", a, n) < Left("cells", "primary", a, n)
         /\ Left("add", "auxiliary", a, n) < Left("cells", "auxiliary", a, n)
         /\ Left("add", "primary", a, n) < Left("sum", "primary", a, n)
         /\ Left("ghosts", l, a, n) < Left("add", l, a, n)
         /\ Left("cells", "primary", 1, n) < Left("ghosts", "auxiliary", a, n)
         /\ Left("returned", "primary", a, n) < Left("ghosts", "primary", a, n)
<1>1. a \in Nat /\ a >= 1 /\ a <= n + 1
  OBVIOUS
<1>2. CASE l = "auxiliary"
  BY <1>1, <1>2 DEF Left
<1>3. CASE l = "primary"
  BY <1>1, <1>3 DEF Left
<1> QED
  BY <1>2, <1>3

\* Where the program is aborted nothing is left to do.
LEMMA AbortLeavesNothing ==
  ASSUME NEW l, NEW n \in Nat, NEW a \in 1 .. n
  PROVE  Left("aborted", l, a, n) = 0 /\ (l \in {"auxiliary", "primary"} => Left("cells", l, a, n) > 0)
  BY DEF Left

\* A step of a process, unless it ends the program, leaves it less to do.
LEMMA OwnStepDescends ==
  ASSUME Inv, NEW r \in Ranks, Step(r), ~Abort(r)
  PROVE  ToDo(r)' < ToDo(r)
<1> DEFINE n == Len(mesh.tasks[r])
<1>0. TypeInv /\ ControlOf(r)
  BY DEF Inv, Control
<1>1. /\ n \in Nat /\ at[r] \in 1 .. (n + 1) /\ 1 \in 1 .. (n + 1)
      /\ loop[r] \in {"auxiliary", "primary"}
  BY <1>0 DEF TypeInv, TypeOK, CallOK, IsMesh, Loops
<1>2. mesh' = mesh
  BY CallFixed DEF Next
<1>3. /\ ToDo(r) = Left(stage[r], loop[r], at[r], n)
      /\ ToDo(r)' = Left(stage'[r], loop'[r], at'[r], n)
  BY <1>2 DEF ToDo
<1> HIDE DEF n
<1>4. CASE Catch(r) /\ UpdateSensor(r)
  <2>1. Goes(r, "sum", "primary", {<<"primary", "sum">>}) /\ stage[r] = "start"
    BY <1>0, <1>4, BeginEffects DEF UpdateSensor
  <2>2. at'[r] = at[r]
    BY <1>4 DEF Catch
  <2> QED
    BY <1>1, <1>3, <2>1, <2>2, LeftDescends DEF Goes
<1>5. CASE Throw(r)
  <2>1. Goes(r, "sum", "primary", {<<"primary", "sum">>}) /\ stage[r] = "cells"
    BY <1>0, <1>5, BeginEffects DEF Throw, AtDistorted
  <2>2. at'[r] = at[r] /\ at[r] <= n
    BY <1>5 DEF Throw, AtDistorted, Catch, n
  <2> QED
    BY <1>1, <1>3, <2>1, <2>2, LeftDescends DEF Goes
<1>6. CASE UpdateSensor(r) /\ ~Catch(r)
  <2>1. Goes(r, "sensor", loop[r], {<<loop[r], "sensor">>}) /\ stage[r] = "start"
    BY <1>0, <1>6, BeginEffects DEF UpdateSensor
  <2>2. at'[r] = at[r]
    BY <1>6 DEF UpdateSensor
  <2> QED
    BY <1>1, <1>3, <2>1, <2>2, LeftDescends DEF Goes
<1>7. CASE SensorUpdated(r) \/ NoSensor(r)
  <2>1. Goes(r, "cells", loop[r], {}) /\ stage[r] \in {"start", "sensor"}
    BY <1>0, <1>7, BeginEffects DEF SensorUpdated, NoSensor
  <2>2. at'[r] = at[r]
    BY <1>7 DEF SensorUpdated, NoSensor
  <2>3. CASE stage[r] = "start"
    BY <1>1, <1>3, <2>1, <2>2, <2>3, LeftDescends DEF Goes
  <2>4. CASE stage[r] = "sensor"
    BY <1>1, <1>3, <2>1, <2>2, <2>4, LeftDescends DEF Goes
  <2> QED
    BY <2>1, <2>3, <2>4
<1>8. CASE AddTerm(r)
  <2>1. Goes(r, "cells", loop[r], {}) /\ at'[r] = at[r] + 1 /\ stage[r] = "cells"
    BY <1>0, <1>8, LoopEffects DEF AddTerm
  <2> QED
    BY <1>1, <1>3, <2>1, LeftDescends DEF Goes
<1>9. CASE FinishLoop(r)
  <2> DEFINE next == IF loop[r] = "auxiliary" THEN "add" ELSE "sum"
  <2>1. Goes(r, next, loop[r], {<<loop[r], next>>}) /\ stage[r] = "cells"
    BY <1>0, <1>9, LoopEffects DEF FinishLoop
  <2>2. at'[r] = at[r] /\ stage'[r] = next /\ loop'[r] = loop[r]
    <3> HIDE DEF next
    <3> QED
      BY <1>9, <2>1 DEF FinishLoop, Goes
  <2>3. CASE loop[r] = "auxiliary"
    BY <1>1, <1>3, <2>1, <2>2, <2>3, LeftDescends
  <2>4. CASE loop[r] = "primary"
    BY <1>1, <1>3, <2>1, <2>2, <2>4, LeftDescends
  <2> QED
    BY <1>1, <2>3, <2>4
<1>10. CASE SumErrors(r)
  <2>1. Goes(r, "add", loop[r], {<<"primary", "add">>}) /\ stage[r] = "sum"
    BY <1>0, <1>10, ExchangeEffects DEF SumErrors
  <2>2. at'[r] = at[r] /\ loop[r] = "primary"
    BY <1>0, <1>10, <2>1 DEF SumErrors, ControlOf
  <2> QED
    BY <1>1, <1>3, <2>1, <2>2, LeftDescends DEF Goes
<1>11. CASE Add(r)
  <2>1. Goes(r, "ghosts", loop[r], {<<loop[r], "ghosts">>}) /\ stage[r] = "add"
    BY <1>0, <1>11, ExchangeEffects DEF Add
  <2>2. at'[r] = at[r]
    BY <1>11 DEF Add
  <2> QED
    BY <1>1, <1>3, <2>1, <2>2, LeftDescends DEF Goes
<1>12. CASE UpdateGhosts(r) /\ loop[r] = "auxiliary"
  <2>1. Goes(r, "cells", "primary", {}) /\ at'[r] = 1 /\ stage[r] = "ghosts"
    BY <1>0, <1>12, ExchangeEffects DEF UpdateGhosts
  <2> QED
    BY <1>1, <1>3, <1>12, <2>1, LeftDescends DEF Goes
<1>13. CASE UpdateGhosts(r) /\ loop[r] = "primary"
  <2>1. Goes(r, "returned", loop[r], {}) /\ stage[r] = "ghosts"
    BY <1>0, <1>13, ExchangeEffects DEF UpdateGhosts
  <2>2. at'[r] = at[r]
    BY <1>13 DEF UpdateGhosts
  <2> QED
    BY <1>1, <1>3, <1>13, <2>1, <2>2, LeftDescends DEF Goes
<1> QED
  BY <1>1, <1>4, <1>5, <1>6, <1>7, <1>8, <1>9, <1>10, <1>11, <1>12, <1>13
     DEF Step, Throw

\* Where one process ends the program none has anything left to do.
LEMMA AbortDescends ==
  ASSUME TypeInv, NEW r \in Ranks, Abort(r)
  PROVE  (\A n \in Ranks : ToDo(n)' = 0) /\ ToDo(r) > 0
<1>1. /\ at[r] \in 1 .. Len(mesh.tasks[r]) /\ Len(mesh.tasks[r]) \in Nat
      /\ loop[r] \in {"auxiliary", "primary"} /\ stage[r] = "cells"
  <2>1. stage[r] = "cells" /\ at[r] <= Len(mesh.tasks[r])
    BY DEF Abort, AtTerm
  <2>2. loop[r] \in {"auxiliary", "primary"} /\ at[r] \in Nat
        /\ at[r] \in 1 .. (Len(mesh.tasks[r]) + 1)
    BY DEF TypeInv, TypeOK, Loops
  <2>3. Len(mesh.tasks[r]) \in Nat
    BY DEF TypeInv, CallOK, IsMesh
  <2> QED
    BY <2>1, <2>2, <2>3
<1>2. ToDo(r) > 0
  BY <1>1, AbortLeavesNothing DEF ToDo
<1>3. \A n \in Ranks : stage'[n] = "aborted"
  BY DEF Abort
<1> QED
  BY <1>2, <1>3 DEF ToDo, Left

\* What a process has to do is a natural number.
LEMMA ToDoIsNatural ==
  ASSUME TypeInv, NEW r \in Ranks
  PROVE  ToDo(r) \in Nat
<1>1. Len(mesh.tasks[r]) \in Nat /\ at[r] \in 1 .. (Len(mesh.tasks[r]) + 1)
  BY DEF TypeInv, TypeOK, CallOK, IsMesh
<1> QED
  BY <1>1, LeftIsNatural DEF ToDo

\* Every step of the call brings it nearer to its end.
LEMMA StepDescends ==
  ASSUME Inv, TypeInv', Next
  PROVE  Descends
<1>0. TypeInv
  BY DEF Inv
<1>1. PICK r \in Ranks : Step(r)
  BY DEF Next
<1>2. \A n \in Ranks : ToDo(n) \in Nat
  BY <1>0, ToDoIsNatural
<1>3. \A n \in Ranks : ToDo(n)' \in Nat
  <2> SUFFICES ASSUME NEW n \in Ranks PROVE ToDo(n)' \in Nat
    OBVIOUS
  <2>1. Len(mesh'.tasks[n]) \in Nat /\ at'[n] \in 1 .. (Len(mesh'.tasks[n]) + 1)
    BY DEF TypeInv, TypeOK, CallOK, IsMesh
  <2> QED
    BY <2>1, LeftIsNatural DEF ToDo
<1>4. CASE Abort(r)
  BY <1>0, <1>2, <1>3, <1>4, AbortDescends DEF Descends
<1>5. CASE ~Abort(r)
  <2>1. ToDo(r)' < ToDo(r)
    BY <1>1, <1>5, OwnStepDescends
  <2>2. \A n \in Ranks : n # r => ToDo(n)' = ToDo(n)
    BY <1>0, <1>1, <1>5, OthersSame, CallFixed DEF Same, ToDo
  <2> QED
    BY <1>2, <1>3, <2>1, <2>2 DEF Descends
<1> QED
  BY <1>4, <1>5

(***************************************************************************)
(* The theorems.                                                           *)
(***************************************************************************)
\* assemble_residual keeps the types of what it works on, whatever the mesh, its
\* partition and the order in which the processes take their steps.
THEOREM TypeCorrect == Spec => []TypeOK
  BY Invariance, PTL DEF Inv, TypeInv

\* The processes to which assemble_residual has returned agree on whether a cell was
\* inverted.
THEOREM AgreementCorrect == Spec => []RanksAgree
<1>1. Inv => RanksAgree
  BY DEF Inv, Agreement, Summed, Failed, RanksAgree
<1> QED
  BY <1>1, Invariance, PTL

\* If each interface is integrated by one of its cells, every process to which
\* assemble_residual returns a residual reads complete rows in it.
THEOREM ExactlyOnceCorrect == Spec /\ WorkIsOrdered => []ExactlyOnce
<1>1. OrderedInv => ExactlyOnce
  <2> SUFFICES ASSUME OrderedInv, NEW r \in Ranks, stage[r] = "returned", ~filled[r],
                      NEW c \in Reads(r)
               PROVE  Complete(assembled[r]["primary"][c], c)
    BY DEF ExactlyOnce
  <2>1. ~Failed
    BY DEF OrderedInv, Inv, Agreement, Summed
  <2> QED
    BY <2>1 DEF OrderedInv, RowsInv, AssembledRows
<1> QED
  BY <1>1, OrderedInvariance, PTL

\* On the same meshes the primary equation is integrated with complete rows of the
\* auxiliary variable.
THEOREM AuxiliaryCorrect == Spec /\ WorkIsOrdered => []AuxiliaryIsComplete
<1>1. OrderedInv => AuxiliaryIsComplete
  BY DEF OrderedInv, RowsInv, AssembledRows, AuxiliaryIsComplete
<1> QED
  BY <1>1, OrderedInvariance, PTL

\* On meshes without periodic sides, every term depends on nodes of cells for which
\* dRdX has entries.
THEOREM PatternCorrect == Spec => []EntriesInPattern
<1>1. Init => TermsOfRow
  BY DEF Init, TermsOfRow, Loops
<1>2. Inv /\ TermsOfRow /\ [Next]_vars => TermsOfRow'
  BY TermsOfRowStep DEF Inv
<1>3. Inv /\ TermsOfRow => EntriesInPattern
  BY EndsInPattern DEF Inv, TypeInv, CallOK, TermsOfRow, EntriesInPattern
<1> QED
  BY <1>1, <1>2, <1>3, Invariance, PTL DEF Spec

\* The operators that the code tags, with which a process has just added a term, are
\* of the degrees of its cells: a rebuild is skipped only when the objects are the
\* right ones.  On meshes of one degree the two that share a rebuild and are tagged
\* by nothing, the mapping basis and the exterior projection, are right as well, so
\* that no assertion on sizes fails.
THEOREM BasisCorrect == Spec => []BasisIsOfCells
<1>1. Init => BasisInv
  BY DEF Init, BasisInv, TagsAreRight, BuiltForTerm, Operators
<1>2. Inv /\ BasisInv /\ [Next]_vars => BasisInv'
  BY BasisStep DEF Inv
<1>3. Inv /\ BasisInv => BasisIsOfCells
  BY OneDegreeFits DEF Inv, BasisInv, BuiltForTerm, Fits, BasisIsOfCells, OneDegree
<1> QED
  BY <1>1, <1>2, <1>3, Invariance, PTL DEF Spec

\* On a face between cells of different degrees the neighbour's entropy variables are
\* always projected with an operator of another degree than the neighbour's, whatever
\* was integrated before: soln_basis_projection_oper_ext is built at poly_degree_int
\* and has no tag of its own.
ProjectionIsNeverOfNeighbor ==
  \A r \in Ranks : stage[r] = "cells" /\ at[r] > 1 /\ setting.form = "strong" =>
    LET c == mesh.tasks[r][at[r] - 1][1]
        t == mesh.tasks[r][at[r] - 1][2]
    IN  Joins(c, t) /\ mesh.degree[c] # mesh.degree[Neighbor(c, t)] =>
          operators[r].exterior_projection # mesh.degree[Neighbor(c, t)]

THEOREM ProjectionCorrect == Spec => []ProjectionIsNeverOfNeighbor
<1>1. Init => BasisInv
  BY DEF Init, BasisInv, TagsAreRight, BuiltForTerm, Operators
<1>2. Inv /\ BasisInv /\ [Next]_vars => BasisInv'
  BY BasisStep DEF Inv
<1>3. BasisInv => ProjectionIsNeverOfNeighbor
  BY DEF BasisInv, TagsAreRight, BuiltForTerm, Fits, ProjectionIsNeverOfNeighbor
<1> QED
  BY <1>1, <1>2, <1>3, Invariance, PTL DEF Spec

\* A face that rebuilds for a neighbour of another degree leaves the one mapping basis
\* at that degree, and the volume of the next cell of the interior degree, whose tag
\* has not changed, is integrated with it.
THEOREM MappingIsKept ==
  ASSUME NEW o \in OperatorsType(Nat), NEW p \in Nat, NEW q \in Nat \ {p},
         o.int_degree = p, o.ext_degree # q
  PROVE  VolumeOperators(FaceOperators(o, p, q), p).mapping # p
<1>1. FaceOperators(o, p, q).mapping = q /\ FaceOperators(o, p, q).int_degree = p
  BY DEF FaceOperators, Reinit, OperatorsType
<1> QED
  BY <1>1 DEF VolumeOperators

\* Until the call has returned to all, or the program has ended, some process can
\* go on: the exchanges are never waited for in a circle, provided that processes
\* that share cells agree on whether the sensor throws.
THEOREM NobodyIsStuckCorrect == Spec /\ SensorsAgree => []NobodyIsStuck
<1> DEFINE I == Inv /\ PostedInv /\ AbortedInv /\ SensorsAgree
<1>1. Init /\ SensorsAgree => I
  BY InitInv, PostedStarts
<1>2. I /\ [Next]_vars => I'
  <2> SUFFICES ASSUME I, [Next]_vars PROVE I'
    OBVIOUS
  <2>1. Inv'
    BY TypeStep, ControlStep, AgreementStep DEF Inv
  <2> QED
    BY <2>1, PostedStep, AbortedStep, StoppedStays DEF Inv
<1>3. I => NobodyIsStuck
  BY SomeoneCanGoOn
<1> QED
  BY <1>1, <1>2, <1>3, PTL DEF Spec

\* Every step brings the call nearer to its end: it lets some process do part of a
\* bounded amount of work and adds none to any other.
THEOREM CallDescends == Spec => [][Descends]_vars
<1>1. Inv /\ Inv' /\ [Next]_vars => [Descends]_vars
  BY StepDescends DEF Inv
<1> QED
  BY <1>1, Invariance, PTL DEF Spec
=============================================================================
