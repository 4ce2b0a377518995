-------------------------- MODULE ResidualAssembly --------------------------
(***************************************************************************)
(* The assembly of the residual by several MPI processes                   *)
(* (DGBase::assemble_residual, once it does not return early).  Every      *)
(* process loops over the cells it owns and adds the volume term of each   *)
(* cell and the terms of the faces it decides are its own; a face term     *)
(* goes to both of its cells, one of which may belong to another process.  *)
(* Vectors are then exchanged between the processes that share cells.      *)
(*                                                                         *)
(* The optional steps before the loop are the discontinuity sensor of the  *)
(* artificial dissipation, which exchanges a vector, and the auxiliary     *)
(* equation of the strong form, which runs the same loop once before, with *)
(* an exchange of its own.  A cell whose mapping is inverted throws; the   *)
(* error is caught by the process that met it and summed over all of them. *)
(*                                                                         *)
(* A term is not a number but the pair of the cell that computed it and    *)
(* the volume or interface it is of, so that what a row of the residual    *)
(* holds can be compared with what it should hold.                         *)
(***************************************************************************)
EXTENDS CellOperators, Sequences

CONSTANTS
  Calls,        \* the partitioned meshes and the parameters considered
  Ranks,        \* the MPI processes, numbers
  MaxDegree     \* the degree the operators are first built for

Kinds == {"boundary", "conforming", "hanging", "periodic", "periodic hanging"}

Volume == 0

(***************************************************************************)
(* A mesh.  An interface joins two active cells a and b, of which a is the *)
(* coarser one where its kind is "hanging" or "periodic hanging"; a        *)
(* boundary face has a = b.  index[r][c] is the index of cell c in process *)
(* r's numbering, which another process need not share.  tasks[r] is       *)
(* process r's loop: for each of its cells <<c, Volume>>, then <<c, e>>    *)
(* for its interfaces e.                                                   *)
(***************************************************************************)
IsMesh(m) ==
  LET cells == DOMAIN m.rank
      faces == DOMAIN m.face
  IN  /\ m.dim \in 1 .. 3
      /\ m.rank \in [cells -> Ranks]
      /\ m.level \in [cells -> Nat]
      /\ m.index \in [Ranks -> [cells -> Nat]]
      /\ m.degree \in [cells -> 0 .. MaxDegree]
      /\ m.face \in [faces -> [kind: Kinds, a: cells, b: cells]]
      /\ \A e \in faces : m.face[e].kind = "boundary" => m.face[e].a = m.face[e].b
      /\ Volume \notin faces
      /\ m.distorted \subseteq cells
      /\ \A r \in Ranks :
           /\ m.tasks[r] \in Seq(cells \X ({Volume} \cup faces))
           /\ \A c \in cells, t \in {Volume} \cup faces :
                (\E i \in 1 .. Len(m.tasks[r]) : m.tasks[r][i] = <<c, t>>)
                  <=> /\ m.rank[c] = r
                      /\ t # Volume => c \in {m.face[t].a, m.face[t].b}
           /\ \A i \in 1 .. Len(m.tasks[r]) : m.tasks[r][i][2] # Volume =>
                i > 1 /\ m.tasks[r][i - 1][1] = m.tasks[r][i][1]

\* A mesh of which every interface is integrated by one of its cells.  The
\* exceptions are an interval with a refined cell and a hanging face across a
\* periodic boundary.
IsOrdered(m) ==
  \A e \in DOMAIN m.face :
    LET a == m.face[e].a
        b == m.face[e].b
        kind == m.face[e].kind
        index == m.index[m.rank[a]]
    IN  \/ kind = "boundary" /\ a = b
        \/ kind = "hanging" /\ m.dim > 1 /\ a # b
        \/ /\ kind \in {"conforming", "periodic"} /\ a # b
           /\ m.rank[a] = m.rank[b] =>
                index[a] # index[b] \/ m.level[a] # m.level[b]

ASSUME CallsAssumption ==
  /\ Ranks \subseteq Nat
  /\ MaxDegree \in Nat
  /\ \A call \in Calls :
       /\ IsMesh(call.mesh)
       /\ call.setting \in [form: {"weak", "strong"}, auxiliary: BOOLEAN,
                            dissipation: BOOLEAN]
       \* DGWeak::assemble_auxiliary_residual does nothing
       /\ call.setting.auxiliary => call.setting.form = "strong"

VARIABLES
  mesh,         \* the mesh of this call
  setting,      \* the parameters of this call
  stage,        \* stage[r]: where process r is
  loop,         \* loop[r]: the equation it loops for
  at,           \* at[r]: the position of its next term
  operators,    \* operators[r]: the operators its loop carries
  error,        \* error[r]: its assembly_error
  filled,       \* filled[r]: it has replaced its rows by ones
  local,        \* local[r][l][c]: what loop l of r has added to row c
  assembled,    \* assembled[r][l][c]: row c after the exchange, where r reads it
  posted        \* posted[r]: the exchanges r has sent its part of

vars == <<mesh, setting, stage, loop, at, operators, error, filled, local,
          assembled, posted>>

Loops == {"auxiliary", "primary"}
Stages == {"start", "sensor", "cells", "sum", "add", "ghosts", "returned",
           "aborted"}

Cells == DOMAIN mesh.rank
Interfaces == DOMAIN mesh.face
Ends(e) == {mesh.face[e].a, mesh.face[e].b}
Neighbor(c, e) == IF mesh.face[e].a = c THEN mesh.face[e].b ELSE mesh.face[e].a
Kind(e) == mesh.face[e].kind
IsCoarser(c, e) == Kind(e) \in {"hanging", "periodic hanging"}
                     /\ mesh.face[e].a = c

Owned(r) == {c \in Cells : mesh.rank[c] = r}
Ghosts(r) ==
  {c \in Cells \ Owned(r) : \E e \in Interfaces :
     c \in Ends(e) /\ Ends(e) \cap Owned(r) # {}}
Sharing(r) == {mesh.rank[c] : c \in Ghosts(r)}

\* Row c is made of the volume term and one term of every interface.
Terms(c) == {Volume} \cup {e \in Interfaces : c \in Ends(e)}

(***************************************************************************)
(* Which process, and which cell, computes the term of an interface.       *)
(***************************************************************************)
\* Fault: between processes the cell index decides.
WorksByIndex(c, n, n_has_children) ==
  LET index == mesh.index[mesh.rank[c]]
  IN  /\ ~n_has_children
      /\ \/ index[c] < index[n]
         \/ index[c] = index[n] /\ mesh.level[c] < mesh.level[n]

current_cell_should_do_the_work(c, n, n_has_children) ==
  LET index == mesh.index[mesh.rank[c]]
  IN  /\ ~n_has_children
      /\ IF mesh.rank[n] # mesh.rank[c] THEN mesh.rank[c] < mesh.rank[n]
         ELSE \/ index[c] < index[n]
              \/ index[c] = index[n] /\ mesh.level[c] < mesh.level[n]

\* The five cases of the face loop.  In one dimension no face has children,
\* and a finer neighbour shows as a neighbour that has some.
Integrates(c, e) ==
  \/ Kind(e) = "boundary"
  \/ /\ Kind(e) = "periodic"
     /\ current_cell_should_do_the_work(c, Neighbor(c, e), FALSE)
  \/ Kind(e) = "hanging" /\ mesh.dim > 1 /\ ~IsCoarser(c, e)
  \/ /\ Kind(e) = "conforming" \/ (Kind(e) = "hanging" /\ mesh.dim = 1)
     /\ current_cell_should_do_the_work(c, Neighbor(c, e), IsCoarser(c, e))

\* The rows a position of the loop adds to.
Rows(c, t) ==
  IF t = Volume THEN {c} ELSE IF Integrates(c, t) THEN Ends(t) ELSE {}

(***************************************************************************)
(* The exchanges.  A process waits for those it shares cells with, and in  *)
(* the sum for all.                                                        *)
(***************************************************************************)
Post(r, l, what) == posted' = [posted EXCEPT ![r] = @ \cup {<<l, what>>}]
Arrived(r, what) == \A n \in Sharing(r) : <<loop[r], what>> \in posted[n]
SumArrived == \A n \in Ranks : <<"primary", "sum">> \in posted[n]

Init ==
  /\ \E call \in Calls : mesh = call.mesh /\ setting = call.setting
  /\ stage = [r \in Ranks |-> "start"]
  /\ loop = [r \in Ranks |-> IF setting.auxiliary THEN "auxiliary" ELSE "primary"]
  /\ at = [r \in Ranks |-> 1]
  /\ operators = [r \in Ranks |-> Operators(MaxDegree)]
  /\ error = [r \in Ranks |-> FALSE]
  /\ filled = [r \in Ranks |-> FALSE]
  /\ local = [r \in Ranks |-> [l \in Loops |-> [c \in Cells |-> {}]]]
  /\ assembled = [r \in Ranks |-> [l \in Loops |-> [c \in Cells |-> {}]]]
  /\ posted = [r \in Ranks |-> {}]

\* Fault: the exception leaves assemble_residual.
Rethrow(r) ==
  /\ error' = [error EXCEPT ![r] = TRUE]
  /\ stage' = [stage EXCEPT ![r] = "returned"]
  /\ UNCHANGED <<mesh, setting, loop, at, operators, filled, local, assembled,
                 posted>>

\* What a caught exception does: the rest of the try block is skipped.
Catch(r) ==
  /\ error' = [error EXCEPT ![r] = TRUE]
  /\ stage' = [stage EXCEPT ![r] = "sum"]
  /\ loop' = [loop EXCEPT ![r] = "primary"]
  /\ Post(r, "primary", "sum")
  /\ UNCHANGED <<mesh, setting, at, operators, filled, local, assembled>>

(***************************************************************************)
(* update_artificial_dissipation_discontinuity_sensor, over owned cells    *)
(* and ghosts, of degree 1 at least; then the exchange of its result.      *)
(***************************************************************************)
SensorThrows(r) ==
  \E c \in Owned(r) \cup Ghosts(r) : c \in mesh.distorted /\ mesh.degree[c] > 0

UpdateSensor(r) ==
  /\ stage[r] = "start" /\ setting.dissipation
  /\ IF SensorThrows(r) THEN Catch(r)
     ELSE /\ stage' = [stage EXCEPT ![r] = "sensor"]
          /\ Post(r, loop[r], "sensor")
          /\ UNCHANGED <<mesh, setting, loop, at, operators, error, filled,
                         local, assembled>>

SensorUpdated(r) ==
  /\ stage[r] = "sensor" /\ Arrived(r, "sensor")
  /\ stage' = [stage EXCEPT ![r] = "cells"]
  /\ UNCHANGED <<mesh, setting, loop, at, operators, error, filled, local,
                 assembled, posted>>

NoSensor(r) ==
  /\ stage[r] = "start" /\ ~setting.dissipation
  /\ stage' = [stage EXCEPT ![r] = "cells"]
  /\ UNCHANGED <<mesh, setting, loop, at, operators, error, filled, local,
                 assembled, posted>>

(***************************************************************************)
(* assemble_cell_residual, one term at a time, in the weak or strong form. *)
(***************************************************************************)
OperatorsUsed(o, c, t) ==
  CASE setting.form = "weak" -> o
    [] setting.form = "strong" /\ t = Volume -> VolumeOperators(o, mesh.degree[c])
    [] setting.form = "strong" /\ t # Volume ->
         IF Kind(t) # "boundary" /\ Integrates(c, t)
         THEN FaceOperators(o, mesh.degree[c], mesh.degree[Neighbor(c, t)])
         ELSE o

(***************************************************************************)
(* The strong form multiplies matrices of the operators it is handed with  *)
(* vectors of the sizes that the cells' degrees have, which is right where *)
(* the operators were built for these degrees.  Term t of cell c is about  *)
(* to be added by loop l; the loop brings the operators o to it, and u are *)
(* those it goes on with.                                                  *)
(***************************************************************************)
Joins(c, t) == t # Volume /\ Kind(t) # "boundary" /\ Integrates(c, t)

\* The metrics of a cell's volume and, in the primary equation, of its
\* neighbour's.  Those of a face are taken before the rebuild, and in one
\* dimension at a point that no degree moves.
MappingFits(o, u, c, t, l) ==
  /\ t = Volume => u.mapping = mesh.degree[c]
  /\ t # Volume /\ Integrates(c, t) /\ mesh.dim > 1 => o.mapping = mesh.degree[c]
  /\ Joins(c, t) /\ l = "primary" => u.mapping = mesh.degree[Neighbor(c, t)]

\* The entropy variables of the neighbour are projected.
ProjectionFits(u, c, t, l) ==
  Joins(c, t) /\ l = "primary" =>
    u.exterior_projection = mesh.degree[Neighbor(c, t)]

\* Both traces are taken at the face points of the cell that does the work.
TracesFit(c, t) ==
  Joins(c, t) /\ mesh.dim > 1 => mesh.degree[c] = mesh.degree[Neighbor(c, t)]

AtTerm(r) ==
  stage[r] = "cells" /\ at[r] <= Len(mesh.tasks[r]) /\ setting.form = "strong"

MappingFitsNext(r) ==
  LET c == mesh.tasks[r][at[r]][1]
      t == mesh.tasks[r][at[r]][2]
      o == operators[r]
  IN  MappingFits(o, OperatorsUsed(o, c, t), c, t, loop[r])

ProjectionFitsNext(r) ==
  LET c == mesh.tasks[r][at[r]][1]
      t == mesh.tasks[r][at[r]][2]
  IN  ProjectionFits(OperatorsUsed(operators[r], c, t), c, t, loop[r])

TracesFitNext(r) == TracesFit(mesh.tasks[r][at[r]][1], mesh.tasks[r][at[r]][2])

\* matrix_vector_mult asserts the sizes it is given.  A build without assertions
\* goes on with whatever the vectors then hold, and the term is added.
SizesFit(r) == MappingFitsNext(r) /\ ProjectionFitsNext(r) /\ TracesFitNext(r)

AddTerm(r) ==
  /\ stage[r] = "cells" /\ at[r] <= Len(mesh.tasks[r])
  /\ LET c == mesh.tasks[r][at[r]][1]
         t == mesh.tasks[r][at[r]][2]
     IN  /\ ~(t = Volume /\ c \in mesh.distorted)
         /\ local' = [local EXCEPT ![r][loop[r]] =
                        [x \in Cells |->
                           IF x \in Rows(c, t) THEN @[x] \cup {<<c, t>>} ELSE @[x]]]
         /\ operators' = [operators EXCEPT ![r] = OperatorsUsed(@, c, t)]
  /\ at' = [at EXCEPT ![r] = @ + 1]
  /\ UNCHANGED <<mesh, setting, stage, loop, error, filled, assembled, posted>>

AtDistorted(r) ==
  /\ stage[r] = "cells" /\ at[r] <= Len(mesh.tasks[r])
  /\ mesh.tasks[r][at[r]][2] = Volume
  /\ mesh.tasks[r][at[r]][1] \in mesh.distorted

\* The weak form's cell values throw.
Throw(r) == AtDistorted(r) /\ setting.form = "weak" /\ Catch(r)

\* The strong form's metric terms abort the program, on every process, and so
\* does an assertion that fails.
Abort(r) ==
  /\ AtTerm(r)
  /\ AtDistorted(r) \/ ~SizesFit(r)
  /\ stage' = [n \in Ranks |-> "aborted"]
  /\ UNCHANGED <<mesh, setting, loop, at, operators, error, filled, local,
                 assembled, posted>>

FinishLoop(r) ==
  /\ stage[r] = "cells" /\ at[r] > Len(mesh.tasks[r])
  /\ LET next == IF loop[r] = "auxiliary" THEN "add" ELSE "sum"
     IN  stage' = [stage EXCEPT ![r] = next] /\ Post(r, loop[r], next)
  /\ UNCHANGED <<mesh, setting, loop, at, operators, error, filled, local,
                 assembled>>

(***************************************************************************)
(* The sum of the errors.  Where there is one, the rows are scaled to zero *)
(* and filled with ones: those a process owns.                             *)
(***************************************************************************)
Ones == <<0, 0>>

\* Fault: a process fills its rows for its own error only.
FillForOwnError(r) ==
  /\ stage[r] = "sum" /\ SumArrived
  /\ filled' = [filled EXCEPT ![r] = error[r]]
  /\ local' = IF filled'[r]
              THEN [local EXCEPT ![r]["primary"] =
                      [c \in Cells |-> IF c \in Owned(r) THEN {Ones} ELSE @[c]]]
              ELSE local
  /\ stage' = [stage EXCEPT ![r] = "add"]
  /\ Post(r, "primary", "add")
  /\ UNCHANGED <<mesh, setting, loop, at, operators, error, assembled>>

SumErrors(r) ==
  /\ stage[r] = "sum" /\ SumArrived
  /\ filled' = [filled EXCEPT ![r] = \E n \in Ranks : error[n]]
  /\ local' = IF filled'[r]
              THEN [local EXCEPT ![r]["primary"] =
                      [c \in Cells |-> IF c \in Owned(r) THEN {Ones} ELSE @[c]]]
              ELSE local
  /\ stage' = [stage EXCEPT ![r] = "add"]
  /\ Post(r, "primary", "add")
  /\ UNCHANGED <<mesh, setting, loop, at, operators, error, assembled>>

(***************************************************************************)
(* compress(add): the owner of a row adds what the others have for it;     *)
(* then update_ghost_values: the others read it.                           *)
(***************************************************************************)
Add(r) ==
  /\ stage[r] = "add" /\ Arrived(r, "add")
  /\ assembled' = [assembled EXCEPT ![r][loop[r]] =
       [c \in Cells |->
          IF c \in Owned(r)
          THEN local[r][loop[r]][c]
                 \cup UNION {local[n][loop[r]][c] : n \in Sharing(r)}
          ELSE {}]]
  /\ stage' = [stage EXCEPT ![r] = "ghosts"]
  /\ Post(r, loop[r], "ghosts")
  /\ UNCHANGED <<mesh, setting, loop, at, operators, error, filled, local>>

\* Fault: the ghost rows are not read again from their owners.
GhostsNotUpdated(r) ==
  /\ stage[r] = "ghosts" /\ Arrived(r, "ghosts")
  /\ IF loop[r] = "auxiliary"
     THEN /\ loop' = [loop EXCEPT ![r] = "primary"]
          /\ at' = [at EXCEPT ![r] = 1]
          /\ operators' = [operators EXCEPT ![r] = Operators(MaxDegree)]
          /\ stage' = [stage EXCEPT ![r] = "cells"]
     ELSE stage' = [stage EXCEPT ![r] = "returned"] /\ UNCHANGED <<loop, at, operators>>
  /\ UNCHANGED <<mesh, setting, error, filled, local, assembled, posted>>

UpdateGhosts(r) ==
  /\ stage[r] = "ghosts" /\ Arrived(r, "ghosts")
  /\ assembled' = [assembled EXCEPT ![r][loop[r]] =
       [c \in Cells |-> IF c \in Ghosts(r)
                        THEN assembled[mesh.rank[c]][loop[r]][c] ELSE @[c]]]
  /\ IF loop[r] = "auxiliary"
     THEN /\ loop' = [loop EXCEPT ![r] = "primary"]
          /\ at' = [at EXCEPT ![r] = 1]
          /\ operators' = [operators EXCEPT ![r] = Operators(MaxDegree)]
          /\ stage' = [stage EXCEPT ![r] = "cells"]
     ELSE stage' = [stage EXCEPT ![r] = "returned"] /\ UNCHANGED <<loop, at, operators>>
  /\ UNCHANGED <<mesh, setting, error, filled, local, posted>>

Step(r) ==
  \/ UpdateSensor(r) \/ SensorUpdated(r) \/ NoSensor(r)
  \/ AddTerm(r) \/ Throw(r) \/ Abort(r) \/ FinishLoop(r)
  \/ SumErrors(r) \/ Add(r) \/ UpdateGhosts(r)

Next == \E r \in Ranks : Step(r)

Spec == Init /\ [][Next]_vars

\* MPI lets every process that can proceed do so.
FairSpec == Spec /\ \A r \in Ranks : WF_vars(Step(r))

(***************************************************************************)
(* get_dRdX_sparsity_pattern: the cells whose nodes row c depends on.      *)
(***************************************************************************)
\* Fault: the cells across a face that has children are forgotten.
PatternWithoutFiner(c) ==
  {c} \cup {Neighbor(c, e) : e \in
             {e \in Interfaces : /\ c \in Ends(e)
                                /\ \/ Kind(e) = "conforming"
                                   \/ Kind(e) = "hanging" /\ ~IsCoarser(c, e)}}

dRdX_sparsity_pattern(c) ==
  {c} \cup {Neighbor(c, e) : e \in
             {e \in Interfaces : /\ c \in Ends(e)
                                /\ Kind(e) \in {"conforming", "hanging"}}}

-----------------------------------------------------------------------------
(* Properties.                                                             *)

Tag == (Cells \cup {0}) \X ({Volume} \cup Interfaces)

\* The values of the variables.
TypeOK ==
  /\ stage \in [Ranks -> Stages]
  /\ loop \in [Ranks -> Loops]
  /\ at \in [Ranks -> Nat]
  /\ \A r \in Ranks : at[r] \in 1..(Len(mesh.tasks[r]) + 1)
  /\ operators \in [Ranks -> OperatorsType(0..MaxDegree)]
  /\ error \in [Ranks -> BOOLEAN]
  /\ filled \in [Ranks -> BOOLEAN]
  /\ local \in [Ranks -> [Loops -> [Cells -> SUBSET Tag]]]
  /\ assembled \in [Ranks -> [Loops -> [Cells -> SUBSET Tag]]]
  /\ posted \in [Ranks -> SUBSET (Loops \X Stages)]

\* A row that holds its volume term and the term of each of its interfaces,
\* each computed by one cell, and nothing else.
Complete(row, c) ==
  /\ \A t \in Terms(c) : \E w \in Cells : {p \in row : p[2] = t} = {<<w, t>>}
  /\ \A p \in row : p[2] \in Terms(c)

Reads(r) == Owned(r) \cup Ghosts(r)

\* A process to which assemble_residual has returned reads, in the rows of its
\* cells and of its ghosts, every term exactly once: no interface between
\* processes, levels or periodic sides is integrated twice or by nobody.
ExactlyOnce ==
  \A r \in Ranks : stage[r] = "returned" /\ ~filled[r] =>
    \A c \in Reads(r) : Complete(assembled[r]["primary"][c], c)

\* The loop of the primary equation runs with the auxiliary variable of
\* complete rows, those of the ghosts included.
AuxiliaryIsComplete ==
  \A r \in Ranks : stage[r] = "cells" /\ loop[r] = "primary" /\ setting.auxiliary =>
    \A c \in Reads(r) : Complete(assembled[r]["auxiliary"][c], c)

\* The processes agree on what assemble_residual has returned: if one of them
\* met an inverted cell, none goes on with a residual.
RanksAgree ==
  \A r \in Ranks : stage[r] = "returned" =>
    filled[r] = \E n \in Ranks : error[n]

\* The solution, flux, stiffness and interior projection operators with which a
\* process has just added a term are of the degree of its cell, and the solution
\* and flux operators on the other side of the face of its neighbour's, whatever
\* was integrated before with other degrees.  Where all cells have one degree, so
\* is everything else that the next term uses, the mapping basis and the exterior
\* projection too.
BasisIsOfCells ==
  /\ \A r \in Ranks : stage[r] = "cells" /\ at[r] > 1 /\ setting.form = "strong" =>
       LET c == mesh.tasks[r][at[r] - 1][1]
           t == mesh.tasks[r][at[r] - 1][2]
       IN  /\ operators[r].interior = mesh.degree[c]
           /\ t # Volume /\ Kind(t) # "boundary" /\ Integrates(c, t) =>
                operators[r].exterior = mesh.degree[Neighbor(c, t)]
  /\ (\A c, d \in Cells : mesh.degree[c] = mesh.degree[d]) =>
       \A r \in Ranks : AtTerm(r) => SizesFit(r)

\* "We only need to compute the most recent mapping basis since we compute interior
\* before looping faces" (reinit_operators_for_cell_residual_loop): every metric is
\* taken with the mapping basis of the degree of the cell it is taken of.
MappingIsOfCells == \A r \in Ranks : AtTerm(r) => MappingFitsNext(r)

\* The neighbour's entropy variables are projected with the operator of the
\* neighbour's degree, whose sizes matrix_vector_mult asserts.
ProjectionIsOfNeighbor == \A r \in Ranks : AtTerm(r) => ProjectionFitsNext(r)

\* On meshes without periodic sides, the derivatives of every term with respect
\* to the nodes of its cells have their entries in the pattern of dRdX.
EntriesInPattern ==
  (\A e \in Interfaces : Kind(e) \in {"boundary", "conforming", "hanging"}) =>
    \A r \in Ranks, c \in Cells : \A p \in local[r]["primary"][c] :
      p \in Cells \X Interfaces => Ends(p[2]) \subseteq dRdX_sparsity_pattern(c)

Finished(r) == stage[r] \in {"returned", "aborted"}

\* What process r waits for has happened, or it waits for nothing.
CanGoOn(r) ==
  /\ ~Finished(r)
  /\ stage[r] \in {"sensor", "add", "ghosts"} => Arrived(r, stage[r])
  /\ stage[r] = "sum" => SumArrived

\* Processes never wait for one another in a circle, nor for one that has left:
\* until the call has returned to all of them some process can go on.
NobodyIsStuck ==
  (\A r \in Ranks : Finished(r)) \/ \E r \in Ranks : CanGoOn(r)

\* The call returns to every process, or the program ends.
AllReturn ==
  <>(\A r \in Ranks : Finished(r))
=============================================================================
