------------------------ MODULE MCResidualAssembly ------------------------
(***************************************************************************)
(* Small meshes for ResidualAssembly, on three processes.                  *)
(***************************************************************************)
EXTENDS ResidualAssembly, SequencesExt, FiniteSetsExt

MCRanks == 0..2

Face(kind, a, b) == [kind |-> kind, a |-> a, b |-> b]

\* Cells are numbered in the order of the loop; "index" is a process's own
\* numbering of them and "level" their refinement level.
TasksOf(rank, face, r) ==
  FoldSeq(LAMBDA c, tasks :
            tasks \o <<<<c, Volume>>>>
              \o [i \in 1..Cardinality({e \in DOMAIN face : c \in {face[e].a, face[e].b}}) |->
                    <<c, SetToSortSeq({e \in DOMAIN face :
                           c \in {face[e].a, face[e].b}}, <)[i]>>],
          << >>,
          SelectSeq(Reverse([c \in 1..Len(rank) |-> c]), LAMBDA c : rank[c] = r))

MeshOf(dim, rank, level, index, degree, face, distorted) ==
  [dim |-> dim, rank |-> rank, level |-> level, index |-> index,
   degree |-> degree, face |-> face, distorted |-> distorted,
   tasks |-> [r \in MCRanks |-> TasksOf(rank, face, r)]]

\* A coarse cell beside two fine ones, and a fine one after them.
Hanging(rank, distorted) ==
  MeshOf(2, rank, <<0, 1, 1, 1>>,
         [r \in MCRanks |-> IF r = 1 THEN <<0, 2, 1, 0>> ELSE <<0, 0, 1, 2>>],
         <<2, 1, 2, 1>>,
         <<Face("hanging", 1, 2), Face("hanging", 1, 3),
           Face("conforming", 2, 3), Face("conforming", 4, 3),
           Face("boundary", 1, 1)>>, distorted)

\* Cells in a row that closes on itself.
Periodic(rank, degree) ==
  MeshOf(2, rank, <<0, 0, 0>>,
         [r \in MCRanks |-> IF r = 2 THEN <<2, 1, 0>> ELSE <<0, 1, 2>>], degree,
         <<Face("conforming", 1, 2), Face("conforming", 2, 3),
           Face("periodic", 3, 1)>>, {})

\* An interval of four cells; the last process owns none.
Interval(distorted) ==
  MeshOf(1, <<0, 0, 1, 1>>, <<0, 0, 0, 0>>,
         [r \in MCRanks |-> <<0, 1, 2, 3>>], <<1, 1, 1, 0>>,
         <<Face("boundary", 1, 1), Face("conforming", 1, 2),
           Face("conforming", 2, 3), Face("conforming", 3, 4),
           Face("boundary", 4, 4)>>, distorted)

\* Two processes that alternate along an interval, and so may the degrees.
Alternating(degree) ==
  MeshOf(1, <<0, 1, 0, 1>>, <<0, 0, 0, 0>>,
         [r \in MCRanks |-> <<0, 1, 2, 3>>], degree,
         <<Face("boundary", 1, 1), Face("conforming", 1, 2),
           Face("conforming", 2, 3), Face("conforming", 3, 4),
           Face("boundary", 4, 4)>>, {})

\* An interval of three cells of which the second has been refined: the
\* children take the first two indices of their level.
Refined ==
  MeshOf(1, <<0, 0, 0, 0>>, <<0, 0, 1, 1>>,
         [r \in MCRanks |-> <<0, 2, 0, 1>>], <<1, 1, 1, 1>>,
         <<Face("boundary", 1, 1), Face("hanging", 1, 3),
           Face("conforming", 3, 4), Face("hanging", 2, 4),
           Face("boundary", 2, 2)>>, {})

MCMeshes == {Hanging(<<0, 1, 2, 1>>, {}), Hanging(<<1, 1, 0, 2>>, {}),
             Hanging(<<0, 1, 2, 1>>, {4}), Periodic(<<2, 0, 1>>, <<1, 2, 1>>),
             Periodic(<<0, 0, 1>>, <<2, 2, 2>>), Interval({}), Interval({2}),
             Interval({4}), Alternating(<<1, 2, 1, 2>>),
             Alternating(<<1, 1, 1, 1>>)}

ASSUME MeshesAreOrdered == \A m \in MCMeshes : IsOrdered(m)

Setting(form, auxiliary, dissipation) ==
  [form |-> form, auxiliary |-> auxiliary, dissipation |-> dissipation]

MCSettings == {Setting("weak", FALSE, FALSE), Setting("weak", FALSE, TRUE),
               Setting("strong", FALSE, FALSE), Setting("strong", TRUE, FALSE)}

AllCalls == [mesh: MCMeshes, setting: MCSettings]

\* With dissipation, the meshes of which every process that exchanges sees the
\* inverted cell, or none does.
MCCalls ==
  {call \in AllCalls : call.setting.dissipation => call.mesh # Interval({4})
     /\ call.mesh.distorted \subseteq {2}}

RefinedIntervalCalls == [mesh: {Refined}, setting: MCSettings]

\* The process of the cells of degree 2 integrates their faces.
DegreesCalls(auxiliary) ==
  [mesh: {Alternating(<<2, 1, 2, 1>>)}, setting: {Setting("strong", auxiliary, FALSE)}]

NeighborMappingCalls == DegreesCalls(TRUE)

InteriorProjectionCalls == DegreesCalls(FALSE)

DissipationCalls ==
  [mesh: {Hanging(<<0, 1, 2, 1>>, {}), Interval({2}), Interval({1})},
   setting: {Setting("weak", FALSE, TRUE)}]
=============================================================================
