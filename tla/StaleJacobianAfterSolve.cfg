\* the Jacobian served after a solve
SPECIFICATION ReducedSpec
CONSTANTS
  s1 = s1
  s2 = s2
  n1 = n1
  n2 = n2
  c1 = c1
  c2 = c2
  Solutions = {s1, s2}
  Nodes = {n1, n2}
  Controls = {c1, c2}
  Duals = {v1, v2}
  None = None
  Invalid <- MCInvalid
  MeshOf <- MCMeshOf
  CFLs <- MCCFLs
INVARIANTS
  ServedJacobian
