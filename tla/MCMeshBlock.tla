----------------------------- MODULE MCMeshBlock -----------------------------
\* Small instances of MeshBlock for TLC.
EXTENDS MeshBlock

MCContracts == {1, 2}
MCValidators == {"v1", "v2"}
OneValidator == {"v1"}
NoEdits == {{}}
SomeEdits == {{}, {"v1"}}
=============================================================================
