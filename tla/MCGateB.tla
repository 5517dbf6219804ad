------------------------------- MODULE MCGateB -------------------------------
(* Five materials: one, and others that differ from it in one part each. *)
EXTENDS GateB

CONSTANTS c1, c2

Parts(manifest, workspace, artifact, approver) ==
  [manifest |-> manifest, workspace |-> workspace, artifact |-> artifact,
   approver |-> approver]

MCMaterial ==
  {Parts("x", "w", "a", "h"), Parts("x", "v", "a", "h"), Parts("x", "w", "b", "h"),
   Parts("y", "w", "a", "h"), Parts("z", "w", "a", "g")}

ManifestOf(m) == m.manifest
WorkspaceOf(m) == m.workspace
ArtifactOf(m) == m.artifact
ApproverOf(m) == m.approver

\* x and y are manifests of one graph, z is of another.
GraphOf(m) == IF m.manifest = "z" THEN 2 ELSE 1
=============================================================================
