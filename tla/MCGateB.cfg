SPECIFICATION FairSpec
CONSTANTS
  c1 = c1
  c2 = c2
  Command = {c1, c2}
  None = None
  Material <- MCMaterial
  Manifest <- ManifestOf
  Workspace <- WorkspaceOf
  Artifact <- ArtifactOf
  Approver <- ApproverOf
  Graph <- GraphOf
  MaxFaults = 2
  MaxLater = 1
INVARIANT AdmittedAsApproved
PROPERTY AdmissionStays
PROPERTY EventuallyAdmitted
CHECK_DEADLOCK FALSE
