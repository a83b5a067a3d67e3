SPECIFICATION Spec
CONSTANTS
  q1 = q1 q2 = q2 su = su ann = ann bob = bob eve = eve home = home second = second
  i1 = i1 i2 = i2 i3 = i3 t1 = t1 t2 = t2
  annAddress = annAddress bobAddress = bobAddress bobTyped = bobTyped sudo = sudo s1 = s1
  None = None
  Request <- TwoRequests
  User <- Users
  Workspace <- Workspaces
  Invitation <- Invitations
  Token <- Tokens
  Email <- Emails
  lower <- LowerCase
  Su = sudo
  Secret <- OneSecret
  Policy <- Policies3
  Given <- GivenSets
  AllowRegistration = TRUE
  RequireEmailVerification = TRUE
  StartUser <- Users0
  StartLink <- Links0
  StartReset <- Resets0
  StartInvitation <- Invitations0
  StartMember <- Members0
  StartWorkspace <- Workspaces0
  Kinds <- AllKinds
  MaxRequests = 2
  MaxFaults = 1
  MaxExpiries = 1
SYMMETRY Symmetry
PROPERTY TokenUsedOnce
CHECK_DEADLOCK FALSE
