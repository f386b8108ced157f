\* The job page, the form, the wizard, the catalog and the list pages, one at a time, under fairness.
SPECIFICATION WebSpec
CONSTANTS
  Jobs = {j1, j2}
  MaxJobLoads = 1
  NoJob = NoJob
  Width = 2
  Groups = {g1}
  MaxEdits = 3
  Templates = {t1}
  Basic = basic
  NoTemplate = NoTemplate
  MaxPreviews = 2
  Items = {i1, i2}
  MaxAsks = 3
  NoItem = NoItem
  Members = {m1, m2}
  MaxVersion = 2
  MaxListLoads = 2
  NoMember = NoMember
INVARIANTS
  WebTypeOK
  ApplyOfferIsSound
  ValidatorsAgree
  AcceptedNetworksNest
  CreatesWhatWasReviewed
  CreateIsAccepted
  PreflightAnswersTheQuestion
PROPERTIES
  EndIsAnnounced
  ApplyingEnds
  OverviewNeverStepsBack
  ResetEndsItsOwnForm
  ReviewSettles
