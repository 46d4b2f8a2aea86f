CONSTANTS
  CheckEvery = 2
  RefreshEvery = 7
  MapTime = 2
  LeaseTime = 13
SPECIFICATION Spec
INVARIANTS TypeOK AdvertisedIsMapped OffIsObeyed OnIsObeyed LossIsNoticed
