CONSTANTS
    Epoch <- MCEpoch
    Berlin <- MCBerlin
    TeamKeys <- MCTeamKeys
    Births <- MCBirths
    Transits <- MCTransits
    Affinity <- MCAffinity
    Clients <- MCClients
    Givens <- MCGivens
    Couples <- MCCouples
    Outages <- MCOutages
    MaxOutages = 1
    MaxAnswers = 2
SPECIFICATION Spec
INVARIANTS ErrorsTruthful OneInstant LedgersAgree TenGodsAgree PairMirrored EvidenceComplete MatchAccounted FusionHonest ProvisionalFlagged AppAgrees
CHECK_DEADLOCK FALSE
