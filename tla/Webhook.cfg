CONSTANTS
    Epoch <- MCEpoch
    Berlin <- MCBerlin
    TeamKeys <- MCTeamKeys
    Births <- MCBirths
    Transits <- MCTransits
    Affinity <- MCAffinity
    Clients <- MCClients
    Givens <- MCGivens
    Couples <- MCCouples
    Outages <- MCOutages
    MaxOutages = 1
    MaxAnswers = 1
SPECIFICATION WebhookSpec
INVARIANT WebhookAnswers
CHECK_DEADLOCK FALSE
