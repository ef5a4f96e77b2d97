SPECIFICATION FairSpec
CONSTANTS
    Devices <- TwoDevices
    Gestures <- Pads
    Times <- OneTime
    MaxEvents = 4
    Initial = 2
    Sizes <- SmallSizes
    Word = 16
    GrowthFails = TRUE
INVARIANTS TypeOK DevicesOutliveTheirEvents
PROPERTIES RingIsFifo EveryEventIsTaken
