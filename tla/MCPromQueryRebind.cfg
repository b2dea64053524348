CONSTANTS
    NotInt = NotInt
    None = None
    Now <- MCNow
    MinTs <- MCMinTs
    MaxTs <- MCMaxTs
    HourArgs <- SmallHours
    EpochArgs <- MCEpochArgs
    IncreaseValues = {1, 2}
    SampleValues = {0, 1, 2}
    MaxSamples = 3
    Name = Name
    Private = Private
    Public = Public
    Urls <- MCUrls
    Addrs <- MCAddrs
    PrivateAddrs <- MCPrivateAddrs
    DnsAnswers <- MCDnsAnswers
    RebindAnswers <- RebindToPublic
SPECIFICATION Spec
INVARIANTS
    ConnectionsPrivate
