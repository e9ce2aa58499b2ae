SPECIFICATION FairSpec
CONSTANTS
    Parts = {"pool", "h2", "http1", "http3", "download"}
PROPERTIES CallersServed CancelReturns ConnLossReleases BodyCallReturns DownloadEnds
CHECK_DEADLOCK FALSE
