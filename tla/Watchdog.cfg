SPECIFICATION WatchdogSpec
CONSTANT Timeout = 2
INVARIANT OneExpiryPerStart
PROPERTY TimeoutOnlyAfterQuiet
