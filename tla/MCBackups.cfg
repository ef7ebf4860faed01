CONSTANTS
    s1 = s1
    a1 = a1
    x1 = x1
    h1 = h1
    h2 = h2
    Schedulers = {s1}
    Admins = {a1}
    Strays = {x1}
    HostOf <- Apart
    Nobody = Nobody
    SlotTicks = 2
    Stale = 1
    Lease = 1
    UploadStale = 0
    Keep = 1
    MaxClock = 1
    MaxJobs = 3
    MaxRequests = 1
    MaxFaults = 1
SPECIFICATION Spec
INVARIANTS BackupsTypeOK ExclusiveBackups SentNotRemoved OneDumpPerSlot CompletedSlotHasBackup UnsentStaysOnDisk RestorableKept
PROPERTY PruneKeepsNewer
