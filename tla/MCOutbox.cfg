CONSTANTS
    Keys = {k1}
    MaxCommits = 2
    MaxJobs = 2
    MaxLate = 1
    MaxAttempts = 2
SPECIFICATION Spec
INVARIANTS OutboxTypeOK PendingIsDrained HiddenWhileApplying OneInFlight UndoSticks
PROPERTIES NewestStampWins UndoFinishes JobsArePromised
