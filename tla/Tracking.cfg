SPECIFICATION Spec
CONSTANTS
    web = web
    job = job
    Resources <- Both
    Rolling = {web}
    Setups <- FourSetups
INVARIANTS
    SuccessConfirmed
    NoPhantomFailure
PROPERTIES
    WaitReturns
    WedgeRecovered
