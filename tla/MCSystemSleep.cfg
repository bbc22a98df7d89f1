CONSTANTS
    Sources = {autosleep_ws, dev}
    Readers = {Worker}
    MAX_IN_PROGRESS = 3
    CntModulus = 3
    Users = {u1}
    Worker = Worker
    Cooler = Cooler
    autosleep_ws = autosleep_ws
    MAX_RETRY = 1
    Nobody = Nobody
SPECIFICATION Spec
INVARIANTS EventsAbortSleep  CountReadersAreWoken AutosleepGoesOn NoSyncWhileFrozen
