\* Two requests, two callbacks and a courier with two parcels; every kind of fault.
CONSTANTS
    Actors = {a1, a2}
    Callbacks = {c1, c2}
    Parcels = {p1, p2}
    Faults = {"crash", "database", "courier"}
    MaxRestored = 1
    MaxUpdates = 2
    NoParcel = NoParcel
    Nobody = Nobody
SPECIFICATION Spec
SYMMETRY Everything
CHECK_DEADLOCK FALSE
INVARIANTS TypeOK ParcelIsHeld CommittedIsRecorded BookedIsShown
PROPERTIES RestockedOffCourier OneParcelPerOrder TerminalUnlessDecided
