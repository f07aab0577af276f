SPECIFICATION Spec
CONSTANTS
    p1 = p1
    proposal = proposal
    activation = activation
    signed = signed
    unsigned = unsigned
    floor = floor
    context = context
    NoConformance = NoConformance
    None = None
    Torn = Torn
    Processes = {p1}
    Proposals = {proposal}
    Activations = {activation}
    Bytes = {signed, unsigned}
    Verified = {signed}
    Conformances = {floor, context}
    MaxFaults = 2
    MaxCrashes = 1
INVARIANTS
    LoadedWasIssued
    LoadedIsComplete
    AllOrNothing
