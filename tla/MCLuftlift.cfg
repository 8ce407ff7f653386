SPECIFICATION Spec
CONSTANTS
    Conns = {c1, c2}
    Apples = {mac}
    Senders = {phone}
    Names = {"a"}
    Payloads <- MCPayloads
    MaxActive = 2
    MaxSuffix = 1
    NoPeer = NoPeer
    MaxAsks = 2
    MaxUploads = 2
    Addrs = {a1, a2}
    Others = {mac}
    Self = self
    Elsewhere = {p1}
    Label = label
    None = None
    MaxSessions = 4
    MaxChanges = 2
    MaxFaults = 1
INVARIANTS AckedIsSaved RowsAreVouchedFor
PROPERTIES KeepsConsent RequestsEnd NoOldAddress Reappears
CHECK_DEADLOCK FALSE
