CONSTANTS
    w1 = w1  w2 = w2  e1 = e1  e2 = e2  e3 = e3  s1 = s1  k1 = k1  k2 = k2
    None = None
    NoKey = NoKey
    f1 = f1  f2 = f2
    NoEncryption = NoEncryption
    FieldKey = {f1, f2}
    Worker = {w1, w2}
    Admin = {}
    Event = {e1, e2, e3}
    System = {s1}
    Domain = {}
    NoDomain = NoDomain
    Status = {"ESCALATE_FOR_REVIEW"}
    Reviewable = {"ESCALATE_FOR_REVIEW"}
    SystemOf <- MCSystemOf
    Key = {k1, k2}
    KeyOf <- MCKeyOf
    MaxSeq = 3
SPECIFICATION Spec
SYMMETRY Symm
INVARIANTS VerifierAccepts ChangesLocated EncryptionNeverMisleads
