SPECIFICATION Spec
CONSTANTS
    ann = ann  bob = bob
    e1 = e1  m1 = m1  m2 = m2
    None = None
    Accounts = {ann, bob}
    Emails = {e1}
    Owner <- MCOwner
    Mutations = {m1, m2}
    MaxSignIns = 2
    MaxFetches = 3
SYMMETRY MutationSymmetry
INVARIANTS
    TypeOK
    ShownIsStored
    NoForeignMail
CHECK_DEADLOCK FALSE
