CONSTANTS
    b1 = b1  b2 = b2  b3 = b3  q1 = q1  q2 = q2  d1 = d1  d2 = d2
    None = None
    Binding = {b1, b2, b3}
    Severity = {"LOW", "HIGH"}
    Request = {q1, q2}
    Seeder = {d1, d2}
SPECIFICATION Spec
SYMMETRY Symm
INVARIANTS OneActive
PROPERTIES SeedRespectsAdmins InForceSpec
