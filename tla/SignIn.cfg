SPECIFICATION Spec
CONSTANTS
    b1 = b1
    s1 = s1
    s2 = s2
    e1 = e1
    e2 = e2
    g1 = g1
    g2 = g2
    p1 = p1
    l1 = l1
    Browsers = {b1}
    Subjects = {s1, s2}
    Emails = {e1, e2}
    Googles = {g1, g2}
    Signups = {p1}
    Logins = {l1}
    MaxLogouts = 1
    MaxFaults = 1
SYMMETRY SignInSymmetry
INVARIANTS
    SignInTypeOK
    SignedInAsOneself
    NoSilentLink
    LinkRefusalIsTrue
    ReplacedIsRevoked
CHECK_DEADLOCK FALSE
