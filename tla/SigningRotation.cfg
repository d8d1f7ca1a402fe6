\* get_certificate: is the certificate in a signature the signer's?
CONSTANTS
    c1 = c1
    p1 = p1
    p2 = p2
    Cert = {c1, c2}
    Path = {p1, p2}
    PathOf <- MCPathOf
    Expiration <- MCExpiration
    Local = Local
    Admin = {a1}
    Signer = {s1}
    NoCert = NoCert
    MaxTime = 1
    MaxReplaced = 1
SPECIFICATION SigningSpec
CHECK_DEADLOCK FALSE
INVARIANT
    SignatureMatches
