SPECIFICATION FairSpec
CONSTANTS
    o1 = o1
    o2 = o2
    Keys = {k1, k2}
    Org = o1
    FirstKey = k1
    Containers = {c1}
    Licenses <- MCLicenses
    Lasting <- MCLasting
    None = None
PROPERTIES
    RevokedStaysOut
    LicenseServes
CHECK_DEADLOCK FALSE
