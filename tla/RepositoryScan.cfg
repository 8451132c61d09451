SPECIFICATION Spec
CONSTANTS
    Locators <- MCLocators
    Names <- MCNames
    Files <- MCFiles
    NpmVersions <- MCNpmVersions
    GoVersions <- MCGoVersions
    GoInventories <- MCGoInventories
    DocumentCounts = {1, 2}
    Thresholds = {70, 71}
    AllowLists <- MCAllowLists
    VulnerabilityItems <- MCVulnerabilityItems
    LicenseItems <- MCLicenseItems
    ItemWeight <- MCItemWeight
    MaxWeight = 5
INVARIANTS
    ScanInv
    VulnerabilityVerdictExact
    LicenseVerdictExact
CHECK_DEADLOCK FALSE
