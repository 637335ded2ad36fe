CONSTANTS
    Workers = {w1, w2}
    MaxOverlap = 4
    Emails = {e1, e2}
    Codes = {c1}
    Secrets = {s1, s2}
    Unset = Unset
    MaxUid = 2
    MaxTokens = 1
    MaxLink = 2
    adblock = adblock
    Watchdogs = {wd1}
    Addons = {adblock}
    Devices = {d1}
    NullDevice = NULL
    NoDevice = NoDevice
    Mandatory <- MandatoryAddons
    MaxConfig = 4
    Boxes = {wd1}
    Things = {d1, d2}
    Names = {n1, n2}
    MaxVersion = 3
    Gadgets = {d1, d2}
    Settings = {mailPolicy}
    MailPolicy = mailPolicy
    Statuses = {0, 1}
    Normal = 1
    Homes = {wd1}
    Sensors = {d1, d2}
    MaxHour = 2
    MaxUploads = 2
    Entries = 2
SPECIFICATION CloudSpec
INVARIANTS
    CloudTypeOK AccountsSound AddonsSound StoresSound
PROPERTIES
    OneBox VersionsGrow NotedForward
SYMMETRY Alike
CHECK_DEADLOCK FALSE
