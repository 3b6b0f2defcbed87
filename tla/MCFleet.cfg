CONSTANTS
    arm = arm
    x86 = x86
    cert = cert
    newer = newer
    NoVm = 0
    MaxVms = 2
    Arches = {"arm64", "x86_64"}
    Binaries = {arm, x86}
    ArchOf <- MCArchOf
    Machines = {"laptop"}
    Certs = {cert, newer}
    MaxScripts = 2
    Commands = {"provision", "provision_drive", "provision_sealer", "deploy", "enroll", "revoke", "stop"}
    MaxFaults = 1
SPECIFICATION Spec
INVARIANTS
    TypeOK
    OneVm
    LaunchedComplete
    EnabledMeansComplete
    AcksHold
CONSTRAINT SecondIsBare
CHECK_DEADLOCK FALSE
