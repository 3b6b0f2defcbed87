CONSTANTS
    arm = arm
    x86 = x86
    cert = cert
    newer = newer
    NoVm = 0
    MaxVms = 2
    Arches = {"arm64", "x86_64"}
    Binaries = {arm, x86}
    ArchOf <- MCArchOf
    Machines = {"laptop"}
    Certs = {cert, newer}
    MaxScripts = 2
    Commands = {"provision", "enroll", "revoke"}
    MaxFaults = 1
SPECIFICATION Spec
INVARIANT RevokedStaysOut
CHECK_DEADLOCK FALSE
