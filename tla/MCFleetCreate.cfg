CONSTANTS
    arm = arm
    x86 = x86
    cert = cert
    newer = newer
    NoVm = 0
    MaxVms = 2
    Arches = {"arm64", "x86_64"}
    Binaries = {arm, x86}
    ArchOf <- MCArchOf
    Machines = {"laptop"}
    Certs = {cert, newer}
    MaxScripts = 2
    Commands = {"provision"}
    MaxFaults = 0
SPECIFICATION Spec
INVARIANT VmJsonTrue
CHECK_DEADLOCK FALSE
