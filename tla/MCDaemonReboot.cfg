CONSTANTS
    UpgradeReqs = {u1, u2}
    RebootReqs  = {b1}
    NoReq       = NoReq
    Workers     = 2
    Settings   <- BusySetting
SPECIFICATION Spec
PROPERTY NoRebootUnderUpgrade
