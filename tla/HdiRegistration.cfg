\* Two incarnations of the device manager and of the host after the first
\* start, two registrations that fail for no reason.
SPECIFICATION Spec
CONSTANTS
    HasFanConfig = TRUE
    MaxManager = 2
    MaxHost = 2
    MaxFails = 2
CHECK_DEADLOCK FALSE
INVARIANTS
    ReportsComeBack
    CrashNeedsRetry
PROPERTIES
    ReportsResume
