CONSTANTS
    Positions = {1, 2}
    Plain = {"offset", "velocity", "keepAlive"}
    Values = {1, 2}
    Unread = Unread
    MaxEvents = 2
SPECIFICATION MCSpec
INVARIANTS
    SettingsInv
    ReportCurrent
PROPERTIES
    SettingsSurvive
