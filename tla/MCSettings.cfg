\* Two administrators, two edits and one device confirmed.
SPECIFICATION SettingsSpec
CONSTANTS
    Admins = {"anna", "bert"}
    RangedSections = {"backups"}
    Tags = {"roof"}
    MaxEdits = 2
    MaxConfirms = 1
PROPERTIES UntouchedStays
CHECK_DEADLOCK FALSE
