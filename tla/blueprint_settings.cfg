CONSTANTS
    TemplateFiles = {"Login", "common", "helpers"}
    KindOf <- MCKinds
    TemplateKeys = {"login", "smoke"}
    KeysOf <- MCKeys
    Sources <- MCSources
    FirstText <- MCFirst
    EditTexts = {"missing", "disallowed", "foreign", "unfit"}
    MaxFiles = 3
    Programs = {g1, g2}
    MaxConfigurations = 2
    MaxEdits = 0
    NoFact = NoFact
SPECIFICATION BlueprintSpec
INVARIANT SettingsRepeat
CHECK_DEADLOCK FALSE
