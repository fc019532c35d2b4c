SPECIFICATION VaultSpec
CONSTANTS
 Teams = {{"countries", "fx"}}
 UserNotes = {"country"}
 MaxRate = 2 MaxEdits = 1 MaxEvents = 2
INVARIANT ExportWhole
