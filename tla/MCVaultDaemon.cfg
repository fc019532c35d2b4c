SPECIFICATION VaultSpec
CONSTANTS
 Teams = {{"countries", "fx"}, {"countries", "policy_rates"}}
 UserNotes = {"country"}
 MaxRate = 2 MaxEdits = 1 MaxEvents = 1
INVARIANT NotesKept
PROPERTY NotesCatchUp OverrideReturns
