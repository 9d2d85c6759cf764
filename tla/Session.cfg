SPECIFICATION FairSpec
CONSTANTS
    Scripts <- OneEdit
    MaxFailures = 1
INVARIANTS AcceptsTheLanguage ExecutesWhatIsWritten FreedExactlyOnce CursorInBounds
PROPERTY Terminates
