\* The options of the database connection.
SPECIFICATION StartSpec
CONSTANTS
    Files <- MCFiles
    OptionSets <- MCOptionSets
    Unreadable = Unreadable
    None = None
INVARIANT
    OptionsReachTheDatabase
