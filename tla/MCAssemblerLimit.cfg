SPECIFICATION AssemblerSpec
CHECK_DEADLOCK FALSE
CONSTANTS
    Absent = Absent
    Scripts <- MCScripts
INVARIANT ProgramsUpToTheAnnouncedSize
