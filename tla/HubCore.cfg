SPECIFICATION CoreSpec
CONSTANTS
    s1 = s1
    s2 = s2
    v1 = v1
    v2 = v2
    m1 = m1
    None = None
    Sessions <- TwoSessions
    Addresses <- ThreeAddresses
    Sources <- TwoSources
INVARIANT HotJournaled
PROPERTIES SourcesGuarded ImplementsFence
