-------------------------- MODULE MCConfigSession --------------------------
(* Two sections with one key in common; files with a section that comes    *)
(* again, a key before any section, and a section line without "]".        *)
EXTENDS ConfigSession

MCKeys == {<<"plugins", "a">>, <<"plugins", "b">>, <<"timings", "a">>}

Plugins == SectionLine("plugins")
Timings == SectionLine("timings")

FileOn == <<Plugins, Assignment("a", "on"), Assignment("b", "off"), Timings,
            Assignment("a", "on")>>
FileRepeated == <<Plugins, Assignment("a", "off"), Timings, Assignment("a", "off"), Plugins,
                  Assignment("a", "on")>>
FileBad == <<Assignment("a", "on"), Plugins, Assignment("a", "off"), Malformed,
             Assignment("a", "on")>>
FileEmpty == << >>

MCFiles == {FileOn, FileRepeated, FileBad, FileEmpty}
=============================================================================
